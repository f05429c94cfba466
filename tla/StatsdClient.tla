---------------------------- MODULE StatsdClient ----------------------------
(***************************************************************************)
(* The batching DogStatsD client of statsd/client.go.  One behaviour is    *)
(* one call of Flush: the loop walks over the batch, joins lines with a    *)
(* newline into buf, and writes buf as one UDP datagram when the next line *)
(* would make it longer than maxPacketBytes.                               *)
(*                                                                         *)
(* A line is abstracted to its length in bytes; the empty string, which    *)
(* Flush skips, is the length 0.  A payload keeps the positions of the     *)
(* lines it holds, in the order they were joined, and its length.          *)
(***************************************************************************)
EXTENDS Naturals, Sequences

CONSTANTS
  MaxPacketBytes,  \* maxPacketBytes, 1300 in the code
  Batches          \* the batches Flush may be called with

ASSUME ClientAssumption ==
  /\ MaxPacketBytes \in Nat \ {0}
  /\ \A batch \in Batches : batch \in Seq(Nat)

VARIABLES
  lines,    \* the argument of Flush: the length of each line
  next,     \* position of the line the loop looks at
  buf,      \* the payload being built
  wire,     \* the datagrams written to the socket, oldest first
  flushed   \* Flush has returned

vars == <<lines, next, buf, wire, flushed>>

-----------------------------------------------------------------------------
NoPayload == [ids |-> <<>>, bytes |-> 0]

Alone(i) == [ids |-> <<i>>, bytes |-> lines[i]]

\* Faulty: the newline is not counted.
JoinedWithoutNewline(i) == [ids |-> Append(buf.ids, i), bytes |-> buf.bytes + lines[i]]

Joined(i) == [ids |-> Append(buf.ids, i), bytes |-> buf.bytes + 1 + lines[i]]

\* The candidate of the loop body: the line, or buf, a newline and the line.
Candidate(i) == IF buf.bytes = 0 THEN Alone(i) ELSE Joined(i)

\* Faulty: the newline is not compared; a full packet counts as too long.
OversizeWithoutNewline(i) == buf.bytes + lines[i] > MaxPacketBytes /\ buf.bytes # 0
OversizeWhenFull(i) == Candidate(i).bytes >= MaxPacketBytes /\ buf.bytes # 0

Oversize(i) == Candidate(i).bytes > MaxPacketBytes /\ buf.bytes # 0

\* send: an empty payload is not written; the result of Write is ignored, so
\* the caller goes on in the same way whether or not the datagram got out.
Send(payload) ==
  wire' = IF payload.bytes = 0 THEN wire ELSE Append(wire, payload)

-----------------------------------------------------------------------------
Init ==
  /\ lines \in Batches
  /\ next = 1
  /\ buf = NoPayload
  /\ wire = <<>>
  /\ flushed = FALSE

AtLine == ~flushed /\ next <= Len(lines)

\* Faulty: the line after an empty one is skipped as well.
SkipTwo ==
  /\ AtLine
  /\ lines[next] = 0
  /\ next' = next + 2
  /\ UNCHANGED <<lines, buf, wire, flushed>>

SkipEmpty ==
  /\ AtLine
  /\ lines[next] = 0
  /\ next' = next + 1
  /\ UNCHANGED <<lines, buf, wire, flushed>>

\* The line still fits, or there is nothing to send before it.
Join ==
  /\ AtLine
  /\ lines[next] # 0
  /\ ~Oversize(next)
  /\ buf' = Candidate(next)
  /\ next' = next + 1
  /\ UNCHANGED <<lines, wire, flushed>>

\* Faulty: the line that does not fit is dropped; the buffer is not emptied.
CutDropsLine ==
  /\ AtLine
  /\ lines[next] # 0
  /\ Oversize(next)
  /\ Send(buf)
  /\ buf' = NoPayload
  /\ next' = next + 1
  /\ UNCHANGED <<lines, flushed>>

CutKeepsBuffer ==
  /\ AtLine
  /\ lines[next] # 0
  /\ Oversize(next)
  /\ Send(buf)
  /\ buf' = Candidate(next)
  /\ next' = next + 1
  /\ UNCHANGED <<lines, flushed>>

\* The line does not fit: the payload goes out and the line starts a new one.
Cut ==
  /\ AtLine
  /\ lines[next] # 0
  /\ Oversize(next)
  /\ Send(buf)
  /\ buf' = Alone(next)
  /\ next' = next + 1
  /\ UNCHANGED <<lines, flushed>>

\* After the loop, and at once for an empty batch.
SendRest ==
  /\ ~flushed
  /\ next > Len(lines)
  /\ Send(buf)
  /\ buf' = NoPayload
  /\ flushed' = TRUE
  /\ UNCHANGED <<lines, next>>

FlushStep == SkipEmpty \/ Join \/ Cut \/ SendRest

Returned == flushed /\ UNCHANGED vars

Next == FlushStep \/ Returned

Spec == Init /\ [][Next]_vars /\ WF_vars(FlushStep)

-----------------------------------------------------------------------------
Payload == [ids : Seq(Nat), bytes : Nat]

TypeOK ==
  /\ lines \in Seq(Nat)
  /\ next \in 1 .. Len(lines) + 1
  /\ buf \in Payload
  /\ wire \in Seq(Payload)
  /\ flushed \in BOOLEAN

(***************************************************************************)
(* Whatever is batched with another line fits: only a line that is too     *)
(* long by itself makes a datagram longer than maxPacketBytes              *)
(* (client.go:71-76).                                                      *)
(***************************************************************************)
SharedPayloadsFit ==
  \A k \in DOMAIN wire : Len(wire[k].ids) > 1 => wire[k].bytes <= MaxPacketBytes

(***************************************************************************)
(* Every line the loop has passed is in a datagram or in the buffer, and   *)
(* after the return, when the buffer is gone, every line of the batch is   *)
(* in a datagram: no cut, no skip of an empty line and no final send loses *)
(* one (client.go:63-80).                                                  *)
(***************************************************************************)
Carried(i) ==
  \/ \E n \in DOMAIN buf.ids : buf.ids[n] = i
  \/ \E k \in DOMAIN wire : \E n \in DOMAIN wire[k].ids : wire[k].ids[n] = i

Passed == IF flushed THEN DOMAIN lines ELSE 1 .. next - 1

NothingLost == \A i \in Passed : lines[i] # 0 => Carried(i)

(***************************************************************************)
(* Lines leave in the order they were collected and at most once: within   *)
(* a payload positions increase, and a datagram holds only positions       *)
(* before those of the datagrams after it and of the buffer.               *)
(***************************************************************************)
Increasing(ids) == \A m, n \in DOMAIN ids : m < n => ids[m] < ids[n]

AllBefore(ids, later) ==
  \A m \in DOMAIN ids : \A n \in DOMAIN later : ids[m] < later[n]

OrderedOnce ==
  /\ Increasing(buf.ids)
  /\ \A k \in DOMAIN wire :
       /\ Increasing(wire[k].ids)
       /\ AllBefore(wire[k].ids, buf.ids)
       /\ \A l \in DOMAIN wire : k < l => AllBefore(wire[k].ids, wire[l].ids)

(***************************************************************************)
(* A cut is made only where it must be: the first line of a datagram did   *)
(* not fit into the datagram before it (client.go:56-57).                  *)
(***************************************************************************)
CutOnlyWhenFull ==
  \A k \in DOMAIN wire : k + 1 \in DOMAIN wire =>
    wire[k].bytes + 1 + lines[wire[k + 1].ids[1]] > MaxPacketBytes

(***************************************************************************)
(* The claim of CHANGELOG.md, "MTU-safe 1300-byte packet splitting".       *)
(***************************************************************************)
EveryDatagramFits ==
  \A k \in DOMAIN wire : wire[k].bytes <= MaxPacketBytes

=============================================================================
