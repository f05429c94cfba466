---------------------------- MODULE DatagramStream ----------------------------
(***************************************************************************)
(* What Flush of statsd/client.go promises to its caller: the lines of a   *)
(* batch that are not empty leave as a stream of datagrams, each of them   *)
(* the next few lines in order, joined by newlines; several lines share a  *)
(* datagram only if they fit, and in the end no line is left behind.       *)
(***************************************************************************)
EXTENDS Naturals, Sequences, FiniteSets

CONSTANTS MaxPacketBytes, Batches

VARIABLES lines, wire

vars == <<lines, wire>>

Sent == UNION {{wire[k].ids[n] : n \in DOMAIN wire[k].ids} : k \in DOMAIN wire}

Pending == {i \in DOMAIN lines : lines[i] # 0} \ Sent

\* How many bytes the first i lines of the batch have, those in S alone.
BytesUpTo(S) ==
  LET sum[i \in 0 .. Len(lines)] ==
        IF i = 0 THEN 0 ELSE sum[i - 1] + (IF i \in S THEN lines[i] ELSE 0)
  IN  sum

\* A newline between every two lines.
JoinedBytes(S) == BytesUpTo(S)[Len(lines)] + Cardinality(S) - 1

Fits(S) == JoinedBytes(S) <= MaxPacketBytes \/ Cardinality(S) = 1

InOrder(S) ==
  {ids \in [1 .. Cardinality(S) -> S] : \A m, n \in DOMAIN ids : m < n => ids[m] < ids[n]}

Init == lines \in Batches /\ wire = <<>>

\* The pending lines up to some position leave together.
Emit ==
  \E last \in Pending :
    LET due == {i \in Pending : i <= last}
    IN  /\ Fits(due)
        /\ \E ids \in InOrder(due) :
             wire' = Append(wire, [ids |-> ids, bytes |-> JoinedBytes(due)])
        /\ UNCHANGED lines

Safety == Init /\ [][Emit]_vars

Spec == Safety /\ WF_vars(Emit)

=============================================================================
