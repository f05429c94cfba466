------------------------- MODULE StatsdClient_proofs -------------------------
(***************************************************************************)
(* Proofs about Flush (StatsdClient), for every packet size and every set  *)
(* of batches.                                                             *)
(***************************************************************************)
EXTENDS StatsdClient, FiniteSetTheorems, WellFoundedInduction, TLAPS

\* What appending one element does to a sequence.
LEMMA Appended ==
  ASSUME NEW S, NEW s \in Seq(S), NEW e \in S
  PROVE  /\ Append(s, e) \in Seq(S)
         /\ Len(Append(s, e)) = Len(s) + 1
         /\ DOMAIN Append(s, e) = 1 .. Len(s) + 1
         /\ DOMAIN s = 1 .. Len(s)
         /\ \A i \in 1 .. Len(s) : Append(s, e)[i] = s[i]
         /\ Append(s, e)[Len(s) + 1] = e
OBVIOUS

\* Send writes the payload behind the datagrams already written, or nothing.
LEMMA SendKeepsType ==
  ASSUME wire \in Seq(Payload), NEW p \in Payload, Send(p)
  PROVE  wire' \in Seq(Payload)
<1>1. CASE p.bytes = 0
  BY <1>1 DEF Send
<1>2. CASE p.bytes # 0
  <2>1. wire' = Append(wire, p)
    BY <1>2 DEF Send
  <2> QED
    BY <2>1, Appended
<1> QED
  BY <1>1, <1>2

\* The payloads the loop body builds from a well-formed state.
LEMMA CandidateType ==
  ASSUME TypeOK, AtLine
  PROVE  /\ next \in 1 .. Len(lines)
         /\ lines[next] \in Nat
         /\ Alone(next) \in Payload
         /\ Joined(next) \in Payload
         /\ Candidate(next) \in Payload
<1>1. next \in 1 .. Len(lines) /\ lines[next] \in Nat
  BY DEF TypeOK, AtLine
<1>2. buf.ids \in Seq(Nat) /\ buf.bytes \in Nat
  BY DEF TypeOK, Payload
<1>3. <<next>> \in Seq(Nat) /\ Append(buf.ids, next) \in Seq(Nat)
  BY <1>1, <1>2, Appended
<1>4. Alone(next) \in Payload /\ Joined(next) \in Payload
  BY <1>1, <1>2, <1>3 DEF Alone, Joined, Payload
<1> QED
  BY <1>1, <1>4 DEF Candidate

LEMMA TypeInit == Init => TypeOK
<1> SUFFICES ASSUME Init PROVE TypeOK
  OBVIOUS
<1>1. lines \in Seq(Nat) /\ next \in 1 .. Len(lines) + 1
  BY ClientAssumption DEF Init, ClientAssumption
<1>2. buf \in Payload
  BY DEF Init, NoPayload, Payload
<1>3. wire \in Seq(Payload)
  BY DEF Init
<1>4. flushed \in BOOLEAN
  BY DEF Init
<1> QED
  BY <1>1, <1>2, <1>3, <1>4 DEF TypeOK

\* Each step of the loop and the return keep the state well formed.
LEMMA TypeStep == TypeOK /\ [Next]_vars => TypeOK'
<1> SUFFICES ASSUME TypeOK, [Next]_vars PROVE TypeOK'
  OBVIOUS
<1>1. CASE SkipEmpty
  BY <1>1 DEF SkipEmpty, AtLine, TypeOK
<1>2. CASE Join
  <2>1. buf' \in Payload /\ next \in 1 .. Len(lines)
    BY <1>2, CandidateType DEF Join
  <2> QED
    BY <1>2, <2>1 DEF Join, TypeOK
<1>3. CASE Cut
  <2>1. buf' \in Payload /\ next \in 1 .. Len(lines)
    BY <1>3, CandidateType DEF Cut
  <2>2. wire' \in Seq(Payload)
    BY <1>3, SendKeepsType DEF Cut, TypeOK
  <2> QED
    BY <1>3, <2>1, <2>2 DEF Cut, TypeOK
<1>4. CASE SendRest
  <2>1. wire' \in Seq(Payload)
    BY <1>4, SendKeepsType DEF SendRest, TypeOK
  <2>2. buf' \in Payload
    BY <1>4 DEF SendRest, NoPayload, Payload
  <2> QED
    BY <1>4, <2>1, <2>2 DEF SendRest, TypeOK
<1>5. CASE UNCHANGED vars
  BY <1>5 DEF vars, TypeOK
<1> QED
  BY <1>1, <1>2, <1>3, <1>4, <1>5 DEF Next, FlushStep, Returned

(***************************************************************************)
(* The state of Flush is well formed in every reachable state              *)
(* (client.go:58-81).                                                      *)
(***************************************************************************)
THEOREM TypeCorrect == Spec => []TypeOK
BY TypeInit, TypeStep, PTL DEF Spec

-----------------------------------------------------------------------------
\* Where a payload that is written ends up.
LEMMA Written ==
  ASSUME TypeOK, NEW p \in Payload, Send(p), p.bytes # 0
  PROVE  /\ DOMAIN wire = 1 .. Len(wire)
         /\ Len(wire) \in Nat
         /\ Len(wire') = Len(wire) + 1
         /\ DOMAIN wire' = 1 .. Len(wire) + 1
         /\ \A k \in 1 .. Len(wire) : wire'[k] = wire[k]
         /\ wire'[Len(wire) + 1] = p
<1>1. wire \in Seq(Payload) /\ wire' = Append(wire, p)
  BY DEF TypeOK, Send
<1> QED
  BY <1>1, Appended

LEMMA NotWritten ==
  ASSUME NEW p, Send(p), p.bytes = 0
  PROVE  wire' = wire
BY DEF Send

\* Positions in a payload after one more line has been joined to it.
LEMMA JoinedIds ==
  ASSUME TypeOK, AtLine
  PROVE  /\ buf.ids \in Seq(Nat)
         /\ DOMAIN buf.ids = 1 .. Len(buf.ids)
         /\ Len(buf.ids) \in Nat
         /\ Alone(next).ids = <<next>>
         /\ Alone(next).bytes = lines[next]
         /\ Joined(next).bytes = buf.bytes + 1 + lines[next]
         /\ Len(Joined(next).ids) = Len(buf.ids) + 1
         /\ DOMAIN Joined(next).ids = 1 .. Len(buf.ids) + 1
         /\ \A n \in 1 .. Len(buf.ids) : Joined(next).ids[n] = buf.ids[n]
         /\ Joined(next).ids[Len(buf.ids) + 1] = next
<1>1. buf.ids \in Seq(Nat) /\ next \in Nat
  BY DEF TypeOK, Payload
<1>2. Joined(next).ids = Append(buf.ids, next)
  BY DEF Joined
<1> QED
  BY <1>1, <1>2, Appended DEF Alone, Joined

-----------------------------------------------------------------------------
(***************************************************************************)
(* The buffer is empty exactly when it holds no line, and a buffer of      *)
(* several lines fits.  Both are needed to show that what is sent fits.    *)
(***************************************************************************)
BufferFits ==
  /\ (buf.bytes = 0) <=> (buf.ids = <<>>)
  /\ Len(buf.ids) > 1 => buf.bytes <= MaxPacketBytes

FitInv == BufferFits /\ SharedPayloadsFit

\* A buffer that starts with one line satisfies it, however long the line is.
LEMMA FreshBuffer ==
  ASSUME lines[next] # 0, buf' = Alone(next)
  PROVE  BufferFits'
<1>1. buf'.ids = <<next>> /\ buf'.bytes = lines[next]
  BY DEF Alone
<1>2. Len(buf'.ids) = 1 /\ buf'.ids # <<>>
  BY <1>1
<1> QED
  BY <1>1, <1>2 DEF BufferFits

LEMMA FitInvInit == Init => FitInv
BY DEF Init, NoPayload, FitInv, BufferFits, SharedPayloadsFit

LEMMA FitInvStep == TypeOK /\ FitInv /\ [Next]_vars => FitInv'
<1> SUFFICES ASSUME TypeOK, FitInv, [Next]_vars PROVE FitInv'
  OBVIOUS
<1>0. MaxPacketBytes \in Nat /\ buf \in Payload /\ buf.bytes \in Nat
  BY ClientAssumption DEF ClientAssumption, TypeOK, Payload
<1>1. CASE SkipEmpty
  BY <1>1 DEF SkipEmpty, FitInv, BufferFits, SharedPayloadsFit
<1>2. CASE Join
  <2>1. lines[next] \in Nat /\ lines[next] # 0
    BY <1>2, CandidateType DEF Join
  <2>2. CASE buf.bytes = 0
    <3>1. buf' = Alone(next)
      BY <1>2, <2>2 DEF Join, Candidate
    <3> QED
      BY <1>2, <2>1, <3>1, FreshBuffer DEF Join, FitInv, SharedPayloadsFit
  <2>3. CASE buf.bytes # 0
    <3>1. buf' = Joined(next) /\ Joined(next).bytes <= MaxPacketBytes
      BY <1>0, <1>2, <2>1, <2>3, JoinedIds DEF Join, Candidate, Oversize
    <3>2. Joined(next).bytes # 0 /\ Joined(next).ids # <<>>
      BY <1>0, <1>2, <2>1, JoinedIds DEF Join
    <3> QED
      BY <1>2, <3>1, <3>2 DEF Join, FitInv, BufferFits, SharedPayloadsFit
  <2> QED
    BY <2>2, <2>3
<1>3. CASE Cut
  <2>1. lines[next] \in Nat /\ lines[next] # 0 /\ buf.bytes # 0
    BY <1>3, CandidateType DEF Cut, Oversize
  <2>3. BufferFits'
    BY <1>3, <2>1, FreshBuffer DEF Cut
  <2>4. SharedPayloadsFit'
    BY <1>0, <1>3, <2>1, Written DEF Cut, FitInv, BufferFits, SharedPayloadsFit
  <2> QED
    BY <2>3, <2>4 DEF FitInv
<1>4. CASE SendRest
  <2>1. BufferFits'
    BY <1>4 DEF SendRest, NoPayload, BufferFits
  <2>2. SharedPayloadsFit'
    <3>1. CASE buf.bytes = 0
      BY <1>4, <3>1, NotWritten DEF SendRest, FitInv, SharedPayloadsFit
    <3>2. CASE buf.bytes # 0
      BY <1>0, <1>4, <3>2, Written DEF SendRest, FitInv, BufferFits, SharedPayloadsFit
    <3> QED
      BY <3>1, <3>2
  <2> QED
    BY <2>1, <2>2 DEF FitInv
<1>5. CASE UNCHANGED vars
  BY <1>5 DEF vars, FitInv, BufferFits, SharedPayloadsFit
<1> QED
  BY <1>1, <1>2, <1>3, <1>4, <1>5 DEF Next, FlushStep, Returned

(***************************************************************************)
(* A datagram of several lines is never longer than maxPacketBytes         *)
(* (client.go:71-76), whatever the lines are.                              *)
(***************************************************************************)
THEOREM SharedFit == Spec => []SharedPayloadsFit
<1>1. Spec => []FitInv
  BY TypeCorrect, FitInvInit, FitInvStep, PTL DEF Spec
<1>2. FitInv => SharedPayloadsFit
  BY DEF FitInv
<1> QED
  BY <1>1, <1>2, PTL

-----------------------------------------------------------------------------
(***************************************************************************)
(* The order of lines is inductive only together with the fact that every  *)
(* position handed over lies before the one the loop looks at.             *)
(***************************************************************************)
HandedBefore(ids) == \A n \in DOMAIN ids : ids[n] # 0 /\ ids[n] < next

OrderInv ==
  /\ HandedBefore(buf.ids)
  /\ \A k \in DOMAIN wire : HandedBefore(wire[k].ids)
  /\ OrderedOnce

\* The elements of sequences of positions are numbers.
LEMMA Positions ==
  ASSUME TypeOK
  PROVE  /\ next \in Nat
         /\ \A n \in DOMAIN buf.ids : buf.ids[n] \in Nat
         /\ \A k \in DOMAIN wire : \A n \in DOMAIN wire[k].ids : wire[k].ids[n] \in Nat
<1>1. next \in Nat /\ buf.ids \in Seq(Nat)
  BY DEF TypeOK, Payload
<1>2. ASSUME NEW k \in DOMAIN wire, NEW n \in DOMAIN wire[k].ids
      PROVE  wire[k].ids[n] \in Nat
  <2>1. wire[k] \in Payload
    BY DEF TypeOK
  <2>2. wire[k].ids \in Seq(Nat)
    BY <2>1 DEF Payload
  <2> QED
    BY <2>2
<1> QED
  BY <1>1, <1>2

\* Joining a line behind smaller positions keeps a payload in order.
LEMMA AppendOrdered ==
  ASSUME NEW ids \in Seq(Nat), NEW i \in Nat,
         \A n \in DOMAIN ids : ids[n] < i, Increasing(ids)
  PROVE  /\ Increasing(Append(ids, i))
         /\ \A n \in DOMAIN Append(ids, i) : Append(ids, i)[n] < i + 1
         /\ \A n \in DOMAIN Append(ids, i) :
              \/ n \in DOMAIN ids /\ Append(ids, i)[n] = ids[n]
              \/ Append(ids, i)[n] = i
<1> DEFINE L == Len(ids)
           app == Append(ids, i)
<1>1. /\ L \in Nat /\ DOMAIN ids = 1 .. L /\ DOMAIN app = 1 .. L + 1
      /\ \A n \in 1 .. L : app[n] = ids[n]
      /\ app[L + 1] = i
      /\ \A n \in 1 .. L : ids[n] \in Nat
  BY Appended
<1> HIDE DEF L, app
<1>2. \A n \in 1 .. L + 1 : n \in 1 .. L \/ n = L + 1
  BY <1>1
<1>3. \A n \in DOMAIN app : (n \in DOMAIN ids /\ app[n] = ids[n]) \/ app[n] = i
  BY <1>1, <1>2
<1>4. \A n \in DOMAIN app : app[n] < i + 1
  BY <1>1, <1>3
<1>5. \A m, n \in DOMAIN app : m < n => app[m] < app[n]
  <2> SUFFICES ASSUME NEW m \in 1 .. L + 1, NEW n \in 1 .. L + 1, m < n
               PROVE  app[m] < app[n]
    BY <1>1
  <2>1. m \in 1 .. L /\ app[m] = ids[m]
    BY <1>1, <1>2
  <2>2. CASE n = L + 1
    BY <1>1, <2>1, <2>2
  <2>3. CASE n \in 1 .. L
    BY <1>1, <2>1, <2>3 DEF Increasing
  <2> QED
    BY <1>2, <2>2, <2>3
<1> QED
  BY <1>3, <1>4, <1>5 DEF Increasing, app

LEMMA OrderInvInit == Init => OrderInv
BY DEF Init, NoPayload, OrderInv, HandedBefore, OrderedOnce, Increasing, AllBefore

\* Starting a buffer with the next line keeps the order.
LEMMA AloneOrdered ==
  ASSUME TypeOK, OrderInv, AtLine, next' = next + 1, buf' = Alone(next)
  PROVE  /\ HandedBefore(buf.ids)'
         /\ Increasing(buf'.ids)
         /\ \A k \in DOMAIN wire : AllBefore(wire[k].ids, buf'.ids)
         /\ AllBefore(buf.ids, buf'.ids)
<1>1. buf'.ids = <<next>> /\ next \in Nat /\ next # 0
  BY DEF Alone, TypeOK
<1>2. DOMAIN buf'.ids = {1} /\ buf'.ids[1] = next
  BY <1>1
<1>3. HandedBefore(buf.ids)'
  BY <1>1, <1>2 DEF HandedBefore
<1> QED
  BY <1>1, <1>2, <1>3 DEF OrderInv, HandedBefore, Increasing, AllBefore

LEMMA OrderInvJoin == TypeOK /\ OrderInv /\ FitInv /\ Join => OrderInv'
<1> SUFFICES ASSUME TypeOK, OrderInv, FitInv, Join PROVE OrderInv'
  OBVIOUS
<1>1. /\ AtLine /\ next' = next + 1 /\ wire' = wire
      /\ next \in Nat
  BY DEF Join, TypeOK
<1>2. \A k \in DOMAIN wire : \A n \in DOMAIN wire[k].ids : wire[k].ids[n] \in Nat
  BY Positions
<1>3. (\A k \in DOMAIN wire : HandedBefore(wire[k].ids))'
  BY <1>1, <1>2 DEF OrderInv, HandedBefore
<1>4. CASE buf.bytes = 0
  <2>1. buf' = Alone(next)
    BY <1>4 DEF Join, Candidate
  <2> QED
    BY <1>1, <1>3, <2>1, AloneOrdered DEF OrderInv, OrderedOnce
<1>5. CASE buf.bytes # 0
  <2>1. buf'.ids = Append(buf.ids, next)
    BY <1>5 DEF Join, Candidate, Joined
  <2>2. buf.ids \in Seq(Nat) /\ Increasing(buf.ids) /\ \A n \in DOMAIN buf.ids : buf.ids[n] < next
    BY DEF OrderInv, OrderedOnce, HandedBefore, TypeOK, Payload
  <2>3. HandedBefore(buf.ids)'
    <3>1. /\ \A n \in DOMAIN buf'.ids : buf'.ids[n] < next + 1
          /\ \A n \in DOMAIN buf'.ids : (n \in DOMAIN buf.ids /\ buf'.ids[n] = buf.ids[n]) \/ buf'.ids[n] = next
      BY <1>1, <2>1, <2>2, AppendOrdered
    <3>2. next # 0 /\ \A n \in DOMAIN buf.ids : buf.ids[n] # 0
      BY DEF TypeOK, OrderInv, HandedBefore
    <3> QED
      BY <1>1, <3>1, <3>2 DEF HandedBefore
  <2>4. Increasing(buf'.ids)
    BY <1>1, <2>1, <2>2, AppendOrdered
  <2>5. ASSUME NEW k \in DOMAIN wire PROVE AllBefore(wire[k].ids, buf'.ids)
    <3>1. \A m \in DOMAIN wire[k].ids : wire[k].ids[m] < next
      BY DEF OrderInv, HandedBefore
    <3>2. AllBefore(wire[k].ids, buf.ids)
      BY DEF OrderInv, OrderedOnce
    <3> QED
      BY <1>1, <2>1, <2>2, <3>1, <3>2, AppendOrdered DEF AllBefore
  <2> QED
    BY <1>1, <1>3, <2>3, <2>4, <2>5 DEF OrderInv, OrderedOnce
<1> QED
  BY <1>4, <1>5

LEMMA OrderInvCut == TypeOK /\ OrderInv /\ Cut => OrderInv'
<1> SUFFICES ASSUME TypeOK, OrderInv, Cut PROVE OrderInv'
  OBVIOUS
<1>1. /\ AtLine /\ next' = next + 1 /\ buf' = Alone(next)
      /\ Send(buf) /\ buf.bytes # 0 /\ buf \in Payload
      /\ next \in Nat
  BY DEF Cut, Oversize, TypeOK
<1>2. \A k \in DOMAIN wire : \A n \in DOMAIN wire[k].ids : wire[k].ids[n] \in Nat
  BY Positions
<1>3. \A n \in DOMAIN buf.ids : buf.ids[n] \in Nat
  BY Positions
<1>4. \A k \in DOMAIN wire' : k \in DOMAIN wire \/ k = Len(wire) + 1
  BY <1>1, Written
<1>5. /\ \A k \in DOMAIN wire : k < Len(wire) + 1 /\ wire'[k] = wire[k]
      /\ wire'[Len(wire) + 1] = buf
  BY <1>1, Written
<1>6. (\A k \in DOMAIN wire : HandedBefore(wire[k].ids))'
  BY <1>1, <1>2, <1>3, <1>4, <1>5 DEF OrderInv, HandedBefore
<1>7. \A k \in DOMAIN wire' : Increasing(wire'[k].ids) /\ AllBefore(wire'[k].ids, buf'.ids)
  BY <1>1, <1>4, <1>5, AloneOrdered DEF OrderInv, OrderedOnce
<1>8. \A k, l \in DOMAIN wire' : k < l => AllBefore(wire'[k].ids, wire'[l].ids)
  BY <1>4, <1>5, Written, <1>1 DEF OrderInv, OrderedOnce
<1> QED
  BY <1>1, <1>6, <1>7, <1>8, AloneOrdered DEF OrderInv, OrderedOnce

LEMMA OrderInvSendRest == TypeOK /\ OrderInv /\ SendRest => OrderInv'
<1> SUFFICES ASSUME TypeOK, OrderInv, SendRest PROVE OrderInv'
  OBVIOUS
<1>1. Send(buf) /\ buf \in Payload /\ next' = next /\ buf'.ids = <<>>
  BY DEF SendRest, NoPayload, TypeOK
<1>2. CASE buf.bytes = 0
  BY <1>1, <1>2, NotWritten
     DEF OrderInv, HandedBefore, OrderedOnce, Increasing, AllBefore
<1>3. CASE buf.bytes # 0
  <2>1. \A k \in DOMAIN wire' : k \in DOMAIN wire \/ k = Len(wire) + 1
    BY <1>1, <1>3, Written
  <2>2. /\ \A k \in DOMAIN wire : k < Len(wire) + 1 /\ wire'[k] = wire[k]
        /\ wire'[Len(wire) + 1] = buf
    BY <1>1, <1>3, Written
  <2>3. \A k, l \in DOMAIN wire' : k < l => AllBefore(wire'[k].ids, wire'[l].ids)
    BY <1>1, <1>3, <2>1, <2>2, Written DEF OrderInv, OrderedOnce
  <2> QED
    BY <1>1, <2>1, <2>2, <2>3
       DEF OrderInv, HandedBefore, OrderedOnce, Increasing, AllBefore
<1> QED
  BY <1>2, <1>3

LEMMA OrderInvStep == TypeOK /\ FitInv /\ OrderInv /\ [Next]_vars => OrderInv'
<1> SUFFICES ASSUME TypeOK, FitInv, OrderInv, [Next]_vars PROVE OrderInv'
  OBVIOUS
<1>1. CASE SkipEmpty
  <2>1. next' = next + 1 /\ buf' = buf /\ wire' = wire
    BY <1>1 DEF SkipEmpty
  <2> QED
    BY <2>1, Positions DEF OrderInv, HandedBefore, OrderedOnce
<1>2. CASE UNCHANGED vars
  BY <1>2 DEF vars, OrderInv, HandedBefore, OrderedOnce
<1> QED
  BY <1>1, <1>2, OrderInvJoin, OrderInvCut, OrderInvSendRest
     DEF Next, FlushStep, Returned

(***************************************************************************)
(* Lines leave in the order they were collected and at most once           *)
(* (client.go:63-80), for every batch and every packet size.               *)
(***************************************************************************)
THEOREM Ordered == Spec => []OrderedOnce
<1>1. OrderInv => OrderedOnce
  BY DEF OrderInv
<1> QED
  BY <1>1, OrderInvStep, TypeCorrect, FitInvInit, FitInvStep, OrderInvInit, PTL DEF Spec

-----------------------------------------------------------------------------
LEMMA LossInit == Init => NothingLost
BY DEF Init, NothingLost, Passed

\* What the buffer or the wire carried before a step is carried after it.
LEMMA CarriedJoin ==
  ASSUME TypeOK, FitInv, Join
  PROVE  /\ \A i \in Nat : Carried(i) => Carried(i)'
         /\ \A i \in Nat : i = next => Carried(i)'
<1>1. wire' = wire /\ AtLine
  BY DEF Join
<1>2. CASE buf.bytes = 0
  <2>1. buf'.ids = <<next>> /\ buf.ids = <<>>
    BY <1>2 DEF Join, Candidate, Alone, FitInv, BufferFits
  <2>2. 1 \in DOMAIN buf'.ids /\ buf'.ids[1] = next /\ DOMAIN buf.ids = {}
    BY <2>1
  <2> QED
    BY <1>1, <2>2 DEF Carried
<1>3. CASE buf.bytes # 0
  <2>1. buf'.ids = Joined(next).ids
    BY <1>3 DEF Join, Candidate
  <2> DEFINE L == Len(buf.ids)
  <2>2. /\ L \in Nat /\ DOMAIN buf.ids = 1 .. L /\ DOMAIN buf'.ids = 1 .. L + 1
        /\ \A n \in 1 .. L : buf'.ids[n] = buf.ids[n]
        /\ buf'.ids[L + 1] = next
    BY <1>1, <2>1, JoinedIds
  <2> HIDE DEF L
  <2>3. 1 .. L \subseteq 1 .. L + 1 /\ L + 1 \in 1 .. L + 1
    BY <2>2
  <2>4. \A n \in DOMAIN buf.ids : n \in DOMAIN buf'.ids /\ buf'.ids[n] = buf.ids[n]
    BY <2>2, <2>3
  <2>5. \E n \in DOMAIN buf'.ids : buf'.ids[n] = next
    BY <2>2, <2>3
  <2> QED
    BY <1>1, <2>4, <2>5 DEF Carried
<1> QED
  BY <1>2, <1>3

\* A payload that is written carries on the wire what it carried as a buffer.
LEMMA CarriedSend ==
  ASSUME TypeOK, FitInv, Send(buf)
  PROVE  \A i \in Nat : Carried(i) => Carried(i)'
<1>1. buf \in Payload
  BY DEF TypeOK
<1>2. CASE buf.bytes = 0
  <2>1. buf.ids = <<>> /\ wire' = wire
    BY <1>2, NotWritten DEF FitInv, BufferFits
  <2>2. DOMAIN buf.ids = {}
    BY <2>1
  <2> QED
    BY <2>1, <2>2 DEF Carried
<1>3. CASE buf.bytes # 0
  <2>1. /\ \A k \in DOMAIN wire : k \in DOMAIN wire' /\ wire'[k] = wire[k]
        /\ Len(wire) + 1 \in DOMAIN wire' /\ wire'[Len(wire) + 1] = buf
    BY <1>1, <1>3, Written
  <2> QED
    BY <2>1 DEF Carried
<1> QED
  BY <1>2, <1>3

\* A line that is passed is in the buffer or goes out with it.
LEMMA LossStep == TypeOK /\ FitInv /\ NothingLost /\ [Next]_vars => NothingLost'
<1> SUFFICES ASSUME TypeOK, FitInv, NothingLost, [Next]_vars PROVE NothingLost'
  OBVIOUS
<1>0. next \in Nat /\ Len(lines) \in Nat /\ DOMAIN lines = 1 .. Len(lines)
  BY DEF TypeOK
<1>1. CASE SkipEmpty
  <2>1. /\ ~flushed /\ ~flushed' /\ next' = next + 1 /\ lines' = lines
        /\ lines[next] = 0 /\ buf' = buf /\ wire' = wire
    BY <1>1 DEF SkipEmpty, AtLine
  <2>2. \A i \in Passed' : i \in Passed \/ i = next
    BY <1>0, <2>1 DEF Passed
  <2> QED
    BY <2>1, <2>2 DEF NothingLost, Carried
<1>2. CASE Join
  <2>1. ~flushed /\ ~flushed' /\ next' = next + 1 /\ lines' = lines
    BY <1>2 DEF Join, AtLine
  <2>2. \A i \in Passed' : i \in Nat /\ (i \in Passed \/ i = next)
    BY <1>0, <2>1 DEF Passed
  <2> QED
    BY <1>2, <2>1, <2>2, CarriedJoin DEF NothingLost
<1>3. CASE Cut
  <2>1. /\ ~flushed /\ ~flushed' /\ next' = next + 1 /\ lines' = lines
        /\ Send(buf) /\ buf'.ids = <<next>>
    BY <1>3 DEF Cut, AtLine, Alone
  <2>2. \A i \in Passed' : i \in Nat /\ (i \in Passed \/ i = next)
    BY <1>0, <2>1 DEF Passed
  <2>3. 1 \in DOMAIN buf'.ids /\ buf'.ids[1] = next
    BY <2>1
  <2>4. \A i \in Nat : i = next => Carried(i)'
    BY <2>3 DEF Carried
  <2> QED
    BY <2>1, <2>2, <2>4, CarriedSend DEF NothingLost
<1>4. CASE SendRest
  <2>1. ~flushed /\ flushed' /\ next > Len(lines) /\ lines' = lines /\ Send(buf)
    BY <1>4 DEF SendRest
  <2>2. \A i \in Passed' : i \in Nat /\ i \in Passed
    BY <1>0, <2>1 DEF Passed
  <2> QED
    BY <2>1, <2>2, CarriedSend DEF NothingLost
<1>5. CASE UNCHANGED vars
  BY <1>5 DEF vars, NothingLost, Passed, Carried
<1> QED
  BY <1>1, <1>2, <1>3, <1>4, <1>5 DEF Next, FlushStep, Returned

(***************************************************************************)
(* No line that is not empty is lost between the batch and the socket      *)
(* (client.go:58-81), for every batch and every packet size.               *)
(***************************************************************************)
THEOREM NoLoss == Spec => []NothingLost
BY TypeCorrect, FitInvInit, FitInvStep, LossInit, LossStep, PTL DEF Spec

-----------------------------------------------------------------------------
(***************************************************************************)
(* A cut justifies itself by the line in the buffer, so the invariant also *)
(* says why the buffer could not join the last datagram; between two cuts  *)
(* the buffer is never empty.                                              *)
(***************************************************************************)
CutInv ==
  /\ CutOnlyWhenFull
  /\ wire # <<>> /\ ~flushed => buf.ids # <<>>
  /\ wire # <<>> /\ buf.ids # <<>> =>
       wire[Len(wire)].bytes + 1 + lines[buf.ids[1]] > MaxPacketBytes

LEMMA CutInvInit == Init => CutInv
BY DEF Init, NoPayload, CutInv, CutOnlyWhenFull

LEMMA CutInvJoin == TypeOK /\ FitInv /\ CutInv /\ Join => CutInv'
<1> SUFFICES ASSUME TypeOK, FitInv, CutInv, Join PROVE CutInv'
  OBVIOUS
<1>1. wire' = wire /\ lines' = lines /\ flushed' = flushed /\ ~flushed /\ AtLine
  BY DEF Join, AtLine
<1>2. CASE buf.bytes = 0
  <2>1. buf.ids = <<>> /\ wire = <<>>
    BY <1>1, <1>2 DEF FitInv, BufferFits, CutInv
  <2> QED
    BY <1>1, <2>1 DEF CutInv, CutOnlyWhenFull
<1>3. CASE buf.bytes # 0
  <2>1. buf'.ids = Joined(next).ids /\ buf.ids # <<>> /\ buf.ids \in Seq(Nat)
    BY <1>3 DEF Join, Candidate, FitInv, BufferFits, TypeOK, Payload
  <2>2. 1 \in 1 .. Len(buf.ids)
    BY <2>1
  <2>3. buf'.ids[1] = buf.ids[1] /\ buf'.ids # <<>>
    BY <1>1, <2>1, <2>2, JoinedIds
  <2> QED
    BY <1>1, <2>1, <2>3 DEF CutInv, CutOnlyWhenFull
<1> QED
  BY <1>2, <1>3

\* Writing the buffer puts its first line behind the datagram it did not fit.
LEMMA CutOnlyWhenFullSend ==
  ASSUME TypeOK, FitInv, CutInv, Send(buf), lines' = lines
  PROVE  CutOnlyWhenFull'
<1>1. CASE buf.bytes = 0
  BY <1>1, NotWritten DEF CutInv, CutOnlyWhenFull
<1>2. CASE buf.bytes # 0
  <2>1. buf \in Payload /\ buf.ids # <<>>
    BY <1>2 DEF TypeOK, FitInv, BufferFits
  <2>2. /\ DOMAIN wire = 1 .. Len(wire) /\ Len(wire) \in Nat
        /\ DOMAIN wire' = 1 .. Len(wire) + 1
        /\ \A k \in 1 .. Len(wire) : wire'[k] = wire[k]
        /\ wire'[Len(wire) + 1] = buf
    BY <1>2, <2>1, Written
  <2> SUFFICES ASSUME NEW k \in 1 .. Len(wire) + 1, k + 1 \in 1 .. Len(wire) + 1
               PROVE  wire'[k].bytes + 1 + lines[wire'[k + 1].ids[1]] > MaxPacketBytes
    BY <2>2 DEF CutOnlyWhenFull
  <2>6. Len(wire) \in Nat
    BY <2>2
  <2>7. k \in 1 .. Len(wire)
    BY <2>6
  <2>3. k \in 1 .. Len(wire) /\ wire'[k] = wire[k]
    BY <2>2, <2>7
  <2>4. CASE k = Len(wire)
    <3>1. wire # <<>>
      BY <2>2, <2>3
    <3> QED
      BY <2>1, <2>2, <2>3, <2>4, <3>1 DEF CutInv
  <2>5. CASE k # Len(wire)
    <3>1. k + 1 \in 1 .. Len(wire)
      BY <2>6, <2>7, <2>5
    <3>2. wire'[k + 1] = wire[k + 1]
      BY <2>2, <3>1
    <3> QED
      BY <2>2, <2>3, <3>1, <3>2 DEF CutInv, CutOnlyWhenFull
  <2> QED
    BY <2>4, <2>5
<1> QED
  BY <1>1, <1>2

LEMMA CutInvCut == TypeOK /\ FitInv /\ CutInv /\ Cut => CutInv'
<1> SUFFICES ASSUME TypeOK, FitInv, CutInv, Cut PROVE CutInv'
  OBVIOUS
<1>1. /\ Send(buf) /\ buf.bytes # 0 /\ buf \in Payload /\ AtLine
      /\ lines' = lines /\ buf' = Alone(next)
      /\ Joined(next).bytes > MaxPacketBytes
  BY DEF Cut, Oversize, Candidate, TypeOK
<1>2. CutOnlyWhenFull'
  BY <1>1, CutOnlyWhenFullSend
<1>3. wire'[Len(wire')] = buf
  BY <1>1, Written
<1>4. buf'.ids # <<>> /\ buf'.ids[1] = next
  BY <1>1 DEF Alone
<1>5. buf.bytes + 1 + lines[next] > MaxPacketBytes
  BY <1>1, JoinedIds
<1> QED
  BY <1>1, <1>2, <1>3, <1>4, <1>5 DEF CutInv

(***************************************************************************)
(* Datagrams are split only where the next line does not fit               *)
(* (client.go:56-57, 71), for every batch and every packet size.           *)
(***************************************************************************)
THEOREM Greedy == Spec => []CutOnlyWhenFull
<1>1. TypeOK /\ FitInv /\ CutInv /\ [Next]_vars => CutInv'
  <2> SUFFICES ASSUME TypeOK, FitInv, CutInv, [Next]_vars PROVE CutInv'
    OBVIOUS
  <2>1. CASE SkipEmpty
    BY <2>1 DEF SkipEmpty, CutInv, CutOnlyWhenFull
  <2>2. CASE SendRest
    BY <2>2, CutOnlyWhenFullSend DEF SendRest, NoPayload, CutInv
  <2>3. CASE UNCHANGED vars
    BY <2>3 DEF vars, CutInv, CutOnlyWhenFull
  <2> QED
    BY <2>1, <2>2, <2>3, CutInvJoin, CutInvCut DEF Next, FlushStep, Returned
<1>2. CutInv => CutOnlyWhenFull
  BY DEF CutInv
<1> QED
  BY <1>1, <1>2, TypeCorrect, FitInvInit, FitInvStep, CutInvInit, PTL DEF Spec

-----------------------------------------------------------------------------
(***************************************************************************)
(* The refinement of DatagramStream.  The length of a datagram is there a  *)
(* sum over the batch, so the proof needs what the sum over a set is, that *)
(* there is no other, and what one more line adds to it.                   *)
(***************************************************************************)
Stream == INSTANCE DatagramStream

\* The instance has its own name for the number of elements.
LEMMA SameCount == \A S : Stream!Cardinality(S) = Cardinality(S)
BY DEF Stream!Cardinality, Cardinality

Sums(t, S) ==
  t = [i \in 0 .. Len(lines) |->
         IF i = 0 THEN 0 ELSE t[i - 1] + (IF i \in S THEN lines[i] ELSE 0)]

LEMMA LeastNumber ==
  ASSUME NEW T, T \subseteq Nat, T # {}
  PROVE  \E x \in T : \A y \in T : ~(y < x)
<1> DEFINE R == OpToRel(<, Nat)
<1>1. \A x, y \in Nat : x < y => <<x, y>> \in R
  BY DEF OpToRel
<1>2. IsWellFoundedOn(R, Nat)
  BY NatLessThanWellFounded
<1> HIDE DEF R
<1>3. PICK x \in T : \A y \in T : ~(<<y, x>> \in R)
  BY <1>2, WFMin
<1> QED
  BY <1>1, <1>3

\* By the least place where two sums differ.
LEMMA SumsUnique ==
  ASSUME Len(lines) \in Nat, NEW S, NEW t, NEW u, Sums(t, S), Sums(u, S)
  PROVE  t = u
<1> DEFINE D == {i \in 0 .. Len(lines) : t[i] # u[i]}
<1>1. /\ t = [i \in 0 .. Len(lines) |-> t[i]]
      /\ u = [i \in 0 .. Len(lines) |-> u[i]]
  BY DEF Sums
<1>2. SUFFICES ASSUME D # {} PROVE FALSE
  BY <1>1
<1>3. PICK i \in D : \A j \in D : ~(j < i)
  <2>1. D \subseteq Nat
    OBVIOUS
  <2> HIDE DEF D
  <2> QED
    BY <1>2, <2>1, LeastNumber
<1>4. /\ t[0] = 0 /\ u[0] = 0
      /\ i # 0 => /\ t[i] = t[i - 1] + (IF i \in S THEN lines[i] ELSE 0)
                  /\ u[i] = u[i - 1] + (IF i \in S THEN lines[i] ELSE 0)
  BY <1>3 DEF Sums
<1>5. i # 0 /\ i - 1 \in 0 .. Len(lines) /\ i - 1 < i
  BY <1>3, <1>4
<1>6. t[i - 1] = u[i - 1]
  BY <1>3, <1>5
<1> QED
  BY <1>3, <1>4, <1>5, <1>6

LEMMA SumsOf ==
  ASSUME Len(lines) \in Nat, NEW S, NEW t, Sums(t, S)
  PROVE  Stream!BytesUpTo(S) = t
<1>1. Stream!BytesUpTo(S) = CHOOSE u : Sums(u, S)
  BY DEF Stream!BytesUpTo, Sums
<1>2. Sums(CHOOSE u : Sums(u, S), S)
  <2>1. \E u : Sums(u, S)
    OBVIOUS
  <2> QED
    BY <2>1
<1> QED
  BY <1>1, <1>2, SumsUnique

\* One more line of the batch adds its length to every sum behind it.
LEMMA SumsAdd ==
  ASSUME lines \in Seq(Nat), NEW S, NEW t \in [0 .. Len(lines) -> Nat], Sums(t, S),
         NEW k \in 1 .. Len(lines), k \notin S
  PROVE  \E u \in [0 .. Len(lines) -> Nat] :
           Sums(u, S \cup {k}) /\ u[Len(lines)] = t[Len(lines)] + lines[k]
<1>1. /\ Len(lines) \in Nat /\ lines[k] \in Nat /\ k \in Nat
      /\ \A i \in 1 .. Len(lines) : lines[i] \in Nat
  OBVIOUS
<1> DEFINE L == Len(lines)
           u == [i \in 0 .. L |-> IF i < k THEN t[i] ELSE t[i] + lines[k]]
<1>2. u \in [0 .. L -> Nat]
  BY <1>1
<1>3. u[L] = t[L] + lines[k]
  BY <1>1
<1>4. ASSUME NEW i \in 0 .. L
      PROVE  u[i] = IF i = 0 THEN 0 ELSE u[i - 1] + (IF i \in S \cup {k} THEN lines[i] ELSE 0)
  <2>1. t[i] = IF i = 0 THEN 0 ELSE t[i - 1] + (IF i \in S THEN lines[i] ELSE 0)
    BY DEF Sums
  <2>2. CASE i = 0
    BY <1>1, <2>1, <2>2
  <2>3. CASE i # 0
    <3>0. i - 1 \in 0 .. L /\ i \in 1 .. L /\ i \in Nat
      BY <1>1, <2>3
    <3>1. i - 1 \in 0 .. L /\ i \in Nat /\ t[i - 1] \in Nat /\ lines[i] \in Nat
      BY <1>1, <3>0
    <3>2. /\ u[i] = IF i < k THEN t[i] ELSE t[i] + lines[k]
          /\ u[i - 1] = IF i - 1 < k THEN t[i - 1] ELSE t[i - 1] + lines[k]
      BY <3>1
    <3>3. t[i] = t[i - 1] + (IF i \in S THEN lines[i] ELSE 0)
      BY <2>1, <2>3
    <3> HIDE DEF u, L
    <3>4. CASE i < k
      BY <1>1, <2>3, <3>1, <3>2, <3>3, <3>4
    <3>5. CASE i = k
      BY <1>1, <2>3, <3>1, <3>2, <3>3, <3>5
    <3>6. CASE i > k
      BY <1>1, <2>3, <3>1, <3>2, <3>3, <3>6
    <3> QED
      BY <1>1, <3>1, <3>4, <3>5, <3>6
  <2> QED
    BY <2>2, <2>3
<1>5. Sums(u, S \cup {k})
  BY <1>4 DEF Sums
<1> QED
  BY <1>2, <1>3, <1>5

-----------------------------------------------------------------------------
(***************************************************************************)
(* What the buffer holds: lines of the batch that are not empty, each      *)
(* once, and their joined length.                                          *)
(***************************************************************************)
Held(ids) == {ids[n] : n \in DOMAIN ids}

Holds(payload) ==
  LET S == Held(payload.ids)
  IN  /\ S \subseteq 1 .. Len(lines) /\ \A i \in S : lines[i] # 0
      /\ IsFiniteSet(S) /\ Cardinality(S) = Len(payload.ids)
      /\ \E t \in [0 .. Len(lines) -> Nat] :
           /\ Sums(t, S)
           /\ payload.bytes + 1 = t[Len(lines)] + Len(payload.ids)

BytesInv == buf.ids # <<>> => Holds(buf)

LEMMA BytesInvInit == Init => BytesInv
BY DEF Init, NoPayload, BytesInv

\* A payload that begins with the next line.
LEMMA AloneHolds ==
  ASSUME TypeOK, AtLine, lines[next] # 0
  PROVE  Holds(Alone(next))
<1>1. /\ lines \in Seq(Nat) /\ Len(lines) \in Nat /\ next \in 1 .. Len(lines) /\ lines[next] \in Nat
  BY DEF TypeOK, AtLine
<1> DEFINE z == [i \in 0 .. Len(lines) |-> 0]
<1>2. z \in [0 .. Len(lines) -> Nat] /\ Sums(z, {}) /\ z[Len(lines)] = 0
  BY <1>1 DEF Sums
<1> HIDE DEF z
<1>3. PICK u \in [0 .. Len(lines) -> Nat] :
        Sums(u, {} \cup {next}) /\ u[Len(lines)] = z[Len(lines)] + lines[next]
  BY <1>1, <1>2, SumsAdd
<1>4. Alone(next).ids = <<next>> /\ Alone(next).bytes = lines[next]
  BY DEF Alone
<1>5. Held(<<next>>) = {next} /\ Len(<<next>>) = 1 /\ {} \cup {next} = {next}
  BY DEF Held
<1>6. IsFiniteSet({next}) /\ Cardinality({next}) = 1
  BY FS_Singleton
<1>7. lines[next] + 1 = u[Len(lines)] + 1
  BY <1>1, <1>2, <1>3
<1> QED
  BY <1>1, <1>3, <1>4, <1>5, <1>6, <1>7 DEF Holds

LEMMA JoinedHolds ==
  ASSUME TypeOK, OrderInv, AtLine, lines[next] # 0, Holds(buf)
  PROVE  Holds(Joined(next))
<1> DEFINE S == Held(buf.ids)
           T == Held(Joined(next).ids)
           L == Len(lines)
<1>1. /\ lines \in Seq(Nat) /\ L \in Nat /\ next \in 1 .. L /\ lines[next] \in Nat
      /\ buf.bytes \in Nat
  BY DEF TypeOK, AtLine, Payload
<1>2. /\ Len(buf.ids) \in Nat /\ Len(Joined(next).ids) = Len(buf.ids) + 1
      /\ Joined(next).bytes = buf.bytes + 1 + lines[next]
  BY JoinedIds
<1>3. T = S \cup {next}
  <2> DEFINE N == Len(buf.ids)
  <2>1. /\ N \in Nat /\ DOMAIN buf.ids = 1 .. N /\ DOMAIN Joined(next).ids = 1 .. N + 1
        /\ \A n \in 1 .. N : Joined(next).ids[n] = buf.ids[n]
        /\ Joined(next).ids[N + 1] = next
    BY JoinedIds
  <2> HIDE DEF N
  <2>2. \A n : n \in 1 .. N + 1 <=> n \in 1 .. N \/ n = N + 1
    BY <2>1
  <2> QED
    BY <2>1, <2>2 DEF Held
<1>4. next \notin S
  <2>1. \A n \in DOMAIN buf.ids : buf.ids[n] \in Nat /\ buf.ids[n] < next
    BY Positions DEF OrderInv, HandedBefore
  <2> QED
    BY <1>1, <2>1 DEF Held
<1>5. PICK t \in [0 .. L -> Nat] : Sums(t, S) /\ buf.bytes + 1 = t[L] + Len(buf.ids)
  BY DEF Holds
<1>6. PICK u \in [0 .. L -> Nat] : Sums(u, S \cup {next}) /\ u[L] = t[L] + lines[next]
  BY <1>1, <1>4, <1>5, SumsAdd
<1>7. S \subseteq 1 .. L /\ (\A i \in S : lines[i] # 0) /\ IsFiniteSet(S) /\ Cardinality(S) = Len(buf.ids)
  BY DEF Holds
<1>8. t[L] \in Nat /\ u[L] \in Nat
  BY <1>1
<1> HIDE DEF S, T, L
<1>9. IsFiniteSet(T) /\ Cardinality(T) = Len(buf.ids) + 1
  BY <1>3, <1>4, <1>7, FS_AddElement
<1>10. T \subseteq 1 .. L /\ \A i \in T : lines[i] # 0
  BY <1>1, <1>3, <1>7
<1>11. Joined(next).bytes + 1 = u[L] + Len(Joined(next).ids)
  <2>1. \A a, b, c, d \in Nat : a + 1 = b + c => (a + 1 + d) + 1 = (b + d) + (c + 1)
    OBVIOUS
  <2>2. buf.bytes \in Nat /\ t[L] \in Nat /\ Len(buf.ids) \in Nat /\ lines[next] \in Nat
    BY <1>1, <1>2, <1>8
  <2>3. buf.bytes + 1 = t[L] + Len(buf.ids)
    BY <1>5
  <2>4. (buf.bytes + 1 + lines[next]) + 1 = (t[L] + lines[next]) + (Len(buf.ids) + 1)
    BY <2>1, <2>2, <2>3
  <2> QED
    BY <1>2, <1>6, <2>4
<1> QED
  BY <1>2, <1>3, <1>6, <1>9, <1>10, <1>11 DEF Holds, T, L

LEMMA BytesInvStep ==
  TypeOK /\ FitInv /\ OrderInv /\ BytesInv /\ [Next]_vars => BytesInv'
<1> SUFFICES ASSUME TypeOK, FitInv, OrderInv, BytesInv, [Next]_vars PROVE BytesInv'
  OBVIOUS
<1>1. lines' = lines
  BY DEF Next, FlushStep, SkipEmpty, Join, Cut, SendRest, Returned, vars
<1>2. \A p, q : p = q /\ Holds(p) => Holds(q)
  OBVIOUS
<1>3. Holds(buf') => BytesInv'
  BY <1>1 DEF BytesInv, Holds, Sums
<1>4. CASE SkipEmpty \/ UNCHANGED vars
  BY <1>3, <1>4 DEF SkipEmpty, vars, BytesInv, Holds, Sums
<1>5. CASE Join
  <2>1. CASE buf.bytes = 0
    BY <1>3, <1>5, <2>1, AloneHolds DEF Join, Candidate
  <2>2. CASE buf.bytes # 0
    BY <1>3, <1>5, <2>2, JoinedHolds DEF Join, Candidate, BytesInv, FitInv, BufferFits
  <2> QED
    BY <2>1, <2>2
<1>6. CASE Cut
  BY <1>3, <1>6, AloneHolds DEF Cut
<1>7. CASE SendRest
  BY <1>7 DEF SendRest, NoPayload, BytesInv
<1> QED
  BY <1>4, <1>5, <1>6, <1>7 DEF Next, FlushStep, Returned

-----------------------------------------------------------------------------
(***************************************************************************)
(* A buffer that is written is the datagram of the pending lines up to its *)
(* last one.                                                               *)
(***************************************************************************)
LEMMA HeldIsPending ==
  ASSUME TypeOK, OrderInv, BytesInv, buf.ids # <<>>
  PROVE  Held(buf.ids) \subseteq Stream!Pending
<1> SUFFICES ASSUME NEW m \in DOMAIN buf.ids PROVE buf.ids[m] \in Stream!Pending
  BY DEF Held
<1>1. buf.ids[m] \in DOMAIN lines /\ lines[buf.ids[m]] # 0
  <2>1. buf.ids[m] \in Held(buf.ids)
    BY DEF Held
  <2>2. DOMAIN lines = 1 .. Len(lines)
    BY DEF TypeOK
  <2> QED
    BY <2>1, <2>2 DEF BytesInv, Holds
<1>2. ASSUME NEW k \in DOMAIN wire, NEW n \in DOMAIN wire[k].ids
      PROVE  wire[k].ids[n] # buf.ids[m]
  <2>1. wire[k].ids[n] < buf.ids[m]
    BY DEF OrderInv, OrderedOnce, AllBefore
  <2>2. wire[k].ids[n] \in Nat /\ buf.ids[m] \in Nat
    BY Positions
  <2> QED
    BY <2>1, <2>2
<1> QED
  BY <1>1, <1>2 DEF Stream!Pending, Stream!Sent

LEMMA BufferEmits ==
  ASSUME TypeOK, FitInv, OrderInv, NothingLost, BytesInv, ~flushed,
         Send(buf), buf.bytes # 0, UNCHANGED lines
  PROVE  Stream!Emit
<1> DEFINE S == Held(buf.ids)
           L == Len(buf.ids)
           last == buf.ids[L]
<1>1. buf.ids # <<>> /\ buf.ids \in Seq(Nat) /\ wire' = Append(wire, buf)
  BY DEF FitInv, BufferFits, Send, TypeOK, Payload
<1>2. L \in Nat /\ DOMAIN buf.ids = 1 .. L /\ L \in 1 .. L /\ last \in Nat
  BY <1>1
<1>3. S \subseteq Stream!Pending /\ last \in S
  BY <1>1, <1>2, HeldIsPending DEF Held
<1>4. \A i \in S : i \in Nat /\ i <= last
  <2> SUFFICES ASSUME NEW n \in DOMAIN buf.ids
               PROVE  buf.ids[n] \in Nat /\ buf.ids[n] <= last
    BY DEF Held
  <2>1. buf.ids[n] \in Nat /\ n \in 1 .. L
    BY <1>2, Positions
  <2>2. n < L => buf.ids[n] < last
    BY <1>2 DEF OrderInv, OrderedOnce, Increasing
  <2>3. n = L \/ n < L
    BY <1>2, <2>1
  <2> QED
    BY <1>2, <2>1, <2>2, <2>3
<1>5. ASSUME NEW i \in Stream!Pending, i <= last
      PROVE  i \in S
  <2>1. i \in 1 .. Len(lines) /\ Len(lines) \in Nat /\ lines[i] # 0 /\ i \notin Stream!Sent
    BY DEF Stream!Pending, TypeOK
  <2>2. last < next /\ next \in Nat
    BY <1>2, Positions DEF OrderInv, HandedBefore
  <2>3. i \in Passed
    BY <1>2, <1>5, <2>1, <2>2 DEF Passed
  <2>4. Carried(i)
    BY <2>1, <2>3 DEF NothingLost
  <2> QED
    BY <2>1, <2>4 DEF Carried, Stream!Sent, Held
<1>6. {i \in Stream!Pending : i <= last} = S
  BY <1>3, <1>4, <1>5
<1>7. /\ Cardinality(S) = L
      /\ \E t \in [0 .. Len(lines) -> Nat] : Sums(t, S) /\ buf.bytes + 1 = t[Len(lines)] + L
  BY <1>1 DEF BytesInv, Holds
<1>8. Stream!JoinedBytes(S) = buf.bytes
  <2>1. PICK t \in [0 .. Len(lines) -> Nat] : Sums(t, S) /\ buf.bytes + 1 = t[Len(lines)] + L
    BY <1>7
  <2>2. Len(lines) \in Nat /\ buf.bytes \in Nat
    BY DEF TypeOK, Payload
  <2>3. Stream!BytesUpTo(S) = t
    BY <2>1, <2>2, SumsOf
  <2>4. t[Len(lines)] \in Nat
    BY <2>2
  <2>5. t[Len(lines)] + L - 1 = buf.bytes
    BY <1>2, <2>1, <2>2, <2>4
  <2> HIDE DEF S, L
  <2> QED
    BY <1>7, <2>3, <2>5, SameCount DEF Stream!JoinedBytes
<1>9. Stream!Fits(S)
  <2> HIDE DEF S
  <2>1. \A n \in Nat : n \in 1 .. n => n > 1 \/ n = 1
    OBVIOUS
  <2>2. L > 1 \/ L = 1
    BY <1>2, <2>1
  <2> QED
    BY <1>7, <1>8, <2>2, SameCount DEF Stream!Fits, FitInv, BufferFits
<1>10. buf.ids \in Stream!InOrder(S)
  <2>1. \A n \in 1 .. L : buf.ids[n] \in S
    BY <1>2 DEF Held
  <2>2. buf.ids = [n \in 1 .. L |-> buf.ids[n]]
    BY <1>1
  <2>3. buf.ids \in [1 .. L -> S]
    <3> HIDE DEF S, L
    <3> QED
      BY <2>1, <2>2
  <2> HIDE DEF S
  <2> QED
    BY <1>7, <2>3, SameCount DEF Stream!InOrder, OrderInv, OrderedOnce, Increasing
<1>11. buf = [ids |-> buf.ids, bytes |-> Stream!JoinedBytes(S)]
  <2>1. buf = [ids |-> buf.ids, bytes |-> buf.bytes]
    BY DEF TypeOK, Payload
  <2> QED
    BY <1>8, <2>1
<1>12. last \in Stream!Pending
  BY <1>3
<1> HIDE DEF S, last
<1> QED
  BY <1>1, <1>6, <1>9, <1>10, <1>11, <1>12 DEF Stream!Emit

(***************************************************************************)
(* Flush implements the datagram stream, but for its liveness: each        *)
(* datagram is the next few lines of the batch in order, has the bytes of  *)
(* these lines and the newlines between them, and fits if it holds several *)
(* (client.go:58-81), for every batch and every packet size.               *)
(***************************************************************************)
THEOREM KeepsStream == Spec => Stream!Safety
<1>1. Init => Stream!Init
  BY DEF Init, Stream!Init
<1>2. TypeOK /\ FitInv /\ OrderInv /\ NothingLost /\ BytesInv /\ [Next]_vars
        => [Stream!Emit]_Stream!vars
  <2> SUFFICES ASSUME TypeOK, FitInv, OrderInv, NothingLost, BytesInv, [Next]_vars
               PROVE  [Stream!Emit]_Stream!vars
    OBVIOUS
  <2>1. CASE UNCHANGED <<lines, wire>>
    BY <2>1 DEF Stream!vars
  <2>2. CASE (Cut \/ SendRest) /\ buf.bytes # 0
    BY <2>2, BufferEmits DEF Cut, SendRest, AtLine
  <2>3. CASE (Cut \/ SendRest) /\ buf.bytes = 0
    BY <2>3, <2>1, NotWritten DEF Cut, SendRest
  <2> QED
    BY <2>1, <2>2, <2>3 DEF Next, FlushStep, SkipEmpty, Join, Returned, vars
<1> QED
  BY <1>1, <1>2, TypeCorrect, FitInvInit, FitInvStep, OrderInvInit, OrderInvStep, NoLoss,
     BytesInvInit, BytesInvStep, PTL DEF Spec, Stream!Safety

=============================================================================
