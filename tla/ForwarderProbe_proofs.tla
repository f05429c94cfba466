------------------------- MODULE ForwarderProbe_proofs -------------------------
(***************************************************************************)
(* Proofs about the two DNS probes.  ForwarderProbe: a forwarder reported  *)
(* up has answered the very query of its probe in time, and the summary    *)
(* agrees with the report, for every list of forwarders, every timeout and *)
(* either kind of socket.  The first rests on the transaction ids: a cycle *)
(* sends no more queries than there are ids, so that each is new to the    *)
(* network, and a datagram with the id of the open query is this query or  *)
(* its answer.  Resolution: a baseline that is up was answered afresh, and *)
(* a silent server looks slow.                                             *)
(***************************************************************************)
EXTENDS ForwarderProbe, Resolution, FiniteSetTheorems, SequenceTheorems, TLAPS

Line == [up : BOOLEAN, latency : 0 .. Timeout, tcp : BOOLEAN, broken : BOOLEAN]

Ids == {m.id : m \in net}

Probing == step \in {"probe", "await", "tcp"}

\* The position in the list, which the count does not overtake.
Position ==
  /\ availCount <= Len(report)
  /\ Probing => Len(report) < Len(List)
  /\ step = "summary" => Len(report) = Len(List)
  /\ step = "done" /\ List # <<>> => Len(report) = Len(List)

\* An answer is one that its forwarder gives.
Honest == \A m \in net : m.answer \in {"none", health[m.fwd]}

\* The ids in flight are those of queries sent.
FewIds ==
  /\ IsFiniteSet(Ids)
  /\ Cardinality(Ids) <= IF step \in {"await", "tcp"} THEN Len(report) + 1 ELSE Len(report)

Here == Len(report) + 1

\* The id of the open query is its own: what bears it is the query itself
\* or an answer to it, given while the probe waited.
OwnId ==
  step = "await" =>
    /\ query \in Datagram /\ query.fwd = Current /\ query.answer = "none"
    /\ \A m \in net : m.id = query.id =>
         /\ m.fwd = Current
         /\ m.answer = "none" => m = query
         /\ m.answer # "none" => Here \in answered

UpAnswered == step = "tcp" /\ up => Here \in answered /\ health[Current] \in {"resolved", "refused"}

-----------------------------------------------------------------------------
LEMMA ListLength == List \in Seq(Forwarders) /\ Len(List) \in Nat
PROOF BY ProbeAssumption DEF ProbeAssumption

LEMMA CurrentIn == ASSUME TypeOK, Position, Probing PROVE Current \in Forwarders
PROOF
<1>1. Len(report) \in Nat /\ Len(report) < Len(List)
  BY DEF TypeOK, Position
<1>2. Len(report) + 1 \in 1 .. Len(List)
  BY <1>1, ListLength
<1>. QED BY <1>2, ListLength DEF Current

(***************************************************************************)
(* There is an id left for the next query, and FreshId is one.             *)
(***************************************************************************)
LEMMA Fresh ==
  ASSUME TypeOK, Position, FewIds, step = "probe"
  PROVE  FreshId \in TxIds /\ \A m \in net : m.id # FreshId
PROOF
<1>1. Ids \subseteq TxIds
  BY DEF TypeOK, Ids, Datagram
<1>2. Cardinality(Ids) < Cardinality(TxIds)
  <2>1. Len(report) \in Nat /\ Len(report) < Len(List) /\ Cardinality(Ids) <= Len(report)
    BY DEF TypeOK, Position, Probing, FewIds
  <2>2. Cardinality(Ids) \in Nat /\ Cardinality(TxIds) \in Nat /\ Cardinality(TxIds) >= Len(List)
    BY FS_CardinalityType, ProbeAssumption DEF FewIds, ProbeAssumption
  <2>. QED BY <2>1, <2>2, ListLength
<1>3. Ids # TxIds
  BY <1>2, FS_CardinalityType, ProbeAssumption DEF ProbeAssumption
<1>4. \E id \in TxIds : id \notin Ids
  BY <1>1, <1>3
<1>5. \E id \in TxIds : (\A m \in net : m.id # id) \/ Ids = TxIds
  BY <1>4 DEF Ids
<1>6. FreshId \in TxIds /\ ((\A m \in net : m.id # FreshId) \/ Ids = TxIds)
  BY <1>5 DEF FreshId, Ids
<1>. QED BY <1>3, <1>6

LEMMA TypeInit == Init => TypeOK
PROOF
<1>. SUFFICES ASSUME Init PROVE TypeOK
  OBVIOUS
<1>1. report \in Seq(Line) /\ Len(report) = 0
  BY EmptySeq DEF Init
<1>2. Timeout \in Nat
  BY ProbeAssumption DEF ProbeAssumption
<1>3. net \subseteq Datagram /\ query \in Datagram \cup {<<>>} /\ Len(List) >= 0
  BY ListLength DEF Init
<1>4. Never \in 0 .. Never /\ 0 \in 0 .. Timeout /\ 0 \in 0 .. Len(List)
  BY <1>2, ListLength DEF Never
<1>5. summary \in [available : 0 .. Len(List), degraded : 0 .. Len(List), best : 0 .. Never]
  BY <1>4 DEF Init, NoSummary
<1>6. step \in {"probe", "await", "tcp", "summary", "done"}
  BY DEF Init
<1>. HIDE DEF Line, Never
<1>. QED BY <1>1, <1>3, <1>4, <1>5, <1>6 DEF Init, TypeOK, Line

LEMMA PositionInit == Init => Position /\ Honest /\ OwnId /\ UpAnswered
PROOF
<1>. SUFFICES ASSUME Init PROVE Position /\ Honest /\ OwnId /\ UpAnswered
  OBVIOUS
<1>1. List # <<>> => Len(List) > 0
  BY ListLength, EmptySeq
<1>2. Len(report) = 0
  BY DEF Init
<1>. QED BY <1>1, <1>2 DEF Init, Position, Probing, Honest, OwnId, UpAnswered

LEMMA FewInit == Init => FewIds
PROOF
<1>. SUFFICES ASSUME Init PROVE FewIds
  OBVIOUS
<1>1. Ids = {} /\ Len(report) = 0
  BY DEF Init, Ids
<1>. QED BY <1>1, FS_EmptySet DEF FewIds, Init

-----------------------------------------------------------------------------
(* One lemma for each action: types, the position and what is known of the *)
(* answers.  The count over the list follows below.                        *)

\* The invariant behind UpMeansAnswered.
ProbeInv == TypeOK /\ Position /\ Honest /\ FewIds /\ OwnId /\ UpAnswered /\ UpMeansAnswered

\* The network's actions change net only.
OnlyNet == UNCHANGED <<health, connected, step, probeVars, availCount, bestLatency, report, summary>>

\* n is the datagram m, or the answer to it; one to the open query is noted.
Follows(n, m) ==
  \/ n = m
  \/ /\ n.id = m.id /\ n.fwd = m.fwd /\ m.answer = "none" /\ n.answer # "none"
     /\ step = "await" /\ m = query => Here \in answered'

(***************************************************************************)
(* A network that invents no id and no answer keeps the invariant.         *)
(***************************************************************************)
LEMMA NetworkStep ==
  ASSUME ProbeInv, OnlyNet, net' \subseteq Datagram,
         answered \subseteq answered', answered' \subseteq DOMAIN List,
         \A n \in net' : /\ n.answer \in {"none", health[n.fwd]}
                        /\ \E m \in net : Follows(n, m)
  PROVE  ProbeInv'
PROOF
<1>. USE DEF OnlyNet, probeVars
<1>1. TypeOK'
  BY DEF ProbeInv, TypeOK
<1>2. Position' /\ UpAnswered' /\ UpMeansAnswered'
  BY DEF ProbeInv, Position, Probing, UpAnswered, UpMeansAnswered, Ups, Current, Here
<1>3. Honest'
  BY DEF Honest
<1>4. OwnId'
  <2>. SUFFICES ASSUME step = "await", NEW n \in net', n.id = query.id
       PROVE  n.fwd = Current /\ (n.answer = "none" => n = query) /\ (n.answer # "none" => Here \in answered')
    BY DEF ProbeInv, OwnId, Current, Here
  <2>1. PICK m \in net : Follows(n, m)
    OBVIOUS
  <2>2. m.id = query.id /\ m.fwd = Current
    BY <2>1 DEF Follows, ProbeInv, OwnId
  <2>3. (m.answer = "none" => m = query) /\ (m.answer # "none" => Here \in answered)
    BY <2>2 DEF ProbeInv, OwnId
  <2>. QED BY <2>1, <2>2, <2>3 DEF Follows
<1>5. FewIds'
  <2>1. Ids' \subseteq Ids
    BY DEF Ids, Follows
  <2>2. IsFiniteSet(Ids') /\ Cardinality(Ids') <= Cardinality(Ids)
    BY <2>1, FS_Subset DEF ProbeInv, FewIds
  <2>3. Cardinality(Ids') \in Nat /\ Cardinality(Ids) \in Nat /\ Len(report) \in Nat
    BY <2>2, FS_CardinalityType DEF ProbeInv, FewIds, TypeOK
  <2>. QED BY <2>2, <2>3 DEF ProbeInv, FewIds
<1>. QED BY <1>1, <1>2, <1>3, <1>4, <1>5 DEF ProbeInv

LEMMA AnswerStep == ProbeInv /\ Answer => ProbeInv'
PROOF
<1>. SUFFICES ASSUME ProbeInv, Answer PROVE ProbeInv'
  OBVIOUS
<1>1. PICK q \in Queries :
        /\ health[q.fwd] # "silent"
        /\ net' = (net \ {q}) \cup {[q EXCEPT !.answer = health[q.fwd]]}
        /\ answered' = IF step = "await" /\ q = query THEN answered \cup {Here} ELSE answered
  BY DEF Answer, Here
<1>. DEFINE a == [q EXCEPT !.answer = health[q.fwd]]
<1>2. q \in net /\ q.answer = "none" /\ q \in Datagram /\ health[q.fwd] \in Answers
  BY <1>1 DEF Queries, ProbeInv, TypeOK, Datagram
<1>3. a \in Datagram /\ a.id = q.id /\ a.fwd = q.fwd /\ a.answer = health[q.fwd]
  BY <1>2 DEF Datagram
<1>4. OnlyNet /\ net \subseteq Datagram
  BY DEF Answer, OnlyNet, ProbeInv, TypeOK
<1>5. net' \subseteq Datagram
  BY <1>1, <1>3, <1>4
<1>6. \A n \in net' : /\ n.answer \in {"none", health[n.fwd]}
                     /\ \E m \in net : Follows(n, m)
  <2>1. net' = (net \ {q}) \cup {a}
    BY <1>1
  <2>2. a.answer # "none"
    BY <1>2, <1>3 DEF Answers
  <2>. HIDE DEF a
  <2>3. Follows(a, q)
    BY <1>1, <1>2, <1>3, <2>2 DEF Follows
  <2>. QED BY <1>2, <1>3, <2>1, <2>3 DEF ProbeInv, Honest, Follows
<1>7. answered \subseteq answered' /\ answered' \subseteq DOMAIN List
  <2>1. answered \subseteq answered'
    BY <1>1
  <2>2. step = "await" => Here \in 1 .. Len(List)
    BY ListLength DEF ProbeInv, TypeOK, Position, Probing, Here
  <2>3. DOMAIN List = 1 .. Len(List) /\ answered \subseteq DOMAIN List
    BY ListLength DEF ProbeInv, TypeOK
  <2>. QED BY <1>1, <2>1, <2>2, <2>3
<1>. QED BY <1>4, <1>5, <1>6, <1>7, NetworkStep

LEMMA LoseStep == ProbeInv /\ Lose => ProbeInv'
PROOF
<1>. SUFFICES ASSUME ProbeInv, Lose PROVE ProbeInv'
  OBVIOUS
<1>1. net' \subseteq net /\ OnlyNet /\ answered' = answered
  BY DEF Lose, OnlyNet
<1>2. \A n \in net' : n.answer \in {"none", health[n.fwd]} /\ \E m \in net : Follows(n, m)
  BY <1>1 DEF ProbeInv, Honest, Follows
<1>3. net' \subseteq Datagram /\ answered \subseteq DOMAIN List
  BY <1>1 DEF ProbeInv, TypeOK
<1>. QED BY <1>1, <1>2, <1>3, NetworkStep

LEMMA SendQueryStep == ProbeInv /\ SendQuery => ProbeInv'
PROOF
<1>. SUFFICES ASSUME ProbeInv, SendQuery PROVE ProbeInv'
  OBVIOUS
<1>1. PICK port \in Ports :
        /\ query' = [fwd |-> Current, port |-> port, id |-> FreshId, answer |-> "none"]
        /\ net' = net \cup {query'}
  BY DEF SendQuery
<1>2. /\ step = "probe" /\ step' = "await" /\ elapsed' = 0
      /\ UNCHANGED <<health, connected, answered, up, latency, availCount, bestLatency, report, summary>>
  BY DEF SendQuery
<1>3. Current \in Forwarders /\ FreshId \in TxIds /\ \A m \in net : m.id # FreshId
  BY <1>2, CurrentIn, Fresh DEF ProbeInv, Probing
<1>4. query' \in Datagram /\ query'.fwd = Current /\ query'.id = FreshId /\ query'.answer = "none"
  BY <1>1, <1>3 DEF Datagram
<1>5. Current' = Current
  BY <1>2 DEF Current
<1>6. TypeOK'
  <2>1. Timeout \in Nat BY ProbeAssumption DEF ProbeAssumption
  <2>. QED BY <1>1, <1>2, <1>4, <2>1 DEF ProbeInv, TypeOK
<1>7. Position' /\ UpAnswered' /\ UpMeansAnswered'
  BY <1>2 DEF ProbeInv, Position, Probing, UpAnswered, UpMeansAnswered, Ups
<1>8. Honest'
  BY <1>1, <1>2, <1>4 DEF ProbeInv, Honest
<1>9. OwnId'
  BY <1>1, <1>3, <1>4, <1>5 DEF OwnId
<1>10. FewIds'
  <2>1. Ids' = Ids \cup {FreshId}
    BY <1>1, <1>4 DEF Ids
  <2>2. FreshId \notin Ids
    BY <1>3 DEF Ids
  <2>3. IsFiniteSet(Ids') /\ Cardinality(Ids') = Cardinality(Ids) + 1
    BY <2>1, <2>2, FS_AddElement DEF ProbeInv, FewIds
  <2>4. Cardinality(Ids) \in Nat /\ Cardinality(Ids) <= Len(report) /\ Len(report) \in Nat
    BY <1>2, FS_CardinalityType DEF ProbeInv, FewIds, TypeOK
  <2>5. Cardinality(Ids') <= Len(report') + 1
    BY <1>2, <2>3, <2>4
  <2>. QED BY <1>2, <2>3, <2>5 DEF FewIds
<1>. QED BY <1>6, <1>7, <1>8, <1>9, <1>10 DEF ProbeInv

(***************************************************************************)
(* A probe is decided: what has to hold of an up is that it was answered.  *)
(***************************************************************************)
LEMMA DecidedStep ==
  ASSUME ProbeInv, step \in {"probe", "await"},
         NEW ok \in BOOLEAN, NEW ms \in 0 .. Timeout, Decided(ok, ms),
         net' \subseteq net, query' \in {query, <<>>},
         UNCHANGED <<health, connected, answered, elapsed, availCount, bestLatency, report, summary>>,
         ok => Here \in answered /\ health[Current] \in {"resolved", "refused"}
  PROVE  ProbeInv'
PROOF
<1>1. step' = "tcp" /\ up' = ok /\ latency' = ms /\ Current' = Current /\ Here' = Here
  BY DEF Decided, Current, Here
<1>2. TypeOK'
  BY <1>1 DEF ProbeInv, TypeOK
<1>3. Position' /\ UpMeansAnswered'
  BY <1>1 DEF ProbeInv, Position, Probing, UpMeansAnswered, Ups
<1>4. UpAnswered' /\ OwnId'
  BY <1>1 DEF UpAnswered, OwnId
<1>5. Honest'
  BY DEF ProbeInv, Honest
<1>6. FewIds'
  <2>1. Ids' \subseteq Ids
    BY DEF Ids
  <2>2. IsFiniteSet(Ids') /\ Cardinality(Ids') <= Cardinality(Ids)
    BY <2>1, FS_Subset DEF ProbeInv, FewIds
  <2>3. Cardinality(Ids') \in Nat /\ Cardinality(Ids) \in Nat /\ Len(report) \in Nat
    BY <2>2, FS_CardinalityType DEF ProbeInv, FewIds, TypeOK
  <2>4. Cardinality(Ids) <= Len(report) + 1
    BY <2>3 DEF ProbeInv, FewIds
  <2>. QED BY <1>1, <2>2, <2>3, <2>4 DEF FewIds
<1>. QED BY <1>2, <1>3, <1>4, <1>5, <1>6 DEF ProbeInv

LEMMA ReadReplyStep == ProbeInv /\ ReadReply => ProbeInv'
PROOF
<1>. SUFFICES ASSUME ProbeInv, ReadReply PROVE ProbeInv'
  OBVIOUS
<1>1. PICK m \in Replies :
        /\ Decided(IsValidDNSResponse(m), elapsed)
        /\ net' \in {net, net \ {m}}
        /\ m.answer # "unreachable"
  BY DEF ReadReply
<1>2. step = "await" /\ UNCHANGED <<health, connected, answered, query, elapsed, availCount, bestLatency, report, summary>>
  BY DEF ReadReply
<1>3. m \in net /\ m.answer # "none" /\ m.answer = health[m.fwd] /\ m \in Datagram
  BY DEF Replies, Queries, ProbeInv, Honest, TypeOK
<1>4. ASSUME IsValidDNSResponse(m) PROVE Here \in answered /\ health[Current] \in {"resolved", "refused"}
  <2>1. m.fwd = Current /\ Here \in answered
    BY <1>2, <1>3, <1>4 DEF IsValidDNSResponse, ProbeInv, OwnId
  <2>2. m.answer \in Answers \cup {"none"}
    BY <1>3 DEF Datagram
  <2>. QED BY <1>1, <1>3, <1>4, <2>1, <2>2 DEF IsValidDNSResponse, Answers
<1>5. IsValidDNSResponse(m) \in BOOLEAN /\ elapsed \in 0 .. Timeout
  BY DEF IsValidDNSResponse, ProbeInv, TypeOK
<1>. QED BY <1>1, <1>2, <1>4, <1>5, DecidedStep

LEMMA FailStep == ProbeInv /\ (SendFails \/ ReadFails) => ProbeInv'
PROOF
<1>. SUFFICES ASSUME ProbeInv, SendFails \/ ReadFails PROVE ProbeInv'
  OBVIOUS
<1>1. 0 \in 0 .. Timeout /\ FailedLatency \in 0 .. Timeout
  BY ProbeAssumption DEF ProbeAssumption, FailedLatency, ProbeInv, TypeOK
<1>2. CASE SendFails
  BY <1>1, <1>2, DecidedStep DEF SendFails, netVars
<1>3. CASE ReadFails
  BY <1>1, <1>3, DecidedStep DEF ReadFails, netVars
<1>. QED BY <1>2, <1>3

LEMMA TickStep == ProbeInv /\ Tick => ProbeInv'
PROOF
<1>. SUFFICES ASSUME ProbeInv, Tick PROVE ProbeInv'
  OBVIOUS
<1>. USE DEF Tick, netVars
<1>1. TypeOK'
  BY ProbeAssumption DEF ProbeAssumption, ProbeInv, TypeOK
<1>2. Position' /\ UpAnswered' /\ UpMeansAnswered' /\ Honest' /\ OwnId'
  BY DEF ProbeInv, Position, Probing, UpAnswered, UpMeansAnswered, Ups, Honest, OwnId, Here, Current
<1>3. FewIds'
  BY DEF ProbeInv, FewIds, Ids
<1>. QED BY <1>1, <1>2, <1>3 DEF ProbeInv

(***************************************************************************)
(* The report grows by the line of the forwarder just probed.              *)
(***************************************************************************)
LEMMA Reported ==
  ASSUME TypeOK, TcpConnect
  PROVE  /\ report' \in Seq(Line) /\ Len(report') = Len(report) + 1
         /\ \A k \in 1 .. Len(report) : report'[k] = report[k]
         /\ report'[Len(report) + 1].up = up /\ report'[Len(report) + 1].latency = latency
         /\ Len(report) \in Nat
PROOF
<1>1. PICK tcp \in BOOLEAN :
        report' = Append(report, [up |-> up, latency |-> latency, tcp |-> tcp, broken |-> ~up /\ tcp])
  BY DEF TcpConnect
<1>. DEFINE line == [up |-> up, latency |-> latency, tcp |-> tcp, broken |-> ~up /\ tcp]
<1>2. line \in Line /\ line.up = up /\ line.latency = latency
  BY DEF TypeOK, Line
<1>3. report \in Seq(Line)
  BY DEF TypeOK, Line
<1>4. report' = Append(report, line)
  BY <1>1
<1>. HIDE DEF line
<1>. QED BY <1>2, <1>3, <1>4, AppendProperties

LEMMA TcpConnectStep == ProbeInv /\ TcpConnect => ProbeInv'
PROOF
<1>. SUFFICES ASSUME ProbeInv, TcpConnect PROVE ProbeInv'
  OBVIOUS
<1>1. /\ step = "tcp" /\ CountUp
      /\ step' = IF Len(report) + 1 = Len(List) THEN "summary" ELSE "probe"
      /\ UNCHANGED <<health, connected, net, answered, query, elapsed, up, latency, summary>>
  BY DEF TcpConnect, netVars, probeVars
<1>2. /\ Len(report) \in Nat /\ Len(report) < Len(List) /\ Len(List) \in Nat
      /\ availCount \in Nat /\ availCount <= Len(report)
  BY <1>1, ListLength DEF ProbeInv, TypeOK, Position, Probing
<1>3. availCount' \in Nat /\ availCount' <= Len(report) + 1
  BY <1>1, <1>2 DEF CountUp
<1>4. bestLatency' \in 0 .. Never
  BY <1>1, ProbeAssumption DEF CountUp, ProbeInv, TypeOK, Never, ProbeAssumption
<1>5. TypeOK'
  <2>1. report' \in Seq(Line) /\ Len(report') <= Len(List)
    BY <1>2, Reported DEF ProbeInv
  <2>2. availCount' \in 0 .. Len(List)
    BY <1>2, <1>3
  <2>. QED BY <1>1, <1>4, <2>1, <2>2 DEF ProbeInv, TypeOK, Line
<1>6. Position'
  <2>1. Len(report') = Len(report) + 1
    BY Reported DEF ProbeInv
  <2>. QED BY <1>1, <1>2, <1>3, <2>1 DEF Position, Probing
<1>7. Honest' /\ OwnId' /\ UpAnswered'
  BY <1>1 DEF ProbeInv, Honest, OwnId, UpAnswered
<1>8. FewIds'
  <2>1. Ids' = Ids /\ Len(report') = Len(report) + 1
    BY <1>1, Reported DEF ProbeInv, Ids
  <2>. QED BY <1>1, <2>1 DEF ProbeInv, FewIds
<1>9. UpMeansAnswered'
  <2>. SUFFICES ASSUME NEW k \in DOMAIN report', report'[k].up
       PROVE  k \in answered' /\ health'[List[k]] \in {"resolved", "refused"}
    BY DEF UpMeansAnswered, Ups
  <2>1. k \in 1 .. Len(report) + 1
    BY Reported DEF ProbeInv
  <2>2. CASE k = Len(report) + 1
    BY <1>1, <2>2, Reported DEF ProbeInv, UpAnswered, Current, Here
  <2>3. CASE k \in 1 .. Len(report)
    <3>1. k \in Ups
      <4>1. report'[k] = report[k]
        BY <2>3, Reported DEF ProbeInv
      <4>2. DOMAIN report = 1 .. Len(report)
        BY DEF ProbeInv, TypeOK
      <4>. QED BY <2>3, <4>1, <4>2 DEF Ups
    <3>. QED BY <1>1, <3>1 DEF ProbeInv, UpMeansAnswered
  <2>. QED BY <1>2, <2>1, <2>2, <2>3
<1>. QED BY <1>5, <1>6, <1>7, <1>8, <1>9 DEF ProbeInv

LEMMA SummariseStep == ProbeInv /\ Summarise => ProbeInv'
PROOF
<1>. SUFFICES ASSUME ProbeInv, Summarise PROVE ProbeInv'
  OBVIOUS
<1>1. /\ step = "summary" /\ step' = "done"
      /\ summary' = [available |-> availCount, degraded |-> Len(List) - availCount, best |-> bestLatency]
      /\ UNCHANGED <<health, connected, net, answered, query, elapsed, up, latency, availCount, bestLatency, report>>
  BY DEF Summarise, netVars, probeVars
<1>2. TypeOK'
  <2>1. availCount \in 0 .. Len(List) /\ Len(List) - availCount \in 0 .. Len(List)
    BY ListLength DEF ProbeInv, TypeOK
  <2>2. bestLatency \in 0 .. Never
    BY DEF ProbeInv, TypeOK
  <2>3. summary' \in [available : 0 .. Len(List), degraded : 0 .. Len(List), best : 0 .. Never]
    <3>. HIDE DEF Never
    <3>. QED BY <1>1, <2>1, <2>2
  <2>. QED BY <1>1, <2>3 DEF ProbeInv, TypeOK
<1>3. Position' /\ UpAnswered' /\ UpMeansAnswered' /\ Honest' /\ OwnId'
  BY <1>1 DEF ProbeInv, Position, Probing, UpAnswered, UpMeansAnswered, Ups, Honest, OwnId, Here
<1>4. FewIds'
  BY <1>1 DEF ProbeInv, FewIds, Ids
<1>. QED BY <1>2, <1>3, <1>4 DEF ProbeInv

LEMMA ProbeStep == ProbeInv /\ [Next]_vars => ProbeInv'
PROOF
<1>. SUFFICES ASSUME ProbeInv, [Next]_vars PROVE ProbeInv'
  OBVIOUS
<1>1. CASE UNCHANGED vars
  <2>. USE <1>1 DEF vars, netVars, probeVars
  <2>1. TypeOK'
    BY DEF ProbeInv, TypeOK
  <2>2. Position' /\ UpAnswered' /\ UpMeansAnswered' /\ Honest' /\ OwnId'
    BY DEF ProbeInv, Position, Probing, UpAnswered, UpMeansAnswered, Ups, Honest, OwnId, Here, Current
  <2>3. FewIds'
    BY DEF ProbeInv, FewIds, Ids
  <2>. QED BY <2>1, <2>2, <2>3 DEF ProbeInv
<1>. QED
  BY <1>1, AnswerStep, LoseStep, SendQueryStep, ReadReplyStep, FailStep, TickStep,
     TcpConnectStep, SummariseStep
  DEF Next, Collector, Done

-----------------------------------------------------------------------------
(* The count and the best latency over the list.                           *)

Tally ==
  /\ availCount = Cardinality(Ups)
  /\ bestLatency = Never <=> Ups = {}
  /\ \A k \in Ups : bestLatency <= report[k].latency
  /\ Ups # {} => \E k \in Ups : bestLatency = report[k].latency

Copied ==
  step = "done" /\ List # <<>> =>
    summary = [available |-> availCount, degraded |-> Len(List) - availCount, best |-> bestLatency]

LEMMA TallyInit == Init => Tally /\ Copied
PROOF
<1>. SUFFICES ASSUME Init PROVE Tally /\ Copied
  OBVIOUS
<1>1. Ups = {}
  BY DEF Init, Ups
<1>. QED BY <1>1, FS_EmptySet DEF Init, Tally, Copied

LEMMA UpsFinite == ASSUME TypeOK PROVE IsFiniteSet(Ups)
PROOF
<1>1. DOMAIN report = 1 .. Len(report) /\ Len(report) \in Nat
  BY DEF TypeOK
<1>2. IsFiniteSet(1 .. Len(report))
  BY <1>1, FS_Interval
<1>3. Ups \subseteq 1 .. Len(report)
  BY <1>1 DEF Ups
<1>. QED BY <1>2, <1>3, FS_Subset

(***************************************************************************)
(* The forwarder just probed joins those that are up, or leaves them.      *)
(***************************************************************************)
LEMMA UpsGrow ==
  ASSUME TypeOK, TcpConnect
  PROVE  /\ Ups' = IF up THEN Ups \cup {Len(report) + 1} ELSE Ups
         /\ Len(report) + 1 \notin Ups
         /\ \A k \in Ups : report'[k] = report[k]
PROOF
<1>1. /\ DOMAIN report' = 1 .. Len(report) + 1 /\ DOMAIN report = 1 .. Len(report)
      /\ Len(report) \in Nat
  BY Reported DEF TypeOK
<1>2. \A k \in 1 .. Len(report) : report'[k] = report[k]
  BY Reported
<1>3. report'[Len(report) + 1].up = up
  BY Reported
<1>4. Len(report) + 1 \notin Ups /\ \A k \in Ups : report'[k] = report[k]
  BY <1>1, <1>2 DEF Ups
<1>5. \A k : k \in Ups' <=> k \in 1 .. Len(report) + 1 /\ report'[k].up
  BY <1>1 DEF Ups
<1>6. \A k : k \in Ups <=> k \in 1 .. Len(report) /\ report[k].up
  BY <1>1 DEF Ups
<1>7. \A k : k \in 1 .. Len(report) + 1 <=> k \in 1 .. Len(report) \/ k = Len(report) + 1
  BY <1>1
<1>8. Len(report) + 1 \notin 1 .. Len(report)
  BY <1>1
<1>9. \A k : k \in Ups' <=> k \in Ups \/ (k = Len(report) + 1 /\ up)
  BY <1>2, <1>3, <1>5, <1>6, <1>7, <1>8
<1>. QED BY <1>4, <1>9

LEMMA TallyStep == ProbeInv /\ Tally /\ Copied /\ [Next]_vars => Tally' /\ Copied'
PROOF
<1>. SUFFICES ASSUME ProbeInv, Tally, Copied, [Next]_vars PROVE Tally' /\ Copied'
  OBVIOUS
<1>1. CASE TcpConnect
  <2>1. /\ step = "tcp" /\ CountUp /\ step' # "done"
    BY <1>1 DEF TcpConnect
  <2>2. CASE up
    <3>. DEFINE new == Len(report) + 1
    <3>1. Ups' = Ups \cup {new} /\ new \notin Ups /\ \A k \in Ups : report'[k] = report[k]
      BY <1>1, <2>2, UpsGrow DEF ProbeInv
    <3>2. report'[new].latency = latency
      BY <1>1, Reported DEF ProbeInv
    <3>3. Cardinality(Ups') = Cardinality(Ups) + 1
      BY <3>1, FS_AddElement, UpsFinite DEF ProbeInv
    <3>4. /\ availCount' = availCount + 1
          /\ bestLatency' = IF latency < bestLatency THEN latency ELSE bestLatency
      BY <2>1, <2>2 DEF CountUp
    <3>5. latency \in Nat /\ bestLatency \in Nat /\ Never \in Nat /\ latency < Never /\ bestLatency <= Never
      BY ProbeAssumption DEF ProbeInv, TypeOK, Never, ProbeAssumption
    <3>6. \A k \in Ups : report[k].latency \in Nat
      <4>1. report \in Seq(Line) /\ DOMAIN report = 1 .. Len(report)
        BY DEF ProbeInv, TypeOK, Line
      <4>2. \A k \in 1 .. Len(report) : report[k] \in Line
        BY <4>1, ElementOfSeq
      <4>3. \A line \in Line : line.latency \in 0 .. Timeout
        BY DEF Line
      <4>4. \A ms \in 0 .. Timeout : ms \in Nat
        BY ProbeAssumption DEF ProbeAssumption
      <4>. QED BY <4>1, <4>2, <4>3, <4>4 DEF Ups
    <3>. HIDE DEF new
    <3>7. bestLatency' <= latency /\ bestLatency' # Never /\ Ups' # {}
      BY <3>1, <3>4, <3>5
    <3>8. \A k \in Ups' : bestLatency' <= report'[k].latency
      <4>1. \A k \in Ups : bestLatency' <= report'[k].latency
        BY <3>1, <3>4, <3>5, <3>6 DEF Tally
      <4>. QED BY <3>1, <3>2, <3>7, <4>1
    <3>9. \E k \in Ups' : bestLatency' = report'[k].latency
      <4>1. CASE latency < bestLatency
        BY <3>1, <3>2, <3>4, <4>1
      <4>2. CASE ~(latency < bestLatency)
        <5>1. bestLatency' = bestLatency /\ bestLatency # Never
          BY <3>4, <3>5, <4>2
        <5>2. PICK k \in Ups : bestLatency = report[k].latency
          BY <5>1 DEF Tally
        <5>. QED BY <3>1, <5>1, <5>2
      <4>. QED BY <4>1, <4>2
    <3>10. Never' = Never
      BY DEF Never
    <3>. QED BY <2>1, <3>3, <3>4, <3>7, <3>8, <3>9, <3>10 DEF Tally, Copied
  <2>3. CASE ~up
    <3>1. Ups' = Ups /\ \A k \in Ups : report'[k] = report[k]
      BY <1>1, <2>3, UpsGrow DEF ProbeInv
    <3>2. availCount' = availCount /\ bestLatency' = bestLatency
      BY <2>1, <2>3 DEF CountUp
    <3>. QED BY <2>1, <3>1, <3>2 DEF Tally, Copied, Never
  <2>. QED BY <2>2, <2>3
<1>2. CASE Summarise
  BY <1>2 DEF Summarise, netVars, probeVars, Tally, Copied, Ups, Never
<1>3. CASE Answer \/ Lose \/ Tick \/ SendQuery \/ SendFails \/ ReadReply \/ ReadFails
  <2>1. /\ UNCHANGED <<availCount, bestLatency, report, summary>>
        /\ step' = step \/ step' # "done"
    BY <1>3 DEF Answer, Lose, Tick, SendQuery, SendFails, ReadReply, ReadFails, Decided
  <2>. QED BY <2>1 DEF Tally, Copied, Ups, Never
<1>4. CASE UNCHANGED vars
  BY <1>4 DEF vars, Tally, Copied, Ups, Never
<1>. QED BY <1>1, <1>2, <1>3, <1>4 DEF Next, Collector, Done

-----------------------------------------------------------------------------
IInv == ProbeInv /\ Tally /\ Copied

LEMMA Invariance == Spec => []IInv
PROOF
<1>1. Init => UpMeansAnswered
  BY DEF Init, UpMeansAnswered, Ups
<1>2. Init => Position
  BY PositionInit
<1>3. Init => IInv
  BY <1>1, <1>2, TypeInit, PositionInit, FewInit, TallyInit DEF IInv, ProbeInv
<1>4. IInv /\ [Next]_vars => IInv'
  BY ProbeStep, TallyStep DEF IInv
<1>. QED BY <1>3, <1>4, PTL DEF Spec

(***************************************************************************)
(* The collector's state is well formed on any list of forwarders.         *)
(***************************************************************************)
THEOREM TypeCorrect == Spec => []TypeOK
PROOF
<1>1. IInv => TypeOK BY DEF IInv, ProbeInv
<1>. QED BY <1>1, Invariance, PTL

(***************************************************************************)
(* A probe reports its forwarder up only if this forwarder answered the    *)
(* query of this probe while it waited, and not with SERVFAIL, whatever    *)
(* the network does and whether or not the socket is connected.            *)
(***************************************************************************)
THEOREM UpIsAnswered == Spec => []UpMeansAnswered
PROOF
<1>1. IInv => UpMeansAnswered BY DEF IInv, ProbeInv
<1>. QED BY <1>1, Invariance, PTL

(***************************************************************************)
(* The summary adds up with the lines of the same cycle, for any list.     *)
(***************************************************************************)
THEOREM Agreement == Spec => []SummaryAgrees
PROOF
<1>1. IInv => SummaryAgrees
  <2>. SUFFICES ASSUME IInv, step = "done", List # <<>> PROVE SummaryAgrees
    BY DEF SummaryAgrees
  <2>1. /\ summary.available = availCount /\ summary.degraded = Len(List) - availCount
        /\ summary.best = bestLatency
    BY DEF IInv, Copied
  <2>2. DOMAIN List = 1 .. Len(List) /\ Len(List) \in Nat /\ Len(report) = Len(List)
    BY ListLength DEF IInv, ProbeInv, Position
  <2>3. Ups \subseteq DOMAIN List
    BY <2>2 DEF IInv, ProbeInv, TypeOK, Ups
  <2>4. IsFiniteSet(1 .. Len(List)) /\ Cardinality(1 .. Len(List)) = Len(List)
    <3>1. Len(List) \in Int /\ 1 \in Int
      BY <2>2
    <3>2. /\ IsFiniteSet(1 .. Len(List))
          /\ Cardinality(1 .. Len(List)) = IF 1 > Len(List) THEN 0 ELSE Len(List) - 1 + 1
      BY <3>1, FS_Interval, Zenon
    <3>. QED BY <2>2, <3>2
  <2>5. Cardinality(DOMAIN List \ Ups) = Len(List) - Cardinality(Ups)
    <3>1. (1 .. Len(List)) \cap Ups = Ups
      BY <2>2, <2>3
    <3>2. Cardinality((1 .. Len(List)) \ Ups)
            = Cardinality(1 .. Len(List)) - Cardinality((1 .. Len(List)) \cap Ups)
      BY <2>4, FS_Difference, Zenon
    <3>. QED BY <2>2, <2>4, <3>1, <3>2
  <2>. QED BY <2>1, <2>5 DEF IInv, Tally, SummaryAgrees
<1>. QED BY <1>1, Invariance, PTL

-----------------------------------------------------------------------------
(***************************************************************************)
(* The resolution collector (Resolution), whose proofs are kept here: its  *)
(* baseline probe shares the technique.                                    *)
(***************************************************************************)
\* A name that was never asked for is never answered from the cache.
ResolutionInv == ResolutionTypeOK /\ reply # "cached"

LEMMA ResolutionInitially == ResolutionInit => ResolutionInv
PROOF
<1>1. 0 \in 0 .. Deadline
  BY ResolutionAssumption DEF ResolutionAssumption
<1>. QED BY <1>1 DEF ResolutionInit, ResolutionInv, ResolutionTypeOK, OK, WARNING, CRITICAL

\* What a probe reports of its result.
LEMMA BaselineResult ==
  ASSUME NEW result \in BOOLEAN, NEW ms \in 0 .. Deadline, Baseline(result, ms)
  PROVE  /\ baseline' \in [up : BOOLEAN, latency : 0 .. Deadline,
                           check : {OK, WARNING, CRITICAL}]
         /\ baseline'.up = result /\ baseline'.latency = ms
         /\ stage' = "external" /\ UNCHANGED <<network, waited, reply, external>>
PROOF
<1>1. Check(result, ms) \in {OK, WARNING, CRITICAL}
  BY DEF Check
<1>. HIDE DEF Check
<1>. QED BY <1>1 DEF Baseline

\* The three ways in which a baseline probe ends.
LEMMA BaselineEnds ==
  ASSUME ResolutionInv, BaselineSendFails \/ BaselineReads \/ BaselineReadFails
  PROVE  /\ ResolutionInv'
         /\ baseline'.up => reply = "resolved"
         /\ stage = "await" /\ ~python => baseline'.latency = waited
PROOF
<1>1. 0 \in 0 .. Deadline /\ waited \in 0 .. Deadline /\ LatencyOfFailure \in 0 .. Deadline
  BY ResolutionAssumption DEF ResolutionAssumption, ResolutionInv, ResolutionTypeOK, LatencyOfFailure
<1>2. PICK result \in BOOLEAN, ms \in 0 .. Deadline :
        /\ Baseline(result, ms)
        /\ result => reply \notin {"none", "servfail"}
        /\ stage = "await" /\ ~python => ms = waited
  <2>1. CASE BaselineSendFails
    BY <1>1, <2>1 DEF BaselineSendFails
  <2>2. CASE BaselineReads
    BY <1>1, <2>2 DEF BaselineReads
  <2>3. CASE BaselineReadFails
    BY <1>1, <2>3 DEF BaselineReadFails, LatencyOfFailure
  <2>. QED BY <2>1, <2>2, <2>3
<1>3. /\ baseline' \in [up : BOOLEAN, latency : 0 .. Deadline,
                        check : {OK, WARNING, CRITICAL}]
      /\ baseline'.up = result /\ baseline'.latency = ms
      /\ stage' = "external" /\ UNCHANGED <<network, waited, reply, external>>
  BY <1>2, BaselineResult
<1>4. ResolutionInv'
  BY <1>3 DEF ResolutionInv, ResolutionTypeOK, network, fixed
<1>5. baseline'.up => reply = "resolved"
  BY <1>2, <1>3 DEF ResolutionInv, ResolutionTypeOK
<1>. QED BY <1>2, <1>3, <1>4, <1>5

LEMMA ResolutionInductive == ResolutionInv /\ [ResolutionNext]_resolutionVars => ResolutionInv'
PROOF
<1>. SUFFICES ASSUME ResolutionInv, [ResolutionNext]_resolutionVars PROVE ResolutionInv'
  OBVIOUS
<1>1. CASE Change
  <2>1. /\ server' \in {"running", "hung", "stopped"} /\ forwarders' \in BOOLEAN /\ cached' \in BOOLEAN
        /\ UNCHANGED <<python, authoritative, stage, waited, reply, baseline, external>>
    BY <1>1 DEF Change, fixed, ResolutionInv, ResolutionTypeOK
  <2>. QED BY <2>1 DEF ResolutionInv, ResolutionTypeOK
<1>2. CASE Serve
  BY <1>2 DEF Serve, FreshName, network, fixed, ResolutionInv, ResolutionTypeOK
<1>3. CASE Wait
  <2>1. waited' \in 0 .. Deadline
    BY <1>3, ResolutionAssumption DEF ResolutionAssumption, Wait, ResolutionInv, ResolutionTypeOK
  <2>. QED BY <1>3, <2>1 DEF Wait, network, fixed, ResolutionInv, ResolutionTypeOK
<1>4. CASE SendBaseline
  <2>1. waited' \in 0 .. Deadline
    BY <1>4, ResolutionAssumption DEF ResolutionAssumption, SendBaseline
  <2>. QED BY <1>4, <2>1 DEF SendBaseline, network, fixed, ResolutionInv, ResolutionTypeOK
<1>5. CASE External
  <2>1. PICK result \in BOOLEAN, ms \in 0 .. Deadline :
          /\ external' = [up |-> result, latency |-> IF python /\ ~result THEN 0 ELSE ms]
          /\ cached' = (cached \/ (result /\ ~python))
    BY <1>5 DEF External
  <2>2. 0 \in 0 .. Deadline
    BY ResolutionAssumption DEF ResolutionAssumption
  <2>3. external' \in [up : BOOLEAN, latency : 0 .. Deadline]
    BY <2>1, <2>2
  <2>4. cached' \in BOOLEAN
    BY <2>1
  <2>. QED BY <1>5, <2>3, <2>4 DEF External, fixed, ResolutionInv, ResolutionTypeOK
<1>6. CASE UNCHANGED resolutionVars
  BY <1>6 DEF resolutionVars, network, fixed, ResolutionInv, ResolutionTypeOK
<1>. QED
  BY <1>1, <1>2, <1>3, <1>4, <1>5, <1>6, BaselineEnds DEF ResolutionNext, ResolutionStep

LEMMA ResolutionInvariance == ResolutionSpec => []ResolutionInv
PROOF BY ResolutionInitially, ResolutionInductive, PTL DEF ResolutionSpec

\* A cycle has its baseline when one of the three ends comes.
LEMMA MeasuredBy ==
  ASSUME [ResolutionNext]_resolutionVars, Measured
  PROVE  BaselineSendFails \/ BaselineReads \/ BaselineReadFails
PROOF
<1>1. stage # "external" /\ stage' = "external"
  BY DEF Measured
<1>. QED
  BY <1>1 DEF ResolutionNext, ResolutionStep, Change, Serve, Wait, SendBaseline,
              External, resolutionVars

(***************************************************************************)
(* Probe and results are well formed; no latency is above the deadline.    *)
(***************************************************************************)
THEOREM ResolutionTypeCorrect == ResolutionSpec => []ResolutionTypeOK
PROOF
<1>1. ResolutionInv => ResolutionTypeOK BY DEF ResolutionInv
<1>. QED BY <1>1, ResolutionInvariance, PTL

(***************************************************************************)
(* The baseline is up only if the server resolved the name just now, never *)
(* on the strength of its cache (resolution.go:42, dns_moniter.py:140),    *)
(* for every deadline and however server and forwarders come and go.       *)
(***************************************************************************)
THEOREM UpIsFresh == ResolutionSpec => UpMeansFreshAnswer
PROOF
<1>1. ResolutionInv /\ [ResolutionNext]_resolutionVars => (Measured /\ baseline'.up => reply = "resolved")
  BY MeasuredBy, BaselineEnds
<1>. QED BY <1>1, ResolutionInvariance, PTL DEF ResolutionSpec, UpMeansFreshAnswer

(***************************************************************************)
(* While the critical threshold is below the deadline, as it is by         *)
(* default, a server that lets the deadline pass looks slower than every   *)
(* threshold to the Go collector (resolution.go:72-77).                    *)
(***************************************************************************)
THEOREM SilenceLooksSlow ==
  ASSUME Crit < Deadline
  PROVE  ResolutionSpec => SilentLooksSlow
PROOF
<1>1. ResolutionInv /\ [ResolutionNext]_resolutionVars => (Measured /\ ~python => LooksSlow)
  <2>. SUFFICES ASSUME ResolutionInv, [ResolutionNext]_resolutionVars, Measured, ~python,
                       stage = "await", waited = Deadline
       PROVE  baseline'.latency > Crit
    BY DEF LooksSlow
  <2>1. baseline'.latency = Deadline
    BY MeasuredBy, BaselineEnds
  <2>2. Deadline \in Nat
    BY ResolutionAssumption DEF ResolutionAssumption
  <2>. QED BY <2>1, <2>2
<1>. QED BY <1>1, ResolutionInvariance, PTL DEF ResolutionSpec, SilentLooksSlow

=============================================================================
