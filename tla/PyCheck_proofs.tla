---------------------------- MODULE PyCheck_proofs ----------------------------
(***************************************************************************)
(* The invariants of the Python check, for any number of counters,         *)
(* forwarders, domains, zones and calls.  Each needs to know what the      *)
(* collectors before the one that runs have left behind.                   *)
(***************************************************************************)
EXTENDS PyCheck, SequenceTheorems, TLAPS

Early == {"detect", "service"}
Middle == {"perfmon", "statistics", "forwarders"}

\* Where the process collector has not run in this call.
BeforeProcess == Early \cup Middle \cup {"resolution", "zones", "process", "raised"}

\* What the collectors that gave up may have submitted without counting it.
Uncounted(S) ==
  (IF "process" \in S THEN 6 ELSE 0) + (IF "events" \in S THEN 3 ELSE 0)
    + (IF "scavenging" \in S THEN 1 ELSE 0)

Gap ==
  /\ count <= submitted /\ submitted <= count + Uncounted(cutShort)
  /\ submitted = count <=> cutShort = {}

\* A collector gives up at most once.
InOrder ==
  /\ stage \in BeforeProcess => cutShort = {}
  /\ stage \in BeforeProcess \cup {"events"} => "events" \notin cutShort
  /\ stage # "monitor" /\ stage # "done" => "scavenging" \notin cutShort

CountInv ==
  /\ InOrder
  /\ stage # "done" => Gap /\ reported = NotReported
  /\ stage = "done" => /\ reported = count + 2 /\ reported + 1 <= submitted
                       /\ submitted <= reported + 1 + Uncounted(cutShort)
                       /\ submitted = reported + 1 <=> cutShort = {}

ServiceFirst == checks # <<>> /\ checks[1] = "service" /\ \A i \in 2 .. Len(checks) : checks[i] = "resolution"

ChecksInv ==
  /\ stage \in Early \cup {"raised"} => checks = <<>> /\ submitted = 0
  /\ stage \notin Early \cup {"raised"} => ServiceFirst
  /\ stage \in Early \cup Middle => resolved = 0
  /\ stage \in Middle => Len(checks) = 1
  /\ stage = "resolution" => Len(checks) = 1 + resolved /\ resolved < domains
  /\ stage \notin Early \cup Middle \cup {"raised", "resolution"} => Len(checks) = 1 + domains

LeaksInv ==
  queries + withCpu <= IF stage \in BeforeProcess THEN calls ELSE calls + 1

-----------------------------------------------------------------------------
LEMMA TypeInit == Init => TypeOK
PROOF BY EmptySeq, CheckAssumption DEF Init, TypeOK, CheckAssumption, FirstStage, Stages, NotReported

\* A collector submits some metrics and counts all but a few of them.
Gives(few) ==
  \E n \in Nat, u \in 0 .. few :
    /\ submitted' = submitted + (n + u)
    /\ count' = count + n
    /\ cutShort' = IF u > 0 THEN cutShort \cup {stage} ELSE cutShort

\* The check waits for an answer or a timeout.
Waiting == Hang \/ Stick \/ Expire \/ UNCHANGED vars

LEMMA WaitStep ==
  ASSUME TypeOK, Waiting
  PROVE  UNCHANGED check /\ outside' \in {"answers", "hangs", "expired", "stuck"}
PROOF BY DEF TypeOK, Waiting, Hang, Stick, Expire, vars

(***************************************************************************)
(* What is counted is submitted, and nobody gave up.                       *)
(***************************************************************************)
LEMMA CountedGives == ASSUME NEW n \in Nat, Counted(n) PROVE Gives(0)
PROOF
<1>1. submitted' = submitted + (n + 0) /\ count' = count + n /\ cutShort' = cutShort
  BY DEF Counted, Submit
<1>. QED BY <1>1 DEF Gives

(***************************************************************************)
(* The collectors that never give up half-way.                             *)
(***************************************************************************)
LEMMA WholeCollectors ==
  ASSUME TypeOK
  PROVE  /\ (CollectService => Gives(0)) /\ (CollectPerfmon => Gives(0))
         /\ (CollectStatistics => Gives(0)) /\ (CollectForwarders => Gives(0))
         /\ (CollectResolution => Gives(0)) /\ (CollectZones => Gives(0))
PROOF
<1>0. Counters \in Nat /\ MaxZones \in Nat /\ forwarders \in Nat
  BY CheckAssumption DEF CheckAssumption, TypeOK
<1>1. CollectService => Gives(0)
  BY CountedGives DEF CollectService
<1>2. CollectPerfmon => Gives(0)
  BY <1>0, CountedGives DEF CollectPerfmon, OnTimeout
<1>3. CollectStatistics => Gives(0)
  BY CountedGives DEF CollectStatistics, StatisticsLines, OnTimeout
<1>4. CollectForwarders => Gives(0)
  <2>1. \A anyUp \in BOOLEAN : ForwarderLines(anyUp) \in Nat
    BY <1>0 DEF ForwarderLines
  <2>. QED BY <2>1, CountedGives DEF CollectForwarders
<1>5. CollectResolution => Gives(0)
  BY CountedGives DEF CollectResolution
<1>6. CollectZones => Gives(0)
  <2>1. \A n \in 0 .. MaxZones : 8 + 3 * n \in Nat
    BY <1>0
  <2>. QED BY <1>0, <2>1, CountedGives DEF CollectZones, OnTimeout
<1>. QED BY <1>1, <1>2, <1>3, <1>4, <1>5, <1>6

(***************************************************************************)
(* The collectors that may: six values of a process, three of the event    *)
(* log, one of the scavenging.                                             *)
(***************************************************************************)
LEMMA WithoutLoss == ASSUME NEW few \in Nat, Gives(0) PROVE Gives(few)
PROOF BY DEF Gives

LEMMA ProcessGives == CollectProcess => Gives(6)
PROOF
<1>. SUFFICES ASSUME CollectProcess PROVE Gives(6)
  OBVIOUS
<1>1. PICK cpu \in 0 .. 1 :
        \/ \E n \in {0, ProcessValues, ProcessValues + 1} : Counted(n + cpu)
        \/ \E n \in 1 .. ProcessValues - 1 :
             /\ Submit(n + cpu)
             /\ count' = count + cpu
             /\ cutShort' = cutShort \cup {stage}
  BY DEF CollectProcess, OnTimeout
<1>2. ASSUME NEW n \in {0, ProcessValues, ProcessValues + 1}, Counted(n + cpu) PROVE Gives(6)
  <2>1. n + cpu \in Nat BY DEF ProcessValues
  <2>. QED BY <1>2, <2>1, CountedGives, WithoutLoss
<1>3. ASSUME NEW n \in 1 .. ProcessValues - 1, Submit(n + cpu), count' = count + cpu,
             cutShort' = cutShort \cup {stage}
      PROVE  Gives(6)
  <2>1. n \in 0 .. 6 /\ n > 0 /\ cpu \in Nat /\ n + cpu = cpu + n BY DEF ProcessValues
  <2>2. submitted' = submitted + (cpu + n) BY <1>3, <2>1 DEF Submit
  <2>. QED BY <1>3, <2>1, <2>2 DEF Gives
<1>. QED BY <1>1, <1>2, <1>3

LEMMA EventsGive == TypeOK /\ CollectEvents => Gives(3)
PROOF
<1>. SUFFICES ASSUME TypeOK, CollectEvents PROVE Gives(3)
  OBVIOUS
<1>1. (\E n \in {0, 2, 5} : Counted(n)) \/ (\E n \in 0 .. 3 : CutShort(n))
  BY DEF CollectEvents, OnTimeout
<1>2. ASSUME NEW n \in {0, 2, 5}, Counted(n) PROVE Gives(3)
  BY <1>2, CountedGives, WithoutLoss
<1>3. ASSUME NEW n \in 0 .. 3, CutShort(n) PROVE Gives(3)
  <2>1. submitted' = submitted + (0 + n) BY <1>3 DEF CutShort, Submit
  <2>2. count' = count + 0 BY <1>3 DEF CutShort, TypeOK
  <2>. QED BY <1>3, <2>1, <2>2 DEF Gives, CutShort
<1>. QED BY <1>1, <1>2, <1>3

LEMMA ScavengingGives == CollectScavenging => Gives(1)
PROOF
<1>. SUFFICES ASSUME CollectScavenging PROVE Gives(1)
  OBVIOUS
<1>1. \/ \E n \in {0, 2} : Counted(n + 1)
      \/ Submit(1 + 1) /\ count' = count + 1 /\ cutShort' = cutShort \cup {stage}
  BY DEF CollectScavenging, OnTimeout
<1>2. ASSUME NEW n \in {0, 2}, Counted(n + 1) PROVE Gives(1)
  BY <1>2, CountedGives, WithoutLoss
<1>3. ASSUME Submit(1 + 1), count' = count + 1, cutShort' = cutShort \cup {stage} PROVE Gives(1)
  BY <1>3 DEF Gives, Submit
<1>. QED BY <1>1, <1>2, <1>3

-----------------------------------------------------------------------------
LEMMA GivesType ==
  ASSUME TypeOK, NEW few \in Nat, Gives(few)
  PROVE  submitted' \in Nat /\ count' \in Nat /\ cutShort' \subseteq cutShort \cup {stage}
PROOF
<1>1. PICK n \in Nat, u \in 0 .. few :
        /\ submitted' = submitted + (n + u) /\ count' = count + n
        /\ cutShort' = IF u > 0 THEN cutShort \cup {stage} ELSE cutShort
  BY DEF Gives
<1>2. submitted \in Nat /\ count \in Nat
  BY DEF TypeOK
<1>3. submitted' \in Nat
  BY <1>1, <1>2
<1>4. count' \in Nat
  BY <1>1, <1>2
<1>. QED BY <1>1, <1>3, <1>4

LEMMA WholeType ==
  ASSUME TypeOK, \/ CollectService \/ CollectPerfmon \/ CollectStatistics
                 \/ CollectForwarders \/ CollectResolution \/ CollectZones
  PROVE  submitted' \in Nat /\ count' \in Nat /\ cutShort' = cutShort
PROOF
<1>1. Gives(0)
  BY WholeCollectors
<1>2. cutShort' = cutShort
  BY <1>1 DEF Gives
<1>. QED BY <1>1, <1>2, GivesType

LEMMA PdhType == TypeOK /\ CollectProcess => withCpu' \in Nat /\ queries' \in Nat
PROOF
<1>. SUFFICES ASSUME TypeOK, CollectProcess PROVE withCpu' \in Nat /\ queries' \in Nat
  OBVIOUS
<1>1. withCpu \in Nat /\ queries \in Nat
  BY DEF TypeOK
<1>2. PICK cpu \in 0 .. 1 : Pdh(cpu)
  BY DEF CollectProcess
<1>3. withCpu' = withCpu + cpu /\ queries' \in {queries, queries + 1}
  BY <1>2 DEF Pdh
<1>. QED BY <1>1, <1>3

LEMMA TypeStep == TypeOK /\ ChecksInv /\ [Next]_vars => TypeOK'
PROOF
<1>. SUFFICES ASSUME TypeOK, ChecksInv, [Next]_vars PROVE TypeOK'
  OBVIOUS
<1>0. ASSUME \/ CollectService \/ CollectPerfmon \/ CollectStatistics
             \/ CollectForwarders \/ CollectResolution \/ CollectZones
      PROVE  submitted' \in Nat /\ count' \in Nat /\ cutShort' = cutShort
  BY <1>0, WholeType
<1>. USE CheckAssumption DEF TypeOK, CheckAssumption, Stages, config, pdh
<1>1. CASE DetectForwarders
  BY <1>1 DEF DetectForwarders, Collector, OnTimeout
<1>2. CASE CollectService
  <2>1. checks' \in Seq({"service", "resolution"})
    BY <1>2 DEF CollectService
  <2>. QED BY <1>0, <1>2, <2>1 DEF CollectService, Collector
<1>3. CASE ServiceRaises
  BY <1>3 DEF ServiceRaises, Collector
<1>4. CASE CollectPerfmon
  BY <1>0, <1>4 DEF CollectPerfmon, Collector
<1>5. CASE CollectStatistics
  BY <1>0, <1>5 DEF CollectStatistics, Collector
<1>6. CASE CollectForwarders
  BY <1>0, <1>6 DEF CollectForwarders, Collector
<1>7. CASE CollectResolution
  <2>1. checks' \in Seq({"service", "resolution"})
    BY <1>7 DEF CollectResolution
  <2>2. resolved' \in 0 .. domains
    BY <1>7 DEF CollectResolution, Collector, ChecksInv
  <2>. QED BY <1>0, <1>7, <2>1, <2>2 DEF CollectResolution, Collector
<1>8. CASE CollectZones
  BY <1>0, <1>8 DEF CollectZones, Collector
<1>9. CASE CollectProcess
  <2>1. withCpu' \in Nat /\ queries' \in Nat
    BY <1>9, PdhType
  <2>2. submitted' \in Nat /\ count' \in Nat /\ cutShort' \subseteq cutShort \cup {stage}
    BY <1>9, ProcessGives, GivesType
  <2>. QED BY <1>9, <2>1, <2>2 DEF CollectProcess, Collector
<1>10. CASE CollectEvents
  <2>1. submitted' \in Nat /\ count' \in Nat /\ cutShort' \subseteq cutShort \cup {stage}
    BY <1>10, EventsGive, GivesType
  <2>. QED BY <1>10, <2>1 DEF CollectEvents, Collector
<1>11. CASE CollectScavenging
  <2>1. submitted' \in Nat /\ count' \in Nat /\ cutShort' \subseteq cutShort \cup {stage}
    BY <1>11, ScavengingGives, GivesType
  <2>. QED BY <1>11, <2>1 DEF CollectScavenging, Collector
<1>12. CASE SelfMonitor
  <2>1. submitted' \in Nat /\ reported' \in Nat /\ stage' \in Stages
    BY <1>12 DEF SelfMonitor, Submit
  <2>2. UNCHANGED <<config, resolved, count, checks, cutShort, calls, pdh, outside>>
    BY <1>12 DEF SelfMonitor
  <2>. QED BY <2>1, <2>2
<1>13. CASE NextCall
  BY <1>13, EmptySeq DEF NextCall, FirstStage, NotReported
<1>14. CASE Waiting
  BY <1>14, WaitStep DEF check
<1>. QED
  BY <1>1, <1>2, <1>3, <1>4, <1>5, <1>6, <1>7, <1>8, <1>9, <1>10, <1>11, <1>12, <1>13, <1>14
  DEF Next, CheckStep, Rest, Waiting

-----------------------------------------------------------------------------
(***************************************************************************)
(* A collector widens the gap by no more than it may lose, and opens it    *)
(* exactly when it gives up.                                               *)
(***************************************************************************)
LEMMA GapGrows ==
  ASSUME TypeOK, Gap, NEW few \in Nat, Gives(few), stage \notin cutShort,
         \/ few = 0
         \/ stage = "process" /\ few = 6
         \/ stage = "events" /\ few = 3
         \/ stage = "scavenging" /\ few = 1
  PROVE  Gap'
PROOF
<1>1. PICK n \in Nat, u \in 0 .. few :
        /\ submitted' = submitted + (n + u) /\ count' = count + n
        /\ cutShort' = IF u > 0 THEN cutShort \cup {stage} ELSE cutShort
  BY DEF Gives
<1>2. submitted \in Nat /\ count \in Nat
  BY DEF TypeOK
<1>3. CASE u = 0
  BY <1>1, <1>2, <1>3 DEF Gap, Uncounted
<1>4. CASE u > 0
  <2>1. cutShort' = cutShort \cup {stage}
    BY <1>1, <1>4
  <2>2. Uncounted(cutShort') = Uncounted(cutShort) + few
    BY <1>4, <2>1 DEF Uncounted
  <2>3. Uncounted(cutShort) \in Nat
    BY DEF Uncounted
  <2>4. cutShort' # {}
    BY <2>1
  <2>5. count' <= submitted' /\ submitted' # count'
    BY <1>1, <1>2, <1>4 DEF Gap
  <2>6. submitted' <= count' + Uncounted(cutShort')
    BY <1>1, <1>2, <2>2, <2>3 DEF Gap
  <2>. QED BY <2>4, <2>5, <2>6 DEF Gap
<1>. QED BY <1>3, <1>4

LEMMA CountInit == Init => CountInv
PROOF
<1>. SUFFICES ASSUME Init PROVE CountInv
  OBVIOUS
<1>1. stage \in BeforeProcess /\ stage # "done" /\ cutShort = {} /\ Gap
  BY CheckAssumption DEF Init, FirstStage, BeforeProcess, Early, Gap, Uncounted
<1>. QED BY <1>1 DEF Init, CountInv, InOrder, BeforeProcess, Early, Middle

\* The collectors that count everything they submit.
Whole ==
  \/ CollectService \/ CollectPerfmon \/ CollectStatistics \/ CollectForwarders
  \/ CollectResolution \/ CollectZones

LEMMA CountStep == TypeOK /\ CountInv /\ [Next]_vars => CountInv'
PROOF
<1>. SUFFICES ASSUME TypeOK, CountInv, [Next]_vars PROVE CountInv'
  OBVIOUS
<1>1. CASE Whole
  <2>1. /\ stage \in BeforeProcess \ {"process", "raised"} /\ stage' \in BeforeProcess
        /\ reported' = reported
    BY <1>1 DEF Whole, CollectService, CollectPerfmon, CollectStatistics, CollectForwarders,
         CollectResolution, CollectZones, Collector, BeforeProcess, Early, Middle
  <2>2. Gives(0)
    BY <1>1, WholeCollectors DEF Whole
  <2>3. cutShort = {} /\ Gap /\ reported = NotReported
    BY <2>1 DEF CountInv, InOrder, BeforeProcess, Early, Middle
  <2>4. cutShort' = {}
    BY <2>2, <2>3 DEF Gives
  <2>5. Gap'
    BY <2>2, <2>3, GapGrows
  <2>. QED BY <2>1, <2>3, <2>4, <2>5 DEF CountInv, InOrder, BeforeProcess, Early, Middle
<1>2. CASE DetectForwarders \/ ServiceRaises
  BY <1>2 DEF DetectForwarders, ServiceRaises, Collector, CountInv, InOrder, Gap, BeforeProcess, Early, Middle
<1>3. CASE CollectProcess
  <2>1. stage = "process" /\ stage' = "events" /\ reported' = reported
    BY <1>3 DEF CollectProcess, Collector
  <2>2. cutShort = {} /\ Gap /\ reported = NotReported
    BY <2>1 DEF CountInv, InOrder, BeforeProcess
  <2>3. Gives(6)
    BY <1>3, ProcessGives
  <2>4. Gap'
    BY <2>1, <2>2, <2>3, GapGrows
  <2>5. cutShort' \subseteq {"process"}
    BY <2>1, <2>2, <2>3 DEF Gives
  <2>. QED BY <2>1, <2>2, <2>4, <2>5 DEF CountInv, InOrder, BeforeProcess, Early, Middle
<1>4. CASE CollectEvents
  <2>1. stage = "events" /\ stage' = "scavenging" /\ reported' = reported
    BY <1>4 DEF CollectEvents, Collector
  <2>2. "events" \notin cutShort /\ "scavenging" \notin cutShort /\ Gap /\ reported = NotReported
    BY <2>1 DEF CountInv, InOrder
  <2>3. Gives(3)
    BY <1>4, EventsGive
  <2>4. Gap'
    BY <2>1, <2>2, <2>3, GapGrows
  <2>5. "scavenging" \notin cutShort'
    BY <2>1, <2>2, <2>3 DEF Gives
  <2>. QED BY <2>1, <2>2, <2>4, <2>5 DEF CountInv, InOrder, BeforeProcess, Early, Middle
<1>5. CASE CollectScavenging
  <2>1. stage = "scavenging" /\ stage' = "monitor" /\ reported' = reported
    BY <1>5 DEF CollectScavenging, Collector
  <2>2. "scavenging" \notin cutShort /\ Gap /\ reported = NotReported
    BY <2>1 DEF CountInv, InOrder
  <2>3. Gap'
    BY <1>5, <2>1, <2>2, ScavengingGives, GapGrows
  <2>. QED BY <2>1, <2>2, <2>3 DEF CountInv, InOrder, BeforeProcess, Early, Middle
<1>6. CASE SelfMonitor
  <2>1. /\ stage = "monitor" /\ stage' = "done" /\ reported' = count + 2
        /\ submitted' = submitted + 3 /\ count' = count /\ cutShort' = cutShort
    BY <1>6 DEF SelfMonitor, Submit
  <2>2. Gap /\ submitted \in Nat /\ count \in Nat /\ Uncounted(cutShort) \in Nat
    BY <2>1 DEF CountInv, TypeOK, Uncounted
  <2>3. /\ reported' + 1 <= submitted'
        /\ submitted' <= reported' + 1 + Uncounted(cutShort')
        /\ submitted' = reported' + 1 <=> cutShort' = {}
    BY <2>1, <2>2 DEF Gap
  <2>. QED BY <2>1, <2>3 DEF CountInv, InOrder, BeforeProcess, Early, Middle
<1>7. CASE NextCall
  <2>1. stage' \in Early /\ cutShort' = {} /\ reported' = NotReported /\ submitted' = 0 /\ count' = 0
    BY <1>7, CheckAssumption DEF NextCall, FirstStage, Early
  <2>2. Gap'
    BY <2>1 DEF Gap, Uncounted
  <2>. QED BY <2>1, <2>2 DEF CountInv, InOrder, BeforeProcess, Early, Middle
<1>8. CASE Waiting
  BY <1>8, WaitStep DEF check, CountInv, InOrder, Gap
<1>. QED BY <1>1, <1>2, <1>3, <1>4, <1>5, <1>6, <1>7, <1>8 DEF Next, CheckStep, Rest, Waiting, Whole

-----------------------------------------------------------------------------
LEMMA ChecksInit == Init => ChecksInv
PROOF BY CheckAssumption DEF Init, ChecksInv, FirstStage, Early, Middle

(***************************************************************************)
(* One more service check of a domain leaves the first where it is.        *)
(***************************************************************************)
LEMMA OneMoreDomain ==
  ASSUME TypeOK, ServiceFirst, checks' = Append(checks, "resolution")
  PROVE  ServiceFirst' /\ Len(checks') = Len(checks) + 1
PROOF
<1>1. Len(checks') = Len(checks) + 1 /\ Len(checks) \in Nat /\ Len(checks) # 0
  BY EmptySeq DEF TypeOK, ServiceFirst
<1>2. \A i \in 1 .. Len(checks) : checks'[i] = checks[i]
  BY DEF TypeOK
<1>3. checks'[Len(checks) + 1] = "resolution"
  BY DEF TypeOK
<1>. QED BY <1>1, <1>2, <1>3 DEF ServiceFirst

LEMMA ChecksStep == TypeOK /\ ChecksInv /\ [Next]_vars => ChecksInv'
PROOF
<1>. SUFFICES ASSUME TypeOK, ChecksInv, [Next]_vars PROVE ChecksInv'
  OBVIOUS
<1>. USE DEF Collector, Early, Middle, config, pdh
<1>1. CASE DetectForwarders \/ ServiceRaises
  BY <1>1 DEF DetectForwarders, ServiceRaises, ChecksInv
<1>2. CASE CollectService
  <2>1. checks' = Append(<<>>, "service") /\ resolved' = 0 /\ stage' = "perfmon"
    BY <1>2 DEF CollectService, ChecksInv
  <2>2. checks' = <<"service">>
    BY <2>1
  <2>3. Len(checks') = 1 /\ checks'[1] = "service" /\ checks' # <<>>
    BY <2>2
  <2>. QED BY <2>1, <2>3 DEF ChecksInv, ServiceFirst
<1>3. CASE CollectPerfmon \/ CollectStatistics
  BY <1>3 DEF CollectPerfmon, CollectStatistics, ChecksInv, ServiceFirst
<1>4. CASE CollectForwarders
  <2>1. domains \in Nat /\ domains # 0
    BY DEF TypeOK
  <2>. QED BY <1>4, <2>1 DEF CollectForwarders, ChecksInv, ServiceFirst
<1>5. CASE CollectResolution
  <2>1. /\ stage = "resolution" /\ checks' = Append(checks, "resolution")
        /\ resolved' = resolved + 1 /\ domains' = domains
        /\ stage' = IF resolved + 1 = domains THEN "zones" ELSE "resolution"
    BY <1>5 DEF CollectResolution
  <2>2. ServiceFirst' /\ Len(checks') = 1 + resolved + 1 /\ resolved < domains
    BY <2>1, OneMoreDomain DEF ChecksInv, TypeOK
  <2>3. resolved \in Nat /\ domains \in Nat
    BY DEF TypeOK
  <2>. QED BY <2>1, <2>2, <2>3 DEF ChecksInv
<1>6. CASE CollectZones \/ CollectProcess \/ CollectEvents \/ CollectScavenging \/ SelfMonitor
  BY <1>6 DEF CollectZones, CollectProcess, CollectEvents, CollectScavenging, SelfMonitor,
       ChecksInv, ServiceFirst
<1>7. CASE NextCall
  BY <1>7 DEF NextCall, FirstStage, ChecksInv
<1>8. CASE Waiting
  BY <1>8, WaitStep DEF check, ChecksInv, ServiceFirst
<1>. QED BY <1>1, <1>2, <1>3, <1>4, <1>5, <1>6, <1>7, <1>8 DEF Next, CheckStep, Rest, Waiting

-----------------------------------------------------------------------------
LEMMA LeaksInit == Init => LeaksInv
PROOF BY CheckAssumption DEF Init, LeaksInv, FirstStage, BeforeProcess, Early

(***************************************************************************)
(* A call opens a query or has a value, not both, and only the process     *)
(* collector does either.                                                  *)
(***************************************************************************)
LEMMA LeaksStep == TypeOK /\ LeaksInv /\ [Next]_vars => LeaksInv'
PROOF
<1>. SUFFICES ASSUME TypeOK, LeaksInv, [Next]_vars PROVE LeaksInv'
  OBVIOUS
<1>0. calls \in Nat /\ withCpu \in Nat /\ queries \in Nat
  BY DEF TypeOK
<1>. USE DEF Collector, Early, Middle, BeforeProcess, pdh, LeaksInv
<1>1. CASE Whole \/ DetectForwarders \/ ServiceRaises
  BY <1>1 DEF Whole, CollectService, CollectPerfmon, CollectStatistics, CollectForwarders,
       CollectResolution, CollectZones, DetectForwarders, ServiceRaises
<1>2. CASE CollectProcess
  <2>1. PICK cpu \in 0 .. 1 : Pdh(cpu)
    BY <1>2 DEF CollectProcess
  <2>2. stage = "process" /\ stage' = "events" /\ calls' = calls
    BY <1>2 DEF CollectProcess
  <2>3. \/ queries' = queries /\ withCpu' \in {withCpu, withCpu + 1}
        \/ queries' = queries + 1 /\ withCpu' = withCpu
    <3>1. CASE cpu = 0
      BY <1>0, <2>1, <3>1 DEF Pdh
    <3>2. CASE cpu = 1
      BY <1>0, <2>1, <3>2 DEF Pdh
    <3>. QED BY <3>1, <3>2
  <2>4. queries + withCpu <= calls
    BY <2>2
  <2>5. queries' + withCpu' <= calls' + 1
    BY <1>0, <2>2, <2>3, <2>4
  <2>. QED BY <2>2, <2>5
<1>3. CASE CollectEvents \/ CollectScavenging \/ SelfMonitor
  BY <1>3 DEF CollectEvents, CollectScavenging, SelfMonitor
<1>4. CASE NextCall
  <2>1. stage' \in Early /\ calls' = calls + 1 /\ withCpu' = withCpu /\ queries' = queries
    BY <1>4 DEF NextCall, FirstStage
  <2>. QED BY <1>0, <2>1
<1>5. CASE Waiting
  BY <1>5, WaitStep DEF check
<1>. QED BY <1>1, <1>2, <1>3, <1>4, <1>5 DEF Next, CheckStep, Rest, Waiting, Whole

-----------------------------------------------------------------------------
IInv == TypeOK /\ CountInv /\ ChecksInv /\ LeaksInv

LEMMA Invariance == Spec => []IInv
PROOF
<1>1. Init => IInv
  BY TypeInit, CountInit, ChecksInit, LeaksInit DEF IInv
<1>2. IInv /\ [Next]_vars => IInv'
  BY TypeStep, CountStep, ChecksStep, LeaksStep DEF IInv
<1>. QED BY <1>1, <1>2, PTL DEF Spec

(***************************************************************************)
(* The state of the check is well formed in every call.                    *)
(***************************************************************************)
THEOREM TypeCorrect == Spec => []TypeOK
PROOF
<1>1. IInv => TypeOK BY DEF IInv
<1>. QED BY <1>1, Invariance, PTL

(***************************************************************************)
(* metrics_emitted of a full cycle falls short by integration_version and  *)
(* what the collectors that gave up have left uncounted, ten metrics at    *)
(* most, for any number of counters, forwarders, domains and zones.        *)
(***************************************************************************)
THEOREM GapExplained == Spec => []CountGapExplained
PROOF
<1>1. IInv => CountGapExplained
  <2>. SUFFICES ASSUME IInv, stage = "done" PROVE CountGapExplained
    BY DEF CountGapExplained
  <2>1. Uncounted(cutShort) \in 0 .. 10
    BY DEF Uncounted
  <2>2. submitted \in Nat /\ reported \in Nat
    BY DEF IInv, TypeOK
  <2>. QED BY <2>1, <2>2 DEF IInv, CountInv, CountGapExplained
<1>. QED BY <1>1, Invariance, PTL

(***************************************************************************)
(* A call that raises has submitted nothing.                               *)
(***************************************************************************)
THEOREM SilentRaise == Spec => []RaisedIsSilent
PROOF
<1>1. IInv => RaisedIsSilent
  BY DEF IInv, ChecksInv, CountInv, RaisedIsSilent
<1>. QED BY <1>1, Invariance, PTL

(***************************************************************************)
(* Each full cycle gives the service check of the DNS service and one for  *)
(* each domain, in this order and no other, however many domains.          *)
(***************************************************************************)
THEOREM OneCheckEach == Spec => []EveryServiceCheckOnce
PROOF
<1>1. IInv => EveryServiceCheckOnce
  <2>. SUFFICES ASSUME IInv, stage = "done" PROVE EveryServiceCheckOnce
    BY DEF EveryServiceCheckOnce
  <2>1. ServiceFirst /\ Len(checks) = 1 + domains /\ checks \in Seq({"service", "resolution"})
    BY DEF IInv, ChecksInv, TypeOK, Early, Middle
  <2>2. Head(checks) = checks[1] /\ DOMAIN checks = 1 .. Len(checks) /\ Len(checks) \in Nat
    BY <2>1 DEF ServiceFirst
  <2>3. \A i \in DOMAIN checks : i > 1 => checks[i] = "resolution"
    BY <2>1, <2>2 DEF ServiceFirst
  <2>. QED BY <2>1, <2>2, <2>3 DEF EveryServiceCheckOnce, ServiceFirst
<1>. QED BY <1>1, Invariance, PTL

(***************************************************************************)
(* The PDH queries left open are never more than the calls without a       *)
(* cpu_pct, for any number of calls.                                       *)
(***************************************************************************)
THEOREM LeaksVisible == Spec => []LeaksShow
PROOF
<1>1. IInv => LeaksShow
  BY DEF IInv, LeaksInv, LeaksShow, TypeOK
<1>. QED BY <1>1, Invariance, PTL

=============================================================================
