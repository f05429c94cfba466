------------------------- MODULE MonitorCycle_proofs -------------------------
(***************************************************************************)
(* Proofs about the check call with its binary (MonitorCycle), for every   *)
(* packet size, every output of the collectors and any number of calls.    *)
(***************************************************************************)
EXTENDS MonitorCycle, SequenceTheorems, FiniteSetTheorems, TLAPS

\* The lemmas about Flush, for the lines of the cycle.
CP == INSTANCE StatsdClient_proofs WITH Batches <- {}

\* The second report behind the first.
LEMMA AppendedPair ==
  ASSUME NEW S, NEW p \in S, NEW q \in S
  PROVE  Append(<<p>>, q) = <<p, q>>
<1>1. <<p>> \in Seq(S) /\ <<p, q>> \in Seq(S) /\ Len(<<p>>) = 1 /\ Len(<<p, q>>) = 2
  OBVIOUS
<1>2. /\ Append(<<p>>, q) \in Seq(S) /\ Len(Append(<<p>>, q)) = 2
      /\ Append(<<p>>, q)[1] = p /\ Append(<<p>>, q)[2] = q
  BY <1>1, AppendProperties
<1>3. \A i \in 1 .. 2 : Append(<<p>>, q)[i] = <<p, q>>[i]
  <2>1. \A i \in 1 .. 2 : i = 1 \/ i = 2
    OBVIOUS
  <2> QED
    BY <1>2, <2>1
<1> QED
  BY <1>1, <1>2, <1>3, SeqEqual

\* The reports of a call that has ended.
Reported ==
  \/ checks = <<Present("critical")>>
  \/ \E status \in {"ok", "critical"} : checks = <<Present("ok"), Collection(status)>>

(***************************************************************************)
(* Between the two reports of a call the wrapper has reported exactly that *)
(* the binary is present, so the report that ends the call is the second.  *)
(***************************************************************************)
VerdictInv ==
  /\ wrapper # "idle" => checks = <<Present("ok")>>
  /\ wrapper = "idle" /\ calls > 0 => Reported

LEMMA VerdictInvInit == Init => VerdictInv
BY DEF Init, VerdictInv

\* Whatever ends a call adds its verdict to the report of the presence.
LEMMA EndCallChecks ==
  ASSUME VerdictInv, wrapper # "idle",
         NEW status \in {"ok", "critical"}, EndCall(status)
  PROVE  checks' = <<Present("ok"), Collection(status)>>
<1> DEFINE S == {Present("ok"), Collection(status)}
<1>1. Append(<<Present("ok")>>, Collection(status)) = <<Present("ok"), Collection(status)>>
  <2>1. Present("ok") \in S /\ Collection(status) \in S
    OBVIOUS
  <2> HIDE DEF S
  <2> QED
    BY <2>1, AppendedPair
<1> QED
  BY <1>1 DEF EndCall, VerdictInv

LEMMA EndCallReports ==
  ASSUME VerdictInv, wrapper # "idle",
         NEW status \in {"ok", "critical"}, EndCall(status)
  PROVE  VerdictInv'
<1>1. Reported'
  BY EndCallChecks DEF Reported
<1> QED
  BY <1>1 DEF EndCall, VerdictInv

\* Steps that leave the wrapper's variables alone.
LEMMA QuietStep ==
  ASSUME VerdictInv, UNCHANGED wrapperVars
  PROVE  VerdictInv'
BY DEF VerdictInv, Reported, wrapperVars

LEMMA WrapperStepVerdict ==
  ASSUME VerdictInv, WrapperStep
  PROVE  VerdictInv'
<1>1. CASE Spawn
  BY <1>1 DEF Spawn, VerdictInv
<1>2. CASE SpawnFails
  BY <1>2, EndCallReports DEF SpawnFails
<1>3. CASE WaitEnds
  <2>1. PICK status \in {"ok", "critical"} : EndCall(status)
    BY <1>3 DEF WaitEnds
  <2> QED
    BY <1>3, <2>1, EndCallReports DEF WaitEnds
<1>4. CASE Expire
  BY <1>4 DEF Expire, VerdictInv
<1>5. CASE Kill
  BY <1>5 DEF Kill, VerdictInv
<1>6. CASE ReportTimeout
  BY <1>6, EndCallReports DEF ReportTimeout
<1> QED
  BY <1>1, <1>2, <1>3, <1>4, <1>5, <1>6 DEF WrapperStep

LEMMA BinaryStepVerdict ==
  ASSUME VerdictInv, BinaryStep
  PROVE  VerdictInv'
<1>1. UNCHANGED wrapperVars
  BY DEF BinaryStep, LoadConfig, Connect, Detect, Collect, SelfMonitor, Flush,
         Finish, Crash, wrapperVars
<1> QED
  BY <1>1, QuietStep

LEMMA VerdictInvStep == VerdictInv /\ [Next]_vars => VerdictInv'
<1> SUFFICES ASSUME VerdictInv, [Next]_vars PROVE VerdictInv'
  OBVIOUS
<1>1. CASE Deploy
  BY <1>1, QuietStep DEF Deploy
<1>2. CASE CheckMissing
  <2>1. checks' = <<Present("critical")>> /\ wrapper' = "idle"
    BY <1>2 DEF CheckMissing, BeginCall
  <2> QED
    BY <2>1 DEF VerdictInv, Reported
<1>3. CASE CheckPresent
  BY <1>3 DEF CheckPresent, VerdictInv
<1>4. CASE WrapperStep
  BY <1>4, WrapperStepVerdict
<1>5. CASE BinaryStep
  BY <1>5, BinaryStepVerdict
<1>6. CASE UNCHANGED vars
  BY <1>6, QuietStep DEF vars
<1> QED
  BY <1>1, <1>2, <1>3, <1>4, <1>5, <1>6 DEF Next

(***************************************************************************)
(* Each call that has ended reported binary_present once, and collection   *)
(* once if and only if the binary was there (dns_monitor.py:36-74).        *)
(***************************************************************************)
THEOREM OneVerdict == Spec => []OneVerdictPerCall
<1>1. VerdictInv => OneVerdictPerCall
  BY DEF VerdictInv, Reported, OneVerdictPerCall
<1> QED
  BY VerdictInvInit, VerdictInvStep, <1>1, PTL DEF Spec

-----------------------------------------------------------------------------
\* The client before the first step of the flush.
Fresh ==
  /\ lines \in Seq(Nat \ {0})
  /\ next = 1 /\ buf = CP!NoPayload /\ wire = <<>> /\ flushed = FALSE

\* What holds of the client before, during and after the flush.
FlushInv ==
  /\ lines \in Seq(Nat \ {0})
  /\ CP!TypeOK
  /\ CP!FitInv
  /\ CP!OrderInv
  /\ CP!NothingLost
  /\ flushed => buf = CP!NoPayload

\* Lines that are not empty are lines to the client.
LEMMA LineLengths ==
  ASSUME NEW s \in Seq(Nat \ {0})
  PROVE  s \in Seq(Nat) /\ \A i \in DOMAIN s : s[i] # 0
OBVIOUS

LEMMA FreshFlushInv == Fresh => FlushInv
<1> SUFFICES ASSUME Fresh PROVE FlushInv
  OBVIOUS
<1>1. CP!TypeOK
  <2>1. next \in 1 .. Len(lines) + 1
    BY DEF Fresh
  <2>2. buf \in CP!Payload
    BY DEF Fresh, CP!NoPayload, CP!Payload
  <2>3. wire \in Seq(CP!Payload)
    BY EmptySeq DEF Fresh
  <2>4. lines \in Seq(Nat) /\ flushed \in BOOLEAN
    BY LineLengths DEF Fresh
  <2> QED
    BY <2>1, <2>2, <2>3, <2>4 DEF CP!TypeOK
<1>2. CP!FitInv
  BY DEF Fresh, CP!FitInv, CP!BufferFits, CP!SharedPayloadsFit, CP!NoPayload
<1>3. CP!NothingLost
  BY DEF Fresh, CP!NothingLost, CP!Passed
<1>4. CP!OrderInv
  BY DEF Fresh, CP!NoPayload, CP!OrderInv, CP!HandedBefore, CP!OrderedOnce, CP!Increasing, CP!AllBefore
<1> QED
  BY <1>1, <1>2, <1>3, <1>4 DEF Fresh, FlushInv

LEMMA FlushInvStep ==
  ASSUME FlushInv, Client!FlushStep \/ UNCHANGED flushVars
  PROVE  FlushInv'
<1>1. [CP!Next]_CP!vars
  BY DEF flushVars, CP!vars, CP!Next, CP!FlushStep, CP!SkipEmpty, CP!Join, CP!Cut,
         CP!SendRest, CP!AtLine, CP!Oversize, CP!Candidate, CP!Alone, CP!Joined, CP!Send,
         CP!NoPayload, Client!FlushStep, Client!SkipEmpty, Client!Join, Client!Cut,
         Client!SendRest, Client!AtLine, Client!Oversize, Client!Candidate, Client!Alone,
         Client!Joined, Client!Send, Client!NoPayload
<1>2. CP!TypeOK' /\ CP!FitInv' /\ CP!NothingLost'
  BY <1>1, CycleAssumption, CP!TypeStep, CP!FitInvStep, CP!LossStep DEF FlushInv, CycleAssumption
<1>4. CP!OrderInv'
  BY <1>1, CycleAssumption, CP!OrderInvStep DEF FlushInv, CycleAssumption
<1>5. lines' = lines
  BY <1>1 DEF CP!vars, CP!Next, CP!FlushStep, CP!SkipEmpty, CP!Join, CP!Cut, CP!SendRest, CP!Returned
<1>3. flushed' => buf' = CP!NoPayload
  BY <1>1 DEF FlushInv, CP!vars, CP!Next, CP!FlushStep, CP!SkipEmpty, CP!Join, CP!Cut,
              CP!SendRest, CP!AtLine, CP!Returned, CP!NoPayload
<1> QED
  BY <1>2, <1>3, <1>4, <1>5 DEF FlushInv

(***************************************************************************)
(* The client is fresh until the flush begins; exit code 0 and "ok" both   *)
(* come after the return of the flush.                                     *)
(***************************************************************************)
Collecting == proc \in {"loading", "connecting", "detecting", "collecting"}

CycleInv ==
  /\ FlushInv
  /\ wrapper = "starting" => Fresh /\ proc = "none"
  /\ Collecting => Fresh
  /\ proc = "exited" /\ exitCode = 0 => flushed
  /\ wrapper = "idle" /\ calls > 0 /\ checks = <<Present("ok"), Collection("ok")>> => flushed

LEMMA CycleInvInit == Init => CycleInv
<1> SUFFICES ASSUME Init PROVE CycleInv
  OBVIOUS
<1>1. Fresh
  BY EmptySeq DEF Init, Fresh, Client!NoPayload, CP!NoPayload
<1> QED
  BY <1>1, FreshFlushInv DEF Init, CycleInv

\* A call begins with a fresh client.
LEMMA BeginCallFresh ==
  ASSUME BeginCall
  PROVE  FlushInv' /\ Fresh' /\ proc' = "none"
<1>1. Fresh' /\ proc' = "none"
  BY EmptySeq DEF BeginCall, NoProcess, Fresh, Client!NoPayload, CP!NoPayload
<1> QED
  BY <1>1, FreshFlushInv, PTL

\* Steps of the wrapper, and of the binary outside the flush, that leave the
\* client alone.
LEMMA ClientAlone ==
  ASSUME CycleInv, UNCHANGED flushVars
  PROVE  FlushInv' /\ (Fresh => Fresh') /\ flushed' = flushed
BY FlushInvStep DEF CycleInv, Fresh, flushVars

\* "ok" is reported for exit code 0 only, which comes after the flush.
LEMMA EndCallCycle ==
  ASSUME VerdictInv, CycleInv, wrapper # "idle",
         NEW status \in {"ok", "critical"}, EndCall(status),
         status = "ok" => proc = "exited" /\ exitCode = 0
  PROVE  CycleInv'
<1>1. FlushInv' /\ (Fresh => Fresh') /\ flushed' = flushed
  BY ClientAlone DEF EndCall
<1>2. checks' = <<Present("ok"), Collection("ok")>> => status = "ok"
  <2>1. checks' = <<Present("ok"), Collection(status)>>
    BY EndCallChecks
  <2> QED
    BY <2>1 DEF Collection
<1> QED
  BY <1>1, <1>2 DEF EndCall, runVars, CycleInv, Collecting

LEMMA WrapperStepCycle ==
  ASSUME VerdictInv, CycleInv, WrapperStep
  PROVE  CycleInv'
<1>1. CASE Spawn
  <2>1. FlushInv' /\ (Fresh => Fresh')
    BY <1>1, ClientAlone DEF Spawn
  <2> QED
    BY <1>1, <2>1 DEF Spawn, CycleInv, Collecting
<1>2. CASE SpawnFails
  BY <1>2, EndCallCycle DEF SpawnFails
<1>3. CASE WaitEnds
  <2>1. CASE exitCode = 0
    BY <1>3, <2>1, EndCallCycle DEF WaitEnds
  <2>2. CASE exitCode # 0
    BY <1>3, <2>2, EndCallCycle DEF WaitEnds
  <2> QED
    BY <2>1, <2>2
<1>4. CASE Expire
  BY <1>4, ClientAlone DEF Expire, runVars, CycleInv, Collecting
<1>5. CASE Kill
  <2>1. FlushInv' /\ (Fresh => Fresh') /\ flushed' = flushed
    BY <1>5, ClientAlone DEF Kill
  <2> QED
    BY <1>5, <2>1 DEF Kill, CycleInv, Collecting
<1>6. CASE ReportTimeout
  BY <1>6, EndCallCycle DEF ReportTimeout
<1> QED
  BY <1>1, <1>2, <1>3, <1>4, <1>5, <1>6 DEF WrapperStep

\* A collector and the self-monitoring add lines to a batch that waits.
LEMMA FreshGrows ==
  ASSUME Fresh, NEW more \in Seq(Nat \ {0}), lines' = lines \o more,
         UNCHANGED <<next, buf, wire, flushed>>
  PROVE  FlushInv' /\ Fresh'
<1>1. lines \o more \in Seq(Nat \ {0})
  BY ConcatProperties DEF Fresh
<1>2. Fresh'
  BY <1>1 DEF Fresh
<1> QED
  BY <1>2, FreshFlushInv, PTL

LEMMA BinaryStepCycle ==
  ASSUME CycleInv, BinaryStep
  PROVE  CycleInv'
<1>1. CASE LoadConfig \/ Connect \/ Detect
  <2>1. FlushInv' /\ (Fresh => Fresh') /\ flushed' = flushed
    BY <1>1, ClientAlone DEF LoadConfig, Connect, Detect
  <2>2. Fresh'
    BY <1>1, <2>1 DEF LoadConfig, Connect, Detect, CycleInv, Collecting
  <2>3. proc' = "exited" => exitCode' = 1
    BY <1>1 DEF LoadConfig, Connect, Detect, Exit
  <2> QED
    BY <1>1, <2>1, <2>2, <2>3
       DEF LoadConfig, Connect, Detect, wrapperVars, CycleInv
<1>2. CASE Collect
  <2>1. PICK out \in Outputs : lines' = lines \o out
    BY <1>2 DEF Collect
  <2>2. Fresh /\ out \in Seq(Nat \ {0})
    BY <1>2, <2>1, CycleAssumption DEF Collect, CycleInv, Collecting, CycleAssumption
  <2>3. FlushInv' /\ Fresh'
    BY <1>2, <2>1, <2>2, FreshGrows DEF Collect
  <2> QED
    BY <1>2, <2>3 DEF Collect, wrapperVars, CycleInv
<1>3. CASE SelfMonitor
  <2>1. Fresh /\ <<MonitorLine, MonitorLine>> \in Seq(Nat \ {0})
    BY <1>3, CycleAssumption DEF SelfMonitor, CycleInv, Collecting, CycleAssumption
  <2>2. FlushInv' /\ Fresh'
    BY <1>3, <2>1, FreshGrows DEF SelfMonitor
  <2> QED
    BY <1>3, <2>2 DEF SelfMonitor, wrapperVars, CycleInv
<1>4. CASE Flush
  <2>1. FlushInv'
    BY <1>4, FlushInvStep DEF Flush, CycleInv
  <2>2. ~flushed
    BY <1>4 DEF Flush, Client!FlushStep, Client!SkipEmpty, Client!Join, Client!Cut,
                Client!SendRest, Client!AtLine
  <2>3. wrapper # "starting"
    BY <1>4 DEF Flush, CycleInv
  <2> QED
    BY <1>4, <2>1, <2>2, <2>3 DEF Flush, wrapperVars, runVars, CycleInv, Collecting
<1>5. CASE Finish \/ Crash
  <2>1. FlushInv' /\ (Fresh => Fresh') /\ flushed' = flushed
    BY <1>5, ClientAlone DEF Finish, Crash
  <2> QED
    BY <1>5, <2>1 DEF Finish, Crash, Running, Exit, wrapperVars, CycleInv, Collecting
<1> QED
  BY <1>1, <1>2, <1>3, <1>4, <1>5 DEF BinaryStep

LEMMA CycleInvStep == VerdictInv /\ CycleInv /\ [Next]_vars => CycleInv'
<1> SUFFICES ASSUME VerdictInv, CycleInv, [Next]_vars PROVE CycleInv'
  OBVIOUS
<1>1. CASE Deploy
  BY <1>1, ClientAlone DEF Deploy, wrapperVars, runVars, CycleInv, Collecting
<1>2. CASE CheckMissing
  <2>1. FlushInv' /\ Fresh' /\ proc' = "none"
    BY <1>2, BeginCallFresh DEF CheckMissing
  <2>2. checks' # <<Present("ok"), Collection("ok")>>
    <3>1. Len(checks') = 1
      BY <1>2 DEF CheckMissing
    <3> QED
      BY <3>1
  <2> QED
    BY <2>1, <2>2 DEF CycleInv
<1>3. CASE CheckPresent
  <2>1. FlushInv' /\ Fresh' /\ proc' = "none"
    BY <1>3, BeginCallFresh DEF CheckPresent
  <2> QED
    BY <1>3, <2>1 DEF CheckPresent, CycleInv
<1>4. CASE WrapperStep
  BY <1>4, WrapperStepCycle
<1>5. CASE BinaryStep
  BY <1>5, BinaryStepCycle
<1>6. CASE UNCHANGED vars
  BY <1>6, ClientAlone DEF vars, wrapperVars, runVars, CycleInv, Collecting
<1> QED
  BY <1>1, <1>2, <1>3, <1>4, <1>5, <1>6 DEF Next

\* After the return of the flush what was carried is on the wire.
LEMMA AllOnTheWire ==
  ASSUME FlushInv, flushed, NEW i \in DOMAIN lines, lines[i] # 0
  PROVE  i \in PushedBy(Len(wire))
<1>1. DOMAIN buf.ids = {}
  BY DEF FlushInv, CP!NoPayload
<1>2. PICK k \in DOMAIN wire : \E n \in DOMAIN wire[k].ids : wire[k].ids[n] = i
  BY <1>1 DEF FlushInv, CP!NothingLost, CP!Passed, CP!Carried
<1>3. k \in 1 .. Len(wire)
  BY DEF FlushInv, CP!TypeOK
<1> QED
  BY <1>2, <1>3 DEF PushedBy

(***************************************************************************)
(* collection:OK is reported only when every line of the cycle has been    *)
(* handed to the socket (dns_monitor.py:54-68, main.go), for every packet  *)
(* size, whatever the collectors return and at whichever step the timeout  *)
(* or an end of the binary comes.                                          *)
(***************************************************************************)
THEOREM OkAfterFlush == Spec => []OkMeansAllPushed
<1>1. VerdictInv /\ CycleInv => OkMeansAllPushed
  <2> SUFFICES ASSUME VerdictInv, CycleInv, wrapper = "idle", calls > 0,
                      checks[Len(checks)] = Collection("ok")
               PROVE  /\ flushed
                      /\ \A i \in DOMAIN lines : lines[i] # 0 => i \in PushedBy(Len(wire))
    BY DEF OkMeansAllPushed
  <2>1. checks # <<Present("critical")>>
    BY DEF Present, Collection
  <2>2. PICK status \in {"ok", "critical"} : checks = <<Present("ok"), Collection(status)>>
    BY <2>1 DEF VerdictInv, Reported
  <2>3. status = "ok"
    BY <2>2 DEF Collection
  <2>4. flushed /\ FlushInv
    BY <2>2, <2>3 DEF CycleInv
  <2> QED
    BY <2>4, AllOnTheWire
<1> QED
  BY VerdictInvInit, VerdictInvStep, CycleInvInit, CycleInvStep, <1>1, PTL DEF Spec

-----------------------------------------------------------------------------
\* The types of what is not the client's.
Reports == {"binary_present", "collection"} \X {"ok", "critical"}

ShellType ==
  /\ installed \in BOOLEAN
  /\ calls \in 0 .. MaxCalls
  /\ wrapper \in {"idle", "starting", "waiting", "expired", "reaping"}
  /\ checks \in Seq(Reports)
  /\ proc \in {"none", "exited", "killed"} \/ Running
  /\ exitCode \in 0 .. 1
  /\ stage \in 1 .. 7
  /\ emitted \in Nat

LEMMA SixCollectors == Len(Collectors) = 6
PROOF BY DEF Collectors

LEMMA ShellTypeInit == Init => ShellType
PROOF BY EmptySeq, CycleAssumption DEF Init, ShellType, CycleAssumption

\* A call ends with one more report.
LEMMA EndCallType ==
  ASSUME ShellType, NEW status \in {"ok", "critical"}, EndCall(status)
  PROVE  ShellType'
<1>1. Append(checks, Collection(status)) \in Seq(Reports)
  BY DEF ShellType, Collection, Reports
<1> QED
  BY <1>1 DEF EndCall, runVars, ShellType, Running

LEMMA WrapperStepType ==
  ASSUME ShellType, WrapperStep
  PROVE  ShellType'
<1>1. CASE Spawn
  BY <1>1 DEF Spawn, ShellType, Running
<1>2. CASE SpawnFails \/ ReportTimeout
  BY <1>2, EndCallType DEF SpawnFails, ReportTimeout
<1>3. CASE WaitEnds
  <2>1. PICK status \in {"ok", "critical"} : EndCall(status)
    BY <1>3 DEF WaitEnds
  <2> QED
    BY <2>1, EndCallType
<1>4. CASE Expire
  BY <1>4 DEF Expire, ShellType, Running, runVars
<1>5. CASE Kill
  BY <1>5 DEF Kill, ShellType, Running
<1> QED
  BY <1>1, <1>2, <1>3, <1>4, <1>5 DEF WrapperStep

\* The lines of the cycle are only added to until they are flushed.
LEMMA BinaryStepType ==
  ASSUME ShellType, CycleInv, BinaryStep
  PROVE  ShellType'
<1> USE DEF ShellType, Running, wrapperVars, Exit
<1>1. CASE LoadConfig
  BY <1>1 DEF LoadConfig
<1>2. CASE Connect
  BY <1>2 DEF Connect
<1>3. CASE Detect
  BY <1>3 DEF Detect
<1>4. CASE Collect
  BY <1>4, SixCollectors DEF Collect
<1>5. CASE SelfMonitor
  <2>1. Len(lines) \in Nat
    BY <1>5 DEF SelfMonitor, CycleInv, FlushInv, CP!TypeOK
  <2> QED
    BY <1>5, <2>1 DEF SelfMonitor
<1>6. CASE Flush
  BY <1>6 DEF Flush, runVars
<1>7. CASE Finish
  BY <1>7 DEF Finish
<1>8. CASE Crash
  BY <1>8 DEF Crash
<1> QED
  BY <1>1, <1>2, <1>3, <1>4, <1>5, <1>6, <1>7, <1>8 DEF BinaryStep

LEMMA ShellTypeStep == ShellType /\ CycleInv /\ [Next]_vars => ShellType'
<1> SUFFICES ASSUME ShellType, CycleInv, [Next]_vars PROVE ShellType'
  OBVIOUS
<1>1. CASE Deploy
  BY <1>1 DEF Deploy, wrapperVars, runVars, ShellType, Running
<1>2. CASE CheckMissing \/ CheckPresent
  <2>1. BeginCall /\ wrapper' \in {"idle", "starting"}
    BY <1>2 DEF CheckMissing, CheckPresent, BeginCall
  <2>2. PICK status \in {"ok", "critical"} : checks' = <<Present(status)>>
    BY <1>2 DEF CheckMissing, CheckPresent
  <2>3. checks' \in Seq(Reports)
    BY <2>2 DEF Present, Reports
  <2>4. calls' \in 0 .. MaxCalls
    BY <2>1, CycleAssumption DEF BeginCall, ShellType, CycleAssumption
  <2> QED
    BY <2>1, <2>3, <2>4 DEF BeginCall, NoProcess, ShellType, Running
<1>3. CASE WrapperStep
  BY <1>3, WrapperStepType
<1>4. CASE BinaryStep
  BY <1>4, BinaryStepType
<1>5. CASE UNCHANGED vars
  BY <1>5 DEF vars, wrapperVars, runVars, ShellType, Running
<1> QED
  BY <1>1, <1>2, <1>3, <1>4, <1>5 DEF Next

(***************************************************************************)
(* The state of the call, of the binary and of its flush is well formed,   *)
(* whatever the collectors return and whoever ends first.                  *)
(***************************************************************************)
THEOREM TypeCorrect == Spec => []TypeOK
<1>1. ShellType /\ CycleInv => TypeOK
  BY SixCollectors DEF ShellType, CycleInv, FlushInv, TypeOK, Reports,
     CP!TypeOK, CP!Payload, Client!TypeOK, Client!Payload
<1> QED
  BY VerdictInvInit, VerdictInvStep, CycleInvInit, CycleInvStep, ShellTypeInit, ShellTypeStep,
     <1>1, PTL DEF Spec

-----------------------------------------------------------------------------
(***************************************************************************)
(* The binary is on its way only while the wrapper waits for it, and from  *)
(* the end of the collection on the count is that of the lines.            *)
(***************************************************************************)
CountInv ==
  /\ Running => wrapper \in {"waiting", "expired"}
  /\ proc = "flushing" \/ wire # <<>> => emitted = Len(lines)

LEMMA CountInvInit == Init => CountInv
PROOF BY DEF Init, CountInv, Running

LEMMA BinaryStepCount ==
  ASSUME CycleInv, CountInv, BinaryStep
  PROVE  CountInv'
<1> USE DEF CountInv, Running, wrapperVars, flushVars, Exit
<1>1. CASE LoadConfig \/ Connect \/ Detect
  BY <1>1 DEF LoadConfig, Connect, Detect
<1>2. CASE Collect
  <2>1. wire' = <<>> /\ proc' = "collecting"
    BY <1>2 DEF Collect, CycleInv, Collecting, Fresh
  <2> QED
    BY <1>2, <2>1 DEF Collect
<1>3. CASE SelfMonitor
  <2>1. lines \in Seq(Nat) /\ <<MonitorLine, MonitorLine>> \in Seq(Nat)
    BY CycleAssumption DEF CycleAssumption, CycleInv, FlushInv, CP!TypeOK
  <2>2. Len(lines') = Len(lines) + 2
    BY <1>3, <2>1 DEF SelfMonitor
  <2> QED
    BY <1>3, <2>2 DEF SelfMonitor
<1>4. CASE Flush
  <2>1. proc = "flushing" /\ UNCHANGED <<wrapperVars, runVars>> /\ lines' = lines
    BY <1>4 DEF Flush, Client!FlushStep, Client!SkipEmpty, Client!Join, Client!Cut, Client!SendRest
  <2> QED
    BY <2>1 DEF runVars
<1>5. CASE Finish \/ Crash
  BY <1>5 DEF Finish, Crash
<1> QED
  BY <1>1, <1>2, <1>3, <1>4, <1>5 DEF BinaryStep

LEMMA WrapperStepCount ==
  ASSUME CycleInv, CountInv, WrapperStep
  PROVE  CountInv'
<1> USE DEF CountInv, Running, runVars, flushVars
<1>1. CASE Spawn
  <2>1. wire = <<>>
    BY <1>1 DEF Spawn, CycleInv, Fresh
  <2> QED
    BY <1>1, <2>1 DEF Spawn
<1>2. CASE SpawnFails
  <2>1. proc = "none"
    BY <1>2 DEF SpawnFails, CycleInv
  <2> QED
    BY <1>2, <2>1 DEF SpawnFails, EndCall
<1>3. CASE WaitEnds
  BY <1>3 DEF WaitEnds, EndCall
<1>4. CASE Expire
  BY <1>4 DEF Expire
<1>5. CASE Kill
  BY <1>5 DEF Kill
<1>6. CASE ReportTimeout
  BY <1>6 DEF ReportTimeout, EndCall
<1> QED
  BY <1>1, <1>2, <1>3, <1>4, <1>5, <1>6 DEF WrapperStep

LEMMA CountInvStep == CycleInv /\ CountInv /\ [Next]_vars => CountInv'
<1> SUFFICES ASSUME CycleInv, CountInv, [Next]_vars PROVE CountInv'
  OBVIOUS
<1>1. CASE Deploy
  BY <1>1 DEF Deploy, wrapperVars, runVars, flushVars, CountInv, Running
<1>2. CASE CheckMissing \/ CheckPresent
  <2>1. proc' = "none" /\ wire' = <<>>
    BY <1>2 DEF CheckMissing, CheckPresent, BeginCall, NoProcess
  <2> QED
    BY <2>1 DEF CountInv, Running
<1>3. CASE UNCHANGED vars
  BY <1>3 DEF vars, wrapperVars, runVars, flushVars, CountInv, Running
<1> QED
  BY <1>1, <1>2, <1>3, WrapperStepCount, BinaryStepCount DEF Next

LEMMA UpTo == ASSUME NEW m \in Nat PROVE Cardinality(1 .. m) = m
<1>1. Cardinality(1 .. m) = IF 1 > m THEN 0 ELSE m - 1 + 1
  BY FS_Interval
<1> QED
  BY <1>1

\* When the last line has been written, so has every line before it, and
\* nothing else.
LEMMA LastLineLast ==
  ASSUME FlushInv, NEW k \in DOMAIN wire, NEW n \in DOMAIN wire[k].ids,
         wire[k].ids[n] = Len(lines)
  PROVE  PushedBy(k) = 1 .. Len(lines)
<1>1. /\ k \in Nat /\ DOMAIN wire = 1 .. Len(wire) /\ Len(wire) \in Nat
      /\ Len(lines) \in Nat /\ DOMAIN lines = 1 .. Len(lines) /\ next \in 1 .. Len(lines) + 1
  BY DEF FlushInv, CP!TypeOK
<1>2. \A l \in DOMAIN wire : \A m \in DOMAIN wire[l].ids :
        wire[l].ids[m] \in Nat /\ wire[l].ids[m] # 0 /\ wire[l].ids[m] < next
  BY CP!Positions, CycleAssumption DEF CycleAssumption, FlushInv, CP!OrderInv, CP!HandedBefore
<1>3. Len(lines) < next /\ Len(lines) # 0
  BY <1>2
<1>4. PushedBy(k) \subseteq 1 .. Len(lines)
  <2> SUFFICES ASSUME NEW l \in 1 .. k, NEW m \in DOMAIN wire[l].ids
               PROVE  wire[l].ids[m] \in 1 .. Len(lines)
    BY DEF PushedBy
  <2>1. l \in DOMAIN wire
    BY <1>1
  <2> QED
    BY <1>1, <1>2, <2>1
<1>5. ASSUME NEW i \in 1 .. Len(lines)
      PROVE  i \in PushedBy(k)
  <2>1. CP!Carried(i)
    <3>1. lines[i] # 0 /\ i \in CP!Passed
      BY <1>1, <1>3, LineLengths DEF FlushInv, CP!Passed
    <3> QED
      BY <3>1 DEF FlushInv, CP!NothingLost
  <2>2. ~(Len(lines) < i)
    BY <1>1
  <2>3. ~ \E m \in DOMAIN buf.ids : buf.ids[m] = i
    BY <2>2 DEF FlushInv, CP!OrderInv, CP!OrderedOnce, CP!AllBefore
  <2>4. PICK l \in DOMAIN wire : \E m \in DOMAIN wire[l].ids : wire[l].ids[m] = i
    BY <2>1, <2>3 DEF CP!Carried
  <2>5. ~(k < l)
    BY <2>2, <2>4 DEF FlushInv, CP!OrderInv, CP!OrderedOnce, CP!AllBefore
  <2>6. l \in 1 .. k
    BY <1>1, <2>5
  <2> QED
    BY <2>4, <2>6 DEF PushedBy
<1> QED
  BY <1>4, <1>5

(***************************************************************************)
(* Whoever receives metrics_emitted reads the number of lines handed to    *)
(* the socket, this one included (collector.go:85-94), for every packet    *)
(* size, whatever the collectors return and wherever the flush is cut off. *)
(***************************************************************************)
THEOREM CountTrue == Spec => []CountIsTruthful
<1>1. CycleInv /\ CountInv => CountIsTruthful
  <2> SUFFICES ASSUME CycleInv, CountInv, NEW k \in DOMAIN wire,
                      NEW n \in DOMAIN wire[k].ids, wire[k].ids[n] = Len(lines)
               PROVE  emitted = Cardinality(PushedBy(k))
    BY DEF CountIsTruthful
  <2>1. FlushInv /\ Len(lines) \in Nat
    BY DEF CycleInv, FlushInv, CP!TypeOK
  <2>2. PushedBy(k) = 1 .. Len(lines)
    BY <2>1, LastLineLast
  <2>3. Cardinality(1 .. Len(lines)) = Len(lines)
    BY <2>1, UpTo
  <2>4. wire # <<>>
    OBVIOUS
  <2> QED
    BY <2>2, <2>3, <2>4 DEF CountInv
<1> QED
  BY VerdictInvInit, VerdictInvStep, CycleInvInit, CycleInvStep, CountInvInit, CountInvStep,
     <1>1, PTL DEF Spec

-----------------------------------------------------------------------------
(***************************************************************************)
(* The refinement of CheckContract: which step of the contract each step   *)
(* of the check and of the binary is.                                      *)
(***************************************************************************)
LEMMA ContractInit == Init => Contract!Init
PROOF BY DEF Init, Contract!Init, Verdict

\* Nothing that the contract sees.
LEMMA ContractStutter ==
  ASSUME UNCHANGED <<wrapper, checks, wire, flushed>>
  PROVE  UNCHANGED Contract!vars
PROOF BY DEF Contract!vars, Verdict

LEMMA ContractBegin == ASSUME CheckPresent PROVE Contract!Begin
<1>1. wrapper = "idle" /\ wrapper' = "starting" /\ wire' = <<>> /\ flushed' = FALSE
  BY DEF CheckPresent, BeginCall, NoProcess
<1> QED
  BY <1>1 DEF Contract!Begin, Verdict

LEMMA ContractRefuse == ASSUME CheckMissing PROVE Contract!Refuse
<1>1. /\ wrapper = "idle" /\ wrapper' = "idle" /\ wire' = <<>> /\ flushed' = FALSE
      /\ checks' = <<Present("critical")>>
  BY DEF CheckMissing, BeginCall, NoProcess
<1>2. checks' # <<>> /\ checks'[Len(checks')] = Present("critical")
  BY <1>1
<1>3. Present("critical") # Collection("ok")
  BY DEF Present, Collection
<1>4. Verdict' = "missing"
  BY <1>1, <1>2, <1>3 DEF Verdict
<1> QED
  BY <1>1, <1>4 DEF Contract!Refuse

\* The verdict "ok" comes with the end of the flush.
LEMMA ContractReturn ==
  ASSUME VerdictInv, wrapper # "idle", NEW status \in {"ok", "critical"}, EndCall(status),
         status = "ok" => flushed
  PROVE  Contract!Return
<1>1. checks' = <<Present("ok"), Collection(status)>>
  BY EndCallChecks
<1>2. wrapper' = "idle" /\ UNCHANGED <<wire, flushed>>
  BY DEF EndCall, flushVars
<1>3. checks' # <<>> /\ checks'[Len(checks')] = Collection(status)
  BY <1>1
<1>4. Collection(status) # Present("critical")
  BY DEF Collection, Present
<1>5. Collection(status) = Collection("ok") <=> status = "ok"
  BY DEF Collection
<1>6. Verdict' = IF status = "ok" THEN "ok" ELSE "failed"
  BY <1>2, <1>3, <1>4, <1>5 DEF Verdict
<1> QED
  BY <1>2, <1>6 DEF Contract!Return

LEMMA ContractWrapperStep ==
  ASSUME VerdictInv, CycleInv, WrapperStep
  PROVE  Contract!Return \/ UNCHANGED Contract!vars
<1>1. CASE Spawn \/ Expire \/ Kill
  <2>1. wrapper # "idle" /\ wrapper' # "idle" /\ UNCHANGED <<wire, flushed>>
    BY <1>1 DEF Spawn, Expire, Kill, flushVars
  <2> QED
    BY <2>1 DEF Contract!vars, Verdict
<1>2. CASE SpawnFails \/ ReportTimeout
  BY <1>2, ContractReturn DEF SpawnFails, ReportTimeout
<1>3. CASE WaitEnds
  <2>1. CASE exitCode = 0
    BY <1>3, <2>1, ContractReturn DEF WaitEnds, CycleInv
  <2>2. CASE exitCode # 0
    BY <1>3, <2>2, ContractReturn DEF WaitEnds
  <2> QED
    BY <2>1, <2>2
<1> QED
  BY <1>1, <1>2, <1>3 DEF WrapperStep

\* Only the flush pushes, and only while the wrapper waits.
LEMMA ContractPush ==
  ASSUME CycleInv, CountInv, Flush
  PROVE  Contract!Push
<1>1. wrapper # "idle" /\ UNCHANGED <<wrapper, checks>>
  BY DEF Flush, CountInv, Running, wrapperVars
<1>2. ~flushed /\ flushed' \in BOOLEAN
  BY DEF Flush, Client!FlushStep, Client!SkipEmpty, Client!Join, Client!Cut, Client!SendRest,
         Client!AtLine, CycleInv, FlushInv, CP!TypeOK
<1>3. Len(wire') \in {Len(wire), Len(wire) + 1}
  <2>1. wire' = wire \/ wire' = Append(wire, buf)
    BY DEF Flush, Client!FlushStep, Client!SkipEmpty, Client!Join, Client!Cut, Client!SendRest,
           Client!Send
  <2>2. wire \in Seq(CP!Payload) /\ buf \in CP!Payload
    BY DEF CycleInv, FlushInv, CP!TypeOK
  <2> QED
    BY <2>1, <2>2
<1> QED
  BY <1>1, <1>2, <1>3 DEF Contract!Push, Verdict

LEMMA ContractStep ==
  VerdictInv /\ CycleInv /\ CountInv /\ [Next]_vars => [Contract!Next]_(Contract!vars)
<1> SUFFICES ASSUME VerdictInv, CycleInv, CountInv, [Next]_vars
             PROVE  [Contract!Next]_(Contract!vars)
  OBVIOUS
<1>1. CASE Deploy \/ UNCHANGED vars
  BY <1>1, ContractStutter DEF Deploy, vars, wrapperVars, flushVars
<1>2. CASE CheckMissing
  BY <1>2, ContractRefuse DEF Contract!Next
<1>3. CASE CheckPresent
  BY <1>3, ContractBegin DEF Contract!Next
<1>4. CASE WrapperStep
  BY <1>4, ContractWrapperStep DEF Contract!Next
<1>5. CASE Flush
  BY <1>5, ContractPush DEF Contract!Next
<1>6. CASE LoadConfig \/ Connect \/ Detect \/ Collect \/ SelfMonitor \/ Finish \/ Crash
  BY <1>6, ContractStutter
     DEF LoadConfig, Connect, Detect, Collect, SelfMonitor, Finish, Crash, wrapperVars, flushVars
<1> QED
  BY <1>1, <1>2, <1>3, <1>4, <1>5, <1>6 DEF Next, BinaryStep

(***************************************************************************)
(* Each step of the check and of the binary is one that the contract       *)
(* allows, or one that it does not see: there is one verdict per call,     *)
(* nothing is pushed between calls, and "ok" comes after the whole flush.  *)
(* That every call ends is left to the run.                                *)
(***************************************************************************)
THEOREM KeepsContract == Spec => Contract!Safety
<1>1. Spec => [](VerdictInv /\ CycleInv /\ CountInv)
  BY VerdictInvInit, VerdictInvStep, CycleInvInit, CycleInvStep, CountInvInit, CountInvStep,
     PTL DEF Spec
<1> QED
  BY <1>1, ContractInit, ContractStep, PTL DEF Spec, Contract!Safety

=============================================================================
