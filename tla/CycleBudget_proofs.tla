-------------------------- MODULE CycleBudget_proofs --------------------------
(***************************************************************************)
(* That a cycle which fits into the timeout is never killed, for every     *)
(* number of forwarders and every timeout.  The invariant bounds the clock *)
(* by what the steps taken so far may have cost.                           *)
(***************************************************************************)
EXTENDS CycleBudget, TLAPS

\* What one forwarder costs at most.
PerForwarder == UdpTimeout + TcpTimeout

\* What the steps since the last forwarder may have cost.
Since(s) ==
  IF s = "tcp" THEN UdpTimeout
  ELSE IF s = "external" THEN ResTimeout
  ELSE IF s \in {"zones", "process", "ended"} THEN 2 * ResTimeout ELSE 0

WithinBudget == clock <= other + probed * PerForwarder + Since(stage)

\* None before the loop, and one left in it.
InLoop ==
  /\ stage \in {"detect", "service", "perfmon", "settings"} => probed = 0
  /\ stage \in {"udp", "tcp"} => probed < forwarders

IInv == TypeOK /\ InLoop /\ (stage # "killed" => WithinBudget) /\ FittingCycleEnds

-----------------------------------------------------------------------------
(***************************************************************************)
(* One more forwarder costs one forwarder more.                            *)
(***************************************************************************)
LEMMA OneMore ==
  ASSUME NEW p \in Nat, NEW c \in Nat
  PROVE  /\ p * c \in Nat
         /\ (p + 1) * c = p * c + c
PROOF BY Z3

(***************************************************************************)
(* Fewer forwarders cost no more, and a loop with one left has room for    *)
(* it.                                                                     *)
(***************************************************************************)
LEMMA Room ==
  ASSUME NEW p \in Nat, NEW f \in Nat, NEW c \in Nat
  PROVE  /\ p <= f => p * c <= f * c
         /\ p < f => p * c + c <= f * c
PROOF
<1>1. ASSUME p <= f PROVE p * c <= f * c
  <2>1. PICK k \in Nat : f = p + k BY <1>1
  <2>2. (p + k) * c = p * c + k * c /\ k * c \in Nat /\ p * c \in Nat BY Z3
  <2>. QED BY <2>1, <2>2
<1>2. ASSUME p < f PROVE p * c + c <= f * c
  <2>1. PICK k \in Nat : f = p + 1 + k BY <1>2
  <2>2. (p + 1 + k) * c = p * c + c + k * c /\ k * c \in Nat /\ p * c \in Nat BY Z3
  <2>. QED BY <2>1, <2>2
<1>. QED BY <1>1, <1>2

-----------------------------------------------------------------------------
LEMMA TypeInit == Init => TypeOK /\ InLoop
PROOF BY BudgetAssumption DEF Init, TypeOK, InLoop, BudgetAssumption, Stages, Following

LEMMA TypeStep == TypeOK /\ InLoop /\ [Next]_vars => TypeOK' /\ InLoop'
PROOF
<1>. SUFFICES ASSUME TypeOK, InLoop, [Next]_vars PROVE TypeOK' /\ InLoop'
  OBVIOUS
<1>. USE BudgetAssumption DEF TypeOK, InLoop, BudgetAssumption, Takes, Stages, Following
<1>1. CASE Undeadlined
  <2>1. PICK d \in 0 .. Others - other : Takes(d) /\ other' = other + d
    BY <1>1 DEF Undeadlined, Durations
  <2>2. stage' \in Stages /\ probed' = probed /\ (stage' = "udp" => probed < forwarders)
    BY <1>1 DEF Undeadlined
  <2>3. stage' \in {"service", "perfmon", "settings"} => probed = 0
    BY <1>1 DEF Undeadlined
  <2>4. stage' \notin {"detect", "tcp"}
    BY <1>1 DEF Undeadlined
  <2>. QED BY <1>1, <2>1, <2>2, <2>3, <2>4 DEF Undeadlined
<1>2. CASE ProbeUdp
  <2>1. PICK d \in Durations : Takes(d) BY <1>2 DEF ProbeUdp
  <2>2. d \in Nat BY <1>2 DEF ProbeUdp, Durations, Waits
  <2>. QED BY <1>2, <2>1, <2>2 DEF ProbeUdp
<1>3. CASE ConnectTcp
  <2>1. PICK d \in Durations : Takes(d) BY <1>3 DEF ConnectTcp
  <2>2. d \in Nat BY <1>3 DEF ConnectTcp, Durations, Waits
  <2>. QED BY <1>3, <2>1, <2>2 DEF ConnectTcp
<1>4. CASE Resolve
  <2>1. PICK d \in Durations : Takes(d) BY <1>4 DEF Resolve
  <2>2. d \in Nat BY <1>4 DEF Resolve, Durations
  <2>. QED BY <1>4, <2>1, <2>2 DEF Resolve
<1>5. CASE Kill
  BY <1>5 DEF Kill
<1>6. CASE UNCHANGED vars
  BY <1>6 DEF vars
<1>. QED BY <1>1, <1>2, <1>3, <1>4, <1>5, <1>6 DEF Next, Over

-----------------------------------------------------------------------------
LEMMA BudgetInit == Init => WithinBudget
PROOF BY OneMore, BudgetAssumption DEF Init, WithinBudget, BudgetAssumption, PerForwarder, Since

(***************************************************************************)
(* A step adds to the clock what it adds to the bound at most.             *)
(***************************************************************************)
LEMMA BudgetStep ==
  TypeOK /\ InLoop /\ WithinBudget /\ [Next]_vars => stage' = "killed" \/ WithinBudget'
PROOF
<1>. SUFFICES ASSUME TypeOK, InLoop, WithinBudget, [Next]_vars, stage' # "killed"
     PROVE  WithinBudget'
  OBVIOUS
<1>. DEFINE spent == probed * PerForwarder
<1>0. /\ UdpTimeout \in Nat /\ TcpTimeout \in Nat /\ ResTimeout \in Nat /\ Others \in Nat
      /\ PerForwarder \in Nat /\ probed \in Nat /\ other \in Nat /\ clock \in Nat
  BY BudgetAssumption DEF BudgetAssumption, PerForwarder, TypeOK
<1>s. spent \in Nat /\ (probed + 1) * PerForwarder = spent + PerForwarder
  BY <1>0, OneMore
<1>b. clock <= other + spent + Since(stage)
  BY DEF WithinBudget
<1>1. CASE Undeadlined
  <2>1. PICK d \in 0 .. Others - other : clock' = clock + d /\ other' = other + d
    BY <1>1 DEF Undeadlined, Durations, Takes
  <2>2. Since(stage') = Since(stage) /\ Since(stage) \in Nat /\ probed' = probed
    BY <1>0, <1>1 DEF Undeadlined, Since, Following
  <2>3. WithinBudget' <=> clock' <= other' + spent + Since(stage')
    BY <2>2 DEF WithinBudget
  <2>. HIDE DEF spent
  <2>. QED BY <1>0, <1>s, <1>b, <2>1, <2>2, <2>3
<1>2. CASE ProbeUdp
  <2>1. PICK d \in 0 .. UdpTimeout : clock' = clock + d
    BY <1>0, <1>2 DEF ProbeUdp, Durations, Waits, Takes, Following
  <2>2. Since(stage) = 0 /\ Since(stage') = UdpTimeout /\ probed' = probed /\ other' = other
    BY <1>2 DEF ProbeUdp, Since
  <2>3. WithinBudget' <=> clock' <= other + spent + UdpTimeout
    BY <2>2 DEF WithinBudget
  <2>. HIDE DEF spent
  <2>. QED BY <1>0, <1>s, <1>b, <2>1, <2>2, <2>3
<1>3. CASE ConnectTcp
  <2>1. PICK d \in 0 .. TcpTimeout : clock' = clock + d
    BY <1>0, <1>3 DEF ConnectTcp, Durations, Waits, Takes, Following
  <2>2. /\ Since(stage) = UdpTimeout /\ Since(stage') = 0
        /\ probed' = probed + 1 /\ other' = other
    BY <1>3 DEF ConnectTcp, Since
  <2>3. WithinBudget' <=> clock' <= other + (spent + PerForwarder) + 0
    BY <1>s, <2>2 DEF WithinBudget
  <2>4. PerForwarder = UdpTimeout + TcpTimeout
    BY DEF PerForwarder
  <2>. HIDE DEF spent
  <2>. QED BY <1>0, <1>s, <1>b, <2>1, <2>2, <2>3, <2>4
<1>4. CASE Resolve
  <2>1. PICK d \in 0 .. ResTimeout : clock' = clock + d
    BY <1>4 DEF Resolve, Durations, Takes, Following
  <2>2. /\ Since(stage) \in Nat /\ Since(stage') = Since(stage) + ResTimeout
        /\ probed' = probed /\ other' = other
    BY <1>0, <1>4 DEF Resolve, Since
  <2>3. WithinBudget' <=> clock' <= other + spent + Since(stage')
    BY <2>2 DEF WithinBudget
  <2>. HIDE DEF spent
  <2>. QED BY <1>0, <1>s, <1>b, <2>1, <2>2, <2>3
<1>5. CASE Kill
  BY <1>5 DEF Kill
<1>6. CASE UNCHANGED vars
  BY <1>6 DEF vars, WithinBudget
<1>. QED BY <1>1, <1>2, <1>3, <1>4, <1>5, <1>6 DEF Next, Over

-----------------------------------------------------------------------------
(***************************************************************************)
(* What is left of the budget covers the step in hand, so that it cannot   *)
(* be killed.                                                              *)
(***************************************************************************)
LEMMA NoKill == TypeOK /\ InLoop /\ WithinBudget /\ Worst < Timeout => ~Kill
PROOF
<1>. SUFFICES ASSUME TypeOK, InLoop, WithinBudget, Worst < Timeout, Kill PROVE FALSE
  OBVIOUS
<1>. DEFINE spent == probed * PerForwarder
            all   == forwarders * PerForwarder
<1>0. /\ UdpTimeout \in Nat /\ TcpTimeout \in Nat /\ ResTimeout \in Nat /\ Others \in Nat
      /\ forwarders \in Nat /\ Timeout \in Nat /\ probed \in 0 .. forwarders
      /\ PerForwarder \in Nat /\ PerForwarder = UdpTimeout + TcpTimeout
      /\ other \in 0 .. Others /\ clock \in Nat
  BY BudgetAssumption DEF BudgetAssumption, PerForwarder, TypeOK
<1>s. /\ spent \in Nat /\ all \in Nat
      /\ spent <= all /\ (probed < forwarders => spent + PerForwarder <= all)
  BY <1>0, OneMore, Room
<1>b. clock <= other + spent + Since(stage)
  BY DEF WithinBudget
<1>w. Others + all + 2 * ResTimeout < Timeout
  BY DEF Worst, PerForwarder
<1>k. PICK d \in Durations : clock + d >= Timeout
  BY DEF Kill
<1>r. stage \in Stages /\ Running
  BY DEF TypeOK, Kill
<1>1. CASE stage \in DOMAIN Following
  <2>1. d \in 0 .. Others - other
    BY <1>k, <1>1 DEF Durations
  <2>2. Since(stage) \in Nat /\ Since(stage) <= 2 * ResTimeout
    BY <1>0, <1>1 DEF Following, Since
  <2>. HIDE DEF spent, all
  <2>. QED BY <1>0, <1>s, <1>b, <1>w, <1>k, <2>1, <2>2
<1>2. CASE stage = "udp"
  <2>1. d \in 0 .. UdpTimeout /\ Since(stage) = 0 /\ probed < forwarders
    BY <1>0, <1>k, <1>2 DEF Durations, Following, Waits, Since, InLoop
  <2>. HIDE DEF spent, all
  <2>. QED BY <1>0, <1>s, <1>b, <1>w, <1>k, <2>1
<1>3. CASE stage = "tcp"
  <2>1. d \in 0 .. TcpTimeout /\ Since(stage) = UdpTimeout /\ probed < forwarders
    BY <1>0, <1>k, <1>3 DEF Durations, Following, Waits, Since, InLoop
  <2>. HIDE DEF spent, all
  <2>. QED BY <1>0, <1>s, <1>b, <1>w, <1>k, <2>1
<1>4. CASE stage \in {"baseline", "external"}
  <2>1. d \in 0 .. ResTimeout
    BY <1>k, <1>4 DEF Durations, Following
  <2>2. Since(stage) \in {0, ResTimeout}
    BY <1>4 DEF Since
  <2>. HIDE DEF spent, all
  <2>. QED BY <1>0, <1>s, <1>b, <1>w, <1>k, <2>1, <2>2
<1>. QED BY <1>r, <1>1, <1>2, <1>3, <1>4 DEF Stages, Running

(***************************************************************************)
(* The inductive invariant: the bound on the clock is needed only as long  *)
(* as the cycle has not been killed.                                       *)
(***************************************************************************)
LEMMA Inductive == IInv /\ [Next]_vars => IInv'
PROOF
<1>. SUFFICES ASSUME IInv, [Next]_vars PROVE IInv'
  OBVIOUS
<1>1. TypeOK' /\ InLoop'
  BY TypeStep DEF IInv
<1>2. stage = "killed" => UNCHANGED vars
  BY DEF Next, Undeadlined, ProbeUdp, ConnectTcp, Resolve, Kill, Over, Running, Following, vars
<1>3. stage' # "killed" => WithinBudget'
  <2>1. CASE stage = "killed"
    BY <1>2, <2>1 DEF vars
  <2>2. CASE stage # "killed"
    BY <2>2, BudgetStep DEF IInv
  <2>. QED BY <2>1, <2>2
<1>4. FittingCycleEnds'
  <2>. SUFFICES ASSUME Worst < Timeout, stage # "killed" PROVE stage' # "killed"
    <3>1. Worst' = Worst
      BY DEF Worst, Next, Undeadlined, ProbeUdp, ConnectTcp, Resolve, Kill, Over, vars
    <3>. QED BY <1>2, <3>1 DEF IInv, FittingCycleEnds, vars
  <2>1. ~Kill
    BY NoKill DEF IInv
  <2>. QED BY <2>1 DEF Next, Undeadlined, ProbeUdp, ConnectTcp, Resolve, Over, Following, vars
<1>. QED BY <1>1, <1>3, <1>4 DEF IInv

LEMMA Established == Init => IInv
PROOF
<1>1. Init => stage # "killed"
  BY DEF Init
<1>. QED BY <1>1, TypeInit, BudgetInit DEF IInv, FittingCycleEnds

(***************************************************************************)
(* The clock of the cycle and its counters stay within their bounds,       *)
(* whatever is configured.                                                 *)
(***************************************************************************)
THEOREM TypeCorrect == Spec => []TypeOK
PROOF
<1>1. IInv => TypeOK BY DEF IInv
<1>. QED BY <1>1, Established, Inductive, PTL DEF Spec

(***************************************************************************)
(* A cycle whose deadlines and other steps fit into the timeout together   *)
(* ends by itself, for every number of forwarders, silent or not.          *)
(***************************************************************************)
THEOREM FittingEnds == Spec => []FittingCycleEnds
PROOF
<1>1. IInv => FittingCycleEnds BY DEF IInv
<1>. QED BY <1>1, Established, Inductive, PTL DEF Spec

=============================================================================
