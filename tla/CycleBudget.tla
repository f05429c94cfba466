----------------------------- MODULE CycleBudget -----------------------------
(***************************************************************************)
(* The time one cycle of the binary takes, against the timeout of the      *)
(* wrapper.  A forwarder costs up to UdpTimeout and then TcpTimeout        *)
(* seconds, and the two resolution probes ResTimeout each; PowerShell,     *)
(* WMI and PDH have no deadline in the code.  One step of the program is   *)
(* one step of the model, which takes some seconds of the clock.           *)
(*                                                                         *)
(* Others, the seconds that the steps without a deadline take together,    *)
(* is the one assumption about the machine.  What the cycle sends leaves   *)
(* it in one flush at the end (MonitorCycle).                              *)
(***************************************************************************)
EXTENDS Naturals

CONSTANTS
  MaxForwarders,
  UdpTimeout,     \* forwarder_timeout_sec
  TcpTimeout,
  ResTimeout,
  Others,
  Timeout         \* timeout of conf.yaml

ASSUME BudgetAssumption ==
  {MaxForwarders, UdpTimeout, TcpTimeout, ResTimeout, Others, Timeout} \subseteq Nat

VARIABLES
  forwarders,  \* how many are configured or detected
  silent,      \* so many of them, the first of the list, drop every packet
  stage,       \* what runs, or how it ended: "ended", "killed"
  probed,      \* forwarders dealt with
  other,       \* seconds spent in steps without a deadline
  clock        \* seconds since the binary was started

vars == <<forwarders, silent, stage, probed, other, clock>>

\* The steps without a deadline, and what follows each.
Following ==
  [detect   |-> "service", service |-> "perfmon", perfmon |-> "settings",
   settings |-> IF forwarders = 0 THEN "baseline" ELSE "udp",
   zones    |-> "process", process |-> "ended"]

Stages == DOMAIN Following \cup {"udp", "tcp", "baseline", "external", "ended", "killed"}

-----------------------------------------------------------------------------
\* With forwarder_ips in the configuration nothing is detected.
Init ==
  /\ forwarders \in 0 .. MaxForwarders
  /\ silent \in 0 .. forwarders
  /\ stage \in {"detect", "service"}
  /\ probed = 0 /\ other = 0 /\ clock = 0

\* Faulty: dialling and reading have a deadline each.
WaitsTwice(limit) == IF probed < silent THEN {2 * limit} ELSE 0 .. 2 * limit

\* A silent forwarder takes the whole of a timeout, any other what it likes.
Waits(limit) == IF probed < silent THEN {limit} ELSE 0 .. limit

Durations ==
  IF stage \in DOMAIN Following THEN 0 .. Others - other
  ELSE CASE stage = "udp" -> Waits(UdpTimeout)
         [] stage = "tcp" -> Waits(TcpTimeout)
         [] OTHER         -> 0 .. ResTimeout

Running == stage \notin {"ended", "killed"}

\* A step that the timeout does not interrupt.
Takes(d) == clock + d <= Timeout /\ clock' = clock + d

Undeadlined ==
  /\ stage \in DOMAIN Following
  /\ \E d \in Durations : Takes(d) /\ other' = other + d
  /\ stage' = Following[stage]
  /\ UNCHANGED <<forwarders, silent, probed>>

ProbeUdp ==
  /\ stage = "udp"
  /\ \E d \in Durations : Takes(d)
  /\ stage' = "tcp"
  /\ UNCHANGED <<forwarders, silent, probed, other>>

ConnectTcp ==
  /\ stage = "tcp"
  /\ \E d \in Durations : Takes(d)
  /\ probed' = probed + 1
  /\ stage' = IF probed + 1 = forwarders THEN "baseline" ELSE "udp"
  /\ UNCHANGED <<forwarders, silent, other>>

\* probeViaRawDNS, then resolveVia127 unless no domain is configured.
Resolve ==
  /\ stage \in {"baseline", "external"}
  /\ \E d \in Durations : Takes(d)
  /\ stage' = IF stage = "baseline" THEN "external" ELSE "zones"
  /\ UNCHANGED <<forwarders, silent, probed, other>>

Kill ==
  /\ Running
  /\ \E d \in Durations : clock + d >= Timeout
  /\ clock' = Timeout
  /\ stage' = "killed"
  /\ UNCHANGED <<forwarders, silent, probed, other>>

Over == ~Running /\ UNCHANGED vars

Next == Undeadlined \/ ProbeUdp \/ ConnectTcp \/ Resolve \/ Kill \/ Over

Spec == Init /\ [][Next]_vars

-----------------------------------------------------------------------------
TypeOK ==
  /\ forwarders \in 0 .. MaxForwarders
  /\ silent \in 0 .. forwarders
  /\ stage \in Stages
  /\ probed \in 0 .. forwarders
  /\ other \in 0 .. Others
  /\ clock \in 0 .. Timeout

\* What a cycle may cost at most.
Worst == Others + forwarders * (UdpTimeout + TcpTimeout) + 2 * ResTimeout

(***************************************************************************)
(* A cycle whose forwarders, resolution probes and other steps fit into    *)
(* the timeout together is never killed, whichever of them are silent and  *)
(* however the time is spread over the steps (forwarder.go:176-216,        *)
(* resolution.go, dns_monitor.py:47-49).                                   *)
(***************************************************************************)
FittingCycleEnds == Worst < Timeout => stage # "killed"

(***************************************************************************)
(* The monitor of README.md, "Forwarder Down" on availability < 1, needs   *)
(* the metric: when all forwarders are silent the cycle still sends it.    *)
(***************************************************************************)
AllDownIsReported == silent = forwarders => stage # "killed"

=============================================================================
