-------------------------------- MODULE PyCheck --------------------------------
(***************************************************************************)
(* The check of dns_moniter.py: each call of check() runs the collectors   *)
(* one after the other, each of which submits metrics to the Agent at once *)
(* and returns how many it counted, and ends with three metrics about      *)
(* itself.  An exception inside a collector is swallowed by the collector  *)
(* (the metrics submitted until then stay submitted, and are not counted), *)
(* except one: sc.exe for the DNS service is called outside any try.       *)
(*                                                                         *)
(* A metric is abstracted to its being submitted; two service checks are   *)
(* kept by name.  What a collector waits for outside the check may not     *)
(* answer: a subprocess or a socket with a timeout expires, and what the   *)
(* collector submits then is what its failure path submits; the Service    *)
(* Control Manager, getaddrinfo and PDH are called without any deadline.   *)
(* The metrics a collector submitted before it hangs are counted with the  *)
(* step that ends it.  The check lives as long as the Agent, and so do the *)
(* PDH queries it does not close; MaxCalls bounds the calls looked at.     *)
(***************************************************************************)
EXTENDS Naturals, Sequences, FiniteSets

CONSTANTS
  Counters,       \* PDH counters, 15 in the code
  MaxForwarders,  \* forwarders configured or detected
  MaxDomains,     \* resolution_probe_domains
  MaxZones,       \* zones the DNS server has
  MaxCalls

ASSUME CheckAssumption ==
  /\ {Counters, MaxForwarders, MaxZones, MaxCalls} \subseteq Nat
  /\ MaxDomains \in Nat \ {0}

VARIABLES
  stage,       \* the collector that runs, "monitor", "done" or "raised"
  outside,     \* what it waits for: "answers", "hangs", "expired" or "stuck"
  forwarders,  \* how many there are to probe
  domains,     \* how many there are to resolve
  resolved,    \* how many have been
  submitted,   \* metrics submitted to the Agent
  count,       \* metric_count
  checks,      \* service checks submitted
  cutShort,    \* collectors that gave up with metrics submitted
  reported,    \* dns.monitor.metrics_emitted, once submitted
  calls,       \* of check(), before this one
  withCpu,     \* calls that submitted process.cpu_pct
  queries      \* PDH queries open

config == <<forwarders, domains>>
pdh    == <<withCpu, queries>>
check  == <<stage, config, resolved, submitted, count, checks, cutShort, reported, calls, pdh>>
vars   == <<check, outside>>

Stages ==
  {"detect", "service", "perfmon", "statistics", "forwarders", "resolution",
   "zones", "process", "events", "scavenging", "monitor", "done", "raised"}

Ended == stage \in {"done", "raised"}

Collecting == stage \notin {"monitor", "done", "raised"}

\* The collectors that also make a call without a deadline: the Service
\* Control Manager, getaddrinfo, PDH.
WithoutDeadline == {"service", "resolution", "process"}

NotReported == 0  \* metrics_emitted is never less than 2

-----------------------------------------------------------------------------
\* forwarder_ips may be empty, res_domains never is.
FirstStage(fwds) == IF fwds = 0 THEN "detect" ELSE "service"

Init ==
  /\ forwarders \in 0 .. MaxForwarders
  /\ domains \in 1 .. MaxDomains
  /\ stage = FirstStage(forwarders)
  /\ resolved = 0 /\ submitted = 0 /\ count = 0
  /\ checks = <<>> /\ cutShort = {} /\ reported = NotReported
  /\ calls = 0 /\ withCpu = 0 /\ queries = 0
  /\ outside = "answers"

Submit(n) == submitted' = submitted + n
Counted(n) == Submit(n) /\ count' = count + n /\ UNCHANGED cutShort
CutShort(n) ==
  Submit(n) /\ UNCHANGED count /\ cutShort' = IF n > 0 THEN cutShort \cup {stage} ELSE cutShort

Collector(name, following) ==
  /\ stage = name /\ stage' = following
  /\ outside \in {"answers", "expired"} /\ outside' = "answers"
  /\ UNCHANGED <<reported, calls>>

\* What may come of a collector: after a timeout only its failure.
OnTimeout(failure, any) == IF outside = "expired" THEN failure ELSE any

-----------------------------------------------------------------------------
(* What the collectors wait for.                                           *)

\* A subprocess or a socket with a timeout does not answer...
Hang ==
  /\ Collecting /\ outside = "answers"
  /\ outside' = "hangs"
  /\ UNCHANGED check

\* Faulty: the sockets of the probes have no timeout.
ExpireSubprocesses ==
  /\ outside = "hangs" /\ stage \notin {"forwarders", "resolution"}
  /\ outside' = "expired"
  /\ UNCHANGED check

\* ... and the timeout is over.
Expire ==
  /\ outside = "hangs"
  /\ outside' = "expired"
  /\ UNCHANGED check

\* A call without a deadline does not return.
Stick ==
  /\ stage \in WithoutDeadline /\ outside \in {"answers", "expired"}
  /\ outside' = "stuck"
  /\ UNCHANGED check

-----------------------------------------------------------------------------
(* The collectors.                                                         *)

\* Get-DnsServerForwarder; '' when PowerShell fails, and then no forwarder.
DetectForwarders ==
  /\ Collector("detect", "service")
  /\ forwarders' \in OnTimeout({0}, 0 .. MaxForwarders)
  /\ UNCHANGED <<domains, resolved, submitted, count, checks, cutShort, pdh>>

\* The Service Control Manager or sc.exe tells the state; up, status,
\* start_auto and wid_running (-1 when its own sc.exe fails).
CollectService ==
  /\ Collector("service", "perfmon")
  /\ Counted(4)
  /\ checks' = Append(checks, "service")
  /\ UNCHANGED <<config, resolved, pdh>>

\* Faulty: a gauge is submitted before sc.exe is asked.
ServiceRaisesLate ==
  /\ Collector("service", "raised")
  /\ Submit(1)
  /\ UNCHANGED <<config, resolved, count, checks, cutShort, pdh>>

\* The first sc.exe of _service_via_sc is missing or runs into its timeout.
ServiceRaises ==
  /\ Collector("service", "raised")
  /\ UNCHANGED <<config, resolved, submitted, count, checks, cutShort, pdh>>

\* Faulty: performance.available is not counted.
CollectPerfmonShort ==
  /\ Collector("perfmon", "statistics")
  /\ \E n \in 0 .. Counters : Submit(n + 1) /\ count' = count + n
  /\ UNCHANGED <<config, resolved, checks, cutShort, pdh>>

\* typeperf yields any of the counters; performance.available follows.
CollectPerfmon ==
  /\ Collector("perfmon", "statistics")
  /\ \E n \in OnTimeout({0}, 0 .. Counters) : Counted(n + 1)
  /\ UNCHANGED <<config, resolved, checks, pdh>>

\* Queries, errors, recursion, cache, updates, security and DNSSEC.
StatisticsLines == 11 + 7 + 8 + 5 + 8 + 5 + 7

\* No statistics; or all of them, with two ratios if there were queries, the
\* hit ratio if there were not more recursions, and the memory if it is known.
CollectStatistics ==
  /\ Collector("statistics", "forwarders")
  /\ \E n \in OnTimeout({0}, {0} \cup StatisticsLines .. StatisticsLines + 4) : Counted(n)
  /\ UNCHANGED <<config, resolved, checks, pdh>>

\* Three lines about the configuration; without forwarders two zeros, else
\* four for each, three over all and the best latency if one is up.
ForwarderLines(anyUp) ==
  IF forwarders = 0 THEN 3 + 2
  ELSE 3 + 4 * forwarders + 3 + (IF anyUp THEN 1 ELSE 0)

CollectForwarders ==
  /\ Collector("forwarders", "resolution")
  /\ \E anyUp \in BOOLEAN : Counted(ForwarderLines(anyUp))
  /\ UNCHANGED <<config, resolved, checks, pdh>>

\* Faulty: no service check for a domain.
ResolveUnchecked ==
  /\ Collector("resolution", IF resolved + 1 = domains THEN "zones" ELSE "resolution")
  /\ Counted(2 + 1 + 2)
  /\ resolved' = resolved + 1
  /\ UNCHANGED <<config, checks, pdh>>

\* One domain per step: baseline and external probe, failed or not.
CollectResolution ==
  /\ Collector("resolution", IF resolved + 1 = domains THEN "zones" ELSE "resolution")
  /\ Counted(2 + 1 + 2)
  /\ checks' = Append(checks, "resolution")
  /\ resolved' = resolved + 1
  /\ UNCHANGED <<config, pdh>>

\* A query that fails leaves no zones: eight zeros.
CollectZones ==
  /\ Collector("zones", "process")
  /\ \E n \in OnTimeout({0}, 0 .. MaxZones) : Counted(8 + 3 * n)
  /\ UNCHANGED <<config, resolved, checks, pdh>>

\* Seven values of Get-Process, converted and submitted one by one and counted
\* together, and the uptime if it is known; a null is not a number.
ProcessValues == 7

\* Faulty: the query is never closed.
PdhNeverCloses(cpu) ==
  withCpu' = withCpu + cpu /\ queries' \in IF cpu = 1 THEN {queries + 1} ELSE {queries, queries + 1}

\* OpenQuery, then the counter and two samples, which may fail: CloseQuery is
\* reached only with a value.
Pdh(cpu) ==
  withCpu' = withCpu + cpu /\ queries' \in IF cpu = 1 THEN {queries} ELSE {queries, queries + 1}

CollectProcess ==
  /\ Collector("process", "events")
  /\ \E cpu \in 0 .. 1 :
       /\ Pdh(cpu)
       /\ \/ \E n \in OnTimeout({0}, {0, ProcessValues, ProcessValues + 1}) : Counted(n + cpu)
          \/ \E n \in OnTimeout({}, 1 .. ProcessValues - 1) :
               /\ Submit(n + cpu)
               /\ count' = count + cpu
               /\ cutShort' = cutShort \cup {stage}
  /\ UNCHANGED <<config, resolved, checks>>

\* Two zeros when Get-WinEvent failed, nothing for an output of another form,
\* else five gauges, the first four of numbers that have to be converted.
CollectEvents ==
  /\ Collector("events", "scavenging")
  /\ \/ \E n \in OnTimeout({2}, {0, 2, 5}) : Counted(n)
     \/ \E n \in OnTimeout({}, 0 .. 3) : CutShort(n)
  /\ UNCHANGED <<config, resolved, checks, pdh>>

\* Two gauges of converted numbers, zeros if there is no output; udp_send_failures_total follows anyway.
CollectScavenging ==
  /\ Collector("scavenging", "monitor")
  /\ \/ \E n \in OnTimeout({2}, {0, 2}) : Counted(n + 1)
     \/ outside = "answers" /\ Submit(1 + 1) /\ count' = count + 1 /\ cutShort' = cutShort \cup {stage}
  /\ UNCHANGED <<config, resolved, checks, pdh>>

\* collection_duration_ms, metrics_emitted and integration_version.
SelfMonitor ==
  /\ stage = "monitor" /\ stage' = "done"
  /\ reported' = count + 2
  /\ Submit(3)
  /\ UNCHANGED <<config, resolved, count, checks, cutShort, calls, pdh, outside>>

CheckStep ==
  \/ Expire \/ DetectForwarders \/ CollectService \/ ServiceRaises \/ CollectPerfmon
  \/ CollectStatistics \/ CollectForwarders \/ CollectResolution \/ CollectZones
  \/ CollectProcess \/ CollectEvents \/ CollectScavenging \/ SelfMonitor

\* The Agent calls again, sixty seconds later; the configuration may be new.
NextCall ==
  /\ Ended /\ calls + 1 < MaxCalls
  /\ calls' = calls + 1
  /\ forwarders' \in 0 .. MaxForwarders /\ domains' \in 1 .. MaxDomains
  /\ stage' = FirstStage(forwarders')
  /\ resolved' = 0 /\ submitted' = 0 /\ count' = 0
  /\ checks' = <<>> /\ cutShort' = {} /\ reported' = NotReported
  /\ UNCHANGED <<pdh, outside>>

\* The check waits; the Agent does not call it again before it has returned.
Rest ==
  /\ outside \in {"hangs", "stuck"} \/ (Ended /\ calls + 1 >= MaxCalls)
  /\ UNCHANGED vars

Next == Hang \/ Stick \/ CheckStep \/ NextCall \/ Rest

(***************************************************************************)
(* The check runs, and the timeouts it sets fire; nothing is assumed of    *)
(* what it calls.                                                          *)
(***************************************************************************)
Spec == Init /\ [][Next]_vars /\ WF_vars(CheckStep)

-----------------------------------------------------------------------------
TypeOK ==
  /\ stage \in Stages
  /\ outside \in {"answers", "hangs", "expired", "stuck"}
  /\ forwarders \in 0 .. MaxForwarders /\ domains \in 1 .. MaxDomains
  /\ resolved \in 0 .. domains
  /\ {submitted, count, reported} \subseteq Nat
  /\ checks \in Seq({"service", "resolution"})
  /\ cutShort \subseteq {"process", "events", "scavenging"}
  /\ {calls, withCpu, queries} \subseteq Nat

(***************************************************************************)
(* What a full cycle reports as metrics_emitted falls short of what it     *)
(* submitted by integration_version and by the metrics of the collectors   *)
(* that gave up half-way, at most eleven in all, and by nothing else: no   *)
(* collector counts a metric it has not submitted or forgets one           *)
(* (dns_moniter.py:385-402).                                               *)
(***************************************************************************)
CountGapExplained ==
  stage = "done" =>
    /\ submitted - reported \in 1 .. 1 + 6 + 3 + 1
    /\ submitted = reported + 1 <=> cutShort = {}

(***************************************************************************)
(* A call that raises has reported nothing at all: the Agent shows the     *)
(* error of the check, and no half of a cycle (dns_moniter.py:385, 453).   *)
(***************************************************************************)
RaisedIsSilent ==
  stage = "raised" => submitted = 0 /\ checks = <<>> /\ reported = NotReported

(***************************************************************************)
(* A full cycle gives each service check exactly once: the DNS service,    *)
(* then each of the domains (dns_moniter.py:444, 716).                     *)
(***************************************************************************)
EveryServiceCheckOnce ==
  stage = "done" =>
    /\ Len(checks) = 1 + domains /\ Head(checks) = "service"
    /\ \A i \in DOMAIN checks : i > 1 => checks[i] = "resolution"

(***************************************************************************)
(* Each call returns or raises, however many of its subprocesses and       *)
(* sockets hang: only the Service Control Manager, getaddrinfo and PDH     *)
(* can hold it for ever (dns_moniter.py:99, 193, 453-465, 145, 673; 417,   *)
(* 726, 831).                                                              *)
(***************************************************************************)
CheckEnds == []<>Ended \/ <>[](stage \in WithoutDeadline /\ outside = "stuck")

(***************************************************************************)
(* Every PDH query that stays open shows as a call without cpu_pct: the    *)
(* queries open never outnumber the calls that could not send it           *)
(* (dns_moniter.py:829-841).                                               *)
(***************************************************************************)
LeaksShow == queries + withCpu <= calls + 1

(***************************************************************************)
(* README.md on metrics_emitted: "Metrics pushed this cycle".              *)
(***************************************************************************)
EmittedIsExact == stage = "done" => reported = submitted

=============================================================================
