------------------------------ MODULE Resolution ------------------------------
(***************************************************************************)
(* CollectResolution of collector/resolution.go and _collect_resolution of *)
(* dns_moniter.py, cycle after cycle for one domain: the baseline probe    *)
(* sends one query for a random name under the domain to the DNS server of *)
(* this machine, the external probe then looks up the domain itself.  The  *)
(* server, its cache and its forwarders change at any moment, also between *)
(* the two probes and while one of them waits.                             *)
(*                                                                         *)
(* Time is counted in ticks, from the sending of a query.  That a stray    *)
(* reply reaches a probe is the subject of ForwarderProbe, which shares    *)
(* the technique.                                                          *)
(***************************************************************************)
EXTENDS Naturals

CONSTANTS
  Deadline,      \* of a probe
  Warn, Crit     \* resolution_warn_ms, resolution_crit_ms

ASSUME ResolutionAssumption == Deadline \in Nat \ {0} /\ Warn \in Nat /\ Crit \in Nat

VARIABLES
  python,         \* dns_moniter.py probes; else collector/resolution.go
  authoritative,  \* the server has the zone of the domain
  server,         \* "running", "hung" or "stopped"
  forwarders,     \* one of them answers
  cached,         \* the server has the domain in its cache
  stage,          \* "baseline", "await", "external"
  waited,
  reply,          \* "none", "resolved", "cached" or "servfail"
  baseline,       \* status, latency_ms and service_check of the latest cycle
  external        \* status and latency_ms

fixed == <<python, authoritative>>
network == <<fixed, server, forwarders, cached>>
resolutionVars == <<network, stage, waited, reply, baseline, external>>

OK       == 0
WARNING  == 1
CRITICAL == 2

-----------------------------------------------------------------------------
ResolutionInit ==
  /\ python \in BOOLEAN /\ authoritative \in BOOLEAN
  /\ server \in {"running", "hung", "stopped"} /\ forwarders \in BOOLEAN /\ cached \in BOOLEAN
  /\ stage = "baseline" /\ waited = 0 /\ reply = "none"
  /\ baseline = [up |-> FALSE, latency |-> 0, check |-> CRITICAL]
  /\ external = [up |-> FALSE, latency |-> 0]

-----------------------------------------------------------------------------
(* The server and its forwarders.                                          *)

Change ==
  /\ \/ server' \in {"running", "hung", "stopped"} /\ UNCHANGED <<forwarders, cached>>
     \/ forwarders' \in BOOLEAN /\ UNCHANGED <<server, cached>>
     \/ cached' = FALSE /\ UNCHANGED <<server, forwarders>>
  /\ UNCHANGED <<fixed, stage, waited, reply, baseline, external>>

\* Faulty: the domain itself is asked for.
NeverAsked == FALSE
\* A name with a random label of twelve characters was never asked for.
FreshName == TRUE

CanAnswer(fresh) ==
  server = "running" /\ (authoritative \/ forwarders \/ (~fresh /\ cached))

\* Without an answer of a forwarder: SERVFAIL, or nothing until the deadline.
Serve ==
  /\ stage = "await" /\ reply = "none" /\ server = "running"
  /\ reply' = IF ~CanAnswer(FreshName) THEN "servfail"
              ELSE IF CanAnswer(TRUE) THEN "resolved" ELSE "cached"
  /\ UNCHANGED <<network, stage, waited, baseline, external>>

-----------------------------------------------------------------------------
(* probeViaRawDNS, _probe_dns and what is sent of their result.            *)

SendBaseline ==
  /\ stage = "baseline"
  /\ stage' = "await" /\ waited' = 0 /\ reply' = "none"
  /\ UNCHANGED <<network, baseline, external>>

Wait ==
  /\ stage = "await" /\ waited < Deadline
  /\ waited' = waited + 1
  /\ UNCHANGED <<network, stage, reply, baseline, external>>

Check(up, ms) ==
  IF up /\ ms <= Warn THEN OK ELSE IF up /\ ms <= Crit THEN WARNING ELSE CRITICAL

\* Faulty: a failure leaves the result of an earlier cycle.
BaselineIfUp(up, ms) ==
  /\ baseline' = IF up THEN [up |-> up, latency |-> ms, check |-> Check(up, ms)] ELSE baseline
  /\ stage' = "external"
  /\ UNCHANGED <<network, waited, reply, external>>

\* Faulty: a latency that is rounded up, past the deadline.
BaselineRoundedUp(up, ms) ==
  /\ baseline' = [up |-> up, latency |-> ms + 1, check |-> Check(up, ms)]
  /\ stage' = "external"
  /\ UNCHANGED <<network, waited, reply, external>>

Baseline(up, ms) ==
  /\ baseline' = [up |-> up, latency |-> ms, check |-> Check(up, ms)]
  /\ stage' = "external"
  /\ UNCHANGED <<network, waited, reply, external>>

BaselineSendFails == stage = "baseline" /\ Baseline(FALSE, 0)

\* NXDOMAIN is up, SERVFAIL is not.
BaselineReads ==
  /\ stage = "await" /\ reply # "none"
  /\ Baseline(reply # "servfail", waited)

\* Faulty: a timeout has no latency.
NoLatency == 0
LatencyOfFailure == IF python THEN 0 ELSE waited

\* The deadline is over, or the port of a stopped server is unreachable.
BaselineReadFails ==
  /\ stage = "await" /\ (waited = Deadline \/ server = "stopped")
  /\ Baseline(FALSE, LatencyOfFailure)

\* Go: LookupHost asks this server; Python: getaddrinfo asks what the operating
\* system is set up to ask, and has no deadline.
ExternalMayAnswer == IF python THEN TRUE ELSE CanAnswer(FALSE)

External ==
  /\ stage = "external" /\ stage' = "baseline"
  /\ \E up \in BOOLEAN, ms \in 0 .. Deadline :
       /\ up => ExternalMayAnswer
       /\ external' = [up |-> up, latency |-> IF python /\ ~up THEN 0 ELSE ms]
       /\ cached' = (cached \/ (up /\ ~python))
  /\ UNCHANGED <<fixed, server, forwarders, waited, reply, baseline>>

ResolutionStep ==
  SendBaseline \/ BaselineSendFails \/ BaselineReads \/ BaselineReadFails \/ External

ResolutionNext == Change \/ Serve \/ Wait \/ ResolutionStep

(***************************************************************************)
(* Time passes and the Agent calls the check again and again; nothing is   *)
(* assumed of the server.                                                  *)
(***************************************************************************)
ResolutionSpec ==
  /\ ResolutionInit /\ [][ResolutionNext]_resolutionVars
  /\ WF_resolutionVars(Wait) /\ WF_resolutionVars(ResolutionStep)

-----------------------------------------------------------------------------
ResolutionTypeOK ==
  /\ server \in {"running", "hung", "stopped"}
  /\ {python, authoritative, forwarders, cached} \subseteq BOOLEAN
  /\ stage \in {"baseline", "await", "external"}
  /\ waited \in 0 .. Deadline
  /\ reply \in {"none", "resolved", "cached", "servfail"}
  /\ baseline \in [up : BOOLEAN, latency : 0 .. Deadline, check : {OK, WARNING, CRITICAL}]
  /\ external \in [up : BOOLEAN, latency : 0 .. Deadline]

Measured == stage # "external" /\ stage' = "external"

(***************************************************************************)
(* The baseline is up only if the server resolved the name just now, never *)
(* on the strength of its cache (resolution.go:42, dns_moniter.py:140).    *)
(***************************************************************************)
UpMeansFreshAnswer == [][Measured /\ baseline'.up => reply = "resolved"]_resolutionVars

(***************************************************************************)
(* An outage that stays is shown and stays shown: if the server stops      *)
(* answering for good, the baseline is CRITICAL from some cycle on.        *)
(***************************************************************************)
OutageShows ==
  <>[](server # "running") => <>[](~baseline.up /\ baseline.check = CRITICAL)

(***************************************************************************)
(* A server that lets the whole deadline pass looks slower than any        *)
(* threshold on latency_ms, as dns_monitor.d/conf.yaml suggests one:       *)
(* resolution.go:72-77 sends the time it waited.  dns_moniter.py sends 0.  *)
(***************************************************************************)
LooksSlow == stage = "await" /\ waited = Deadline => baseline'.latency > Crit

SilentLooksSlow == [][Measured /\ ~python => LooksSlow]_resolutionVars

SilentLooksSlowAlways == [][Measured => LooksSlow]_resolutionVars

(***************************************************************************)
(* resolution.go on the baseline: "Measures pure DNS server                *)
(* responsiveness": a server that runs and answers in time is up.          *)
(***************************************************************************)
BaselineIsLocal ==
  [][Measured /\ stage = "await" /\ reply # "none" /\ server = "running"
       => baseline'.up]_resolutionVars

(***************************************************************************)
(* resolution.go on the external probe: "Tests full recursive resolution   *)
(* through forwarders to the internet."                                    *)
(***************************************************************************)
ExternalIsRecursive ==
  [][stage = "external" /\ stage' = "baseline" /\ external'.up => forwarders]_resolutionVars

=============================================================================
