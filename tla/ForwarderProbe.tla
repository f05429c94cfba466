---------------------------- MODULE ForwarderProbe ----------------------------
(***************************************************************************)
(* CollectForwarders of collector/forwarder.go and _collect_forwarders of  *)
(* dns_moniter.py: each forwarder of the list is probed in turn, first by  *)
(* one DNS query over UDP (a new socket per probe, one datagram out, one   *)
(* read with a deadline, no retry), then by a TCP connect; a summary over  *)
(* all forwarders follows.                                                 *)
(*                                                                         *)
(* The network may lose, delay, duplicate and reorder datagrams.  A reply  *)
(* that comes after its probe has given up reaches a later probe whose     *)
(* socket was given the same port: from the same forwarder only when the   *)
(* socket is connected (Go), from any forwarder when it is not (Python).   *)
(*                                                                         *)
(* Bounds: a probe's deadline is Timeout ticks; the health of the          *)
(* forwarders does not change during a cycle, nor does the program, which  *)
(* is chosen at the start.  The transaction id of a query differs from     *)
(* those still in flight: the code draws it from 65535 values, and only    *)
(* whether two ids are equal matters here.                                 *)
(***************************************************************************)
EXTENDS Naturals, Sequences, FiniteSets

CONSTANTS
  Forwarders,  \* the resolvers
  List,        \* forwarderIPs, configured or detected: may name one twice
  TxIds,
  Ports,       \* local ports the sockets get
  Timeout      \* forwarder_timeout_sec, in ticks

ASSUME ProbeAssumption ==
  /\ List \in Seq(Forwarders)
  /\ Timeout \in Nat \ {0}
  /\ IsFiniteSet(TxIds) /\ Cardinality(TxIds) >= Len(List)

VARIABLES
  health,     \* how a forwarder answers a query, or "silent"
  connected,  \* the program is the Go one, whose sockets are connected
  net,        \* datagrams in flight
  step,       \* what the loop does: "probe", "await", "tcp", "summary", "done"
  query,      \* the query the open socket waits for
  elapsed,    \* ticks since it was sent
  up, latency,              \* the result of the probe
  availCount, bestLatency,  \* bestLatency is Never until a forwarder is up
  report,     \* the metrics of each forwarder, in the order of the list
  summary,
  answered    \* observer: the probes whose query was answered while they waited

netVars   == <<health, connected, net, answered>>
probeVars == <<query, elapsed, up, latency>>
vars      == <<netVars, step, probeVars, availCount, bestLatency, report, summary>>

Answers == {"resolved", "refused", "servfail", "malformed", "unreachable"}

Never == Timeout + 1

Current == List[Len(report) + 1]

NoSummary == [available |-> 0, degraded |-> 0, best |-> Never]

-----------------------------------------------------------------------------
Init ==
  /\ health \in [Forwarders -> Answers \cup {"silent"}] /\ connected \in BOOLEAN
  /\ net = {} /\ answered = {}
  /\ query = <<>> /\ elapsed = 0 /\ up = FALSE /\ latency = 0
  /\ availCount = 0 /\ bestLatency = Never
  /\ report = <<>> /\ summary = NoSummary
  /\ step = IF List = <<>> THEN "done" ELSE "probe"

-----------------------------------------------------------------------------
(* The network and the forwarders.                                         *)

Queries == {m \in net : m.answer = "none"}
Replies == net \ Queries

\* The query of the open socket is told from older ones: its id is new.
Answer ==
  /\ \E q \in Queries :
       /\ health[q.fwd] # "silent"
       /\ net' = (net \ {q}) \cup {[q EXCEPT !.answer = health[q.fwd]]}
       /\ answered' = IF step = "await" /\ q = query THEN answered \cup {Len(report) + 1}
                      ELSE answered
  /\ UNCHANGED <<health, connected, step, probeVars, availCount, bestLatency, report, summary>>

Lose ==
  /\ \E m \in net : net' = net \ {m}
  /\ UNCHANGED <<health, connected, answered, step, probeVars, availCount, bestLatency, report, summary>>

-----------------------------------------------------------------------------
(* probeForwarder, _probe_dns.                                             *)

Decided(ok, ms) == up' = ok /\ latency' = ms /\ step' = "tcp"

\* There is one: a cycle sends no more queries than there are ids.
FreshId ==
  CHOOSE id \in TxIds : (\A m \in net : m.id # id) \/ {m.id : m \in net} = TxIds

SendQuery ==
  /\ step = "probe"
  /\ \E port \in Ports :
       LET q == [fwd |-> Current, port |-> port, id |-> FreshId, answer |-> "none"]
       IN  query' = q /\ net' = net \cup {q}
  /\ elapsed' = 0
  /\ step' = "await"
  /\ UNCHANGED <<health, connected, answered, up, latency, availCount, bestLatency, report, summary>>

\* Dial or Write fails: no route to the forwarder.
SendFails ==
  /\ step = "probe"
  /\ Decided(FALSE, 0)
  /\ query' = <<>>
  /\ UNCHANGED <<netVars, elapsed, availCount, bestLatency, report, summary>>

\* Faulty: one tick too many.
TickTooLong ==
  /\ step = "await" /\ elapsed <= Timeout
  /\ elapsed' = elapsed + 1
  /\ UNCHANGED <<netVars, step, query, up, latency, availCount, bestLatency, report, summary>>

Tick ==
  /\ step = "await" /\ elapsed < Timeout
  /\ elapsed' = elapsed + 1
  /\ UNCHANGED <<netVars, step, query, up, latency, availCount, bestLatency, report, summary>>

\* Faulty: the transaction id is not compared.
ValidWhateverId(m) == m.answer # "malformed" /\ m.answer # "servfail"

\* isValidDNSResponse: long enough, a response, to this query, not SERVFAIL.
IsValidDNSResponse(m) ==
  m.answer # "malformed" /\ m.id = query.id /\ m.answer # "servfail"

Reaches(m) == m.port = query.port /\ (connected => m.fwd = Current)

\* The one read: whatever datagram reaches the socket decides.  The network
\* may deliver the datagram a second time.
ReadReply ==
  /\ step = "await"
  /\ \E m \in Replies :
       /\ Reaches(m) /\ m.answer # "unreachable"
       /\ Decided(IsValidDNSResponse(m), elapsed)
       /\ net' \in {net, net \ {m}}
  /\ UNCHANGED <<health, connected, answered, query, elapsed, availCount, bestLatency, report, summary>>

\* What Go and Python report as the latency of a read that failed.
FailedLatency == IF connected THEN elapsed ELSE 0

ReadFails ==
  /\ step = "await"
  /\ \/ elapsed = Timeout
     \/ \E m \in Replies : Reaches(m) /\ m.answer = "unreachable"
  /\ Decided(FALSE, FailedLatency)
  /\ UNCHANGED <<netVars, query, elapsed, availCount, bestLatency, report, summary>>

-----------------------------------------------------------------------------
(* The rest of the loop body, and what follows the loop.                   *)

\* Faulty: the latest latency wins.
CountUpLatest ==
  /\ availCount' = IF up THEN availCount + 1 ELSE availCount
  /\ bestLatency' = IF up THEN latency ELSE bestLatency

CountUp ==
  /\ availCount' = IF up THEN availCount + 1 ELSE availCount
  /\ bestLatency' = IF up /\ latency < bestLatency THEN latency ELSE bestLatency

\* Faulty: a forwarder that is down is probed again, without a limit.
TcpConnectRetries ==
  /\ step = "tcp"
  /\ CountUp
  /\ \E tcp \in BOOLEAN :
       report' = IF ~up THEN report ELSE Append(report,
                   [up |-> up, latency |-> latency, tcp |-> tcp, broken |-> ~up /\ tcp])
  /\ step' = IF up /\ Len(report) + 1 = Len(List) THEN "summary" ELSE "probe"
  /\ UNCHANGED <<netVars, probeVars, summary>>

\* The connect succeeds within its 3 seconds or fails, whatever UDP does.
TcpConnect ==
  /\ step = "tcp"
  /\ CountUp
  /\ \E tcp \in BOOLEAN :
       report' = Append(report,
                   [up |-> up, latency |-> latency, tcp |-> tcp, broken |-> ~up /\ tcp])
  /\ step' = IF Len(report) + 1 = Len(List) THEN "summary" ELSE "probe"
  /\ UNCHANGED <<netVars, probeVars, summary>>

Summarise ==
  /\ step = "summary"
  /\ summary' = [available |-> availCount,
                 degraded  |-> Len(List) - availCount,
                 best      |-> bestLatency]
  /\ step' = "done"
  /\ UNCHANGED <<netVars, probeVars, availCount, bestLatency, report>>

Collector ==
  SendQuery \/ SendFails \/ ReadReply \/ ReadFails \/ TcpConnect \/ Summarise

Done == step = "done" /\ UNCHANGED vars

Next == Answer \/ Lose \/ Tick \/ Collector \/ Done

(***************************************************************************)
(* Time passes and the collector runs; nothing is assumed of the network.  *)
(***************************************************************************)
Spec == Init /\ [][Next]_vars /\ WF_vars(Tick) /\ WF_vars(Collector)

-----------------------------------------------------------------------------
Datagram ==
  [fwd : Forwarders, port : Ports, id : TxIds, answer : Answers \cup {"none"}]

TypeOK ==
  /\ health \in [Forwarders -> Answers \cup {"silent"}] /\ connected \in BOOLEAN
  /\ net \subseteq Datagram
  /\ step \in {"probe", "await", "tcp", "summary", "done"}
  /\ query \in Datagram \cup {<<>>}
  /\ elapsed \in 0 .. Timeout
  /\ up \in BOOLEAN /\ latency \in 0 .. Timeout
  /\ availCount \in 0 .. Len(List) /\ bestLatency \in 0 .. Never
  /\ report \in Seq([up : BOOLEAN, latency : 0 .. Timeout, tcp : BOOLEAN, broken : BOOLEAN])
  /\ Len(report) <= Len(List)
  /\ summary \in [available : 0 .. Len(List), degraded : 0 .. Len(List), best : 0 .. Never]
  /\ answered \subseteq DOMAIN List

Ups == {k \in DOMAIN report : report[k].up}

(***************************************************************************)
(* A probe reports its forwarder up only if this forwarder answered this   *)
(* probe's query before the probe gave up, and not with SERVFAIL: no late  *)
(* answer, neither of another forwarder (Python's socket takes any) nor of *)
(* the same one to an earlier probe (a list may name it twice), makes a    *)
(* forwarder look up that does not answer now (forwarder.go:45-54,         *)
(* dns_moniter.py:123-130).                                                *)
(***************************************************************************)
UpMeansAnswered ==
  \A k \in Ups : k \in answered /\ health[List[k]] \in {"resolved", "refused"}

(***************************************************************************)
(* The summary agrees with the per-forwarder metrics of the same cycle:    *)
(* up and down add up to the configured ones, and the best latency is the  *)
(* least of those that are up, and is left out exactly when none is        *)
(* (forwarder.go:187-230).                                                 *)
(***************************************************************************)
SummaryAgrees ==
  step = "done" /\ List # <<>> =>
    /\ summary.available = Cardinality(Ups)
    /\ summary.degraded = Cardinality(DOMAIN List \ Ups)
    /\ summary.best = Never <=> Ups = {}
    /\ \A k \in Ups : summary.best <= report[k].latency
    /\ Ups # {} => \E k \in Ups : summary.best = report[k].latency

(***************************************************************************)
(* The rule of both programs, "Timeout/SERVFAIL = DOWN": a forwarder that  *)
(* answers well is not found down before the deadline is over.             *)
(***************************************************************************)
DownIsTimeoutOrServfail ==
  [][step = "await" /\ step' = "tcp" /\ ~up' /\ health[Current] \in {"resolved", "refused"}
       => elapsed = Timeout]_vars

(***************************************************************************)
(* The cycle over the list ends, whatever the network does with the        *)
(* datagrams.                                                              *)
(***************************************************************************)
CycleEnds == <>(step = "done")

(***************************************************************************)
(* README.md on resolver_broken: "This is a forwarder-side issue, not a    *)
(* network issue."                                                         *)
(***************************************************************************)
BrokenIsForwarderSide ==
  \A k \in DOMAIN report : report[k].broken => health[List[k]] # "resolved"

(***************************************************************************)
(* README.md on the forwarder probe: "This proves the forwarder is         *)
(* reachable AND resolving, not just port-open."                           *)
(***************************************************************************)
UpMeansResolving == \A k \in Ups : health[List[k]] = "resolved"

=============================================================================
