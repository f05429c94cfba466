--------------------------- MODULE CounterPipeline ---------------------------
(***************************************************************************)
(* The performance counters of the DNS service on their way to a monitor:  *)
(* CollectPerfmon of collector/perfmon.go (PDH) and _read_pdh_counters     *)
(* with _collect_perfmon of dns_moniter.py (typeperf).  A counter is a     *)
(* total since the service started.  Each cycle sends the totals it could  *)
(* read as counts, which the Agent hands on as they are, and the monitor   *)
(* adds up what the last cycles sent.                                      *)
(*                                                                         *)
(* A counter is its position in _PDH_COUNTERS.  Which of the two programs  *)
(* is installed is chosen at the start.  Bounds: a total stops at          *)
(* MaxTotal; ages are counted up to one more than the monitor's window.    *)
(***************************************************************************)
EXTENDS Integers, Sequences, FiniteSets

CONSTANTS
  Counters,  \* how many there are, 15 in the code
  Watched,   \* the one the monitor looks at: zone transfer failures
  Window,    \* cycles the monitor looks back on, 5 for last_5m
  MaxTotal

ASSUME PipelineAssumption ==
  /\ Counters \in Nat /\ Watched \in 1 .. Counters
  /\ Window \in Nat \ {0} /\ MaxTotal \in Nat \ {0}

Positions == 1 .. Counters

VARIABLES
  typeperf,      \* dns_moniter.py, which has typeperf read; else perfmon.go
  total,         \* the counters of the DNS service
  sent,          \* the values the latest cycle sent
  available,     \* its performance.available
  points,        \* what the last cycles sent of the watched counter, newest first
  sinceFailure,  \* cycles since the watched counter last grew
  sinceRestart   \* cycles since the service started

vars == <<typeperf, total, sent, available, points, sinceFailure, sinceRestart>>

LongAgo == Window + 1
Older(age) == IF age = LongAgo THEN age ELSE age + 1

-----------------------------------------------------------------------------
Init ==
  /\ typeperf \in BOOLEAN
  /\ total = [c \in Positions |-> 0]
  /\ sent = <<>> /\ available = FALSE
  /\ points = [k \in 1 .. Window |-> 0]
  /\ sinceFailure = LongAgo /\ sinceRestart = 0

\* The DNS service counts; the DNS service starts anew.
Grow(c) ==
  /\ total[c] < MaxTotal
  /\ total' = [total EXCEPT ![c] = @ + 1]
  /\ sinceFailure' = IF c = Watched THEN 0 ELSE sinceFailure
  /\ UNCHANGED <<typeperf, sent, available, points, sinceRestart>>

Restart ==
  /\ total' = [c \in Positions |-> 0]
  /\ sinceRestart' = 0
  /\ UNCHANGED <<typeperf, sent, available, points, sinceFailure>>

-----------------------------------------------------------------------------
(* The reading.                                                            *)

\* What typeperf writes where it has no value, and what is not a number.
Blank == -1
Text  == -2

\* The last quoted line: of a sample, or the header if there is no sample.
Sample(readable) ==
  <<Text>> \o [c \in Positions |-> IF c \in readable THEN total[c] ELSE Blank]
Header == [n \in 1 .. Counters + 1 |-> Text]

\* Faulty: the time stamp is taken for a value.
ParseWithTimestamp(line) ==
  [c \in {c \in Positions : line[c] \notin {Text, Blank}} |-> line[c]]

\* float() of the columns behind the time stamp; negative ones are dropped.
Parse(line) ==
  LET vals == Tail(line)
  IN  [c \in {c \in Positions : vals[c] \notin {Text, Blank}} |-> vals[c]]

\* Faulty: what an earlier cycle read stays in the results.
PushKept(values) ==
  LET kept == [c \in DOMAIN values \cup DOMAIN sent |->
                 IF c \in DOMAIN values THEN values[c] ELSE sent[c]]
  IN  /\ sent' = kept
      /\ points' = <<IF Watched \in DOMAIN kept THEN kept[Watched] ELSE 0>>
                     \o SubSeq(points, 1, Window - 1)
      /\ sinceFailure' = Older(sinceFailure) /\ sinceRestart' = Older(sinceRestart)
      /\ UNCHANGED <<typeperf, total>>

\* Each value read is sent as a count; one that is missing adds nothing.
Push(values) ==
  /\ sent' = values
  /\ points' = <<IF Watched \in DOMAIN values THEN values[Watched] ELSE 0>>
                 \o SubSeq(points, 1, Window - 1)
  /\ sinceFailure' = Older(sinceFailure) /\ sinceRestart' = Older(sinceRestart)
  /\ UNCHANGED <<typeperf, total>>

\* typeperf fails or runs into its timeout, or writes a header without a sample.
CollectTypeperf ==
  /\ typeperf
  /\ \/ Push(<<>>)
     \/ Push(Parse(Header))
     \/ \E readable \in SUBSET Positions : Push(Parse(Sample(readable)))
  /\ available' = (sent' # <<>>)

\* The query cannot be opened, no counter added, or nothing collected; else
\* those values are left out that cannot be formatted.
CollectPdh ==
  /\ ~typeperf
  /\ \/ Push(<<>>) /\ available' = FALSE
     \/ \E readable \in SUBSET Positions : Push([c \in readable |-> total[c]])
        /\ available' = TRUE

Cycle == CollectTypeperf \/ CollectPdh

Next == Cycle \/ Restart \/ \E c \in Positions : Grow(c)

Spec == Init /\ [][Next]_vars

-----------------------------------------------------------------------------
TypeOK ==
  /\ typeperf \in BOOLEAN
  /\ total \in [Positions -> 0 .. MaxTotal]
  /\ DOMAIN sent \subseteq Positions /\ \A c \in DOMAIN sent : sent[c] \in 0 .. MaxTotal
  /\ available \in BOOLEAN
  /\ points \in [1 .. Window -> 0 .. MaxTotal]
  /\ {sinceFailure, sinceRestart} \subseteq 0 .. LongAgo

\* sum(last_5m) > 0
Alert == \E k \in 1 .. Window : points[k] > 0

(***************************************************************************)
(* A value is sent under the name of its own counter, whatever columns of  *)
(* the line are empty (dns_moniter.py:197-213), and it is the total of     *)
(* that moment.                                                            *)
(***************************************************************************)
SentUnderItsName ==
  [][sent' # sent => \A c \in DOMAIN sent' : sent'[c] = total[c]]_vars

(***************************************************************************)
(* What a cycle could not read is not made up: a window after a restart of *)
(* the service with no failure since, the monitor is quiet                 *)
(* (dns_moniter.py:188, perfmon.go:148-154).                               *)
(***************************************************************************)
QuietAfterRestart ==
  sinceRestart >= Window /\ sinceFailure > sinceRestart => ~Alert

(***************************************************************************)
(* The monitor of README.md, "Zone transfer failures detected" when the    *)
(* sum of the last five minutes is above 0: there was one in that time, or *)
(* it was not sent until then.                                             *)
(***************************************************************************)
AlertMeansRecent == Alert => sinceFailure <= Window \/ points[Window] = 0

=============================================================================
