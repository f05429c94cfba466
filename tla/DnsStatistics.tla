---------------------------- MODULE DnsStatistics ----------------------------
(***************************************************************************)
(* The statistics of the DNS service in dns_moniter.py: one PowerShell     *)
(* call copies the groups of Get-DnsServerStatistics one by one            *)
(* (_read_dns_statistics), and _collect_statistics sends their totals as   *)
(* counts, and ratios of them as gauges.  The service counts on while its  *)
(* groups are filled, so that a later group may belong to a later moment.  *)
(*                                                                         *)
(* Of the groups those two are kept of which ratios are made: queries and  *)
(* recursion.  A ratio is kept as its numerator; total_queries is the      *)
(* denominator of both.  MaxQueries bounds what the service counts.        *)
(***************************************************************************)
EXTENDS Integers

CONSTANT MaxQueries

ASSUME StatisticsAssumption == MaxQueries \in Nat

VARIABLES
  queries, recursed,  \* the counters of the service
  reading,            \* the group that is filled next, or "idle", "filled"
  snap,               \* the groups filled; anew: the first of them after a restart
  report,             \* what the latest cycle with statistics sent
  restarted           \* the service, since the queries of a report were read

service == <<queries, recursed>>
vars    == <<service, reading, snap, report, restarted>>

Missing == -1  \* a group that is null; a ratio that is not sent

-----------------------------------------------------------------------------
Init ==
  /\ queries = 0 /\ recursed = 0
  /\ reading = "idle" /\ snap = [total |-> Missing, recursed |-> Missing, anew |-> FALSE]
  /\ report = [total |-> 0, recursive |-> Missing, hits |-> Missing]
  /\ restarted = FALSE

\* A query comes in; one that came in goes to a forwarder; a new start.
Query ==
  /\ queries < MaxQueries
  /\ queries' = queries + 1
  /\ UNCHANGED <<recursed, reading, snap, report, restarted>>

Recurse ==
  /\ recursed < queries
  /\ recursed' = recursed + 1
  /\ UNCHANGED <<queries, reading, snap, report, restarted>>

Restart ==
  /\ queries' = 0 /\ recursed' = 0
  /\ restarted' = TRUE
  /\ UNCHANGED <<reading, snap, report>>

-----------------------------------------------------------------------------
\* A property that cannot be read is 0, a group that is null is left out.
Fill(value) == {value, Missing}

ReadQueries ==
  /\ reading = "idle"
  /\ snap' \in [total : Fill(queries), recursed : {Missing}, anew : {restarted}]
  /\ reading' = "recursion"
  /\ restarted' = FALSE
  /\ UNCHANGED <<service, report>>

ReadRecursion ==
  /\ reading = "recursion"
  /\ \E r \in Fill(recursed) : snap' = [snap EXCEPT !.recursed = r]
  /\ reading' = "filled"
  /\ UNCHANGED <<service, report, restarted>>

\* Faulty: a failure is sent as zeros.
ReadFailsAsZero ==
  /\ reading # "idle"
  /\ reading' = "idle"
  /\ report' = [total |-> 0, recursive |-> Missing, hits |-> Missing]
  /\ UNCHANGED <<service, snap, restarted>>

\* No statistics, no JSON, an error of PowerShell or its timeout: nothing is sent.
ReadFails ==
  /\ reading # "idle"
  /\ reading' = "idle"
  /\ restarted' = (restarted \/ snap.anew)
  /\ UNCHANGED <<service, snap, report>>

\* stats.get(name, 0)
Known(value) == IF value = Missing THEN 0 ELSE value

\* Faulty: max(0, hits) alone.
HitsClamped(total, r) ==
  IF total > 0 THEN (IF total >= r THEN total - r ELSE 0) ELSE Missing

\* The numerator of hit_ratio_pct.
Hits(total, r) == IF total > 0 /\ total - r >= 0 THEN total - r ELSE Missing

Submit ==
  /\ reading = "filled"
  /\ LET total == Known(snap.total)
         r     == Known(snap.recursed)
     IN  report' = [total     |-> total,
                    recursive |-> IF total > 0 THEN r ELSE Missing,
                    hits      |-> Hits(total, r)]
  /\ reading' = "idle"
  /\ UNCHANGED <<service, snap, restarted>>

Next == Query \/ Recurse \/ Restart \/ ReadQueries \/ ReadRecursion \/ ReadFails \/ Submit

Spec == Init /\ [][Next]_vars

-----------------------------------------------------------------------------
TypeOK ==
  /\ queries \in 0 .. MaxQueries /\ recursed \in 0 .. queries
  /\ reading \in {"idle", "recursion", "filled"}
  /\ snap \in [total : Missing .. MaxQueries, recursed : Missing .. MaxQueries, anew : BOOLEAN]
  /\ report \in [total : 0 .. MaxQueries, recursive : Missing .. MaxQueries,
                 hits : Missing .. MaxQueries]
  /\ restarted \in BOOLEAN

(***************************************************************************)
(* hit_ratio_pct and recursive_ratio_pct of one cycle add up to 100, or    *)
(* the hit ratio is left out because more queries were recursed than       *)
(* received; neither is sent without queries (dns_moniter.py:527-558).     *)
(***************************************************************************)
RatiosAddUp ==
  IF report.hits # Missing
  THEN report.total > 0 /\ report.recursive + report.hits = report.total
  ELSE report.total = 0 \/ report.recursive > report.total

(***************************************************************************)
(* queries.total goes down only when the service was restarted or the      *)
(* group was missing: a failed reading sends nothing, and never a zero     *)
(* (dns_moniter.py:334-341, 489-490).                                      *)
(***************************************************************************)
DipIsExcused ==
  [][report'.total < report.total => snap.anew \/ snap.total = Missing]_vars

=============================================================================
