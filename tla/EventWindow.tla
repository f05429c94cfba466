----------------------------- MODULE EventWindow -----------------------------
(***************************************************************************)
(* The event log collector of dns_moniter.py: each cycle asks Get-WinEvent *)
(* for the events of the last Lookback minutes, all levels together and    *)
(* not more than Cap of them, newest first, and sends how many of them are *)
(* errors.  Nothing is remembered from one cycle to the next: cycles that  *)
(* follow each other closely count an event several times, and only the    *)
(* overlap of their windows keeps an event from being missed.              *)
(*                                                                         *)
(* Time is counted in minutes, up to LastMinute, with one event at most in *)
(* each.  Warnings and information are one kind, "other".                  *)
(***************************************************************************)
EXTENDS Integers, FiniteSets

CONSTANTS
  Lookback,   \* event_lookback_minutes
  Cap,        \* -MaxEvents, 500 in the code
  LastMinute

ASSUME WindowAssumption == Lookback \in Nat /\ Cap \in Nat \ {0} /\ LastMinute \in Nat

VARIABLES
  clock,
  log,     \* what was logged in each minute
  gauges,  \* errors_in_window and cap_reached of the latest cycle
  seen,    \* the errors counted by any cycle
  since,   \* from when on cycles with whole reports followed closely enough
  last     \* when the latest whole report was made

eventVars == <<clock, log, gauges, seen, since, last>>

Minutes == 0 .. LastMinute
NotSent == -1  \* a gauge that is not sent

-----------------------------------------------------------------------------
EventsInit ==
  /\ clock = 0 /\ log = [m \in Minutes |-> "none"]
  /\ gauges = [errors |-> NotSent, cap |-> NotSent]
  /\ seen = {} /\ since = 0 /\ last = 0

Tick ==
  /\ clock < LastMinute
  /\ clock' = clock + 1
  /\ UNCHANGED <<log, gauges, seen, since, last>>

LogEvent ==
  /\ log[clock] = "none"
  /\ \E kind \in {"error", "other"} : log' = [log EXCEPT ![clock] = kind]
  /\ UNCHANGED <<clock, gauges, seen, since, last>>

-----------------------------------------------------------------------------
\* Faulty: the events after the cutoff only.
AfterCutoff == {m \in Minutes : clock - Lookback < m /\ m <= clock /\ log[m] # "none"}

\* StartTime=$cutoff.
InWindow == {m \in Minutes : clock - Lookback <= m /\ m <= clock /\ log[m] # "none"}

Newest(events) == {m \in events : Cardinality({k \in events : k > m}) < Cap}
Errors(events) == {m \in events : log[m] = "error"}

\* Faulty: the number of events.
CapAsNumber(events) == Cardinality(events)

CapReached(events) == IF Cardinality(events) >= Cap THEN 1 ELSE 0

\* A window without events is the error 'No events' of Get-WinEvent, and zeros.
ReadEvents ==
  LET read == Newest(InWindow)
  IN  /\ gauges' = [errors |-> Cardinality(Errors(read)), cap |-> CapReached(read)]
      /\ seen' = seen \cup Errors(read)
      /\ since' = IF clock - last <= Lookback /\ Cardinality(read) < Cap THEN since ELSE clock
      /\ last' = clock
      /\ UNCHANGED <<clock, log>>

\* Faulty: the catch takes every error for 'No events'.
QueryFailsSilently ==
  /\ gauges' = [errors |-> 0, cap |-> 0]
  /\ UNCHANGED <<clock, log, seen, since, last>>

\* Any other error of PowerShell, or its timeout: zeros, and no cap_reached.
QueryFails ==
  /\ gauges' = [errors |-> 0, cap |-> NotSent]
  /\ UNCHANGED <<clock, log, seen, since, last>>

\* Four numbers were expected: nothing is sent.
ReadGarbled ==
  /\ gauges' = [errors |-> NotSent, cap |-> NotSent]
  /\ UNCHANGED <<clock, log, seen, since, last>>

CollectEvents == ReadEvents \/ QueryFails \/ ReadGarbled

EventsNext == Tick \/ LogEvent \/ CollectEvents

EventsSpec == EventsInit /\ [][EventsNext]_eventVars

-----------------------------------------------------------------------------
EventsTypeOK ==
  /\ clock \in Minutes
  /\ log \in [Minutes -> {"none", "error", "other"}]
  /\ gauges \in [errors : NotSent .. Cap, cap : NotSent .. 1]
  /\ seen \subseteq Minutes
  /\ last \in 0 .. clock /\ since \in 0 .. last

(***************************************************************************)
(* With cap_reached = 0 the number of errors is the true one.  A reading   *)
(* that failed or was cut off at Cap says so by the other gauge: its zero  *)
(* or its number is never taken for the whole (dns_moniter.py:855-886).    *)
(***************************************************************************)
UncappedIsExact ==
  [][CollectEvents /\ gauges'.cap = 0 => gauges'.errors = Cardinality(Errors(InWindow))]_eventVars

(***************************************************************************)
(* No error falls between two cycles: as long as whole reports follow each *)
(* other within the lookback and none is cut off, every error logged       *)
(* before the latest of them is counted by one (dns_moniter.py:851-855).   *)
(***************************************************************************)
NoErrorMissed == \A m \in Minutes : since <= m /\ m < last /\ log[m] = "error" => m \in seen

=============================================================================
