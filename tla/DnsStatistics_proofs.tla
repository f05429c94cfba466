------------------------- MODULE DnsStatistics_proofs -------------------------
(***************************************************************************)
(* Proofs about two readings of the Python check.  DnsStatistics: the      *)
(* ratios of a cycle add up, and the total of the queries goes down only   *)
(* with a reason, for any number of queries.  EventWindow: the             *)
(* numbers of errors are exact unless marked as capped, and none is missed *)
(* between windows that meet, for any lookback and cap.                    *)
(***************************************************************************)
EXTENDS DnsStatistics, EventWindow, FiniteSetTheorems, WellFoundedInduction, TLAPS

\* What the next report is compared with: a total that was read before the
\* latest restart says nothing about the counter.
Growing ==
  /\ reading = "idle" => restarted \/ report.total <= queries
  /\ reading # "idle" =>
       /\ restarted \/ snap.total <= queries
       /\ restarted \/ snap.anew \/ report.total <= queries
       /\ snap.anew \/ snap.total = Missing \/ report.total <= snap.total

IInv == TypeOK /\ Growing /\ RatiosAddUp

-----------------------------------------------------------------------------
LEMMA Bound == MaxQueries \in Nat
PROOF BY StatisticsAssumption DEF StatisticsAssumption

LEMMA Initially == Init => IInv
PROOF
<1>. SUFFICES ASSUME Init PROVE IInv
  OBVIOUS
<1>1. TypeOK
  <2>1. 0 \in 0 .. MaxQueries /\ Missing \in Missing .. MaxQueries /\ 0 \in 0 .. 0
    BY Bound DEF Missing
  <2>. QED BY <2>1 DEF Init, TypeOK
<1>2. Growing /\ RatiosAddUp
  BY DEF Init, Growing, RatiosAddUp, Missing
<1>. QED BY <1>1, <1>2 DEF IInv

\* Nothing but the service moves.
LEMMA ServiceStep == IInv /\ (Query \/ Recurse \/ Restart) => IInv'
PROOF
<1>. SUFFICES ASSUME IInv, Query \/ Recurse \/ Restart PROVE IInv'
  OBVIOUS
<1>1. UNCHANGED <<reading, snap, report>>
  BY DEF Query, Recurse, Restart
<1>2. TypeOK'
  <2>1. queries' \in 0 .. MaxQueries /\ recursed' \in 0 .. queries' /\ restarted' \in BOOLEAN
    <3>1. /\ queries \in Nat /\ queries <= MaxQueries /\ recursed \in Nat /\ recursed <= queries
          /\ restarted \in BOOLEAN
      BY Bound DEF IInv, TypeOK
    <3>2. CASE Query
      BY <3>1, <3>2, Bound DEF Query
    <3>3. CASE Recurse
      BY <3>1, <3>3, Bound DEF Recurse
    <3>4. CASE Restart
      BY <3>4, Bound DEF Restart
    <3>. QED BY <3>2, <3>3, <3>4
  <2>. QED BY <1>1, <2>1 DEF IInv, TypeOK
<1>3. restarted' \/ (restarted' = restarted /\ queries <= queries')
  BY DEF IInv, TypeOK, Query, Recurse, Restart
<1>4. queries \in Int /\ queries' \in Int /\ report.total \in Int /\ snap.total \in Int
  BY <1>2, Bound DEF IInv, TypeOK, Missing
<1>5. Growing'
  BY <1>1, <1>3, <1>4 DEF IInv, Growing
<1>6. RatiosAddUp'
  BY <1>1 DEF IInv, RatiosAddUp
<1>. QED BY <1>2, <1>5, <1>6 DEF IInv

LEMMA ReadQueriesStep == IInv /\ ReadQueries => IInv'
PROOF
<1>. SUFFICES ASSUME IInv, ReadQueries PROVE IInv'
  OBVIOUS
<1>1. /\ reading = "idle" /\ reading' = "recursion" /\ restarted' = FALSE
      /\ UNCHANGED <<queries, recursed, report>>
  BY DEF ReadQueries, service
<1>2. snap' \in [total : {queries, Missing}, recursed : {Missing}, anew : {restarted}]
  BY DEF ReadQueries, Fill
<1>3. snap'.total \in {queries, Missing} /\ snap'.anew = restarted /\ queries \in 0 .. MaxQueries
  BY <1>2 DEF IInv, TypeOK
<1>4. TypeOK'
  <2>1. queries \in Missing .. MaxQueries /\ Missing \in Missing .. MaxQueries /\ restarted \in BOOLEAN
    BY Bound DEF IInv, TypeOK, Missing
  <2>2. snap' \in [total : Missing .. MaxQueries, recursed : Missing .. MaxQueries, anew : BOOLEAN]
    BY <1>2, <2>1
  <2>. QED BY <1>1, <2>2 DEF IInv, TypeOK
<1>5. Growing'
  BY <1>1, <1>3, Bound DEF IInv, Growing, Missing
<1>6. RatiosAddUp'
  BY <1>1 DEF IInv, RatiosAddUp
<1>. QED BY <1>4, <1>5, <1>6 DEF IInv

LEMMA ReadRecursionStep == IInv /\ ReadRecursion => IInv'
PROOF
<1>. SUFFICES ASSUME IInv, ReadRecursion PROVE IInv'
  OBVIOUS
<1>1. /\ reading = "recursion" /\ reading' = "filled"
      /\ UNCHANGED <<queries, recursed, report, restarted>>
  BY DEF ReadRecursion, service
<1>2. PICK r \in {recursed, Missing} : snap' = [snap EXCEPT !.recursed = r]
  BY DEF ReadRecursion, Fill
<1>3. r \in Missing .. MaxQueries
  BY Bound DEF IInv, TypeOK, Missing
<1>4. snap'.total = snap.total /\ snap'.anew = snap.anew
  BY <1>2 DEF IInv, TypeOK
<1>5. TypeOK'
  BY <1>1, <1>2, <1>3 DEF IInv, TypeOK
<1>6. Growing' /\ RatiosAddUp'
  BY <1>1, <1>4 DEF IInv, Growing, RatiosAddUp
<1>. QED BY <1>5, <1>6 DEF IInv

LEMMA ReadFailsStep == IInv /\ ReadFails => IInv'
PROOF
<1>. SUFFICES ASSUME IInv, ReadFails PROVE IInv'
  OBVIOUS
<1>1. /\ reading # "idle" /\ reading' = "idle" /\ restarted' = (restarted \/ snap.anew)
      /\ UNCHANGED <<queries, recursed, snap, report>>
  BY DEF ReadFails, service
<1>2. restarted' \in BOOLEAN
  BY <1>1
<1>3. TypeOK'
  BY <1>1, <1>2 DEF IInv, TypeOK
<1>4. Growing' /\ RatiosAddUp'
  BY <1>1 DEF IInv, Growing, RatiosAddUp
<1>. QED BY <1>3, <1>4 DEF IInv

LEMMA SubmitStep == IInv /\ Submit => IInv'
PROOF
<1>. SUFFICES ASSUME IInv, Submit PROVE IInv'
  OBVIOUS
<1>. DEFINE total == Known(snap.total)
            r     == Known(snap.recursed)
<1>1. /\ reading = "filled" /\ reading' = "idle"
      /\ report' = [total     |-> total,
                    recursive |-> IF total > 0 THEN r ELSE Missing,
                    hits      |-> Hits(total, r)]
      /\ UNCHANGED <<queries, recursed, snap, restarted>>
  BY DEF Submit, service
<1>2. /\ total \in 0 .. MaxQueries /\ r \in 0 .. MaxQueries
      /\ total = snap.total \/ total = 0
  BY Bound DEF IInv, TypeOK, Known, Missing
<1>3. /\ report'.total = total
      /\ report'.recursive = IF total > 0 THEN r ELSE Missing
      /\ report'.hits = IF total > 0 /\ total - r >= 0 THEN total - r ELSE Missing
  BY <1>1 DEF Hits
<1>. HIDE DEF total, r
<1>4. TypeOK'
  <2>1. Hits(total, r) \in Missing .. MaxQueries
    BY <1>2, Bound DEF Hits, Missing
  <2>2. (IF total > 0 THEN r ELSE Missing) \in Missing .. MaxQueries
    BY <1>2, Bound DEF Missing
  <2>. QED BY <1>1, <1>2, <2>1, <2>2 DEF IInv, TypeOK
<1>5. Growing'
  BY <1>1, <1>2, <1>3, Bound DEF IInv, TypeOK, Growing
<1>6. RatiosAddUp'
  BY <1>2, <1>3, Bound DEF RatiosAddUp, Missing
<1>. QED BY <1>4, <1>5, <1>6 DEF IInv

LEMMA Inductive == IInv /\ [Next]_vars => IInv'
PROOF
<1>1. IInv /\ UNCHANGED vars => IInv'
  BY DEF IInv, TypeOK, Growing, RatiosAddUp, vars, service
<1>. QED
  BY <1>1, ServiceStep, ReadQueriesStep, ReadRecursionStep, ReadFailsStep, SubmitStep DEF Next

-----------------------------------------------------------------------------
(***************************************************************************)
(* Counters, groups and report stay within what the service has counted.   *)
(***************************************************************************)
THEOREM TypeCorrect == Spec => []TypeOK
PROOF
<1>1. IInv => TypeOK BY DEF IInv
<1>. QED BY <1>1, Initially, Inductive, PTL DEF Spec

(***************************************************************************)
(* The two ratios of a cycle add up to 100, or the hit ratio is left out   *)
(* because the groups belong to different moments.                         *)
(***************************************************************************)
THEOREM RatiosSum == Spec => []RatiosAddUp
PROOF
<1>1. IInv => RatiosAddUp BY DEF IInv
<1>. QED BY <1>1, Initially, Inductive, PTL DEF Spec

(***************************************************************************)
(* queries.total never goes down without a restart of the service or a     *)
(* missing group behind it, whatever cycles failed in between.             *)
(***************************************************************************)
THEOREM DipExcused == Spec => DipIsExcused
PROOF
<1>1. IInv /\ [Next]_vars => [report'.total < report.total => snap.anew \/ snap.total = Missing]_vars
  <2>. SUFFICES ASSUME IInv, Next, report'.total < report.total
       PROVE  snap.anew \/ snap.total = Missing
    OBVIOUS
  <2>1. CASE Submit
    <3>1. report'.total = Known(snap.total) /\ reading # "idle"
      BY <2>1 DEF Submit
    <3>2. snap.total \in Int /\ report.total \in Int
      BY Bound DEF IInv, TypeOK, Missing
    <3>. QED BY <3>1, <3>2 DEF Known, IInv, Growing
  <2>2. CASE ~Submit
    <3>1. report' = report
      BY <2>2 DEF Next, Query, Recurse, Restart, ReadQueries, ReadRecursion, ReadFails
    <3>2. report.total \in Int
      BY Bound DEF IInv, TypeOK
    <3>. QED BY <3>1, <3>2
  <2>. QED BY <2>1, <2>2
<1>. QED BY <1>1, Initially, Inductive, PTL DEF Spec, DipIsExcused

-----------------------------------------------------------------------------
(***************************************************************************)
(* The event log collector (EventWindow), whose proofs are kept here with  *)
(* those of the other collector that counts what others did.               *)
(***************************************************************************)

(***************************************************************************)
(* Sets of numbers have a least and, when bounded, a greatest element.     *)
(***************************************************************************)
LEMMA LeastNumber ==
  ASSUME NEW T, T \subseteq Nat, T # {}
  PROVE  \E x \in T : \A y \in T : x <= y
PROOF
<1>. DEFINE R == OpToRel(<, Nat)
<1>1. \A x, y \in Nat : x < y => <<x, y>> \in R
  BY DEF OpToRel
<1>2. IsWellFoundedOn(R, Nat)
  BY NatLessThanWellFounded
<1>. HIDE DEF R
<1>3. PICK x \in T : \A y \in T : ~(<<y, x>> \in R)
  BY <1>2, WFMin
<1>4. ASSUME NEW y \in T PROVE x <= y
  <2>1. x \in Nat /\ y \in Nat
    OBVIOUS
  <2>2. ~(y < x)
    BY <1>1, <1>3, <2>1
  <2>. QED BY <2>1, <2>2
<1>. QED BY <1>4

LEMMA GreatestNumber ==
  ASSUME NEW n \in Nat, NEW T, T \subseteq 0 .. n, T # {}
  PROVE  \E x \in T : \A y \in T : y <= x
PROOF
<1>. DEFINE D == {n - y : y \in T}
<1>1. D \subseteq Nat /\ D # {}
  <2>1. ASSUME NEW y \in T PROVE n - y \in Nat
    <3>1. y \in 0 .. n
      OBVIOUS
    <3>. QED BY <3>1
  <2>. QED BY <2>1
<1>. HIDE DEF D
<1>2. PICK d \in D : \A e \in D : d <= e
  BY <1>1, LeastNumber
<1>3. PICK x \in T : d = n - x
  BY <1>2 DEF D
<1>4. ASSUME NEW y \in T PROVE y <= x
  <2>1. x \in Int /\ y \in Int /\ n - y \in D
    BY DEF D
  <2>. QED BY <1>2, <1>3, <2>1
<1>. QED BY <1>4

-----------------------------------------------------------------------------
(***************************************************************************)
(* -MaxEvents: no more than Cap events are read, ...                       *)
(***************************************************************************)
LEMMA AtMostCap ==
  ASSUME NEW events, events \subseteq Minutes
  PROVE  Cardinality(Newest(events)) <= Cap /\ Cardinality(Newest(events)) \in Nat
PROOF
<1>0. events \subseteq 0 .. LastMinute /\ LastMinute \in Nat /\ Cap \in Nat /\ Cap # 0
  BY WindowAssumption DEF WindowAssumption, Minutes
<1>. USE <1>0
<1>. DEFINE read == Newest(events)
            Later(m) == {k \in events : k > m}
<1>1. IsFiniteSet(events) /\ read \subseteq events /\ IsFiniteSet(read) /\ Cardinality(read) \in Nat
  <2>1. IsFiniteSet(0 .. LastMinute)
    BY FS_Interval
  <2>2. read \subseteq events
    BY DEF Newest
  <2>. HIDE DEF read
  <2>3. IsFiniteSet(events)
    BY <2>1, FS_Subset
  <2>4. IsFiniteSet(read)
    BY <2>2, <2>3, FS_Subset
  <2>. QED BY <2>2, <2>3, <2>4, FS_CardinalityType
<1>2. CASE read = {}
  BY <1>1, <1>2, FS_EmptySet
<1>3. CASE read # {}
  <2>1. read \subseteq Nat
    <3>1. 0 .. LastMinute \subseteq Nat
      OBVIOUS
    <3>. HIDE DEF read
    <3>. QED BY <1>1, <3>1
  <2>2. PICK m \in read : \A k \in read : m <= k
    <3>. HIDE DEF read
    <3>. QED BY <1>3, <2>1, LeastNumber
  <2>3. Cardinality(Later(m)) < Cap
    BY <2>2 DEF Newest
  <2>4. m \in Nat /\ \A k \in read : k \in Nat /\ k \in events /\ m <= k
    BY <1>1, <2>1, <2>2
  <2>5. read \subseteq Later(m) \cup {m}
    <3>. SUFFICES ASSUME NEW k \in read PROVE k = m \/ k \in Later(m)
      OBVIOUS
    <3>1. k \in Nat /\ k \in events /\ m <= k
      BY <2>4
    <3>. QED BY <2>4, <3>1
  <2>6. Later(m) \subseteq events
    OBVIOUS
  <2>. HIDE DEF read, Later
  <2>7. IsFiniteSet(Later(m)) /\ Cardinality(Later(m)) \in Nat
    BY <1>1, <2>6, FS_Subset, FS_CardinalityType
  <2>8. IsFiniteSet(Later(m) \cup {m}) /\ Cardinality(Later(m) \cup {m}) <= Cardinality(Later(m)) + 1
    <3>1. /\ IsFiniteSet(Later(m) \cup {m})
          /\ Cardinality(Later(m) \cup {m}) =
               IF m \in Later(m) THEN Cardinality(Later(m)) ELSE Cardinality(Later(m)) + 1
      BY <2>7, FS_AddElement
    <3>. QED BY <2>7, <3>1
  <2>9. Cardinality(read) <= Cardinality(Later(m) \cup {m}) 
    BY <2>5, <2>8, FS_Subset
  <2>10. Cardinality(Later(m) \cup {m}) \in Nat
    BY <2>8, FS_CardinalityType
  <2>11. Cardinality(read) <= Cap
    BY <1>1, <2>3, <2>7, <2>8, <2>9, <2>10
  <2>. QED BY <1>1, <2>11 DEF read
<1>. QED BY <1>2, <1>3

(***************************************************************************)
(* ... and when fewer are read, none was left out.                         *)
(***************************************************************************)
LEMMA FewAreWhole ==
  ASSUME NEW events, events \subseteq Minutes,
         Cardinality(Newest(events)) < Cap
  PROVE  Newest(events) = events
PROOF
<1>0. events \subseteq 0 .. LastMinute /\ LastMinute \in Nat /\ Cap \in Nat /\ Cap # 0
  BY WindowAssumption DEF WindowAssumption, Minutes
<1>. USE <1>0
<1>. DEFINE read == Newest(events)
            Later(m) == {k \in events : k > m}
            cutOff == events \ read
<1>1. read \subseteq events
  BY DEF Newest
<1>2. SUFFICES ASSUME cutOff # {} PROVE FALSE
  BY <1>1
<1>3. PICK m \in cutOff : \A k \in cutOff : k <= m
  <2>1. cutOff \subseteq 0 .. LastMinute
    OBVIOUS
  <2>. HIDE DEF cutOff
  <2>. QED BY <1>2, <2>1, GreatestNumber
<1>4. ~(Cardinality(Later(m)) < Cap)
  BY <1>3 DEF Newest
<1>5. Later(m) \subseteq read
  <2>1. \A k \in events : k \in Int
    OBVIOUS
  <2>2. \A k \in Later(m) : k \in events /\ ~(k <= m)
    BY <1>3, <2>1
  <2>. QED BY <1>3, <2>2
<1>6. IsFiniteSet(0 .. LastMinute)
  BY FS_Interval
<1>. HIDE DEF read, Later
<1>7. IsFiniteSet(read)
  BY <1>1, <1>6, FS_Subset
<1>8. Cardinality(Later(m)) <= Cardinality(read) /\ IsFiniteSet(Later(m))
  BY <1>5, <1>7, FS_Subset
<1>9. Cardinality(Later(m)) \in Nat /\ Cardinality(read) \in Nat
  BY <1>7, <1>8, FS_CardinalityType
<1>. QED BY <1>4, <1>8, <1>9 DEF read

-----------------------------------------------------------------------------
(***************************************************************************)
(* The invariant needs nothing beside the types: an error of the current   *)
(* minute may still come, one of an earlier minute may not.                *)
(***************************************************************************)
WindowInv == EventsTypeOK /\ NoErrorMissed

LEMMA WindowInitially == EventsInit => WindowInv
PROOF
<1>. SUFFICES ASSUME EventsInit PROVE WindowInv
  OBVIOUS
<1>1. 0 \in 0 .. LastMinute /\ 0 \in 0 .. 0 /\ NotSent \in NotSent .. Cap /\ NotSent \in NotSent .. 1
  BY WindowAssumption DEF WindowAssumption, NotSent
<1>2. EventsTypeOK
  BY <1>1 DEF EventsInit, EventsTypeOK, Minutes
<1>3. NoErrorMissed
  BY DEF EventsInit, NoErrorMissed
<1>. QED BY <1>2, <1>3 DEF WindowInv

LEMMA Minute ==
  ASSUME EventsTypeOK
  PROVE  /\ LastMinute \in Nat /\ Cap \in Nat /\ Cap # 0 /\ Lookback \in Nat
         /\ clock \in Nat /\ clock <= LastMinute
         /\ last \in Nat /\ last <= clock /\ since \in Nat /\ since <= last
         /\ log \in [Minutes -> {"none", "error", "other"}]
         /\ Minutes \subseteq Nat
PROOF
<1>1. clock \in 0 .. LastMinute /\ LastMinute \in Nat /\ Cap \in Nat \ {0} /\ Lookback \in Nat
  BY WindowAssumption DEF WindowAssumption, EventsTypeOK, Minutes
<1>2. last \in 0 .. clock /\ since \in 0 .. last /\ log \in [Minutes -> {"none", "error", "other"}]
  BY DEF EventsTypeOK
<1>3. Minutes \subseteq Nat
  BY DEF Minutes
<1>. QED BY <1>1, <1>2, <1>3

(***************************************************************************)
(* What is read is of the window, and it is the whole window when fewer    *)
(* than Cap events are read.                                               *)
(***************************************************************************)
LEMMA ReadFromWindow ==
  ASSUME EventsTypeOK, NEW read, read = Newest(InWindow)
  PROVE  /\ read \subseteq InWindow /\ InWindow \subseteq Minutes
         /\ Cardinality(read) \in 0 .. Cap
         /\ Cardinality(Errors(read)) \in 0 .. Cap
         /\ Cardinality(read) < Cap => read = InWindow
PROOF
<1>1. InWindow \subseteq Minutes /\ read \subseteq InWindow /\ Errors(read) \subseteq read
  BY DEF InWindow, Newest, Errors
<1>2. Cardinality(read) <= Cap /\ Cardinality(read) \in Nat
  BY <1>1, AtMostCap
<1>3. Cardinality(read) < Cap => read = InWindow
  BY <1>1, FewAreWhole
<1>4. IsFiniteSet(0 .. LastMinute) /\ read \subseteq 0 .. LastMinute
  <2>1. 0 \in Int /\ LastMinute \in Int
    BY WindowAssumption DEF WindowAssumption
  <2>. QED BY <1>1, <2>1, FS_Interval DEF Minutes
<1>5. IsFiniteSet(read)
  BY <1>4, FS_Subset
<1>6. IsFiniteSet(Errors(read)) /\ Cardinality(Errors(read)) <= Cardinality(read)
  BY <1>1, <1>5, FS_Subset
<1>7. Cardinality(Errors(read)) \in Nat
  BY <1>6, FS_CardinalityType
<1>8. Cap \in Nat
  BY WindowAssumption DEF WindowAssumption
<1>9. Cardinality(Errors(read)) \in 0 .. Cap /\ Cardinality(read) \in 0 .. Cap
  BY <1>2, <1>6, <1>7, <1>8
<1>. QED BY <1>1, <1>3, <1>9

LEMMA ReadStep ==
  ASSUME WindowInv, ReadEvents
  PROVE  WindowInv'
PROOF
<1>. DEFINE read == Newest(InWindow)
<1>1. /\ gauges' = [errors |-> Cardinality(Errors(read)), cap |-> CapReached(read)]
      /\ seen' = seen \cup Errors(read)
      /\ since' = IF clock - last <= Lookback /\ Cardinality(read) < Cap THEN since ELSE clock
      /\ last' = clock /\ clock' = clock /\ log' = log
  BY DEF ReadEvents
<1>2. /\ read \subseteq InWindow /\ InWindow \subseteq Minutes
      /\ Cardinality(Errors(read)) \in 0 .. Cap
      /\ Cardinality(read) < Cap => read = InWindow
  BY ReadFromWindow DEF WindowInv
<1>3. CapReached(read) \in 0 .. 1
  BY DEF CapReached
<1>. HIDE DEF read
<1>4. EventsTypeOK /\ NoErrorMissed
  BY DEF WindowInv
<1>5. EventsTypeOK'
  <2>1. gauges' \in [errors : NotSent .. Cap, cap : NotSent .. 1]
    <3>1. /\ Cardinality(Errors(read)) \in NotSent .. Cap
          /\ CapReached(read) \in NotSent .. 1
      BY <1>2, <1>3, <1>4, Minute DEF NotSent
    <3>. QED BY <1>1, <3>1
  <2>2. seen' \subseteq Minutes
    BY <1>1, <1>2, <1>4 DEF Errors, EventsTypeOK
  <2>3. last' \in 0 .. clock' /\ since' \in 0 .. last'
    BY <1>1, <1>4, Minute
  <2>. QED BY <1>1, <1>4, <2>1, <2>2, <2>3 DEF EventsTypeOK
<1>6. NoErrorMissed'
  <2>. SUFFICES ASSUME NEW m \in Minutes, since' <= m, m < clock, log[m] = "error"
       PROVE  m \in seen'
    BY <1>1 DEF NoErrorMissed
  <2>1. clock \in Nat /\ m \in Nat /\ last \in Nat /\ Lookback \in Nat
    BY <1>4, Minute
  <2>2. since' = since /\ clock - last <= Lookback /\ Cardinality(read) < Cap
    BY <1>1, <2>1
  <2>3. CASE m < last
    BY <1>1, <1>4, <2>2, <2>3 DEF NoErrorMissed
  <2>4. CASE ~(m < last)
    <3>1. clock - Lookback <= m /\ m <= clock
      BY <2>1, <2>2, <2>4
    <3>2. m \in InWindow
      BY <3>1 DEF InWindow
    <3>. QED BY <1>1, <1>2, <2>2, <3>2 DEF Errors
  <2>. QED BY <2>3, <2>4
<1>. QED BY <1>5, <1>6 DEF WindowInv

LEMMA WindowStep == WindowInv /\ [EventsNext]_eventVars => WindowInv'
PROOF
<1>. SUFFICES ASSUME WindowInv, [EventsNext]_eventVars PROVE WindowInv'
  OBVIOUS
<1>1. EventsTypeOK /\ NoErrorMissed
  BY DEF WindowInv
<1>2. CASE Tick
  <2>1. clock' \in Minutes /\ last \in 0 .. clock'
    BY <1>1, <1>2, Minute DEF Tick, Minutes
  <2>. QED BY <1>1, <1>2, <2>1 DEF Tick, WindowInv, EventsTypeOK, NoErrorMissed
<1>3. CASE LogEvent
  <2>1. PICK kind \in {"error", "other"} : log' = [log EXCEPT ![clock] = kind]
    BY <1>3 DEF LogEvent
  <2>2. log' \in [Minutes -> {"none", "error", "other"}]
    BY <1>1, <2>1 DEF EventsTypeOK
  <2>3. \A m \in Minutes : m < last => log'[m] = log[m]
    BY <1>1, <2>1, Minute
  <2>. QED BY <1>1, <1>3, <2>2, <2>3 DEF LogEvent, WindowInv, EventsTypeOK, NoErrorMissed
<1>4. CASE ReadEvents
  BY <1>4, ReadStep
<1>5. CASE QueryFails \/ ReadGarbled
  <2>1. gauges' \in [errors : NotSent .. Cap, cap : NotSent .. 1]
    <3>1. {0, NotSent} \subseteq NotSent .. Cap /\ NotSent \in NotSent .. 1
      BY <1>1, Minute DEF NotSent
    <3>. QED BY <1>5, <3>1 DEF QueryFails, ReadGarbled
  <2>. QED
    BY <1>1, <1>5, <2>1 DEF QueryFails, ReadGarbled, WindowInv, EventsTypeOK, NoErrorMissed
<1>6. CASE UNCHANGED eventVars
  BY <1>1, <1>6 DEF eventVars, WindowInv, EventsTypeOK, NoErrorMissed
<1>. QED BY <1>2, <1>3, <1>4, <1>5, <1>6 DEF EventsNext, CollectEvents

LEMMA WindowInvariance == EventsSpec => []WindowInv
PROOF BY WindowInitially, WindowStep, PTL DEF EventsSpec

(***************************************************************************)
(* The log, what has been counted of it and the gauges are in range; the   *)
(* gauge of the errors never exceeds Cap.                                  *)
(***************************************************************************)
THEOREM EventsTypeCorrect == EventsSpec => []EventsTypeOK
PROOF
<1>1. WindowInv => EventsTypeOK BY DEF WindowInv
<1>. QED BY <1>1, WindowInvariance, PTL

(***************************************************************************)
(* Whole reports that follow each other within the lookback count every    *)
(* error before the latest of them (dns_moniter.py:851-855), for every     *)
(* lookback, every cap and every log.                                      *)
(***************************************************************************)
THEOREM ErrorsCounted == EventsSpec => []NoErrorMissed
PROOF
<1>1. WindowInv => NoErrorMissed BY DEF WindowInv
<1>. QED BY <1>1, WindowInvariance, PTL

(***************************************************************************)
(* With cap_reached = 0 the number of errors is the true one               *)
(* (dns_moniter.py:855-886), for every lookback, every cap and every log.  *)
(***************************************************************************)
THEOREM UncappedExact == EventsSpec => UncappedIsExact
PROOF
<1>1. WindowInv /\ [EventsNext]_eventVars =>
        (CollectEvents /\ gauges'.cap = 0
           => gauges'.errors = Cardinality(Errors(InWindow)))
  <2>. SUFFICES ASSUME WindowInv, CollectEvents, gauges'.cap = 0
       PROVE  gauges'.errors = Cardinality(Errors(InWindow))
    OBVIOUS
  <2>. DEFINE read == Newest(InWindow)
  <2>1. ~QueryFails /\ ~ReadGarbled
    BY DEF QueryFails, ReadGarbled, NotSent
  <2>2. gauges' = [errors |-> Cardinality(Errors(read)), cap |-> CapReached(read)]
    BY <2>1 DEF CollectEvents, ReadEvents
  <2>3. ~(Cardinality(read) >= Cap)
    BY <2>2 DEF CapReached
  <2>4. Cardinality(read) \in 0 .. Cap /\ Cap \in Nat
    BY ReadFromWindow, Minute DEF WindowInv
  <2>5. Cardinality(read) < Cap => read = InWindow
    BY ReadFromWindow DEF WindowInv
  <2>. QED BY <2>2, <2>3, <2>4, <2>5
<1>. QED BY <1>1, WindowInvariance, PTL DEF EventsSpec, UncappedIsExact

=============================================================================
