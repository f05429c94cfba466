------------------------ MODULE CounterPipeline_proofs ------------------------
(***************************************************************************)
(* For any number of counters and any window of the monitor: a value is    *)
(* sent under the name of its own counter, and the monitor is quiet when a *)
(* window has passed since a restart without a failure.                    *)
(***************************************************************************)
EXTENDS CounterPipeline, SequenceTheorems, TLAPS

Value == 0 .. MaxTotal

\* What a cycle hands on: totals of some of the counters.
Reading(values) ==
  /\ DOMAIN values \subseteq Positions
  /\ \A c \in DOMAIN values : values[c] = total[c]

\* A total, and a point sent since the restart, tell of a failure since then.
Explained ==
  /\ total[Watched] > 0 => sinceFailure <= sinceRestart
  /\ \A k \in 1 .. Window : points[k] > 0 /\ k <= sinceRestart => sinceFailure <= sinceRestart

IInv == TypeOK /\ Explained

-----------------------------------------------------------------------------
LEMMA Numbers ==
  /\ Counters \in Nat /\ Window \in Nat /\ Window # 0 /\ MaxTotal \in Nat /\ MaxTotal # 0
  /\ Watched \in Positions /\ LongAgo = Window + 1
PROOF BY PipelineAssumption DEF PipelineAssumption, Positions, LongAgo

\* What stands behind the time stamp keeps its place.
LEMMA Behind ==
  ASSUME NEW row \in Seq(Int), NEW c \in 1 .. Len(row)
  PROVE  Tail(<<Text>> \o row)[c] = row[c]
PROOF
<1>1. <<Text>> \o row \in Seq(Int) /\ Len(<<Text>> \o row) = 1 + Len(row)
  BY DEF Text
<1>2. (<<Text>> \o row)[c + 1] = row[c]
  BY DEF Text
<1>. HIDE DEF Text
<1>. QED BY <1>1, <1>2

\* typeperf's columns: the time stamp goes, each value keeps its place.
LEMMA ParsedSample ==
  ASSUME TypeOK, NEW readable \in SUBSET Positions
  PROVE  Reading(Parse(Sample(readable)))
PROOF
<1>. DEFINE row == [c \in Positions |-> IF c \in readable THEN total[c] ELSE Blank]
<1>1. /\ row \in Seq(Int) /\ Len(row) = Counters
      /\ \A c \in Positions : row[c] = IF c \in readable THEN total[c] ELSE Blank
  BY Numbers DEF TypeOK, Positions, Blank
<1>2. Sample(readable) = <<Text>> \o row
  BY DEF Sample
<1>. HIDE DEF row
<1>3. \A c \in Positions : Tail(<<Text>> \o row)[c] = row[c]
  BY <1>1, Behind DEF Positions
<1>4. \A c \in Positions : Tail(Sample(readable))[c] \notin {Text, Blank}
                             => Tail(Sample(readable))[c] = total[c]
  BY <1>1, <1>2, <1>3
<1>. QED BY <1>4 DEF Reading, Parse

\* A header without a sample has no values.
LEMMA ParsedHeader == Reading(Parse(Header))
PROOF
<1>1. Header \in Seq(Int) /\ Len(Header) = Counters + 1
  BY Numbers DEF Header, Text
<1>2. \A n \in 1 .. Counters + 1 : Header[n] = Text
  BY DEF Header
<1>3. \A c \in Positions : Tail(Header)[c] = Text
  BY <1>1, <1>2, Numbers DEF Positions
<1>. QED BY <1>3 DEF Reading, Parse

LEMMA CyclePushes ==
  ASSUME TypeOK, Cycle
  PROVE  /\ \E values : Reading(values) /\ Push(values)
         /\ available' \in BOOLEAN
PROOF
<1>1. Reading(<<>>)
  BY DEF Reading
<1>2. ASSUME NEW readable \in SUBSET Positions
      PROVE  Reading([c \in readable |-> total[c]])
  BY DEF Reading
<1>3. CASE CollectTypeperf
  BY <1>1, <1>3, ParsedSample, ParsedHeader DEF CollectTypeperf
<1>4. CASE CollectPdh
  BY <1>1, <1>2, <1>4 DEF CollectPdh
<1>. QED BY <1>3, <1>4 DEF Cycle

-----------------------------------------------------------------------------
(***************************************************************************)
(* The points of the monitor move on by one.                               *)
(***************************************************************************)
LEMMA PointsMove ==
  ASSUME TypeOK, NEW values, Reading(values), Push(values)
  PROVE  /\ points' \in [1 .. Window -> Value]
         /\ points'[1] > 0 => total[Watched] > 0
         /\ \A k \in 2 .. Window : points'[k] = points[k - 1]
PROOF
<1>. DEFINE new == IF Watched \in DOMAIN values THEN values[Watched] ELSE 0
            old == SubSeq(points, 1, Window - 1)
<1>1. new \in Value /\ (new > 0 => total[Watched] > 0)
  BY Numbers DEF Reading, TypeOK, Value
<1>2. points \in Seq(Value) /\ Len(points) = Window
  BY Numbers DEF TypeOK, Value
<1>3. /\ old \in Seq(Value) /\ Len(old) = Window - 1
      /\ \A k \in 1 .. Window - 1 : old[k] = points[k]
  BY <1>2, Numbers
<1>4. points' = <<new>> \o old
  BY DEF Push
<1>. HIDE DEF new, old
<1>5. <<new>> \in Seq(Value) /\ Len(<<new>>) = 1 /\ <<new>>[1] = new
  BY <1>1
<1>6. /\ points' \in Seq(Value) /\ Len(points') = Window
      /\ points'[1] = new /\ \A k \in 2 .. Window : points'[k] = old[k - 1]
  BY <1>3, <1>4, <1>5, Numbers
<1>7. points' \in [1 .. Window -> Value]
  BY <1>6, Numbers
<1>. QED BY <1>1, <1>3, <1>6, <1>7, Numbers

LEMMA Ages ==
  ASSUME NEW a \in 0 .. LongAgo
  PROVE  Older(a) \in 0 .. LongAgo /\ Older(a) = IF a = LongAgo THEN a ELSE a + 1
PROOF BY Numbers DEF Older

LEMMA PushKeeps == ASSUME IInv, NEW values, Reading(values), Push(values), available' \in BOOLEAN
                   PROVE  IInv'
PROOF
<1>1. UNCHANGED <<typeperf, total>> /\ sent' = values
      /\ sinceFailure' = Older(sinceFailure) /\ sinceRestart' = Older(sinceRestart)
  BY DEF Push
<1>2. sinceFailure \in 0 .. LongAgo /\ sinceRestart \in 0 .. LongAgo
  BY DEF IInv, TypeOK
<1>3. /\ {sinceFailure', sinceRestart'} \subseteq 0 .. LongAgo
      /\ sinceRestart' = IF sinceRestart = LongAgo THEN sinceRestart ELSE sinceRestart + 1
      /\ sinceFailure <= sinceRestart => sinceFailure' <= sinceRestart'
  BY <1>1, <1>2, Ages, Numbers
<1>4. \A c \in DOMAIN sent' : sent'[c] \in 0 .. MaxTotal
  BY <1>1 DEF Reading, IInv, TypeOK
<1>5. TypeOK'
  BY <1>1, <1>3, <1>4, PointsMove DEF IInv, TypeOK, Reading, Value
<1>6. total'[Watched] > 0 => sinceFailure' <= sinceRestart'
  BY <1>1, <1>3 DEF IInv, Explained
<1>7. ASSUME NEW k \in 1 .. Window, points'[k] > 0, k <= sinceRestart'
      PROVE  sinceFailure' <= sinceRestart'
  <2>1. CASE k = 1
    BY <1>1, <1>6, <1>7, <2>1, PointsMove DEF IInv
  <2>2. CASE k # 1
    <3>1. k - 1 \in 1 .. Window /\ k \in 2 .. Window /\ k - 1 <= sinceRestart
      BY <1>2, <1>3, <1>7, <2>2, Numbers
    <3>2. points[k - 1] > 0
      BY <1>7, <3>1, PointsMove DEF IInv
    <3>. QED BY <1>3, <3>1, <3>2 DEF IInv, Explained
  <2>. QED BY <2>1, <2>2
<1>. QED BY <1>5, <1>6, <1>7 DEF IInv, Explained

LEMMA Initially == Init => IInv
PROOF
<1>. SUFFICES ASSUME Init PROVE IInv
  OBVIOUS
<1>1. DOMAIN sent = {} /\ total \in [Positions -> 0 .. MaxTotal] /\ total[Watched] = 0
  BY Numbers DEF Init
<1>2. points \in [1 .. Window -> 0 .. MaxTotal] /\ \A k \in 1 .. Window : points[k] = 0
  BY Numbers DEF Init
<1>3. LongAgo \in 0 .. LongAgo /\ 0 \in 0 .. LongAgo
  BY Numbers
<1>4. /\ {sinceFailure, sinceRestart} \subseteq 0 .. LongAgo
      /\ {available, typeperf} \subseteq BOOLEAN
  BY <1>3 DEF Init
<1>. QED BY <1>1, <1>2, <1>4 DEF IInv, TypeOK, Explained

LEMMA Invariance == Spec => []IInv
PROOF
<1>1. ASSUME IInv, [Next]_vars PROVE IInv'
  <2>1. CASE Cycle
    BY <1>1, <2>1, CyclePushes, PushKeeps DEF IInv
  <2>2. CASE Restart
    BY <1>1, <2>2, Numbers DEF Restart, IInv, TypeOK, Explained
  <2>3. ASSUME NEW c \in Positions, Grow(c) PROVE IInv'
    <3>1. total \in [Positions -> 0 .. MaxTotal] /\ total' = [total EXCEPT ![c] = total[c] + 1]
      BY <1>1, <2>3 DEF Grow, IInv, TypeOK
    <3>2. total[c] + 1 \in 0 .. MaxTotal
      BY <2>3, <3>1, Numbers DEF Grow
    <3>3. total' \in [Positions -> 0 .. MaxTotal]
      BY <3>1, <3>2
    <3>4. c # Watched => total'[Watched] = total[Watched]
      BY <3>1, Numbers
    <3>5. UNCHANGED <<typeperf, sent, available, points, sinceRestart>>
      BY <2>3 DEF Grow
    <3>6. sinceFailure' = IF c = Watched THEN 0 ELSE sinceFailure
      BY <2>3 DEF Grow
    <3>7. TypeOK'
      <4>1. TypeOK /\ 0 \in 0 .. LongAgo
        BY <1>1, Numbers DEF IInv
      <4>2. sinceFailure' \in 0 .. LongAgo
        BY <3>6, <4>1 DEF TypeOK
      <4>. QED BY <3>3, <3>5, <4>1, <4>2 DEF TypeOK
    <3>8. CASE c = Watched
      <4>1. sinceFailure' <= sinceRestart'
        BY <1>1, <3>5, <3>6, <3>8 DEF IInv, TypeOK
      <4>. QED BY <3>7, <4>1 DEF IInv, Explained
    <3>9. CASE c # Watched
      BY <1>1, <3>4, <3>5, <3>6, <3>7, <3>9 DEF IInv, Explained
    <3>. QED BY <3>8, <3>9
  <2>4. CASE UNCHANGED vars
    BY <1>1, <2>4 DEF vars, IInv, TypeOK, Explained
  <2>. QED BY <1>1, <2>1, <2>2, <2>3, <2>4 DEF Next
<1>. QED BY <1>1, Initially, PTL DEF Spec

(***************************************************************************)
(* Totals, the values sent and the points of the monitor are in range.     *)
(***************************************************************************)
THEOREM TypeCorrect == Spec => []TypeOK
PROOF
<1>1. IInv => TypeOK BY DEF IInv
<1>. QED BY <1>1, Invariance, PTL

(***************************************************************************)
(* A window after a restart without a failure since, the monitor is quiet, *)
(* however long the window is.                                             *)
(***************************************************************************)
THEOREM QuietLater == Spec => []QuietAfterRestart
PROOF
<1>1. ASSUME IInv PROVE QuietAfterRestart
  BY <1>1, Numbers DEF IInv, TypeOK, Explained, QuietAfterRestart, Alert
<1>. QED BY <1>1, Invariance, PTL

(***************************************************************************)
(* Every value is sent under the name of its counter, for any number of    *)
(* counters and whatever columns of the line are empty.                    *)
(***************************************************************************)
THEOREM NamesHold == Spec => SentUnderItsName
PROOF
<1>. DEFINE Named == sent' # sent => \A c \in DOMAIN sent' : sent'[c] = total[c]
<1>1. ASSUME IInv, [Next]_vars PROVE [Named]_vars
  <2>1. CASE Cycle
    BY <1>1, <2>1, CyclePushes DEF IInv, Push, Reading
  <2>2. CASE Restart \/ \E c \in Positions : Grow(c)
    BY <2>2 DEF Restart, Grow
  <2>. QED BY <1>1, <2>1, <2>2 DEF Next, vars
<1>. QED BY <1>1, Invariance, PTL DEF Spec, SentUnderItsName

=============================================================================
