----------------------- MODULE GpuQueueTimeout_proofs -----------------------
(***************************************************************************)
(* Proofs about GpuQueueTimeout, for every width of the words, every pair  *)
(* of timeouts and every length of the ring: the report names the entries  *)
(* that were queued, and a wait times out when its fields or polls have    *)
(* run out, neither earlier nor later, while the clock keeps its sign.     *)
(***************************************************************************)
EXTENDS GpuQueueTimeout, TLAPS

-----------------------------------------------------------------------------
(***************************************************************************)
(* Arithmetic of words and ring indices.                                   *)
(***************************************************************************)
\* The next value of a counter that wraps.
LEMMA NextOfWrapping ==
  ASSUME NEW n \in Nat \ {0}, NEW x \in 0 .. n - 1
  PROVE  (x + 1) % n = IF x + 1 = n THEN 0 ELSE x + 1
  OBVIOUS

\* A sum that stays below twice the modulus wraps once at most.
LEMMA SumOfWrapping ==
  ASSUME NEW n \in Nat \ {0}, NEW x \in 0 .. n - 1, NEW y \in 0 .. n - 1
  PROVE  (x + y) % n = IF x + y >= n THEN x + y - n ELSE x + y
  OBVIOUS

\* A difference of two indices wraps once at most, the other way.
LEMMA DifferenceOfWrapping ==
  ASSUME NEW n \in Nat \ {0}, NEW x \in 0 .. n - 1, NEW y \in 0 .. n - 1
  PROVE  (x - y) % n = IF x >= y THEN x - y ELSE x - y + n
  OBVIOUS

-----------------------------------------------------------------------------
(***************************************************************************)
(* The inductive invariant: what the words say of the history.             *)
(***************************************************************************)
\* The ring's indices are as far apart as there are entries.
RingAgrees == queued = (head - tail) % QueueSize

\* In a wait the count is the number of its polls, one past the limit at most.
CountAgrees == waiting => pollCount = polled

\* In a wait in which the clock keeps its sign, the field word is as far from
\* the deadline as the fields that have passed, until they exceed the timeout.
ClockAgrees ==
  waiting /\ ~signChanged =>
    /\ ~SignsDiffer(field, deadline)
    /\ IF elapsed <= FieldTimeout
       THEN Signed(field) = Signed(deadline) - FieldTimeout + elapsed
       ELSE Signed(field) > Signed(deadline)

Inv == TypeOK /\ RingAgrees /\ CountAgrees /\ ClockAgrees

-----------------------------------------------------------------------------
(***************************************************************************)
(* Signed words.                                                           *)
(***************************************************************************)
\* The clock's next field is one more as a signed number, too, unless its sign
\* changes.
LEMMA SignedSuccessor ==
  ASSUME NEW word \in Words, NEW next \in Words,
         next = (word + 1) % WordModulus, ~SignsDiffer(word, next)
  PROVE  Signed(next) = Signed(word) + 1
<1>1. WordModulus \in Nat \ {0} /\ word \in 0 .. WordModulus - 1
  BY WordAssumption DEF Words
<1>2. next = IF word + 1 = WordModulus THEN 0 ELSE word + 1
  BY <1>1, NextOfWrapping
<1> QED
  BY <1>1, <1>2, WordAssumption DEF Words, SignsDiffer, Signed

\* A deadline of the clock's own sign is the timeout ahead of it.
LEMMA SignedDeadline ==
  ASSUME NEW word \in Words, NEW later \in Words,
         later = (word + FieldTimeout) % WordModulus, ~SignsDiffer(word, later)
  PROVE  Signed(later) = Signed(word) + FieldTimeout
<1>1. /\ WordModulus \in Nat \ {0} /\ word \in 0 .. WordModulus - 1
      /\ FieldTimeout \in 0 .. WordModulus - 1
  BY WordAssumption DEF Words
<1>2. later = IF word + FieldTimeout >= WordModulus
              THEN word + FieldTimeout - WordModulus ELSE word + FieldTimeout
  BY <1>1, SumOfWrapping
<1> QED
  BY <1>1, <1>2, WordAssumption DEF Words, SignsDiffer, Signed

\* A word of the wrapped range.
LEMMA WrappedIsWord ==
  ASSUME NEW x \in Nat
  PROVE  x % WordModulus \in Words
  BY WordAssumption DEF Words

\* The count of a wait is below the sign, so it is compared as it is.
LEMMA CountIsUnsigned ==
  ASSUME TypeOK, CountAgrees, waiting
  PROVE  Signed(pollCount) = polled
  BY WordAssumption DEF TypeOK, CountAgrees, Signed

-----------------------------------------------------------------------------
(***************************************************************************)
(* Every action preserves the invariant.                                   *)
(***************************************************************************)
LEMMA InitEstablishes == Init => Inv
<1> SUFFICES ASSUME Init PROVE Inv
  OBVIOUS
<1>1. 0 \in Words /\ 0 \in 0 .. QueueSize - 1 /\ -1 \in -1 .. QueueSize - 1
  BY WordAssumption, QueueAssumption DEF Words
<1>2. 0 \in 0 .. FieldTimeout + 1 /\ 0 \in 0 .. PollTimeout + 1
  BY WordAssumption
<1>3. TypeOK
  BY <1>1, <1>2 DEF Init, TypeOK
<1>4. RingAgrees
  BY QueueAssumption DEF Init, RingAgrees
<1> QED
  BY <1>3, <1>4 DEF Init, Inv, CountAgrees, ClockAgrees

LEMMA VBlankKeeps == Inv /\ VBlank => Inv'
<1> SUFFICES ASSUME Inv, VBlank PROVE Inv'
  OBVIOUS
<1> USE DEF Inv
<1>1. TypeOK'
  <2>1. field \in Nat
    BY WordAssumption DEF TypeOK, Words
  <2>2. field' \in Words
    BY <2>1, WrappedIsWord DEF VBlank
  <2>3. elapsed' \in 0 .. FieldTimeout + 1
    BY WordAssumption DEF TypeOK, VBlank
  <2>4. signChanged' \in BOOLEAN
    BY DEF TypeOK, VBlank, SignsDiffer
  <2> QED
    BY <2>2, <2>3, <2>4 DEF TypeOK, VBlank
<1>2. RingAgrees' /\ CountAgrees'
  BY DEF VBlank, RingAgrees, CountAgrees
<1>3. ClockAgrees'
  <2> SUFFICES ASSUME waiting, ~signChanged'
               PROVE  /\ ~SignsDiffer(field', deadline)
                      /\ IF elapsed' <= FieldTimeout
                         THEN Signed(field') = Signed(deadline) - FieldTimeout + elapsed'
                         ELSE Signed(field') > Signed(deadline)
    BY DEF ClockAgrees, VBlank, SignsDiffer, Signed
  <2>1. ~signChanged /\ ~SignsDiffer(field, field')
    BY DEF VBlank, TypeOK
  <2>2. Signed(field') = Signed(field) + 1
    BY <1>1, <2>1, SignedSuccessor DEF TypeOK, VBlank
  <2>3. /\ ~SignsDiffer(field, deadline)
        /\ IF elapsed <= FieldTimeout
           THEN Signed(field) = Signed(deadline) - FieldTimeout + elapsed
           ELSE Signed(field) > Signed(deadline)
    BY <2>1 DEF ClockAgrees
  <2>4. ~SignsDiffer(field', deadline)
    BY <2>1, <2>3 DEF SignsDiffer
  <2>5. /\ Signed(field) \in Int /\ Signed(deadline) \in Int
        /\ FieldTimeout \in Nat /\ elapsed \in Nat
    BY WordAssumption DEF TypeOK, Words, Signed
  <2>6. elapsed' = IF elapsed <= FieldTimeout THEN elapsed + 1 ELSE elapsed
    BY DEF VBlank
  <2> QED
    BY <2>2, <2>3, <2>4, <2>5, <2>6, <1>1 DEF TypeOK
<1> QED
  BY <1>1, <1>2, <1>3

LEMMA EnqueueKeeps == Inv /\ Enqueue => Inv'
<1> SUFFICES ASSUME Inv, Enqueue PROVE Inv'
  OBVIOUS
<1> USE DEF Inv
<1>1. QueueSize \in Nat \ {0} /\ head \in 0 .. QueueSize - 1 /\ tail \in 0 .. QueueSize - 1
  BY QueueAssumption DEF TypeOK
<1>2. head' = IF head + 1 = QueueSize THEN 0 ELSE head + 1
  BY <1>1, NextOfWrapping DEF Enqueue
<1>3. head' \in 0 .. QueueSize - 1
  BY <1>1, <1>2
<1>4. RingAgrees'
  <2>1. queued = IF head >= tail THEN head - tail ELSE head - tail + QueueSize
    BY <1>1, DifferenceOfWrapping DEF RingAgrees
  <2>2. (head' - tail) % QueueSize = IF head' >= tail THEN head' - tail ELSE head' - tail + QueueSize
    BY <1>1, <1>3, DifferenceOfWrapping
  <2>3. queued' = queued + 1 /\ queued + 1 < QueueSize /\ tail' = tail
    BY <1>1 DEF Enqueue, TypeOK
  <2> QED
    BY <1>1, <1>2, <2>1, <2>2, <2>3 DEF RingAgrees
<1>5. TypeOK'
  BY <1>1, <1>3 DEF Enqueue, TypeOK
<1>6. CountAgrees' /\ ClockAgrees'
  BY DEF Enqueue, CountAgrees, ClockAgrees, SignsDiffer, Signed
<1> QED
  BY <1>4, <1>5, <1>6

LEMMA DrainKeeps == Inv /\ Drain => Inv'
<1> SUFFICES ASSUME Inv, Drain PROVE Inv'
  OBVIOUS
<1> USE DEF Inv
<1>1. QueueSize \in Nat \ {0} /\ head \in 0 .. QueueSize - 1 /\ tail \in 0 .. QueueSize - 1
  BY QueueAssumption DEF TypeOK
<1>2. tail' = IF tail + 1 = QueueSize THEN 0 ELSE tail + 1
  BY <1>1, NextOfWrapping DEF Drain
<1>3. tail' \in 0 .. QueueSize - 1
  BY <1>1, <1>2
<1>4. RingAgrees'
  <2>1. queued = IF head >= tail THEN head - tail ELSE head - tail + QueueSize
    BY <1>1, DifferenceOfWrapping DEF RingAgrees
  <2>2. (head - tail') % QueueSize = IF head >= tail' THEN head - tail' ELSE head - tail' + QueueSize
    BY <1>1, <1>3, DifferenceOfWrapping
  <2>3. queued' = queued - 1 /\ queued > 0 /\ head' = head
    BY DEF Drain
  <2> QED
    BY <1>1, <1>2, <2>1, <2>2, <2>3 DEF RingAgrees
<1>5. TypeOK'
  BY <1>1, <1>3 DEF Drain, TypeOK
<1>6. CountAgrees' /\ ClockAgrees'
  BY DEF Drain, CountAgrees, ClockAgrees, SignsDiffer, Signed
<1> QED
  BY <1>4, <1>5, <1>6

LEMMA ArmKeeps == Inv /\ ArmDeadline => Inv'
<1> SUFFICES ASSUME Inv, ArmDeadline PROVE Inv'
  OBVIOUS
<1> USE DEF Inv
<1>1. deadline' \in Words
  <2>1. field + FieldTimeout \in Nat
    BY WordAssumption DEF TypeOK, Words
  <2> QED
    BY <2>1, WrappedIsWord DEF ArmDeadline
<1>2. TypeOK'
  <2>1. 0 \in Words /\ 0 \in 0 .. FieldTimeout + 1 /\ 0 \in 0 .. PollTimeout + 1
    BY WordAssumption DEF Words
  <2>2. signChanged' \in BOOLEAN
    BY DEF ArmDeadline, SignsDiffer
  <2> QED
    BY <1>1, <2>1, <2>2 DEF ArmDeadline, TypeOK, CountAfterArm
<1>3. RingAgrees' /\ CountAgrees'
  BY DEF ArmDeadline, RingAgrees, CountAgrees, CountAfterArm
<1>4. ClockAgrees'
  <2> SUFFICES ASSUME ~signChanged' PROVE ClockAgrees'
    BY DEF ClockAgrees
  <2>1. ~SignsDiffer(field, deadline')
    BY DEF ArmDeadline
  <2>2. Signed(deadline') = Signed(field) + FieldTimeout
    BY <1>1, <2>1, SignedDeadline DEF ArmDeadline, TypeOK
  <2>3. Signed(field) = Signed(deadline') - FieldTimeout + 0
    BY <2>2, WordAssumption DEF TypeOK, Words, Signed
  <2>4. 0 <= FieldTimeout
    BY WordAssumption
  <2> QED
    BY <2>1, <2>3, <2>4 DEF ClockAgrees, ArmDeadline, Signed, SignsDiffer
<1> QED
  BY <1>2, <1>3, <1>4

LEMMA WaitOverKeeps == Inv /\ WaitOver => Inv'
  BY DEF Inv, WaitOver, TypeOK, RingAgrees, CountAgrees, ClockAgrees

LEMMA PollAgainKeeps == Inv /\ PollAgain => Inv'
<1> SUFFICES ASSUME Inv, PollAgain PROVE Inv'
  OBVIOUS
<1> USE DEF Inv
<1>1. polled <= PollTimeout /\ pollCount = polled
  <2>1. Signed(PollTimeout) = PollTimeout /\ waiting
    BY WordAssumption DEF Signed, PollAgain
  <2> QED
    BY <2>1, CountIsUnsigned, WordAssumption
    DEF PollAgain, PollsExhausted, SignedLess, CountAgrees, TypeOK
<1>2. pollCount' = polled + 1 /\ polled' = polled + 1
  <2>1. WordModulus \in Nat \ {0} /\ pollCount \in 0 .. WordModulus - 1
    BY WordAssumption DEF TypeOK, Words
  <2>2. pollCount' = IF pollCount + 1 = WordModulus THEN 0 ELSE pollCount + 1
    BY <2>1, NextOfWrapping DEF PollAgain
  <2> QED
    BY <1>1, <2>1, <2>2, WordAssumption DEF PollAgain, TypeOK
<1>3. TypeOK'
  BY <1>1, <1>2, WordAssumption DEF PollAgain, TypeOK, Words
<1>4. RingAgrees' /\ CountAgrees'
  BY <1>2 DEF PollAgain, RingAgrees, CountAgrees
<1>5. ClockAgrees'
  BY DEF PollAgain, ClockAgrees, SignsDiffer, Signed
<1> QED
  BY <1>3, <1>4, <1>5

\* The depth is the number of entries: what the report says of it.
LEMMA DepthIsBacklog == Inv => QueueDepth = queued
  BY DEF Inv, RingAgrees, QueueDepth

LEMMA PollTimesOutKeeps == Inv /\ PollTimesOut => Inv'
<1> SUFFICES ASSUME Inv, PollTimesOut PROVE Inv'
  OBVIOUS
<1>1. pollCount' \in Words
  <2>1. pollCount \in Words /\ pollCount + 1 \in Nat
    BY WordAssumption DEF Inv, TypeOK, Words
  <2> QED
    BY <2>1, WrappedIsWord DEF PollTimesOut
<1>2. reported' = queued
  BY DepthIsBacklog DEF PollTimesOut
<1>3. TypeOK'
  <2>1. 0 \in 0 .. QueueSize - 1 /\ reported' \in -1 .. QueueSize - 1
    BY <1>2, QueueAssumption DEF Inv, TypeOK
  <2> QED
    BY <1>1, <2>1 DEF Inv, PollTimesOut, TypeOK
<1>4. RingAgrees'
  BY QueueAssumption DEF PollTimesOut, RingAgrees
<1> QED
  BY <1>3, <1>4 DEF Inv, PollTimesOut, CountAgrees, ClockAgrees

LEMMA NextKeeps == Inv /\ [Next]_vars => Inv'
<1> SUFFICES ASSUME Inv, [Next]_vars PROVE Inv'
  OBVIOUS
<1>1. CASE UNCHANGED vars
  BY <1>1 DEF Inv, vars, TypeOK, RingAgrees, CountAgrees, ClockAgrees, SignsDiffer, Signed
<1> QED
  BY <1>1, VBlankKeeps, EnqueueKeeps, DrainKeeps, ArmKeeps, WaitOverKeeps,
     PollAgainKeeps, PollTimesOutKeeps DEF Next

-----------------------------------------------------------------------------
(***************************************************************************)
(* The theorems.                                                           *)
(***************************************************************************)
\* The words, indices and counts keep their ranges: no report names more
\* entries than the ring has, and no count of polls reaches the sign.
THEOREM QueueTypeOK == Spec => []TypeOK
<1>1. Inv => TypeOK
  BY DEF Inv
<1> QED
  BY <1>1, InitEstablishes, NextKeeps, PTL DEF Spec

\* A timeout names the entries that were really queued
\* (gpu_queue_timeout.cpp:73-91).
THEOREM ReportAlwaysNamesTheBacklog == Spec => ReportNamesTheBacklog
<1>1. Inv /\ [Next]_vars => [PollTimesOut => reported' = queued]_vars
  BY DepthIsBacklog DEF PollTimesOut
<1> QED
  BY <1>1, InitEstablishes, NextKeeps, PTL DEF Spec, ReportNamesTheBacklog

\* While the clock keeps its sign, a poll times out exactly when the fields or
\* the polls have run out since the deadline was armed
\* (gpu_queue_timeout.cpp:109-123).
THEOREM AlwaysTimesOutOnTime == Spec => TimesOutOnTime
<1> DEFINE OnTime ==
      ~signChanged =>
        /\ PollTimesOut => elapsed > FieldTimeout \/ polled > PollTimeout
        /\ PollAgain => elapsed <= FieldTimeout /\ polled <= PollTimeout
<1>1. Inv => OnTime
  <2> SUFFICES ASSUME Inv, ~signChanged, waiting PROVE OnTime
    BY DEF PollTimesOut, PollAgain
  <2>1. DeadlinePassed <=> elapsed > FieldTimeout
    <3>1. IF elapsed <= FieldTimeout
          THEN Signed(field) = Signed(deadline) - FieldTimeout + elapsed
          ELSE Signed(field) > Signed(deadline)
      BY DEF Inv, ClockAgrees
    <3>2. /\ Signed(field) \in Int /\ Signed(deadline) \in Int
          /\ FieldTimeout \in Nat /\ elapsed \in Nat
      BY WordAssumption DEF Inv, TypeOK, Words, Signed
    <3> QED
      BY <3>1, <3>2 DEF DeadlinePassed, SignedLess
  <2>2. PollsExhausted <=> polled > PollTimeout
    <3>1. Signed(PollTimeout) = PollTimeout /\ Signed(pollCount) = polled
      BY CountIsUnsigned, WordAssumption DEF Inv, Signed
    <3> QED
      BY <3>1, WordAssumption DEF Inv, TypeOK, PollsExhausted, SignedLess
  <2>3. /\ elapsed > FieldTimeout \/ elapsed <= FieldTimeout
        /\ polled > PollTimeout \/ polled <= PollTimeout
    BY WordAssumption DEF Inv, TypeOK
  <2> QED
    BY <2>1, <2>2, <2>3, Zenon DEF PollTimesOut, PollAgain
<1>2. OnTime => [OnTime]_vars
  OBVIOUS
<1> QED
  BY <1>1, <1>2, InitEstablishes, NextKeeps, PTL DEF Spec, TimesOutOnTime
=============================================================================
