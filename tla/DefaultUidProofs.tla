-------------------------- MODULE DefaultUidProofs --------------------------
(***************************************************************************)
(* Proofs about DefaultUidGenerator, for every clock, zone and layout:     *)
(* uids are returned in increasing order, and the epoch they count from    *)
(* belongs to the day it was set to.                                       *)
(***************************************************************************)
EXTENDS DefaultUidGenerator, BitsAllocatorProofs

\* What the theorems suppose of the constants.
Supported == ClockIsSupported /\ WorkerIdsFit

-----------------------------------------------------------------------------
(* The layout *)

\* LayoutIsOrdered: every layout keeps the order of its fields, and the mask of
\* nextId() wraps the sequence.
THEOREM EveryLayoutIsOrdered == LayoutIsOrdered
  BY LargestValues, AllocateKeepsOrder, SecondsAreLongs, SequenceWraps DEF LayoutIsOrdered

\* The sequence of a second that is not used up goes on by one.
LEMMA SequenceGoesOn ==
  ASSUME sequence \in 0 .. maxSequence
  PROVE  /\ NextSequence \in 0 .. maxSequence
         /\ NextSequence # 0 => NextSequence = sequence + 1
         /\ maxSequence \in Nat
  BY EveryLayoutIsOrdered DEF LayoutIsOrdered, NextSequence

\* The delta of a second that is not exhausted fits its field.
LEMMA DeltaFits ==
  ASSUME TypeOK, FieldsInv, ClockIsSupported, keptPast, ~Exhausted
  PROVE  /\ clock \in Int /\ epochSeconds \in Int /\ maxDeltaSeconds \in Nat
         /\ clock - epochSeconds \in 0 .. maxDeltaSeconds
         /\ subtract(clock, epochSeconds) = clock - epochSeconds
  <1> USE EveryLayoutIsOrdered
  <1>1. /\ clock \in Int /\ epochSeconds \in Int
        /\ maxDeltaSeconds \in Nat /\ epochSeconds <= clock
    BY GeneratorAssumption
    DEF TypeOK, FieldsInv, ClockIsSupported, LayoutIsOrdered
  <1>2. clock - epochSeconds \in 0 .. maxDeltaSeconds
    BY <1>1 DEF Exhausted
  <1>3. \A d \in 0 .. maxDeltaSeconds : toLong(d) = d
    BY DEF LayoutIsOrdered
  <1> QED BY <1>1, <1>2, <1>3 DEF subtract

\* One more at the end keeps a sequence increasing.
LEMMA AppendKeepsOrder ==
  ASSUME NEW s \in Seq(Int), NEW e \in Int,
         \A i, j \in DOMAIN s : i < j => s[i] < s[j],
         s # <<>> => s[Len(s)] < e
  PROVE  /\ Append(s, e) # <<>> /\ Append(s, e)[Len(Append(s, e))] = e
         /\ \A i, j \in DOMAIN Append(s, e) : i < j => Append(s, e)[i] < Append(s, e)[j]
  <1> DEFINE t == Append(s, e)
             n == Len(s)
  <1>1. /\ t \in Seq(Int) /\ Len(t) = n + 1 /\ n \in Nat
        /\ \A i \in 1 .. n : t[i] = s[i] /\ s[i] \in Int
        /\ t[n + 1] = e
        /\ DOMAIN t = 1 .. n + 1 /\ DOMAIN s = 1 .. n
    OBVIOUS
  <1>2. n # 0 => s # <<>>
    OBVIOUS
  <1>3. t # <<>>
    BY <1>1
  <1> HIDE DEF t, n
  <1>4. \A i \in 1 .. n : s[i] < e
    <2> SUFFICES ASSUME NEW i \in 1 .. n PROVE s[i] < e
      OBVIOUS
    <2>1. s[n] < e /\ n \in 1 .. n
      BY <1>1, <1>2 DEF n
    <2>2. i = n \/ s[i] < s[n]
      BY <1>1, <2>1
    <2> QED BY <1>1, <2>1, <2>2
  <1>5. \A i, j \in DOMAIN t : i < j => t[i] < t[j]
    BY <1>1, <1>4
  <1> QED BY <1>1, <1>3, <1>5 DEF t

-----------------------------------------------------------------------------
(* nextId() *)

\* What is issued is a long, also of a second before the epoch.
LEMMA IssueIsLong ==
  ASSUME Supported, TypeOK, NEW q \in 0 .. maxSequence, Issue(clock, q)
  PROVE  /\ allocate(subtract(clock, epochSeconds), workerId, q) \in Int
         /\ issued' \in Seq(Int)
  <1> DEFINE delta == subtract(clock, epochSeconds)
  <1>1. /\ clock \in Int /\ epochSeconds \in Int /\ Half \in Nat
        /\ issued \in Seq(Int)
        /\ workerId \in 0 .. maxWorkerId /\ workerId \in Int /\ q \in Int
    <2>1. MaxClock \in Nat /\ maxWorkerId \in Nat /\ maxSequence \in Nat
      BY GeneratorAssumption, LargestValues
    <2>2. workerId \in 0 .. maxWorkerId
      BY <2>1 DEF TypeOK, Supported, WorkerIdsFit
    <2> QED BY <2>1, <2>2, SpanIsTwiceHalf DEF TypeOK, Supported, ClockIsSupported
  <1>2. delta \in Int
    BY <1>1, LongOfInteger DEF subtract
  <1> HIDE DEF delta
  <1>3. allocate(delta, workerId, q) = toLong(Fields(delta, workerId, q))
    BY <1>1, <1>2, AllocateIsFields
  <1>4. Fields(delta, workerId, q) \in Int
    BY <1>1, <1>2, FieldsAreSum DEF Fields
  <1>5. allocate(delta, workerId, q) \in Int
    BY <1>1, <1>3, <1>4, LongOfInteger
  <1> QED BY <1>1, <1>5 DEF Issue, delta

\* Of a second that is neither before the epoch nor exhausted, it is not negative.
LEMMA IssueKeepsSign ==
  ASSUME Supported, TypeOK, FieldsInv, HighestBitIsZero, keptPast, ~Exhausted,
         NEW q \in 0 .. maxSequence, Issue(clock, q)
  PROVE  \A i \in DOMAIN issued' : issued'[i] >= 0
  <1> DEFINE u == allocate(subtract(clock, epochSeconds), workerId, q)
  <1>1. /\ issued \in Seq(Int) /\ issued' = Append(issued, u)
        /\ workerId \in 0 .. maxWorkerId
    <2>1. maxWorkerId \in Nat
      BY LargestValues
    <2> QED BY <2>1 DEF TypeOK, Issue, Supported, WorkerIdsFit
  <1>2. u \in Nat
    <2>1. /\ clock - epochSeconds \in 0 .. maxDeltaSeconds
          /\ subtract(clock, epochSeconds) = clock - epochSeconds
      BY DeltaFits DEF Supported
    <2> QED BY <1>1, <2>1, EveryLayoutIsOrdered DEF LayoutIsOrdered
  <1>3. \A i \in DOMAIN issued : issued[i] >= 0
    BY DEF HighestBitIsZero
  <1> HIDE DEF u
  <1> QED BY <1>1, <1>2, <1>3

\* A uid that is beyond the last one, by its delta or else by its sequence, is
\* greater than all.
LEMMA IssueKeepsOrder ==
  ASSUME WorkerIdsFit, TypeOK, FieldsInv, LastIssued, IncreasingUids, EpochsKept,
         epochSeconds \in Int,
         NEW q \in 0 .. maxSequence, NEW delta \in 0 .. maxDeltaSeconds,
         subtract(clock, epochSeconds) = delta, clock - epochSeconds = delta,
         ~Exhausted, Issue(clock, q), UNCHANGED <<workerId, epochSeconds>>,
         \/ clock > lastSecond
         \/ clock = lastSecond /\ q = sequence + 1 /\ ~spinning
  PROVE  IncreasingUids' /\ LastIssued'
  <1> USE EveryLayoutIsOrdered
  <1> DEFINE u == allocate(delta, workerId, q)
  <1>1. /\ lastSecond' = clock /\ sequence' = q /\ issued' = Append(issued, u)
    BY DEF Issue
  <1>2. /\ issued \in Seq(Int) /\ clock \in Int /\ lastSecond \in Int
        /\ sequence \in 0 .. maxSequence /\ epochSeconds \in Int
        /\ workerId \in 0 .. maxWorkerId /\ 0 \in 0 .. maxWorkerId
        /\ {maxDeltaSeconds, maxWorkerId, maxSequence} \subseteq Nat
    <2>1. {maxDeltaSeconds, maxWorkerId, maxSequence} \subseteq Nat
      BY DEF LayoutIsOrdered
    <2>2. MaxClock \in Nat
      BY GeneratorAssumption
    <2>3. 0 \in 0 .. maxWorkerId /\ workerId \in 0 .. maxWorkerId
      BY <2>1 DEF TypeOK, WorkerIdsFit
    <2> QED BY <2>1, <2>2, <2>3 DEF TypeOK
  <1>3. u \in Nat
    BY <1>2 DEF LayoutIsOrdered
  <1>4. issued # <<>> => issued[Len(issued)] < u
    <2> SUFFICES ASSUME issued # <<>> PROVE issued[Len(issued)] < u
      OBVIOUS
    <2>1. PICK d \in 0 .. maxDeltaSeconds, w \in {0, workerId}, s \in 0 .. maxSequence :
            /\ issued[Len(issued)] = allocate(d, w, s)
            /\ d <= lastSecond - epochSeconds
            /\ s <= sequence \/ spinning \/ Exhausted
      BY DEF LastIssued
    <2>2. w \in 0 .. maxWorkerId /\ (w < workerId \/ w = workerId)
      BY <1>2
    <2>3. d < delta \/ (d = delta /\ s < q)
      BY <1>2, <2>1
    <2>4. allocate(d, w, s) < allocate(delta, workerId, q)
      BY <1>2, <2>2, <2>3 DEF LayoutIsOrdered
    <2> QED BY <2>1, <2>4
  <1> HIDE DEF u
  <1>5. /\ issued' # <<>> /\ issued'[Len(issued')] = u
        /\ \A i, j \in DOMAIN issued' : i < j => issued'[i] < issued'[j]
    <2>1. \A i, j \in DOMAIN issued : i < j => issued[i] < issued[j]
      BY DEF IncreasingUids
    <2>2. u \in Int
      BY <1>3
    <2>3. /\ Append(issued, u) # <<>> /\ Append(issued, u)[Len(Append(issued, u))] = u
          /\ \A i, j \in DOMAIN Append(issued, u) :
               i < j => Append(issued, u)[i] < Append(issued, u)[j]
      BY <1>2, <1>4, <2>1, <2>2, AppendKeepsOrder
    <2> QED BY <1>1, <2>3
  <1>6. LastIssued'
    <2>1. /\ issued'[Len(issued')] = allocate(delta, workerId', q)
          /\ delta <= lastSecond' - epochSeconds' /\ q <= sequence'
      BY <1>1, <1>2, <1>5 DEF u
    <2> QED BY <2>1 DEF LastIssued
  <1> QED BY <1>5, <1>6 DEF IncreasingUids

\* An epoch moved back raises the deltas.
LEMMA MovedBack ==
  ASSUME NEW d \in Int, NEW last \in Int, NEW e \in Int, NEW f \in Int,
         d <= last - e, f <= e
  PROVE  d <= last - f
  OBVIOUS

\* What is said of the last uid goes on being said, if it ever is: the fields are not
\* set back below it.
FieldsGoOn ==
  /\ EpochsKept /\ epochSeconds' <= epochSeconds
  /\ sequence' = sequence \/ spinning' \/ Exhausted'
  /\ spinning => spinning' \/ Exhausted'
  /\ Exhausted => Exhausted'

\* A step that issues nothing does not get the last uid past the fields.
LEMMA OtherStepsKeepIssued ==
  ASSUME NextIdInv, UNCHANGED <<issued, lastSecond>>,
         lastSecond \in Int, epochSeconds \in Int, epochSeconds' \in Int,
         maxDeltaSeconds \in Nat,
         workerId' = workerId \/ workerId = 0,
         keptPast' => keptPast, keptBack' => keptBack,
         EpochsKept' /\ issued # <<>> => FieldsGoOn
  PROVE  LastIssued' /\ HighestBitIsZero' /\ IncreasingUids'
  <1>1. HighestBitIsZero' /\ IncreasingUids'
    BY DEF NextIdInv, HighestBitIsZero, IncreasingUids, EpochsKept
  <1>2. ASSUME EpochsKept', issued' # <<>>
        PROVE  \E d \in 0 .. maxDeltaSeconds : \E w \in {0, workerId'} :
                 \E s \in 0 .. maxSequence :
                   /\ issued'[Len(issued')] = allocate(d, w, s)
                   /\ d <= lastSecond' - epochSeconds'
                   /\ s <= sequence' \/ spinning' \/ Exhausted'
    <2>0. FieldsGoOn
      BY <1>2
    <2>1. PICK d \in 0 .. maxDeltaSeconds, w \in {0, workerId}, s \in 0 .. maxSequence :
            /\ issued[Len(issued)] = allocate(d, w, s)
            /\ d <= lastSecond - epochSeconds
            /\ s <= sequence \/ spinning \/ Exhausted
      BY <1>2, <2>0 DEF NextIdInv, LastIssued, FieldsGoOn
    <2>2. d <= lastSecond - epochSeconds'
      <3>1. epochSeconds' <= epochSeconds
        BY <2>0 DEF FieldsGoOn
      <3>2. d \in Int
        OBVIOUS
      <3> QED BY <2>1, <3>1, <3>2, MovedBack
    <2>3. s <= sequence' \/ spinning' \/ Exhausted'
      BY <2>0, <2>1 DEF FieldsGoOn
    <2>4. w \in {0, workerId'}
      OBVIOUS
    <2>5. /\ issued'[Len(issued')] = allocate(d, w, s)
          /\ d <= lastSecond' - epochSeconds'
      BY <2>1, <2>2
    <2> QED BY <2>3, <2>4, <2>5
  <1> QED BY <1>1, <1>2 DEF LastIssued

\* A step that issues a uid beyond the last one.
LEMMA IssuingStep ==
  ASSUME Supported, NextIdInv, ~Exhausted, NEW q \in 0 .. maxSequence,
         Issue(clock, q), UNCHANGED <<epoch, clock, phase, workerId>>,
         spinning' \in BOOLEAN,
         \/ clock > lastSecond
         \/ clock = lastSecond /\ q = sequence + 1 /\ ~spinning
  PROVE  NextIdInv'
  <1> USE DEF Supported
  <1>1. /\ TypeOK /\ FieldsInv /\ LastIssued /\ HighestBitIsZero /\ IncreasingUids
        /\ UNCHANGED <<workerId, epochStr, epochSeconds, keptPast, keptBack, clock, phase>>
        /\ sequence' = q /\ lastSecond' = clock
    BY DEF NextIdInv, epoch, Issue
  <1>2. TypeOK'
    <2>1. clock \in 0 .. MaxClock /\ MaxClock \in Nat
      BY <1>1, GeneratorAssumption DEF TypeOK
    <2>2. lastSecond' \in -1 .. MaxClock
      BY <1>1, <2>1
    <2>3. sequence' \in 0 .. maxSequence /\ issued' \in Seq(Int)
      BY <1>1, IssueIsLong
    <2> QED BY <1>1, <2>1, <2>2, <2>3 DEF TypeOK
  <1>3. FieldsInv'
    BY <1>1 DEF FieldsInv
  <1>4. HighestBitIsZero'
    BY <1>1, IssueKeepsSign DEF HighestBitIsZero
  <1>5. IncreasingUids' /\ LastIssued'
    <2>1. CASE EpochsKept
      <3>1. /\ epochSeconds \in Int /\ clock - epochSeconds \in 0 .. maxDeltaSeconds
            /\ subtract(clock, epochSeconds) = clock - epochSeconds
        BY <1>1, <2>1, DeltaFits DEF EpochsKept
      <3> QED BY <1>1, <2>1, <3>1, IssueKeepsOrder
    <2>2. CASE ~EpochsKept
      BY <1>1, <2>2 DEF EpochsKept, IncreasingUids, LastIssued
    <2> QED BY <2>1, <2>2
  <1> QED BY <1>2, <1>3, <1>4, <1>5 DEF NextIdInv

-----------------------------------------------------------------------------
(* The inductive invariant *)

\* Nothing is issued at first.
LEMMA InitNextIdInv == ASSUME Supported, Init PROVE NextIdInv
  <1> USE EveryLayoutIsOrdered DEF Supported
  <1>1. maxSequence \in Nat /\ {FirstClock, MaxClock} \subseteq Nat /\ FirstClock <= MaxClock
    BY GeneratorAssumption DEF LayoutIsOrdered, ClockIsSupported
  <1>2. TypeOK
    <2>1. /\ sequence \in 0 .. maxSequence /\ lastSecond \in -1 .. MaxClock
          /\ clock \in 0 .. MaxClock
      BY <1>1 DEF Init
    <2>2. epochStr = DefaultEpochStr /\ workerId = 0 /\ spinning = FALSE /\ phase = "new"
      BY DEF Init
    <2>3. issued \in Seq(Int) /\ epochSeconds \in Instants
      BY GeneratorAssumption DEF Init
    <2>4. {keptPast, keptBack} \subseteq BOOLEAN
      BY DEF Init
    <2> QED BY <2>1, <2>2, <2>3, <2>4 DEF TypeOK
  <1>3. FieldsInv
    <2>1. keptPast => epochSeconds <= clock
      BY Zenon DEF Init
    <2> QED BY <1>1, <2>1 DEF Init, FieldsInv, ClockIsSupported, Epochs
  <1>4. LastIssued /\ HighestBitIsZero /\ IncreasingUids
    BY DEF Init, LastIssued, HighestBitIsZero, IncreasingUids
  <1> QED BY <1>2, <1>3, <1>4 DEF NextIdInv

\* Every step keeps the last uid below the fields.
LEMMA StepNextIdInv == ASSUME Supported, NextIdInv, [Next]_vars PROVE NextIdInv'
  <1> USE EveryLayoutIsOrdered DEF Supported
  <1>1. TypeOK /\ FieldsInv /\ LastIssued /\ HighestBitIsZero /\ IncreasingUids
    BY DEF NextIdInv
  <1>2. /\ maxSequence \in Nat /\ maxDeltaSeconds \in Nat
        /\ FirstClock \in Nat /\ MaxClock \in Nat /\ LastStepBack \in Nat
        /\ clock \in 0 .. MaxClock /\ lastSecond \in Int /\ epochSeconds \in Int
        /\ epochSeconds \in Epochs
    <2>1. /\ FirstClock \in Nat /\ MaxClock \in Nat /\ LastStepBack \in Nat
      BY GeneratorAssumption
    <2>2. maxSequence \in Nat /\ maxDeltaSeconds \in Nat
      BY DEF LayoutIsOrdered
    <2> QED BY <1>1, <2>1, <2>2 DEF TypeOK, ClockIsSupported, FieldsInv
  <1>a. ASSUME TypeOK', FieldsInv', UNCHANGED <<issued, lastSecond>>,
               workerId' = workerId \/ workerId = 0,
               keptPast' => keptPast, keptBack' => keptBack,
               EpochsKept' /\ issued # <<>> => FieldsGoOn
        PROVE  NextIdInv'
    <2>1. epochSeconds' \in Int
      BY <1>a DEF TypeOK, ClockIsSupported
    <2>2. LastIssued' /\ HighestBitIsZero' /\ IncreasingUids'
      BY <1>a, <1>2, <2>1, OtherStepsKeepIssued
    <2> QED BY <1>a, <2>2 DEF NextIdInv
  <1>c. ASSUME TypeOK', FieldsInv', UNCHANGED <<issued, lastSecond>>,
               UNCHANGED <<epochSeconds, keptPast, keptBack>>,
               workerId' = workerId \/ workerId = 0,
               sequence' = sequence \/ spinning' \/ Exhausted',
               spinning => spinning' \/ Exhausted',
               Exhausted => Exhausted'
        PROVE  NextIdInv'
    <2>1. EpochsKept' => FieldsGoOn
      BY <1>2, <1>c DEF FieldsGoOn, EpochsKept
    <2> QED BY <1>a, <1>c, <2>1
  <1>b. ASSUME UNCHANGED <<epoch, clock, workerId, sequence, lastSecond, spinning, issued>>,
               phase' \in {"assigning", "failed"}, phase # "ready"
        PROVE  NextIdInv'
    <2>1. TypeOK' /\ FieldsInv'
      BY <1>1, <1>b DEF TypeOK, FieldsInv, epoch
    <2>2. Exhausted' <=> Exhausted
      BY <1>b DEF Exhausted, epoch
    <2> QED BY <1>b, <1>c, <2>1, <2>2 DEF epoch
  <1>3. CASE AfterPropertiesSet
    BY <1>3, <1>b DEF AfterPropertiesSet, genVars
  <1>4. CASE AssignmentFails
    BY <1>4, <1>b DEF AssignmentFails, genVars
  <1>5. ASSUME NEW id \in AssignableIds, WorkerIdAssigned(id) PROVE NextIdInv'
    <2>1. workerId = 0 /\ workerId' = id /\ id <= maxWorkerId /\ phase' = "ready"
      <3>1. id \in 0 .. maxWorkerId /\ maxWorkerId \in Nat
        BY DEF WorkerIdsFit, LayoutIsOrdered
      <3>2. id <= maxWorkerId /\ ~(id > maxWorkerId)
        BY <3>1
      <3> QED BY <1>1, <1>5, <3>2 DEF WorkerIdAssigned, FieldsInv
    <2>2. UNCHANGED <<epochStr, epochSeconds, keptPast, keptBack, clock, sequence,
                      lastSecond, spinning, issued>>
      BY <1>5 DEF WorkerIdAssigned, epoch
    <2>3. TypeOK' /\ FieldsInv'
      BY <1>1, <2>1, <2>2 DEF TypeOK, FieldsInv
    <2>4. Exhausted' <=> Exhausted
      BY <2>2 DEF Exhausted
    <2> QED BY <1>c, <2>1, <2>2, <2>3, <2>4
  <1>6. CASE UNCHANGED vars
    <2>1. UNCHANGED <<epochStr, epochSeconds, keptPast, keptBack, clock, phase, workerId,
                      sequence, lastSecond, spinning, issued>>
      BY <1>6 DEF vars, epoch, genVars
    <2>2. TypeOK' /\ FieldsInv'
      BY <1>1, <2>1 DEF TypeOK, FieldsInv
    <2>3. Exhausted' <=> Exhausted
      BY <2>1 DEF Exhausted
    <2> QED BY <1>c, <2>1, <2>2, <2>3
  <1>7. CASE NextIdInNewSecond
    <2>1. /\ ~Exhausted /\ Issue(clock, 0) /\ clock > lastSecond
          /\ UNCHANGED <<epoch, clock, phase, workerId>>
      BY <1>7 DEF NextIdInNewSecond
    <2>2. 0 \in 0 .. maxSequence /\ spinning' \in BOOLEAN
      BY <1>1, <1>2, <1>7 DEF NextIdInNewSecond, TypeOK
    <2> QED BY <2>1, <2>2, IssuingStep
  <1>8. CASE NextIdInSameSecond
    <2>1. /\ ~Exhausted /\ Issue(clock, NextSequence) /\ clock = lastSecond
          /\ NextSequence # 0 /\ ~spinning
          /\ UNCHANGED <<epoch, clock, phase, workerId, spinning>>
      BY <1>8 DEF NextIdInSameSecond, CallNextId
    <2>2. NextSequence \in 0 .. maxSequence /\ NextSequence = sequence + 1
      BY <1>1, <2>1, SequenceGoesOn DEF TypeOK
    <2> QED BY <1>1, <2>1, <2>2, IssuingStep DEF TypeOK
  <1>9. CASE NextIdBeginsToSpin
    <2>1. /\ sequence' = 0 /\ spinning' = TRUE
          /\ UNCHANGED <<epochStr, epochSeconds, keptPast, keptBack, clock, phase,
                         workerId, lastSecond, issued>>
      BY <1>9 DEF NextIdBeginsToSpin, epoch
    <2>2. sequence' \in 0 .. maxSequence
      BY <1>2, <2>1
    <2>3. TypeOK' /\ FieldsInv'
      BY <1>1, <2>1, <2>2 DEF TypeOK, FieldsInv
    <2>4. Exhausted' <=> Exhausted
      BY <2>1 DEF Exhausted
    <2> QED BY <1>c, <2>1, <2>3, <2>4
  <1>10. CASE SpinEnds
    <2>1. /\ ~Exhausted /\ Issue(clock, 0) /\ clock > lastSecond
          /\ UNCHANGED <<epoch, clock, phase, workerId>> /\ spinning' \in BOOLEAN
      BY <1>10 DEF SpinEnds
    <2>2. 0 \in 0 .. maxSequence
      BY <1>2
    <2> QED BY <2>1, <2>2, IssuingStep
  <1>11. CASE SpinThrows
    <2>1. /\ spinning' = FALSE /\ Exhausted
          /\ UNCHANGED <<epochStr, epochSeconds, keptPast, keptBack, clock, phase,
                         workerId, sequence,
                         lastSecond, issued>>
      BY <1>11 DEF SpinThrows, epoch, genVars
    <2>2. TypeOK' /\ FieldsInv'
      BY <1>1, <2>1 DEF TypeOK, FieldsInv
    <2>3. Exhausted'
      BY <2>1 DEF Exhausted
    <2> QED BY <1>c, <2>1, <2>2, <2>3
  <1>12. CASE SetEpochStrThrows
    <2>1. /\ epochStr' = NoDay
          /\ UNCHANGED <<epochSeconds, keptPast, keptBack, clock, phase, workerId,
                         sequence, lastSecond,
                         spinning, issued>>
      BY <1>12 DEF SetEpochStrThrows, genVars
    <2>2. TypeOK' /\ FieldsInv'
      BY <1>1, <2>1 DEF TypeOK, FieldsInv
    <2>3. Exhausted' <=> Exhausted
      BY <2>1 DEF Exhausted
    <2> QED BY <1>c, <2>1, <2>2, <2>3
  <1>13. ASSUME NEW day \in Days, SetEpochStr(day) PROVE NextIdInv'
    <2> DEFINE second == parseByDayPattern(day)
    <2>1. /\ epochStr' = day /\ epochSeconds' = second
          /\ keptPast' = (keptPast /\ second <= clock)
          /\ keptBack' = (keptBack /\ (issued = <<>> \/ second <= epochSeconds))
          /\ UNCHANGED <<clock, phase, workerId, sequence, lastSecond, spinning, issued>>
      BY <1>13 DEF SetEpochStr, genVars
    <2>2. second \in Epochs
      BY DEF Epochs
    <2>3. second \in Instants /\ second \in Int
      BY <2>2 DEF ClockIsSupported
    <2> HIDE DEF second
    <2>4. {keptPast', keptBack'} \subseteq BOOLEAN
          /\ (keptPast' => keptPast) /\ (keptBack' => keptBack)
      BY <1>1, <2>1, Zenon DEF TypeOK
    <2>5. TypeOK' /\ FieldsInv'
      <3>1. keptPast' => epochSeconds' <= clock'
        BY <2>1
      <3> QED BY <1>1, <2>1, <2>2, <2>3, <2>4, <3>1 DEF TypeOK, FieldsInv
    <2>6. ASSUME EpochsKept', issued # <<>> PROVE FieldsGoOn
      <3>1. EpochsKept /\ second <= epochSeconds
        BY <2>1, <2>6 DEF EpochsKept
      <3>2. Exhausted => Exhausted'
        <4>1. clock - epochSeconds > maxDeltaSeconds => clock - second > maxDeltaSeconds
          BY <1>2, <2>3, <3>1
        <4> QED BY <2>1, <4>1 DEF Exhausted
      <3> QED BY <2>1, <3>1, <3>2 DEF FieldsGoOn
    <2> QED BY <1>a, <2>1, <2>4, <2>5, <2>6
  <1>14. CASE ClockMovesOn
    <2>1. /\ clock < MaxClock /\ clock' = clock + 1
          /\ UNCHANGED <<epochStr, epochSeconds, keptPast, keptBack, phase, workerId,
                         sequence, lastSecond, spinning, issued>>
      BY <1>14 DEF ClockMovesOn, epoch, genVars
    <2>2. clock' \in 0 .. MaxClock
      BY <1>2, <2>1
    <2>3. keptPast => epochSeconds <= clock'
      BY <1>1, <1>2, <2>1 DEF FieldsInv
    <2>4. TypeOK' /\ FieldsInv'
      BY <1>1, <2>1, <2>2, <2>3 DEF TypeOK, FieldsInv
    <2>5. Exhausted => Exhausted'
      BY <1>2, <2>1 DEF Exhausted
    <2> QED BY <1>c, <2>1, <2>4, <2>5
  <1>15. CASE ClockStepsBack
    <2>1. /\ clock > FirstClock /\ clock <= LastStepBack /\ clock' = clock - 1
          /\ keptPast' = (keptPast /\ epochSeconds < clock)
          /\ UNCHANGED <<epochStr, epochSeconds, keptBack, phase, workerId, sequence,
                         lastSecond, spinning, issued>>
      BY <1>15 DEF ClockStepsBack, genVars
    <2>2. clock' \in 0 .. MaxClock
      BY <1>2, <2>1
    <2>3. keptPast' \in BOOLEAN /\ (keptPast' => keptPast /\ epochSeconds < clock)
      BY <2>1
    <2>4. keptPast' => epochSeconds' <= clock'
      BY <1>2, <2>1, <2>3
    <2>5. TypeOK' /\ FieldsInv'
      BY <1>1, <2>1, <2>2, <2>3, <2>4 DEF TypeOK, FieldsInv
    <2>6. ~Exhausted
      <3>1. LastStepBack - epochSeconds <= maxDeltaSeconds
        BY <1>2 DEF ClockIsSupported
      <3> QED BY <1>2, <2>1, <3>1 DEF Exhausted
    <2>7. EpochsKept' => FieldsGoOn
      BY <1>2, <2>1, <2>3, <2>6 DEF FieldsGoOn, EpochsKept
    <2> QED BY <1>a, <2>1, <2>3, <2>5, <2>7
  <1> QED BY <1>3, <1>4, <1>5, <1>6, <1>7, <1>8, <1>9, <1>10, <1>11, <1>12, <1>13, <1>14, <1>15
        DEF Next, Spin, NextIdRefused

\* What the theorems suppose is constant.
LEMMA NextIdInvariant == ASSUME Supported PROVE Spec => []NextIdInv
  <1>1. Init => NextIdInv
    BY InitNextIdInv
  <1>2. NextIdInv /\ [Next]_vars => NextIdInv'
    BY StepNextIdInv
  <1> QED BY <1>1, <1>2, PTL DEF Spec

-----------------------------------------------------------------------------
(* Theorems *)

\* TypeOK: the sequence never leaves its field, whatever the clock does.
THEOREM GeneratorTypeCorrect == ASSUME Supported PROVE Spec => []TypeOK
  <1>1. NextIdInv => TypeOK
    BY DEF NextIdInv
  <1> QED BY <1>1, NextIdInvariant, PTL

\* IncreasingUids: through clocks stepped back, spins that end or throw, epochs moved
\* back and a worker id that is assigned late, every uid is greater than those before,
\* as long as setEpochStr() is kept from moving the epoch past the clock or, between
\* uids, on.
THEOREM UidsIncrease == ASSUME Supported PROVE Spec => []IncreasingUids
  <1>1. NextIdInv => IncreasingUids
    BY DEF NextIdInv
  <1> QED BY <1>1, NextIdInvariant, PTL

\* UniqueUids, "Get a unique ID": no uid is returned twice, as long as the epochs are
\* kept as above.
THEOREM UidsAreNeverRepeated ==
  ASSUME Supported PROVE Spec => [](EpochsKept => UniqueUids)
  <1>1. NextIdInv => (EpochsKept => UniqueUids)
    <2> SUFFICES ASSUME NextIdInv, EpochsKept, NEW i \in DOMAIN issued, NEW j \in DOMAIN issued,
                        issued[i] = issued[j]
                 PROVE  i = j
      BY DEF UniqueUids
    <2>1. issued \in Seq(Int) /\ IncreasingUids
      BY DEF NextIdInv, TypeOK
    <2>2. i \in Int /\ j \in Int /\ issued[i] \in Int /\ issued[j] \in Int
      BY <2>1
    <2>3. ~(i < j) /\ ~(j < i)
      BY <2>1, <2>2 DEF IncreasingUids
    <2> QED BY <2>2, <2>3
  <1> QED BY <1>1, NextIdInvariant, PTL

\* HighestBitIsZero: getCurrentSecond()'s check keeps every uid in range, wherever up
\* to the clock the epoch is moved.
THEOREM UidsAreInRange == ASSUME Supported PROVE Spec => []HighestBitIsZero
  <1>1. NextIdInv => HighestBitIsZero
    BY DEF NextIdInv
  <1> QED BY <1>1, NextIdInvariant, PTL

-----------------------------------------------------------------------------
(* Days *)

\* A set of integers that is bounded on one side has an element that is last there.
LEMMA LastOfBounded ==
  ASSUME NEW S \in SUBSET Int, S # {}, NEW b \in Int
  PROVE  /\ (\A x \in S : x <= b) => Max(S) \in S /\ \A x \in S : x <= Max(S)
         /\ (\A x \in S : b <= x) => Min(S) \in S
  <1>1. ASSUME NEW d \in [S -> Nat]
        PROVE  \E m \in S : \A x \in S : ~(d[x] < d[m])
    <2> DEFINE T == {d[x] : x \in S}
    <2>1. T \subseteq Nat /\ T # {}
      BY <1>1, Zenon
    <2>2. PICK y \in T : \A z \in T : ~(<<z, y>> \in OpToRel(<, Nat))
      BY <2>1, NatLessThanWellFounded, WFMin, Zenon
    <2>3. PICK m \in S : y = d[m]
      OBVIOUS
    <2>4. \A x \in S : ~(d[x] < d[m])
      <3> TAKE x \in S
      <3>1. ~(<<d[x], d[m]>> \in OpToRel(<, Nat)) /\ d[x] \in Nat /\ d[m] \in Nat
        BY <1>1, <2>2, <2>3
      <3> QED BY <3>1 DEF OpToRel
    <2> QED BY <2>4
  <1>2. ASSUME \A x \in S : x <= b PROVE Max(S) \in S /\ \A x \in S : x <= Max(S)
    <2> DEFINE d == [x \in S |-> b - x]
    <2>1. d \in [S -> Nat]
      BY <1>2
    <2>2. PICK m \in S : \A x \in S : ~(d[x] < d[m])
      <3> HIDE DEF d
      <3> QED BY <1>1, <2>1
    <2>3. \A x \in S : m >= x
      BY <1>2, <2>2
    <2>4. Max(S) \in S /\ \A x \in S : Max(S) >= x
      BY <2>3 DEF Max
    <2> QED BY <2>4
  <1>3. ASSUME \A x \in S : b <= x PROVE Min(S) \in S
    <2> DEFINE d == [x \in S |-> x - b]
    <2>1. d \in [S -> Nat]
      BY <1>3
    <2>2. PICK m \in S : \A x \in S : ~(d[x] < d[m])
      <3> HIDE DEF d
      <3> QED BY <1>1, <2>1
    <2>3. \A x \in S : m <= x
      BY <1>3, <2>2
    <2> QED BY <2>3 DEF Min
  <1> QED BY <1>2, <1>3

\* The times from its midnight to the next are those of a day.
LEMMA DayOfTime ==
  ASSUME NEW n \in Nat \ {0}, NEW day \in Int, NEW x \in Int,
         day * n <= x, x < day * n + n
  PROVE  x \div n = day
  <1> DEFINE q == x \div n
             r == x % n
  <1>1. q \in Int /\ r \in 0 .. n - 1 /\ x = n * q + r
    OBVIOUS
  <1> HIDE DEF q, r
  <1>2. -n < n * (q - day) /\ n * (q - day) < n
    BY <1>1
  <1>3. CASE q - day >= 1
    <2>1. n * (q - day) >= n
      BY <1>1, <1>3
    <2> QED BY <1>1, <1>2, <2>1
  <1>4. CASE q - day <= -1
    <2>1. n * (q - day) <= -n
      BY <1>1, <1>4
    <2> QED BY <1>1, <1>2, <2>1
  <1> QED BY <1>1, <1>3, <1>4 DEF q

\* The instant a day begins with reads as of that day, also where clocks skip its
\* midnight: they read a time after it, by less than a day.
LEMMA MidnightIsInItsDay ==
  ASSUME ClockIsSupported, ZoneKeepsDays, NEW day \in Days
  PROVE  formatByDateTimePattern(parseByDayPattern(day)).day = day
  <1> DEFINE local == day * DayLength
             e == parseByDayPattern(day)
             reading == {i \in Instants : LocalTime(i) = local}
             below == {i \in Instants : LocalTime(i) < local}
  <1>1. /\ day \in Int /\ DayLength \in Nat \ {0} /\ Instants \subseteq Int
        /\ \A i \in Instants : zone[i] \in Int /\ LocalTime(i) = i + zone[i]
        /\ \A i, j \in Instants : zone[i] - zone[j] < DayLength
    BY DatesAssumption, GeneratorAssumption DEF ClockIsSupported, ZoneKeepsDays, LocalTime
  <1>2. local \in Int
    BY <1>1
  <1>3. e \in Instants
    BY DEF ClockIsSupported, Epochs
  <1>4. e = IF reading # {} THEN Min(reading) ELSE local - zone[Max(below)]
    BY DEF parseByDayPattern, InstantOf
  <1>5. PICK first \in Instants : LocalTime(first) < local
    BY DEF ZoneKeepsDays
  <1> HIDE DEF local, e
  <1>6. local <= LocalTime(e) /\ LocalTime(e) < local + DayLength
    <2>1. CASE reading # {}
      <3>1. \A i \in reading : local - zone[first] - DayLength <= i
        BY <1>1, <1>2, <1>5
      <3>2. local - zone[first] - DayLength \in Int
        BY <1>1, <1>2, <1>5
      <3>3. reading \in SUBSET Int
        BY <1>1
      <3>4. e \in reading
        BY <1>4, <2>1, <3>1, <3>2, <3>3, LastOfBounded
      <3> QED BY <1>1, <1>2, <3>4
    <2>2. CASE reading = {}
      <3>1. \A i \in below : i <= local - zone[first] + DayLength
        BY <1>1, <1>2, <1>5
      <3>2. local - zone[first] + DayLength \in Int
        BY <1>1, <1>2, <1>5
      <3>3. below \in SUBSET Int /\ below # {}
        BY <1>1, <1>5
      <3>4. Max(below) \in below /\ \A i \in below : i <= Max(below)
        BY <3>1, <3>2, <3>3, LastOfBounded
      <3> DEFINE m == Max(below)
      <3>5. m \in Instants /\ LocalTime(m) < local /\ e = local - zone[m]
        BY <1>4, <2>2, <3>4
      <3>6. e \notin below
        <4>1. ~(e <= m)
          <5> HIDE DEF m
          <5> QED BY <1>1, <1>2, <1>3, <3>5
        <4> QED BY <3>4, <4>1
      <3>7. e \notin reading
        BY <2>2
      <3> HIDE DEF m
      <3>8. LocalTime(e) = local + zone[e] - zone[m] /\ zone[e] - zone[m] < DayLength
        BY <1>1, <1>2, <1>3, <3>5
      <3>9. ~(LocalTime(e) < local)
        BY <1>3, <3>6
      <3> QED BY <1>1, <1>2, <1>3, <3>5, <3>8, <3>9
    <2> QED BY <2>1, <2>2
  <1>7. LocalTime(e) \in Int
    BY <1>1, <1>3
  <1>8. LocalTime(e) \div DayLength = day
    BY <1>1, <1>6, <1>7, DayOfTime DEF local
  <1> QED BY <1>8 DEF formatByDateTimePattern, e

\* EpochIsInItsDay: in every zone that keeps its days, and though texts that are no
\* day are stored before they throw.
THEOREM EpochsAreInTheirDay ==
  ASSUME ClockIsSupported, ZoneKeepsDays PROVE Spec => []EpochIsInItsDay
  <1>1. Init => EpochIsRead
    BY GeneratorAssumption DEF Init, EpochIsRead
  <1>2. EpochIsRead /\ [Next]_vars => EpochIsRead'
    <2> SUFFICES ASSUME EpochIsRead, [Next]_vars PROVE EpochIsRead'
      OBVIOUS
    <2>1. CASE \E day \in Days : SetEpochStr(day)
      BY <2>1 DEF SetEpochStr, EpochIsRead
    <2>2. CASE SetEpochStrThrows
      BY <2>2, GeneratorAssumption DEF SetEpochStrThrows, EpochIsRead
    <2>3. CASE UNCHANGED <<epochStr, epochSeconds>>
      BY <2>3 DEF EpochIsRead
    <2> QED BY <2>1, <2>2, <2>3
      DEF Next, Spin, vars, epoch, AfterPropertiesSet, AssignmentFails, WorkerIdAssigned,
        NextIdRefused, NextIdInNewSecond, NextIdInSameSecond, NextIdBeginsToSpin,
        SpinEnds, SpinThrows, ClockMovesOn, ClockStepsBack
  <1>3. ASSUME EpochIsRead PROVE EpochIsInItsDay
    <2> SUFFICES ASSUME epochStr \in Days PROVE parseUID(0).timestamp.day = epochStr
      BY DEF EpochIsInItsDay
    <2>1. epochSeconds = parseByDayPattern(epochStr) /\ epochSeconds \in Int
      BY <1>3 DEF EpochIsRead, ClockIsSupported, Epochs
    <2>2. epochSeconds + parseDeltaSeconds(0) = epochSeconds
      BY <2>1, SecondsAreLongs
    <2>3. parseUID(0).timestamp = formatByDateTimePattern(epochSeconds)
      BY <2>2 DEF parseUID
    <2> QED BY <2>1, <2>3, MidnightIsInItsDay
  <1> QED BY <1>1, <1>2, <1>3, PTL DEF Spec
=============================================================================
