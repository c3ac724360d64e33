------------------------ MODULE ConfigurationProofs ------------------------
(***************************************************************************)
(* Proofs about GeneratorConfiguration, for every width of a long and of   *)
(* an integer and whatever is passed to the setters: in every layout they  *)
(* lead to, parseUID() inverts allocate() and uids are ordered while they  *)
(* are in range, and a ring that is made holds the uids of a second.       *)
(*                                                                         *)
(* The arithmetic is that of BitsAllocatorProofs, of longs (Long) and, for *)
(* the size of the ring, of JavaScript's integers (Integer).               *)
(***************************************************************************)
EXTENDS GeneratorConfiguration, TLAPS

Long == INSTANCE BitsAllocatorProofs WITH
  timestampBits <- layout.time,
  workerIdBits <- layout.worker,
  sequenceBits <- layout.seq

Integer == INSTANCE BitsAllocatorProofs WITH
  LongBits <- IntBits,
  timestampBits <- IntBits - 1,
  workerIdBits <- 0,
  sequenceBits <- 0

-----------------------------------------------------------------------------
(* The same arithmetic *)

\* The powers of two do not depend on the layout.
LEMMA OnePow2 == Bits!pow2 = Long!pow2 /\ Bits!pow2 = Integer!pow2
  BY DEF Bits!pow2, Long!pow2, Integer!pow2

\* Nor do they change with it.
LEMMA OnePow2Ever == (Bits!pow2)' = Bits!pow2
  BY DEF Bits!pow2

\* Bits and Long define the same: the largest values, ...
LEMMA SameLargest ==
  /\ Bits!maxDeltaSeconds = Long!maxDeltaSeconds
  /\ Bits!maxWorkerId = Long!maxWorkerId
  /\ Bits!maxSequence = Long!maxSequence
  BY DEF Bits!maxDeltaSeconds, Long!maxDeltaSeconds, Bits!maxWorkerId, Long!maxWorkerId,
    Bits!maxSequence, Long!maxSequence, Bits!not, Long!not, Bits!shiftLeft, Long!shiftLeft,
    Bits!toLong, Long!toLong, Bits!Span, Long!Span, Bits!pow2, Long!pow2

\* ... allocate(), ...
LEMMA SameAllocate ==
  ASSUME NEW d, NEW w, NEW s PROVE Bits!allocate(d, w, s) = Long!allocate(d, w, s)
  BY DEF Bits!allocate, Long!allocate, Bits!or, Long!or, Bits!bitwise, Long!bitwise,
    Bits!OrTable, Long!OrTable, Bits!timestampShift, Long!timestampShift,
    Bits!workerIdShift, Long!workerIdShift, Bits!shiftLeft, Long!shiftLeft,
    Bits!toUnsignedLong, Long!toUnsignedLong,
    Bits!toLong, Long!toLong, Bits!Span, Long!Span, Bits!pow2, Long!pow2

\* ... the uids of a second, ...
LEMMA SameUids ==
  ASSUME NEW d, NEW w PROVE Bits!uidsOfSecond(d, w) = Long!uidsOfSecond(d, w)
  <1>1. Bits!allocate(d, w, 0) = Long!allocate(d, w, 0)
    BY SameAllocate
  <1>2. \A x, y : Bits!add(x, y) = Long!add(x, y)
    BY DEF Bits!add, Long!add, Bits!toLong, Long!toLong, Bits!Span, Long!Span,
      Bits!pow2, Long!pow2
  <1> QED BY <1>1, <1>2, SameLargest DEF Bits!uidsOfSecond, Long!uidsOfSecond

\* ... and the parsing of each field.
LEMMA SameParsing ==
  ASSUME NEW u
  PROVE  /\ Bits!parseDeltaSeconds(u) = Long!parseDeltaSeconds(u)
         /\ Bits!parseWorkerId(u) = Long!parseWorkerId(u)
         /\ Bits!parseSequence(u) = Long!parseSequence(u)
  BY DEF Bits!parseDeltaSeconds, Long!parseDeltaSeconds, Bits!parseWorkerId,
    Long!parseWorkerId, Bits!parseSequence, Long!parseSequence, Bits!signBits, Long!signBits,
    Bits!unsignedShiftRight, Long!unsignedShiftRight, Bits!shiftLeft, Long!shiftLeft,
    Bits!toUnsignedLong, Long!toUnsignedLong,
    Bits!toLong, Long!toLong, Bits!Span, Long!Span, Bits!pow2, Long!pow2

\* The constructor's check, of a layout that fills the long.
LayoutFills ==
  /\ {layout.time, layout.worker, layout.seq} \subseteq Nat \ {0}
  /\ 1 + layout.time + layout.worker + layout.seq = LongBits
  /\ {LongBits, layout.time, layout.worker, layout.seq} \subseteq Nat
  /\ Long!signBits + layout.time + layout.worker + layout.seq = LongBits

\* A layout in use passed it.
LEMMA LayoutOfMade == ASSUME LayoutIsFull, Made PROVE LayoutFills
  BY ConfigurationAssumption DEF LayoutIsFull, LayoutFills, Long!signBits

\* An integer is laid out as a sign and one field.
LEMMA IntegerFills ==
  /\ {IntBits, IntBits - 1, 0} \subseteq Nat
  /\ Integer!signBits + (IntBits - 1) + 0 + 0 = IntBits
  BY ConfigurationAssumption DEF Integer!signBits

-----------------------------------------------------------------------------
(* The size of the ring *)

\* The integers of JavaScript's shifts are longs of another width.
LEMMA IntIsShortLong == \A x \in Int : toInt(x) = Integer!toLong(x)
  <1>1. /\ Integer!Half \in Nat \ {0} /\ Integer!Span = 2 * Integer!Half
        /\ Integer!Span \div 2 = Integer!Half
    BY IntegerFills, Integer!SpanIsTwiceHalf
  <1>2. Integer!Half = Bits!pow2[IntBits - 1] /\ Integer!Span = Bits!pow2[IntBits]
    BY OnePow2 DEF Integer!Half, Integer!Span
  <1> QED BY <1>1, <1>2 DEF toInt, Integer!toLong

\* What is known of the powers of two and of the integers, under their own names.
LEMMA Powers ==
  /\ \A n \in Nat : Bits!pow2[n] \in Nat \ {0}
  /\ \A m, n \in Nat : Bits!pow2[m + n] = Bits!pow2[m] * Bits!pow2[n]
  /\ \A m, n \in Nat : m < n => 2 * Bits!pow2[m] <= Bits!pow2[n]
  <1>1. \A n \in Nat : Integer!pow2[n] \in Nat \ {0}
    BY IntegerFills, Integer!Pow2IsPositive
  <1>2. \A m, n \in Nat : Integer!pow2[m + n] = Integer!pow2[m] * Integer!pow2[n]
    BY IntegerFills, Integer!Pow2OfSum
  <1>3. \A m, n \in Nat : m < n => 2 * Integer!pow2[m] <= Integer!pow2[n]
    BY IntegerFills, Integer!Pow2Grows
  <1> QED BY <1>1, <1>2, <1>3, OnePow2

\* A power of two is positive as an integer only where it fits.
LEMMA PowerAsInt ==
  ASSUME NEW m \in Nat, toInt(Bits!pow2[m]) > 0
  PROVE  toInt(Bits!pow2[m]) = Bits!pow2[m]
  <1> DEFINE x == Bits!pow2[m]
             H == Integer!Half
             S == Integer!Span
  <1>1. H \in Nat \ {0} /\ S = 2 * H /\ H = Bits!pow2[IntBits - 1] /\ S = Bits!pow2[IntBits]
    BY IntegerFills, Integer!SpanIsTwiceHalf, OnePow2 DEF Integer!Half, Integer!Span
  <1>2. x \in Nat \ {0} /\ toInt(x) = Integer!toLong(x)
    BY Powers, IntIsShortLong
  <1>3. IntBits \in Nat \ {0} /\ IntBits - 1 \in Nat
    BY ConfigurationAssumption
  <1>4. CASE m < IntBits - 1
    <2>1. 2 * x <= H
      BY <1>1, <1>3, <1>4, Powers
    <2> HIDE DEF x, H, S
    <2>2. x \in Int /\ x \in -H .. H - 1
      BY <1>1, <1>2, <2>1
    <2>3. Integer!toLong(x) = x
      BY <2>2, IntegerFills, Integer!LongInRange DEF H
    <2> QED BY <1>2, <2>3 DEF x
  <1>5. CASE m = IntBits - 1
    <2>1. x = H
      BY <1>1, <1>5
    <2> HIDE DEF x, H, S
    <2>2. x \in Int /\ x \in H .. S - 1
      BY <1>1, <1>2, <2>1
    <2>3. Integer!toLong(x) = x - S
      BY <2>2, IntegerFills, Integer!LongInRange DEF H, S
    <2>4. ~(toInt(x) > 0)
      BY <1>1, <1>2, <2>1, <2>3
    <2> QED BY <2>4 DEF x
  <1>6. CASE m > IntBits - 1
    <2> DEFINE k == Bits!pow2[m - IntBits]
    <2>1. m - IntBits \in Nat /\ (m - IntBits) + IntBits = m
      BY <1>3, <1>6
    <2>2. x = k * S /\ k \in Nat
      <3>1. Bits!pow2[(m - IntBits) + IntBits] = Bits!pow2[m - IntBits] * Bits!pow2[IntBits]
        BY <1>3, <2>1, Powers
      <3>2. k \in Nat
        BY <2>1, Powers
      <3> HIDE DEF H, S
      <3> QED BY <1>1, <2>1, <3>1, <3>2
    <2> HIDE DEF x, H, S, k
    <2>3. 0 \in Int /\ 0 \in -H .. H - 1 /\ k \in Int /\ 0 + k * S = x
      BY <1>1, <2>2
    <2>4. Integer!toLong(0) = 0 /\ Integer!toLong(0 + k * S) = Integer!toLong(0)
      BY <2>3, IntegerFills, Integer!LongInRange, Integer!LongOfCongruent DEF H, S
    <2>5. ~(toInt(x) > 0)
      BY <1>2, <2>3, <2>4
    <2> QED BY <2>5 DEF x
  <1> QED BY <1>3, <1>4, <1>5, <1>6

\* The shift of a power of two, which wraps twice, is a larger power if it is positive.
LEMMA ShiftedPower ==
  ASSUME NEW n \in Nat, NEW distance \in Nat, shiftInt(Bits!pow2[n], distance) > 0
  PROVE  /\ shiftInt(Bits!pow2[n], distance) \in Nat
         /\ shiftInt(Bits!pow2[n], distance) >= Bits!pow2[n]
  <1> DEFINE k == distance % IntBits
             x == Bits!pow2[n]
             y == Bits!pow2[k]
  <1>1. k \in Nat
    BY ConfigurationAssumption
  <1>2. x \in Nat \ {0} /\ y \in Nat \ {0} /\ Bits!pow2[n + k] = x * y /\ n + k \in Nat
    <2> HIDE DEF k
    <2>1. x \in Nat \ {0} /\ y \in Nat \ {0}
      BY <1>1, Powers
    <2>2. Bits!pow2[n + k] = Bits!pow2[n] * Bits!pow2[k]
      BY <1>1, Powers
    <2> QED BY <1>1, <2>1, <2>2
  <1>3. toInt(x) = Integer!toLong(x) /\ Integer!toLong(x) \in Int
    <2>1. Integer!toLong(x) \in -Integer!Half .. Integer!Half - 1
      BY <1>2, IntegerFills, Integer!LongOfInteger
    <2>2. Integer!Half \in Nat
      BY IntegerFills, Integer!SpanIsTwiceHalf
    <2> QED BY <1>2, <2>1, <2>2, IntIsShortLong
  <1> HIDE DEF x, y, k
  <1>4. Integer!toLong(Integer!toLong(x) * y) = Integer!toLong(x * y)
    BY <1>2, IntegerFills, Integer!LongInTheMiddle
  <1>5. x * y \in Int /\ Integer!toLong(x) * y \in Int
    BY <1>2, <1>3
  <1>6. toInt(toInt(x) * y) = toInt(x * y)
    BY <1>3, <1>4, <1>5, IntIsShortLong
  <1>7. shiftInt(Bits!pow2[n], distance) = toInt(Bits!pow2[n + k])
    BY <1>2, <1>6 DEF shiftInt, x, y, k
  <1>8. shiftInt(Bits!pow2[n], distance) = Bits!pow2[n + k]
    BY <1>2, <1>7, PowerAsInt
  <1>9. x <= x * y /\ x * y \in Nat
    BY <1>2
  <1> QED BY <1>2, <1>8, <1>9 DEF x

-----------------------------------------------------------------------------
(* The inductive invariant *)

\* The masks, of a layout that is in use.
LEMMA LargestOfMade ==
  ASSUME LayoutFills
  PROVE  /\ Bits!maxDeltaSeconds \in Nat /\ Bits!maxWorkerId \in Nat
         /\ Bits!maxSequence \in Nat
         /\ Bits!maxSequence + 1 = Bits!pow2[layout.seq]
  <1>1. /\ Long!maxSequence = Long!pow2[layout.seq] - 1
        /\ {Long!maxDeltaSeconds, Long!maxWorkerId, Long!maxSequence} \subseteq Nat
    BY Long!LargestValues DEF LayoutFills
  <1>2. Bits!pow2[layout.seq] \in Nat
    BY Powers DEF LayoutFills
  <1> QED BY <1>1, <1>2, SameLargest, OnePow2

\* The defaults are positive, and nothing is made yet.
LEMMA InitialConfiguration == ASSUME Init PROVE ConfigurationInv
  <1>1. TypeOK
    BY ConfigurationAssumption DEF Init, TypeOK, None, NoLayout, NoRing
  <1>2. LayoutIsFull /\ RingOfLayout
    BY DEF Init, LayoutIsFull, RingOfLayout, Made
  <1> QED BY <1>1, <1>2 DEF ConfigurationInv

\* A layout is made of positive fields that fill, a ring of a size that is positive.
LEMMA ConfigurationStep ==
  ASSUME ConfigurationInv, [Next]_vars PROVE ConfigurationInv'
  <1>1. TypeOK /\ LayoutIsFull /\ RingOfLayout
    BY DEF ConfigurationInv
  <1>2. ASSUME UNCHANGED made, TypeOK' PROVE ConfigurationInv'
    <2>1. /\ phase' = phase /\ layout' = layout /\ ring' = ring
      BY <1>2 DEF made
    <2>2. LayoutIsFull' /\ RingOfLayout'
      BY <1>1, <2>1, OnePow2Ever DEF LayoutIsFull, RingOfLayout, Made
    <2> QED BY <1>2, <2>2 DEF ConfigurationInv
  <1>3. CASE Configure
    <2>1. UNCHANGED made
      BY <1>3 DEF Configure
    <2>2. /\ BitCounts \subseteq Int /\ BoostPowers \subseteq Int
          /\ PaddingFactors \subseteq Int /\ ScheduleIntervals \subseteq Int
      BY ConfigurationAssumption
    <2>3. ASSUME NEW n \in BitCounts, SetTimeBits(n) \/ SetWorkerBits(n) \/ SetSeqBits(n)
          PROVE  TypeOK'
      BY <1>1, <2>1, <2>2, <2>3
         DEF SetTimeBits, SetWorkerBits, SetSeqBits, TakesBits, TypeOK, made
    <2>4. ASSUME NEW n \in BoostPowers, SetBoostPower(n) PROVE TypeOK'
      BY <1>1, <2>1, <2>2, <2>4 DEF SetBoostPower, TypeOK, made
    <2>5. ASSUME NEW n \in PaddingFactors, SetPaddingFactor(n) PROVE TypeOK'
      BY <1>1, <2>1, <2>2, <2>5 DEF SetPaddingFactor, TypeOK, made
    <2>6. ASSUME NEW n \in ScheduleIntervals, SetScheduleInterval(n) PROVE TypeOK'
      BY <1>1, <2>1, <2>2, <2>6 DEF SetScheduleInterval, TypeOK, made
    <2>7. TypeOK'
      BY <1>3, <2>3, <2>4, <2>5, <2>6 DEF Configure
    <2> QED BY <1>2, <2>1, <2>7
  <1>4. CASE MakeLayout
    <2>1. TypeOK'
      BY <1>1, <1>4 DEF MakeLayout, TypeOK, fields
    <2>2. LayoutIsFull'
      <3>1. CASE BitsFill
        <4>1. /\ layout' = [time |-> timeBits, worker |-> workerBits, seq |-> seqBits]
          BY <1>4, <3>1 DEF MakeLayout
        <4> QED BY <1>1, <3>1, <4>1 DEF LayoutIsFull, BitsFill, TypeOK
      <3>2. CASE ~BitsFill
        BY <1>4, <3>2 DEF MakeLayout, LayoutIsFull, Made
      <3> QED BY <3>1, <3>2
    <2>3. RingOfLayout'
      BY <1>4 DEF MakeLayout, RingOfLayout
    <2> QED BY <2>1, <2>2, <2>3 DEF ConfigurationInv
  <1>5. ASSUME NEW id \in WorkerIds, WorkerIdAssigned(id) PROVE ConfigurationInv'
    <2>1. phase = "assigning" /\ layout' = layout /\ UNCHANGED fields
      BY <1>5 DEF WorkerIdAssigned
    <2>2. CASE phase' = "failed" /\ UNCHANGED <<ring, bootInterval>>
      BY <1>1, <2>1, <2>2
         DEF ConfigurationInv, TypeOK, fields, LayoutIsFull, RingOfLayout, Made
    <2>3. CASE MakeRing /\ RingAccepts
      <3>1. /\ phase' = "ready" /\ bootInterval' = scheduleInterval
            /\ ring' = [size |-> bufferSize,
                        threshold |-> (bufferSize * paddingFactor) \div 100]
            /\ bufferSize > 0 /\ paddingFactor \in 1 .. 99
        BY <2>3 DEF MakeRing, RingAccepts
      <3>2. LayoutFills
        BY <1>1, <2>1, LayoutOfMade DEF Made
      <3>3. bufferSize = shiftInt(Bits!pow2[layout.seq], boostPower)
        BY <3>2, LargestOfMade DEF bufferSize
      <3>4. bufferSize \in Nat /\ bufferSize >= Bits!pow2[layout.seq]
        <4>1. layout.seq \in Nat /\ boostPower \in Nat
          BY <1>1, <3>2 DEF LayoutFills, TypeOK
        <4> QED BY <3>1, <3>3, <4>1, ShiftedPower
      <3>5. (bufferSize * paddingFactor) \div 100 \in Nat
        <4>1. \A b \in Nat : \A f \in 1 .. 99 : (b * f) \div 100 \in Nat
          <5> TAKE b \in Nat, f \in 1 .. 99
          <5>1. b * f \in Nat
            OBVIOUS
          <5>2. \A x \in Nat : x \div 100 \in Nat
            OBVIOUS
          <5> QED BY <5>1, <5>2
        <4> QED BY <3>1, <3>4, <4>1
      <3>6. TypeOK'
        BY <1>1, <2>1, <3>1, <3>4, <3>5 DEF TypeOK, fields
      <3>7. LayoutIsFull'
        BY <1>1, <2>1 DEF LayoutIsFull, Made
      <3>8. RingOfLayout'
        BY <2>1, <3>1, <3>4, OnePow2Ever DEF RingOfLayout
      <3> QED BY <3>6, <3>7, <3>8 DEF ConfigurationInv
    <2> QED BY <1>5, <2>2, <2>3 DEF WorkerIdAssigned, MakeRing
  <1>6. CASE UNCHANGED vars
    <2>1. UNCHANGED made /\ TypeOK'
      BY <1>1, <1>6 DEF vars, fields, made, TypeOK
    <2> QED BY <1>2, <2>1
  <1> QED BY <1>3, <1>4, <1>5, <1>6 DEF Next

\* ConfigurationInv holds in every reachable state.
LEMMA ConfigurationInvariant == Spec => []ConfigurationInv
  <1>1. Init => ConfigurationInv
    BY InitialConfiguration
  <1>2. ConfigurationInv /\ [Next]_vars => ConfigurationInv'
    BY ConfigurationStep
  <1> QED BY <1>1, <1>2, PTL DEF Spec

-----------------------------------------------------------------------------
(* Theorems *)

\* TypeOK: what setters ignore, refuse or leave to a constructor never gets into a
\* field, a layout or a ring that it does not fit.
THEOREM ConfigurationTypeCorrect == Spec => []TypeOK
  <1>1. ConfigurationInv => TypeOK
    BY DEF ConfigurationInv
  <1> QED BY <1>1, ConfigurationInvariant, PTL

\* RingHoldsASecond: a size that overflowed is refused, or holds a second all the same.
THEOREM RingsHoldASecond == Spec => []RingHoldsASecond
  <1>1. ConfigurationInv => RingHoldsASecond
    <2> SUFFICES ASSUME ConfigurationInv, phase = "ready"
                 PROVE  ring.size >= Bits!maxSequence + 1
      BY DEF RingHoldsASecond
    <2>1. LayoutFills
      BY LayoutOfMade DEF ConfigurationInv, Made
    <2> QED BY <2>1, LargestOfMade DEF ConfigurationInv, RingOfLayout
  <1> QED BY <1>1, ConfigurationInvariant, PTL

\* ParseInvertsAllocate: in every layout the setters lead to, parseUID() recovers what
\* allocate() was given, and nextIdsForOneSecond() numbers a second in the same way.
THEOREM ParsingInverts == Spec => []ParseInvertsAllocate
  <1>1. ConfigurationInv => ParseInvertsAllocate
    <2> SUFFICES ASSUME ConfigurationInv, Made, NEW args \in allUids
                 PROVE  /\ Bits!parseDeltaSeconds(uid(args)) = args[1]
                        /\ Bits!parseWorkerId(uid(args)) = args[2]
                        /\ Bits!parseSequence(uid(args)) = args[3]
                        /\ uid(args) = Bits!uidsOfSecond(args[1], args[2])[args[3]]
      BY DEF ParseInvertsAllocate
    <2>1. LayoutFills
      BY LayoutOfMade DEF ConfigurationInv
    <2>2. PICK d \in 0 .. 2 * Long!maxDeltaSeconds + 1, w \in 0 .. Long!maxWorkerId,
               s \in 0 .. Long!maxSequence : args = <<d, w, s>>
      BY SameLargest DEF allUids
    <2>3. uid(args) = Long!allocate(d, w, s) /\ args[1] = d /\ args[2] = w /\ args[3] = s
      BY <2>2, SameAllocate DEF uid
    <2>4. layout.worker > 0 /\ layout.seq > 0
      BY <2>1 DEF LayoutFills
    <2>5. /\ Long!parseDeltaSeconds(Long!allocate(d, w, s)) = d
          /\ Long!parseWorkerId(Long!allocate(d, w, s)) = w
          /\ Long!parseSequence(Long!allocate(d, w, s)) = s
      BY <2>1, <2>4, Long!ParsingInvertsAllocating DEF LayoutFills
    <2>6. Long!uidsOfSecond(d, w)[s] = Long!allocate(d, w, s)
      BY <2>1, Long!OffsetsAreSequences DEF LayoutFills
    <2> QED BY <2>3, <2>5, <2>6, SameParsing, SameUids
  <1> QED BY <1>1, ConfigurationInvariant, PTL

\* OrderedWhileInRange: the sign of a uid says whether its seconds are in range, and
\* while they are, a later second or sequence makes a larger uid.
THEOREM UidsAreOrdered == Spec => []OrderedWhileInRange
  <1>1. ConfigurationInv => OrderedWhileInRange
    <2> SUFFICES ASSUME ConfigurationInv, Made, NEW args \in allUids
                 PROVE  /\ uid(args) < 0 <=> args[1] > Bits!maxDeltaSeconds
                        /\ args[3] < Bits!maxSequence
                             => uid(args) < uid(<<args[1], args[2], args[3] + 1>>)
                        /\ args[1] < Bits!maxDeltaSeconds
                             => uid(args) < uid(<<args[1] + 1, args[2], 0>>)
      BY DEF OrderedWhileInRange
    <2>1. LayoutFills
      BY LayoutOfMade DEF ConfigurationInv
    <2>2. PICK d \in 0 .. 2 * Long!maxDeltaSeconds + 1, w \in 0 .. Long!maxWorkerId,
               s \in 0 .. Long!maxSequence : args = <<d, w, s>>
      BY SameLargest DEF allUids
    <2>3. /\ uid(args) = Long!allocate(d, w, s) /\ args[1] = d /\ args[2] = w /\ args[3] = s
          /\ uid(<<d, w, s + 1>>) = Long!allocate(d, w, s + 1)
          /\ uid(<<d + 1, w, 0>>) = Long!allocate(d + 1, w, 0)
      BY <2>2, SameAllocate DEF uid
    <2>4. layout.worker > 0 /\ layout.seq > 0
      BY <2>1 DEF LayoutFills
    <2>5. {Long!maxDeltaSeconds, Long!maxSequence} \subseteq Nat /\ d \in Int /\ s \in Int
      BY <2>1, LargestOfMade, SameLargest
    <2>6. Long!allocate(d, w, s) < 0 <=> d > Long!maxDeltaSeconds
      BY <2>1, <2>4, Long!ParsingInvertsAllocating DEF LayoutFills
    <2>7. ASSUME s < Long!maxSequence
          PROVE  Long!allocate(d, w, s) < Long!allocate(d, w, s + 1)
      <3>1. s \in 0 .. Long!maxSequence - 1
        BY <2>5, <2>7
      <3>2. /\ Long!allocate(d, w, s + 1) = Long!allocate(d, w, s) + 1
            /\ Long!allocate(d, w, s) \in Int
        BY <2>1, <3>1, Long!SequencesFollow DEF LayoutFills
      <3> QED BY <3>2
    <2>8. ASSUME d < Long!maxDeltaSeconds
          PROVE  Long!allocate(d, w, s) < Long!allocate(d + 1, w, 0)
      <3>1. /\ d \in 0 .. Long!maxDeltaSeconds /\ d + 1 \in 0 .. Long!maxDeltaSeconds
            /\ d < d + 1 /\ 0 \in 0 .. Long!maxSequence
        BY <2>5, <2>8
      <3> QED BY <2>1, <3>1, Long!AllocateKeepsOrder DEF LayoutFills
    <2> QED BY <2>3, <2>6, <2>7, <2>8, SameLargest
  <1> QED BY <1>1, ConfigurationInvariant, PTL
=============================================================================
