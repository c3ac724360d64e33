-------------------------- MODULE RingBufferProofs --------------------------
(***************************************************************************)
(* Proofs about RingBuffer, for every size, threshold and handler.  First  *)
(* its own state: types, slots and flags.  Then the takes that have called *)
(* out: what they claimed is theirs, nothing leaks, and refusals are       *)
(* justified.  With them, the ring implements the bounded queue of         *)
(* UidQueue: every step is a step of the queue or a stutter.               *)
(***************************************************************************)
EXTENDS RingBuffer, SequenceTheorems, TLAPS

USE DEF START_POINT, CAN_PUT_FLAG, CAN_TAKE_FLAG

-----------------------------------------------------------------------------
(* Facts about sequences and about the slot index *)

\* What is left of a sequence without its last element.
LEMMA FrontProperties ==
  ASSUME NEW S, NEW s \in Seq(S), s # <<>>
  PROVE  /\ Front(s) \in Seq(S)
         /\ Len(s) \in Nat \ {0}
         /\ Len(Front(s)) = Len(s) - 1
         /\ \A i \in 1 .. Len(s) - 1 : Front(s)[i] = s[i]
         /\ Last(s) = s[Len(s)]
         /\ Last(s) \in S
  <1>1. Len(s) \in Nat \ {0} /\ \A i \in 1 .. Len(s) : s[i] \in S
    OBVIOUS
  <1>2. /\ SubSeq(s, 1, Len(s) - 1) \in Seq(S)
        /\ Len(SubSeq(s, 1, Len(s) - 1)) = Len(s) - 1
        /\ \A i \in 1 .. Len(s) - 1 : SubSeq(s, 1, Len(s) - 1)[i] = s[i]
    <2> DEFINE n == Len(s) - 1
    <2>1. n \in Int /\ \A i \in 1 .. n : s[i] \in S
      BY <1>1
    <2>2. /\ SubSeq(s, 1, n) \in Seq(S)
          /\ Len(SubSeq(s, 1, n)) = IF 1 <= n THEN n - 1 + 1 ELSE 0
          /\ \A i \in 1 .. n - 1 + 1 : SubSeq(s, 1, n)[i] = s[1 + i - 1]
      <3> HIDE DEF n
      <3> QED BY <2>1, SubSeqProperties
    <2>3. n \in Nat /\ \A i \in 1 .. n : 1 + i - 1 = i
      BY <1>1
    <2>4. /\ Len(SubSeq(s, 1, n)) = n
          /\ \A i \in 1 .. n : SubSeq(s, 1, n)[i] = s[i]
      <3> HIDE DEF n
      <3> QED BY <2>2, <2>3
    <2> QED BY <2>2, <2>4
  <1> QED BY <1>1, <1>2 DEF Front, Last

\* Append leaves what was there, and adds one element.
LEMMA AppendKeeps ==
  ASSUME NEW S, NEW s \in Seq(S), NEW e \in S
  PROVE  /\ Append(s, e) \in Seq(S)
         /\ Len(Append(s, e)) = Len(s) + 1
         /\ Len(s) \in Nat
         /\ \A i \in 1 .. Len(s) : Append(s, e)[i] = s[i]
         /\ Append(s, e)[Len(s) + 1] = e
         /\ DOMAIN s = 1 .. Len(s)
         /\ DOMAIN Append(s, e) = 1 .. Len(s) + 1
  OBVIOUS

\* It adds that element to the range.
LEMMA RangeAppend ==
  ASSUME NEW S, NEW s \in Seq(S), NEW e \in S
  PROVE  Range(Append(s, e)) = Range(s) \union {e}
  <1>1. \A x \in Range(Append(s, e)) : x \in Range(s) \union {e}
    BY AppendKeeps DEF Range
  <1>2. \A x \in Range(s) \union {e} : x \in Range(Append(s, e))
    <2>1. \A i \in DOMAIN s : /\ i \in DOMAIN Append(s, e)
                             /\ s[i] = Append(s, e)[i]
      BY AppendKeeps
    <2>2. e = Append(s, e)[Len(s) + 1] /\ Len(s) + 1 \in DOMAIN Append(s, e)
      BY AppendKeeps
    <2> QED BY <2>1, <2>2 DEF Range
  <1> QED BY <1>1, <1>2

\* Every position has a slot.
LEMMA IndexInRange ==
  ASSUME NEW p \in Int PROVE calSlotIndex(p) \in Index
  BY SizeAssumption DEF calSlotIndex, Index

-----------------------------------------------------------------------------
(* Type correctness *)

\* The constructor leaves the variables in their types.
LEMMA InitialTypes == Init => TypeOK
  <1> SUFFICES ASSUME Init PROVE TypeOK
    OBVIOUS
  <1>1. tail \in Position /\ cursor \in START_POINT .. tail
    BY DEF Init, Position
  <1>2. /\ slots \in [Index -> Uid \union {ZeroUid}]
        /\ flags \in [Index -> {CAN_PUT_FLAG, CAN_TAKE_FLAG}]
    BY DEF Init
  <1>3. /\ frames \in Seq(Frame)
        /\ produced \in Seq(Uid)
        /\ given \in Seq(Uid \union {ZeroUid})
    BY DEF Init
  <1> QED BY <1>1, <1>2, <1>3 DEF Init, TypeOK

\* Every step keeps the variables in their types.
LEMMA TypeStep == TypeOK /\ [Next]_vars => TypeOK'
  <1> SUFFICES ASSUME TypeOK, [Next]_vars PROVE TypeOK'
    OBVIOUS
  <1> USE DEF TypeOK, Position, Frame
  <1>a. tail \in Int /\ cursor \in Int /\ NextCursor \in START_POINT .. tail
    BY DEF NextCursor
  <1>b. ASSUME NEW p \in Int, ReadSlot(p)
        PROVE  /\ flags' \in [Index -> {CAN_PUT_FLAG, CAN_TAKE_FLAG}]
               /\ given' \in Seq(Uid \union {ZeroUid})
    <2>1. calSlotIndex(p) \in Index
      BY IndexInRange
    <2>2. CASE flags[calSlotIndex(p)] = CAN_TAKE_FLAG
      <3>1. slots[calSlotIndex(p)] \in Uid \union {ZeroUid}
        BY <2>1
      <3>2. /\ given' = Append(given, slots[calSlotIndex(p)])
            /\ flags' = [flags EXCEPT ![calSlotIndex(p)] = CAN_PUT_FLAG]
        BY <1>b, <2>2 DEF ReadSlot
      <3>3. flags' \in [Index -> {CAN_PUT_FLAG, CAN_TAKE_FLAG}]
        BY <3>2
      <3>4. given' \in Seq(Uid \union {ZeroUid})
        BY <3>1, <3>2
      <3> QED BY <3>3, <3>4
    <2>3. CASE flags[calSlotIndex(p)] # CAN_TAKE_FLAG
      BY <1>b, <2>3 DEF ReadSlot
    <2> QED BY <2>2, <2>3
  <1>c. ASSUME NEW at \in {"padding", "handler"}, PushFrame(at)
        PROVE  frames' \in Seq(Frame)
    BY <1>a, <1>c DEF PushFrame
  <1>d. ASSUME frames # <<>>
        PROVE  Front(frames) \in Seq(Frame) /\ Last(frames) \in Frame
    BY <1>d, FrontProperties
  <1>1. ASSUME NEW uid \in Fresh, Put(uid) PROVE TypeOK'
    <2>1. uid \in Uid
      BY <1>1 DEF Fresh
    <2>2. slots' \in [Index -> Uid \union {ZeroUid}]
      BY <1>1, <2>1 DEF Put
    <2>3. flags' \in [Index -> {CAN_PUT_FLAG, CAN_TAKE_FLAG}]
      BY <1>1 DEF Put
    <2>4. tail' \in Position /\ cursor' \in START_POINT .. tail'
      BY <1>1, <1>a DEF Put
    <2>5. produced' \in Seq(Uid)
      BY <1>1, <2>1 DEF Put
    <2> QED BY <1>1, <2>2, <2>3, <2>4, <2>5 DEF Put
  <1>2. CASE PutRejected
    BY <1>2 DEF PutRejected, vars, ringVars, history
  <1>3. CASE TakeDirectly
    BY <1>3, <1>a, <1>b DEF TakeDirectly
  <1>4. CASE TakeCallsPadding
    BY <1>4, <1>a, <1>c DEF TakeCallsPadding, history
  <1>5. CASE TakeRefusedByPool
    <2>1. TakeFindsUid => NextCursor \in Nat
      BY DEF TakeFindsUid, NextCursor
    <2> QED BY <1>5, <1>a, <2>1 DEF TakeRefusedByPool
  <1>6. CASE TakeCallsHandler
    BY <1>6, <1>c DEF TakeCallsHandler, ringVars, history
  <1>7. CASE PaddingReturns
    <2> DEFINE f == Last(frames)
    <2>1. f \in Frame /\ Front(frames) \in Seq(Frame)
      BY <1>7, <1>d DEF PaddingReturns
    <2>2. CASE f.nxt = f.cur
      <3>1. [f EXCEPT !.at = "handler"] \in Frame
        BY <2>1
      <3>2. frames' \in Seq(Frame)
        <4> DEFINE g == [f EXCEPT !.at = "handler"]
                   F == Frame
        <4>1. frames' = Append(Front(frames), g)
          BY <1>7, <2>2 DEF PaddingReturns
        <4>2. g \in F /\ Front(frames) \in Seq(F)
          BY <2>1, <3>1
        <4> HIDE DEF g, F
        <4>3. Append(Front(frames), g) \in Seq(F)
          BY <4>2
        <4> QED BY <4>1, <4>3 DEF F
      <3> QED BY <1>7, <2>2, <3>2 DEF PaddingReturns
    <2>3. CASE f.nxt # f.cur
      BY <1>7, <2>1, <2>3, <1>b DEF PaddingReturns, PopFrame
    <2> QED BY <2>2, <2>3
  <1>8. CASE HandlerThrows
    BY <1>8, <1>d DEF HandlerThrows, PopFrame, ringVars, history
  <1>9. CASE HandlerReturns
    <2>1. Last(frames).nxt \in Int /\ Front(frames) \in Seq(Frame)
      BY <1>9, <1>d DEF HandlerReturns
    <2> QED BY <1>9, <2>1, <1>b DEF HandlerReturns, PopFrame
  <1>10. CASE SetBufferPaddingExecutor
    BY <1>10 DEF SetBufferPaddingExecutor, ringVars, history
  <1>11. CASE ShutdownExecutor
    BY <1>11 DEF ShutdownExecutor, ringVars, history
  <1>12. CASE UNCHANGED vars
    BY <1>12 DEF vars, ringVars, history
  <1> QED
    BY <1>1, <1>2, <1>3, <1>4, <1>5, <1>6, <1>7, <1>8, <1>9, <1>10, <1>11,
       <1>12 DEF Next, Take

\* Type correctness: cursor stays between START_POINT and tail, slots and flags
\* stay arrays of bufferSize entries (the fields of RingBuffer).
THEOREM TypeCorrect == Spec => []TypeOK
  <1> QED BY InitialTypes, TypeStep, PTL DEF Spec

-----------------------------------------------------------------------------
(* The slot protocol *)

\* put() adds its position to the undelivered ones; none of them was in its slot.
LEMMA PutAddsLive ==
  ASSUME SlotInv, NEW uid \in Fresh, Put(uid)
  PROVE  /\ uid \in Uid \ Range(produced)
         /\ tail \in Int /\ tail + 1 \in Nat /\ Len(produced) = tail + 1
         /\ \A p \in 0 .. tail : produced'[p + 1] = produced[p + 1]
         /\ produced'[tail + 2] = uid
         /\ DOMAIN produced = 1 .. tail + 1
         /\ DOMAIN produced' = 1 .. tail + 2
         /\ uid \notin Range(given) /\ Range(given)' = Range(given)
         /\ Live' = Live \union {tail + 1} /\ tail + 1 \notin Live
         /\ \A p \in Live : calSlotIndex(p) # calSlotIndex(tail + 1)
  <1> DEFINE new == tail + 1
  <1>1. /\ tail \in Int /\ new \in Nat /\ Len(produced) = new
        /\ uid \in Uid \ Range(produced)
        /\ produced \in Seq(Uid)
    BY DEF SlotInv, TypeOK, HistoryOK, Position, Fresh
  <1>2. /\ tail' = new /\ produced' = Append(produced, uid)
        /\ UNCHANGED given
        /\ flags[calSlotIndex(new)] = CAN_PUT_FLAG
    BY DEF Put, PutAccepted
  <1>3. calSlotIndex(new) \in Index
    BY <1>1, IndexInRange
  <1>4. /\ \A p \in 0 .. tail : produced'[p + 1] = produced[p + 1]
        /\ produced'[new + 1] = uid
        /\ DOMAIN produced = 1 .. new
        /\ DOMAIN produced' = 1 .. new + 1
    BY <1>1, <1>2, AppendKeeps
  <1>5. uid \notin Range(given) /\ Range(given)' = Range(given)
    BY <1>1, <1>2 DEF SlotInv, NoUidTwice, Range
  <1>6. Live' = Live \union {new} /\ new \notin Live
    BY <1>1, <1>2, <1>4, <1>5 DEF Live
  <1>7. \A p \in Live : calSlotIndex(p) # calSlotIndex(new)
    BY <1>2, <1>3 DEF SlotInv, SlotSafety, FlagTracksLive
  <1> QED BY <1>1, <1>4, <1>5, <1>6, <1>7

\* put() disturbs no undelivered position.
LEMMA PutKeepsSlots ==
  ASSUME SlotInv, NEW uid \in Fresh, Put(uid)
  PROVE  (HistoryOK /\ SlotSafety /\ NoUidTwice)'
  <1> DEFINE new == tail + 1
             i == calSlotIndex(new)
  <1>1. /\ uid \in Uid \ Range(produced)
        /\ tail \in Int /\ new \in Nat /\ Len(produced) = new
        /\ produced \in Seq(Uid)
        /\ i \in Index
    BY PutAddsLive, IndexInRange DEF SlotInv, TypeOK
  <1>2. /\ tail' = new /\ produced' = Append(produced, uid)
        /\ UNCHANGED given
        /\ slots' = [slots EXCEPT ![i] = uid]
        /\ flags' = [flags EXCEPT ![i] = CAN_TAKE_FLAG]
    BY DEF Put
  <1>3. /\ \A p \in 0 .. tail : produced'[p + 1] = produced[p + 1]
        /\ produced'[new + 1] = uid
        /\ DOMAIN produced' = 1 .. new + 1
        /\ uid \notin Range(given) /\ Range(given)' = Range(given)
        /\ Live' = Live \union {new} /\ new \notin Live
        /\ \A p \in Live : calSlotIndex(p) # i
    BY PutAddsLive
  <1>4. HistoryOK'
    <2>1. Len(produced') = tail' + 1
      BY <1>1, <1>2, AppendKeeps
    <2>2. \A j \in 1 .. new : produced'[j] = produced[j] /\ produced[j] # uid
      BY <1>1, <1>2, AppendKeeps DEF Range
    <2>3. \A j, k \in 1 .. new + 1 : produced'[j] = produced'[k] => j = k
      BY <1>1, <1>3, <2>2 DEF SlotInv, HistoryOK
    <2> QED BY <1>3, <2>1, <2>3 DEF HistoryOK
  <1>5. FlagTracksLive'
    BY <1>1, <1>2, <1>3
    DEF SlotInv, TypeOK, SlotSafety, FlagTracksLive, calSlotIndex
  <1>6. OneLivePerSlot'
    BY <1>3 DEF SlotInv, SlotSafety, OneLivePerSlot, calSlotIndex
  <1>7. LiveNotOverwritten'
    <2>1. \A p \in Live : p \in 0 .. tail /\ calSlotIndex(p) \in Index
      BY <1>1, IndexInRange DEF Live
    <2> QED BY <1>1, <1>2, <1>3, <2>1
        DEF SlotInv, TypeOK, SlotSafety, LiveNotOverwritten, calSlotIndex
  <1>8. NoUidTwice'
    BY <1>1, <1>2, <1>3, RangeAppend DEF SlotInv, NoUidTwice
  <1> QED BY <1>4, <1>5, <1>6, <1>7, <1>8 DEF SlotSafety

\* The end of take() delivers the undelivered uid of its slot, if it has one.
LEMMA ReadDelivers ==
  ASSUME SlotInv, NEW position \in Int, ReadSlot(position),
         UNCHANGED <<tail, slots, produced>>,
         NEW q \in Live, calSlotIndex(q) = calSlotIndex(position)
  PROVE  /\ given' = Append(given, produced[q + 1])
         /\ flags' = [flags EXCEPT ![calSlotIndex(position)] = CAN_PUT_FLAG]
         /\ produced[q + 1] \in Range(produced) \ Range(given)
         /\ produced[q + 1] \in Uid \union {ZeroUid}
         /\ Range(given)' = Range(given) \union {produced[q + 1]}
         /\ Live' = Live \ {q}
  <1> DEFINE i == calSlotIndex(position)
             V == Uid \union {ZeroUid}
             uid == produced[q + 1]
  <1>1. i \in Index
    BY IndexInRange
  <1>2. flags[i] = CAN_TAKE_FLAG /\ slots[i] = uid
    BY <1>1 DEF SlotInv, SlotSafety, FlagTracksLive, LiveNotOverwritten
  <1>3. /\ given' = Append(given, uid)
        /\ flags' = [flags EXCEPT ![i] = CAN_PUT_FLAG]
        /\ UNCHANGED <<tail, slots, produced>>
    BY <1>2 DEF ReadSlot
  <1>4. q \in 0 .. tail /\ uid \notin Range(given) /\ tail \in Int
    BY DEF Live, SlotInv, TypeOK, Position
  <1>5. DOMAIN produced = 1 .. tail + 1 /\ uid \in Range(produced)
    BY <1>4 DEF SlotInv, HistoryOK, TypeOK, Range
  <1>6. given \in Seq(V) /\ uid \in V
    BY <1>1, <1>2 DEF SlotInv, TypeOK
  <1>7. Range(given)' = Range(given) \union {uid}
    <2> HIDE DEF V, uid
    <2> QED BY <1>3, <1>6, RangeAppend DEF Range
  <1>8. Live' = Live \ {q}
    <2>1. \A p \in 0 .. tail : produced[p + 1] = uid => p = q
      BY <1>4, <1>5 DEF SlotInv, HistoryOK
    <2> QED BY <1>3, <1>4, <1>7, <2>1 DEF Live
  <1> QED BY <1>3, <1>4, <1>5, <1>6, <1>7, <1>8

\* The end of take() delivers the one undelivered uid of its slot, or throws.
LEMMA ReadKeepsSlots ==
  ASSUME SlotInv, NEW position \in Int, ReadSlot(position),
         UNCHANGED <<tail, slots, produced>>
  PROVE  (HistoryOK /\ SlotSafety /\ NoUidTwice)'
  <1> DEFINE i == calSlotIndex(position)
             V == Uid \union {ZeroUid}
  <1>1. i \in Index
    BY IndexInRange
  <1>2. CASE flags[i] # CAN_TAKE_FLAG
    <2>1. UNCHANGED <<tail, slots, flags, produced, given>>
      BY <1>2 DEF ReadSlot
    <2> QED BY <2>1 DEF SlotInv, HistoryOK, SlotSafety, FlagTracksLive,
        OneLivePerSlot, LiveNotOverwritten, Live, NoUidTwice, calSlotIndex
  <1>3. CASE flags[i] = CAN_TAKE_FLAG
    <2>1. PICK q \in Live : calSlotIndex(q) = i
      BY <1>1, <1>3 DEF SlotInv, SlotSafety, FlagTracksLive
    <2> DEFINE uid == produced[q + 1]
    <2>2. /\ given' = Append(given, uid)
          /\ flags' = [flags EXCEPT ![i] = CAN_PUT_FLAG]
          /\ uid \in Range(produced) \ Range(given)
          /\ uid \in V /\ given \in Seq(V)
          /\ Range(given)' = Range(given) \union {uid}
          /\ Live' = Live \ {q}
      BY <2>1, ReadDelivers DEF SlotInv, TypeOK
    <2>3. HistoryOK'
      BY DEF SlotInv, HistoryOK
    <2>4. FlagTracksLive'
      BY <1>1, <2>1, <2>2
      DEF SlotInv, TypeOK, SlotSafety, FlagTracksLive, OneLivePerSlot, calSlotIndex
    <2>5. OneLivePerSlot' /\ LiveNotOverwritten'
      BY <2>2
      DEF SlotInv, SlotSafety, OneLivePerSlot, LiveNotOverwritten, calSlotIndex
    <2>6. NoUidTwice'
      <3> HIDE DEF V, uid
      <3>1. \A j \in DOMAIN given : given[j] # uid
        BY <2>2 DEF Range
      <3>2. /\ DOMAIN given = 1 .. Len(given)
            /\ Len(given) \in Nat
            /\ DOMAIN given' = 1 .. Len(given) + 1
            /\ \A j \in 1 .. Len(given) : given'[j] = given[j]
            /\ given'[Len(given) + 1] = uid
        BY <2>2, AppendKeeps
      <3>3. \A j, k \in DOMAIN given' : given'[j] = given'[k] => j = k
        BY <3>1, <3>2 DEF SlotInv, NoUidTwice
      <3>4. Range(given') = Range(given)' /\ Range(produced') = Range(produced)
        BY DEF Range
      <3>5. Range(given') \subseteq Range(produced')
        BY <2>2, <3>4 DEF SlotInv, NoUidTwice
      <3> QED BY <3>3, <3>5 DEF NoUidTwice
    <2> QED BY <2>3, <2>4, <2>5, <2>6 DEF SlotSafety
  <1> QED BY <1>2, <1>3

\* A step that leaves slots, flags, tail and the two histories alone.
LEMMA OtherStepsKeepSlots ==
  ASSUME SlotInv, UNCHANGED <<tail, slots, flags, produced, given>>
  PROVE  (HistoryOK /\ SlotSafety /\ NoUidTwice)'
  BY DEF SlotInv, HistoryOK, SlotSafety, FlagTracksLive, OneLivePerSlot,
         LiveNotOverwritten, Live, NoUidTwice, calSlotIndex

\* Every step keeps the slot protocol.
LEMMA SlotStep == SlotInv /\ [Next]_vars => SlotInv'
  <1> SUFFICES ASSUME SlotInv, [Next]_vars PROVE SlotInv'
    OBVIOUS
  <1>0. TypeOK'
    BY TypeStep DEF SlotInv
  <1> SUFFICES HistoryOK' /\ SlotSafety' /\ NoUidTwice'
    BY <1>0 DEF SlotInv
  <1>a. NextCursor \in Int
    BY DEF SlotInv, TypeOK, Position, NextCursor
  <1>b. ASSUME frames # <<>> PROVE Last(frames).nxt \in Int
    <2>1. Last(frames) \in Frame
      BY <1>b, FrontProperties DEF SlotInv, TypeOK
    <2> QED BY <2>1 DEF Frame, Position
  <1>1. ASSUME NEW uid \in Fresh, Put(uid)
       PROVE HistoryOK' /\ SlotSafety' /\ NoUidTwice'
    BY <1>1, PutKeepsSlots
  <1>2. CASE PutRejected
    BY <1>2, OtherStepsKeepSlots DEF PutRejected, vars, ringVars, history
  <1>3. CASE TakeDirectly
    BY <1>3, <1>a, ReadKeepsSlots DEF TakeDirectly
  <1>4. CASE TakeCallsPadding
    BY <1>4, OtherStepsKeepSlots DEF TakeCallsPadding, history
  <1>5. CASE TakeRefusedByPool
    BY <1>5, OtherStepsKeepSlots DEF TakeRefusedByPool
  <1>6. CASE TakeCallsHandler
    BY <1>6, OtherStepsKeepSlots DEF TakeCallsHandler, ringVars, history
  <1>7. CASE PaddingReturns
    <2>1. CASE Last(frames).nxt = Last(frames).cur
      BY <1>7, <2>1, OtherStepsKeepSlots DEF PaddingReturns
    <2>2. CASE Last(frames).nxt # Last(frames).cur
      BY <1>7, <1>b, <2>2, ReadKeepsSlots DEF PaddingReturns
    <2> QED BY <2>1, <2>2
  <1>8. CASE HandlerThrows
    BY <1>8, OtherStepsKeepSlots DEF HandlerThrows, ringVars, history
  <1>9. CASE HandlerReturns
    BY <1>9, <1>b, ReadKeepsSlots DEF HandlerReturns
  <1>10. CASE SetBufferPaddingExecutor
    BY <1>10, OtherStepsKeepSlots DEF SetBufferPaddingExecutor, ringVars, history
  <1>11. CASE ShutdownExecutor
    BY <1>11, OtherStepsKeepSlots DEF ShutdownExecutor, ringVars, history
  <1>12. CASE UNCHANGED vars
    BY <1>12, OtherStepsKeepSlots DEF vars, ringVars, history
  <1> QED
    BY <1>1, <1>2, <1>3, <1>4, <1>5, <1>6, <1>7, <1>8, <1>9, <1>10, <1>11, <1>12
    DEF Next, Take

\* The ring begins with free slots and no history.
LEMMA InitialSlots == Init => SlotInv
  <1> SUFFICES ASSUME Init PROVE SlotInv
    OBVIOUS
  <1>1. TypeOK
    BY InitialTypes
  <1>2. Live = {} /\ Range(given) = {} /\ Range(produced) = {}
    BY DEF Init, Live, Range
  <1> QED BY <1>1, <1>2 DEF Init, SlotInv, HistoryOK, SlotSafety,
      FlagTracksLive, OneLivePerSlot, LiveNotOverwritten, NoUidTwice

\* The inductive invariant of the slot protocol.
THEOREM SlotInvariant == Spec => []SlotInv
  BY InitialSlots, SlotStep, PTL DEF Spec

\* The slot protocol of put() and take() holds under every re-entrant
\* interleaving, for every ring size, threshold and handler.
THEOREM SlotsAreSafe == Spec => []SlotSafety
  <1>1. SlotInv => SlotSafety
    BY DEF SlotInv
  <1> QED BY <1>1, SlotInvariant, PTL

\* take() never returns the same uid twice, nor one that was not put.
THEOREM UidsAreGivenOnce == Spec => []NoUidTwice
  <1>1. SlotInv => NoUidTwice
    BY DEF SlotInv
  <1> QED BY <1>1, SlotInvariant, PTL

-----------------------------------------------------------------------------
(* Positions that share a slot *)

\* A ring has a slot.
LEMMA SizeType == BufferSize \in Nat \ {0}
  BY SizeAssumption

\* What the slot index of a position leaves out is a multiple of the size.
LEMMA SlotDivision ==
  \A p \in Int : /\ p = BufferSize * (p \div BufferSize) + calSlotIndex(p)
                 /\ p \div BufferSize \in Int
                 /\ calSlotIndex(p) \in 0 .. BufferSize - 1
  BY SizeType DEF calSlotIndex

\* No multiple of the size but 0 lies within a lap of 0.
LEMMA MultipleWithinALap ==
  ASSUME NEW d \in Int, BufferSize * d < BufferSize, -BufferSize < BufferSize * d
  PROVE  d = 0
  <1> USE SizeType
  <1>1. CASE d >= 1
    <2>1. BufferSize * d >= BufferSize
      BY <1>1
    <2> QED BY <2>1
  <1>2. CASE d <= -1
    <2>1. BufferSize * d <= -BufferSize
      BY <1>2
    <2> QED BY <2>1
  <1> QED BY <1>1, <1>2

\* A position has one lap and one slot index.
LEMMA SlotIsUnique ==
  ASSUME NEW a \in Int, NEW c \in Int,
         NEW i \in 0 .. BufferSize - 1, NEW j \in 0 .. BufferSize - 1,
         BufferSize * a + i = BufferSize * c + j
  PROVE  i = j
  <1>1. BufferSize * (a - c) = j - i
    BY SizeType
  <1>2. a - c = 0
    BY <1>1, SizeType, MultipleWithinALap
  <1> QED BY <1>2, SizeType

\* A lap later it is the same slot.
LEMMA LapKeepsIndex ==
  ASSUME NEW p \in Int
  PROVE  calSlotIndex(p + BufferSize) = calSlotIndex(p)
  <1> DEFINE x == p \div BufferSize
             y == (p + BufferSize) \div BufferSize
             i == calSlotIndex(p)
             j == calSlotIndex(p + BufferSize)
  <1>1. x \in Int /\ i \in 0 .. BufferSize - 1 /\ p = BufferSize * x + i
    BY SlotDivision
  <1>2. p + BufferSize \in Int
    BY SizeType
  <1>3. /\ y \in Int /\ j \in 0 .. BufferSize - 1
        /\ p + BufferSize = BufferSize * y + j
    BY <1>2, SlotDivision
  <1> HIDE DEF x, y, i, j
  <1>4. BufferSize * (x + 1) = BufferSize * x + BufferSize /\ x + 1 \in Int
    BY <1>1, SizeType
  <1>5. BufferSize * (x + 1) + i = BufferSize * y + j
    BY <1>1, <1>3, <1>4, SizeType
  <1>6. i = j
    BY <1>1, <1>3, <1>4, <1>5, SlotIsUnique
  <1> QED BY <1>6 DEF i, j

\* Two positions of one slot that are at most a lap apart are a lap apart.
LEMMA SameSlotIsALap ==
  ASSUME NEW p \in Int, NEW q \in Int, p < q, q <= p + BufferSize,
         calSlotIndex(p) = calSlotIndex(q)
  PROVE  q = p + BufferSize
  <1> DEFINE x == p \div BufferSize
             y == q \div BufferSize
             i == calSlotIndex(p)
  <1>1. /\ x \in Int /\ y \in Int /\ i \in 0 .. BufferSize - 1
        /\ p = BufferSize * x + i
        /\ q = BufferSize * y + i
    BY SlotDivision
  <1> HIDE DEF x, y, i
  <1>2. /\ q - p = BufferSize * (y - x)
        /\ q - p - BufferSize = BufferSize * (y - x - 1)
    BY <1>1, SizeType
  <1>3. y - x - 1 = 0
    BY <1>1, <1>2, SizeType, MultipleWithinALap
  <1> QED BY <1>1, <1>2, <1>3, SizeType

-----------------------------------------------------------------------------
(* The stack of takes *)

ClaimsDistinct == \A j, k \in Claims : frames[j].nxt = frames[k].nxt => j = k

\* A take that calls out claims the next position, if it found a uid.
LEMMA PushAddsClaim ==
  ASSUME TypeOK, NEW at \in {"padding", "handler"}, PushFrame(at)
  PROVE  /\ ClaimedPositions' = ClaimedPositions \union
              IF TakeFindsUid THEN {NextCursor} ELSE {}
         /\ ClaimsDistinct /\ (TakeFindsUid => NextCursor \notin ClaimedPositions)
              => ClaimsDistinct'
         /\ HandlerClaimsNothing /\ (at = "handler" => ~TakeFindsUid)
              => HandlerClaimsNothing'
  <1> DEFINE n == Len(frames)
             f == [cur |-> cursor, nxt |-> NextCursor, at |-> at]
  <1>1. f \in Frame /\ frames \in Seq(Frame)
    BY DEF TypeOK, Frame, Position, NextCursor
  <1>2. frames' = Append(frames, f)
    BY DEF PushFrame
  <1>3. /\ n \in Nat
        /\ DOMAIN frames = 1 .. n /\ DOMAIN frames' = 1 .. n + 1
        /\ \A k \in 1 .. n : frames'[k] = frames[k]
        /\ frames'[n + 1] = f
    <2> DEFINE F == Frame
    <2> HIDE DEF f, F
    <2>1. f \in F /\ frames \in Seq(F)
      BY <1>1 DEF F
    <2> QED BY <1>2, <2>1, AppendKeeps
  <1>4. f.nxt # f.cur <=> TakeFindsUid
    BY DEF NextCursor, TakeFindsUid, TypeOK, Position
  <1>5. f.nxt = NextCursor /\ f.at = at
    OBVIOUS
  <1> HIDE DEF f
  <1>6. /\ Claims \subseteq 1 .. n
        /\ Claims' = Claims \union (IF TakeFindsUid THEN {n + 1} ELSE {})
        /\ \A k \in Claims : frames'[k] = frames[k]
    BY <1>3, <1>4 DEF Claims
  <1>7. ClaimedPositions' = ClaimedPositions \union
              IF TakeFindsUid THEN {NextCursor} ELSE {}
    BY <1>3, <1>5, <1>6 DEF ClaimedPositions
  <1>8. ClaimsDistinct /\ (TakeFindsUid => NextCursor \notin ClaimedPositions)
          => ClaimsDistinct'
    BY <1>3, <1>5, <1>6 DEF ClaimsDistinct, ClaimedPositions
  <1>9. HandlerClaimsNothing /\ (at = "handler" => ~TakeFindsUid)
          => HandlerClaimsNothing'
    BY <1>3, <1>4, <1>5 DEF HandlerClaimsNothing
  <1> QED BY <1>7, <1>8, <1>9

\* A take that ends gives up its claim, and that one only.
LEMMA PopDropsClaim ==
  ASSUME TypeOK, frames # <<>>, PopFrame
  PROVE  /\ Last(frames).nxt # Last(frames).cur /\ ClaimsDistinct
              => /\ Last(frames).nxt \in ClaimedPositions
                 /\ ClaimedPositions' = ClaimedPositions \ {Last(frames).nxt}
         /\ Last(frames).nxt = Last(frames).cur
              => ClaimedPositions' = ClaimedPositions
         /\ ClaimsDistinct => ClaimsDistinct'
         /\ HandlerClaimsNothing => HandlerClaimsNothing'
  <1> DEFINE n == Len(frames)
             F == Frame
  <1>1. frames \in Seq(F) /\ frames' = Front(frames)
    BY DEF TypeOK, PopFrame
  <1> HIDE DEF F
  <1>2. /\ n \in Nat \ {0}
        /\ DOMAIN frames = 1 .. n /\ DOMAIN frames' = 1 .. n - 1
        /\ \A k \in 1 .. n - 1 : frames'[k] = frames[k]
        /\ Last(frames) = frames[n]
    <2>1. /\ n \in Nat \ {0} /\ Len(Front(frames)) = n - 1
          /\ Front(frames) \in Seq(F)
          /\ \A k \in 1 .. n - 1 : Front(frames)[k] = frames[k]
          /\ Last(frames) = frames[n]
      BY <1>1, FrontProperties
    <2> QED BY <1>1, <2>1
  <1>3. /\ Claims' = Claims \ {n}
        /\ n \in Claims <=> Last(frames).nxt # Last(frames).cur
        /\ \A k \in Claims \ {n} : frames'[k] = frames[k]
    BY <1>2 DEF Claims
  <1>4. ASSUME Last(frames).nxt # Last(frames).cur, ClaimsDistinct
        PROVE  /\ Last(frames).nxt \in ClaimedPositions
               /\ ClaimedPositions' = ClaimedPositions \ {Last(frames).nxt}
    BY <1>2, <1>3, <1>4 DEF ClaimedPositions, ClaimsDistinct
  <1>5. ASSUME Last(frames).nxt = Last(frames).cur
        PROVE  ClaimedPositions' = ClaimedPositions
    BY <1>3, <1>5 DEF ClaimedPositions
  <1>6. ClaimsDistinct => ClaimsDistinct'
    BY <1>3 DEF ClaimsDistinct
  <1>7. HandlerClaimsNothing => HandlerClaimsNothing'
    BY <1>2 DEF HandlerClaimsNothing
  <1> QED BY <1>4, <1>5, <1>6, <1>7

ReplaceFrame(g) == frames' = Append(Front(frames), g)

\* A take on an empty ring that goes from asyncPadding() to the handler.
LEMMA ToHandlerKeepsClaims ==
  ASSUME TypeOK, frames # <<>>, Last(frames).nxt = Last(frames).cur,
         NEW g \in Frame, g.nxt = g.cur, ReplaceFrame(g)
  PROVE  /\ ClaimedPositions' = ClaimedPositions
         /\ ClaimsDistinct => ClaimsDistinct'
         /\ HandlerClaimsNothing => HandlerClaimsNothing'
  <1> DEFINE n == Len(frames)
             F == Frame
  <1>1. frames \in Seq(F) /\ g \in F
    BY DEF TypeOK
  <1> HIDE DEF F
  <1>2. /\ n \in Nat \ {0}
        /\ DOMAIN frames = 1 .. n /\ DOMAIN frames' = 1 .. n
        /\ \A k \in 1 .. n - 1 : frames'[k] = frames[k]
        /\ Last(frames) = frames[n]
        /\ frames'[n] = g
    <2>1. /\ n \in Nat \ {0} /\ Len(Front(frames)) = n - 1
          /\ Front(frames) \in Seq(F)
          /\ \A k \in 1 .. n - 1 : Front(frames)[k] = frames[k]
          /\ Last(frames) = frames[n]
      BY <1>1, FrontProperties
    <2> QED BY <1>1, <2>1, AppendKeeps DEF ReplaceFrame
  <1>3. Claims' = Claims /\ \A k \in Claims : frames'[k] = frames[k]
    BY <1>2 DEF Claims
  <1>4. ClaimedPositions' = ClaimedPositions
    BY <1>3 DEF ClaimedPositions
  <1>5. ClaimsDistinct => ClaimsDistinct'
    BY <1>3 DEF ClaimsDistinct
  <1>6. HandlerClaimsNothing => HandlerClaimsNothing'
    BY <1>2 DEF HandlerClaimsNothing
  <1> QED BY <1>4, <1>5, <1>6

-----------------------------------------------------------------------------
(* The claims of takes in progress *)

\* put() lands ahead of the cursor, less than a lap from any undelivered uid.
LEMMA PutKeepsClaims ==
  ASSUME ClaimInv, NEW uid \in Fresh, Put(uid)
  PROVE  ClaimsTracked'
  <1> USE DEF ClaimInv, ClaimsTracked, SlotInv, TypeOK, Position
  <1>1. /\ tail' = tail + 1 /\ UNCHANGED <<cursor, executor, frames, lost, returned>>
        /\ Distance # BufferSize - 1
    BY DEF Put, PutAccepted
  <1>2. /\ tail \in Int /\ cursor \in Int /\ cursor <= tail /\ -1 <= cursor
        /\ Live \subseteq 0 .. tail
        /\ BufferSize \in Nat \ {0}
    BY SizeAssumption DEF Live
  <1>3. /\ Live' = Live \union {tail + 1}
        /\ \A p \in Live : calSlotIndex(p) # calSlotIndex(tail + 1)
    BY PutAddsLive
  <1>4. /\ Claims' = Claims /\ ClaimedPositions' = ClaimedPositions
        /\ HandlerClaimsNothing'
    BY <1>1 DEF Claims, ClaimedPositions, HandlerClaimsNothing
  <1>5. AheadIsLive'
    BY <1>1, <1>2, <1>3 DEF AheadIsLive
  <1>6. WithinALap'
    <2>1. Distance' < BufferSize
      BY <1>1, <1>2 DEF WithinALap, Distance
    <2>2. ASSUME NEW p \in Live PROVE p # tail + 1 - BufferSize
      <3>1. calSlotIndex(p + BufferSize) = calSlotIndex(p)
        BY <1>2, LapKeepsIndex
      <3>2. p + BufferSize # tail + 1
        BY <1>3, <3>1
      <3> QED BY <1>2, <3>2
    <2> QED BY <1>1, <1>2, <1>3, <2>1, <2>2 DEF WithinALap
  <1>7. ClaimsAreHonoured'
    BY <1>1, <1>3, <1>4 DEF ClaimsAreHonoured
  <1>8. NoUidLeaks'
    <2>1. {p \in Live' : p <= cursor} = {p \in Live : p <= cursor}
      BY <1>2, <1>3
    <2> QED BY <1>1, <1>4, <2>1 DEF NoUidLeaks
  <1> QED BY <1>4, <1>5, <1>6, <1>7, <1>8

\* The end of take() makes nothing undelivered again.
LEMMA ReadNeverRevives ==
  ASSUME SlotInv, NEW position \in Int, ReadSlot(position),
         UNCHANGED <<tail, slots, produced>>
  PROVE  Live' \subseteq Live
  <1> DEFINE i == calSlotIndex(position)
  <1>1. i \in Index
    BY IndexInRange
  <1>2. CASE flags[i] # CAN_TAKE_FLAG
    BY <1>2 DEF ReadSlot, Live
  <1>3. CASE flags[i] = CAN_TAKE_FLAG
    <2>1. PICK q \in Live : calSlotIndex(q) = i
      BY <1>1, <1>3 DEF SlotInv, SlotSafety, FlagTracksLive
    <2> QED BY <2>1, ReadDelivers
  <1> QED BY <1>2, <1>3

\* The cursor steps over the oldest uid nobody has claimed.
LEMMA CursorStepsOverLive ==
  ASSUME ClaimInv, TakeFindsUid, cursor' = NextCursor
  PROVE  /\ NextCursor = cursor + 1 /\ NextCursor \in 0 .. tail
         /\ cursor \in Int /\ tail \in Int
         /\ UNCHANGED tail => Distance' <= Distance
         /\ ~returned => /\ NextCursor \in Live
                         /\ \A p \in Live : p <= NextCursor
                               <=> p <= cursor \/ p = NextCursor
                         /\ NextCursor \notin ClaimedPositions
                         /\ NextCursor \notin lost
  <1> USE DEF ClaimInv, ClaimsTracked, SlotInv, TypeOK, Position
  <1>1. /\ NextCursor = cursor + 1 /\ NextCursor \in 0 .. tail
        /\ cursor \in Int /\ tail \in Int
    BY DEF TakeFindsUid, NextCursor
  <1>2. UNCHANGED tail => Distance' <= Distance
    BY <1>1 DEF Distance
  <1>3. ASSUME ~returned
        PROVE  /\ NextCursor \in Live
               /\ \A p \in Live : p <= NextCursor <=> p <= cursor \/ p = NextCursor
               /\ NextCursor \notin ClaimedPositions
               /\ NextCursor \notin lost
    <2>1. NextCursor \in Live
      BY <1>1, <1>3 DEF AheadIsLive
    <2>2. \A p \in ClaimedPositions \union lost : p <= cursor
      BY <1>3 DEF NoUidLeaks
    <2> QED BY <1>1, <2>1, <2>2 DEF Live
  <1> QED BY <1>1, <1>2, <1>3

\* A step that keeps the undelivered positions, the cursor, the stack and `lost`.
LEMMA OtherStepsKeepClaims ==
  ASSUME ClaimInv, Live' = Live,
         UNCHANGED <<tail, cursor, frames, lost, returned>>,
         executor' # "shutdown" => executor # "shutdown"
  PROVE  ClaimsTracked'
  BY
  DEF ClaimInv, ClaimsTracked, AheadIsLive, WithinALap, Distance, HandlerClaimsNothing,
         ClaimsAreHonoured, NoUidLeaks, Claims, ClaimedPositions

\* The whole of take() in one step claims a position and delivers it.
LEMMA TakeDirectlyKeepsClaims ==
  ASSUME ClaimInv, TakeDirectly
  PROVE  ClaimsTracked'
  <1>1. /\ TakeFindsUid /\ cursor' = NextCursor /\ ReadSlot(NextCursor)
        /\ UNCHANGED <<tail, slots, executor, frames, produced, lost, returned>>
    BY DEF TakeDirectly
  <1>2. /\ NextCursor = cursor + 1 /\ NextCursor \in 0 .. tail
        /\ cursor \in Int /\ tail \in Int
        /\ Distance' <= Distance /\ Distance < BufferSize
        /\ Distance \in Int /\ Distance' \in Int /\ BufferSize \in Nat
    BY <1>1, CursorStepsOverLive, SizeType
    DEF ClaimInv, ClaimsTracked, WithinALap, Distance
  <1>3. /\ Claims' = Claims /\ ClaimedPositions' = ClaimedPositions
        /\ HandlerClaimsNothing'
    BY <1>1
    DEF ClaimInv, ClaimsTracked, Claims, ClaimedPositions, HandlerClaimsNothing
  <1>4. Live' \subseteq Live
    BY <1>1, <1>2, ReadNeverRevives DEF ClaimInv, ClaimsTracked
  <1>5. WithinALap'
    BY <1>1, <1>2, <1>4 DEF ClaimInv, ClaimsTracked, WithinALap
  <1>6. CASE returned
    BY <1>1, <1>3, <1>5, <1>6
        DEF ClaimsTracked, AheadIsLive, ClaimsAreHonoured, NoUidLeaks
  <1>7. CASE ~returned
    <2>1. /\ NextCursor \in Live
          /\ \A p \in Live : p <= NextCursor <=> p <= cursor \/ p = NextCursor
          /\ NextCursor \notin ClaimedPositions
      BY <1>1, <1>7, CursorStepsOverLive
    <2>2. Live' = Live \ {NextCursor}
      BY <1>1, <1>2, <2>1, ReadDelivers DEF ClaimInv, ClaimsTracked
    <2>3. AheadIsLive'
      BY <1>1, <1>2, <1>7, <2>2 DEF ClaimInv, ClaimsTracked, AheadIsLive
    <2>4. ClaimsAreHonoured'
      BY <1>1, <1>3, <1>7, <2>1, <2>2
      DEF ClaimInv, ClaimsTracked, ClaimsAreHonoured
    <2>5. {p \in Live' : p <= cursor'} = {p \in Live : p <= cursor}
      <3>1. \A p \in Live \ {NextCursor} : p <= NextCursor <=> p <= cursor
        BY <2>1
      <3>2. ~(NextCursor <= cursor)
        BY <1>2
      <3> QED BY <1>1, <2>2, <3>1, <3>2
    <2>6. NoUidLeaks'
      BY <1>1, <1>3, <1>7, <2>5 DEF ClaimInv, ClaimsTracked, NoUidLeaks
    <2> QED BY <1>3, <1>5, <2>3, <2>4, <2>6 DEF ClaimsTracked
  <1> QED BY <1>6, <1>7

\* A take that moves the cursor and calls out keeps what it claimed undelivered;
\* one that the pool refuses drops it.
LEMMA CallOutKeepsClaims ==
  ASSUME ClaimInv, TakeCallsPadding \/ TakeRefusedByPool
  PROVE  ClaimsTracked'
  <1> DEFINE new == IF TakeFindsUid THEN {NextCursor} ELSE {}
  <1>1. /\ cursor' = NextCursor
        /\ UNCHANGED <<tail, executor, produced, given, returned>>
    BY DEF TakeCallsPadding, TakeRefusedByPool, history
  <1>2. /\ tail \in Int /\ cursor \in Int /\ cursor <= tail
        /\ BufferSize \in Nat /\ TypeOK
    BY SizeType DEF ClaimInv, ClaimsTracked, SlotInv, TypeOK, Position
  <1>3. Live' = Live /\ Live \subseteq 0 .. tail
    BY <1>1 DEF Live
  <1>4. /\ ClaimsDistinct \/ returned
        /\ NextCursor \notin ClaimedPositions \/ ~TakeFindsUid \/ returned
    BY <1>1, CursorStepsOverLive
    DEF ClaimInv, ClaimsTracked, ClaimsAreHonoured, ClaimsDistinct
  <1>5. NextCursor = IF TakeFindsUid THEN cursor + 1 ELSE cursor
    BY DEF NextCursor, TakeFindsUid
  <1>6. WithinALap'
    <2>1. Distance' <= Distance /\ Distance \in Int /\ Distance' \in Int
      BY <1>1, <1>2, <1>5 DEF Distance
    <2> QED BY <1>1, <1>2, <1>3, <2>1
        DEF ClaimInv, ClaimsTracked, WithinALap, Distance
  <1>7. AheadIsLive'
    BY <1>1, <1>2, <1>3, <1>5 DEF ClaimInv, ClaimsTracked, AheadIsLive
  <1>8. ~returned => {p \in Live' : p <= cursor'} =
                     {p \in Live : p <= cursor} \union new
    <2>1. CASE TakeFindsUid
      BY <1>1, <1>3, <2>1, CursorStepsOverLive
    <2>2. CASE ~TakeFindsUid
      BY <1>1, <1>3, <1>5, <2>2
    <2> QED BY <2>1, <2>2
  <1>9. ~returned => new \intersect (ClaimedPositions \union lost) = {}
    BY <1>1, CursorStepsOverLive
  <1>10. ~returned => new \subseteq Live
    BY <1>1, CursorStepsOverLive
  <1>11. CASE TakeCallsPadding
    <2>1. UNCHANGED lost /\ executor = "up" /\ PushFrame("padding")
      BY <1>11 DEF TakeCallsPadding, history
    <2>2. /\ ClaimedPositions' = ClaimedPositions \union new
          /\ ClaimsDistinct /\ (TakeFindsUid => NextCursor \notin ClaimedPositions)
               => ClaimsDistinct'
          /\ HandlerClaimsNothing'
      BY <1>2, <2>1, PushAddsClaim DEF ClaimInv, ClaimsTracked
    <2>3. returned \/ ClaimsDistinct'
      BY <1>4, <2>2
    <2>4. ClaimsAreHonoured'
      BY <1>1, <1>3, <1>10, <2>2, <2>3
      DEF ClaimInv, ClaimsTracked, ClaimsAreHonoured, ClaimsDistinct
    <2>5. NoUidLeaks'
      BY <1>1, <1>8, <1>9, <2>1, <2>2 DEF ClaimInv, ClaimsTracked, NoUidLeaks
    <2> QED BY <1>6, <1>7, <2>2, <2>4, <2>5 DEF ClaimsTracked
  <1>12. CASE TakeRefusedByPool
    <2>1. /\ lost' = lost \union new /\ executor = "shutdown"
          /\ UNCHANGED frames
      BY <1>12 DEF TakeRefusedByPool
    <2>2. /\ Claims' = Claims /\ ClaimedPositions' = ClaimedPositions
          /\ HandlerClaimsNothing'
      BY <2>1
      DEF ClaimInv, ClaimsTracked, Claims, ClaimedPositions, HandlerClaimsNothing
    <2>3. ClaimsAreHonoured'
      BY <1>1, <1>3, <2>1, <2>2 DEF ClaimInv, ClaimsTracked, ClaimsAreHonoured
    <2>4. NoUidLeaks'
      BY <1>1, <1>8, <1>9, <2>1, <2>2 DEF ClaimInv, ClaimsTracked, NoUidLeaks
    <2> QED BY <1>6, <1>7, <2>2, <2>3, <2>4 DEF ClaimsTracked
  <1> QED BY <1>11, <1>12

\* asyncPadding() returns: a take that claimed a position delivers it.
LEMMA PaddingReturnsKeepsClaims ==
  ASSUME ClaimInv, PaddingReturns
  PROVE  ClaimsTracked'
  <1> DEFINE f == Last(frames)
  <1>1. /\ frames # <<>> /\ TypeOK /\ SlotInv
        /\ UNCHANGED <<tail, cursor, slots, executor, produced, lost, returned>>
    BY DEF PaddingReturns, ClaimInv, SlotInv
  <1>2. f \in Frame
    BY <1>1, FrontProperties DEF TypeOK
  <1>3. ~returned => ClaimsDistinct
    BY DEF ClaimInv, ClaimsTracked, ClaimsAreHonoured, ClaimsDistinct
  <1>4. CASE f.nxt = f.cur
    <2> DEFINE g == [f EXCEPT !.at = "handler"]
    <2>1. g \in Frame /\ g.nxt = g.cur /\ ReplaceFrame(g) /\ UNCHANGED given
      BY <1>2, <1>4 DEF PaddingReturns, ReplaceFrame, Frame
    <2> HIDE DEF g
    <2>2. /\ ClaimedPositions' = ClaimedPositions
          /\ ClaimsDistinct => ClaimsDistinct'
          /\ HandlerClaimsNothing'
      BY <1>1, <1>4, <2>1, ToHandlerKeepsClaims DEF ClaimInv, ClaimsTracked
    <2>3. Live' = Live
      BY <1>1, <2>1 DEF Live
    <2>4. AheadIsLive' /\ WithinALap' /\ NoUidLeaks'
      BY <1>1, <2>2, <2>3
      DEF ClaimInv, ClaimsTracked, AheadIsLive, WithinALap, Distance, NoUidLeaks
    <2>5. ClaimsAreHonoured'
      BY <1>1, <1>3, <2>2, <2>3
      DEF ClaimInv, ClaimsTracked, ClaimsAreHonoured, ClaimsDistinct
    <2> QED BY <2>2, <2>4, <2>5 DEF ClaimsTracked
  <1>5. CASE f.nxt # f.cur
    <2>1. PopFrame /\ ReadSlot(f.nxt) /\ f.nxt \in Int
      BY <1>2, <1>5 DEF PaddingReturns, Frame, Position
    <2>2. /\ ClaimsDistinct
               => /\ f.nxt \in ClaimedPositions
                  /\ ClaimedPositions' = ClaimedPositions \ {f.nxt}
          /\ ClaimsDistinct => ClaimsDistinct'
          /\ HandlerClaimsNothing'
      BY <1>1, <1>5, <2>1, PopDropsClaim DEF ClaimInv, ClaimsTracked
    <2>3. Live' \subseteq Live
      BY <1>1, <2>1, ReadNeverRevives
    <2>4. WithinALap'
      BY <1>1, <2>3 DEF ClaimInv, ClaimsTracked, WithinALap, Distance
    <2>5. CASE returned
      BY <1>1, <2>2, <2>4, <2>5
        DEF ClaimsTracked, AheadIsLive, ClaimsAreHonoured, NoUidLeaks
    <2>6. CASE ~returned
      <3>1. f.nxt \in Live /\ f.nxt <= cursor /\ f.nxt \notin lost
        BY <1>3, <2>2, <2>6
        DEF ClaimInv, ClaimsTracked, ClaimsAreHonoured, NoUidLeaks
      <3>2. Live' = Live \ {f.nxt}
        BY <1>1, <2>1, <3>1, ReadDelivers
      <3>3. AheadIsLive'
        <4>1. cursor \in Int
          BY <1>1 DEF TypeOK
        <4> QED BY <1>1, <2>1, <2>6, <3>1, <3>2, <4>1
            DEF ClaimInv, ClaimsTracked, AheadIsLive
      <3>4. ClaimsAreHonoured'
        BY <1>1, <1>3, <2>2, <2>6, <3>2
        DEF ClaimInv, ClaimsTracked, ClaimsAreHonoured, ClaimsDistinct
      <3>5. {p \in Live' : p <= cursor'} = {p \in Live : p <= cursor} \ {f.nxt}
        BY <1>1, <3>2
      <3>6. NoUidLeaks'
        BY <1>1, <1>3, <2>2, <2>6, <3>1, <3>5
        DEF ClaimInv, ClaimsTracked, NoUidLeaks
      <3> QED BY <2>2, <2>4, <3>3, <3>4, <3>6 DEF ClaimsTracked
    <2> QED BY <2>5, <2>6
  <1> QED BY <1>4, <1>5

\* A take on an empty ring that calls the handler, or is thrown out of it, has
\* claimed nothing; one that the handler returns to voids the promises.
LEMMA HandlerKeepsClaims ==
  ASSUME ClaimInv, TakeCallsHandler \/ HandlerThrows \/ HandlerReturns
  PROVE  ClaimsTracked'
  <1>1. TypeOK /\ SlotInv /\ UNCHANGED <<tail, cursor, produced, lost, executor>>
    BY
    DEF ClaimInv, ClaimsTracked, SlotInv, TakeCallsHandler, HandlerThrows, HandlerReturns,
           ringVars, history
  <1>2. ~returned => ClaimsDistinct
    BY DEF ClaimInv, ClaimsTracked, ClaimsAreHonoured, ClaimsDistinct
  <1>3. CASE TakeCallsHandler
    <2>1. PushFrame("handler") /\ ~TakeFindsUid /\ UNCHANGED <<given, returned>>
      BY <1>3 DEF TakeCallsHandler, history
    <2>2. /\ ClaimedPositions' = ClaimedPositions
          /\ HandlerClaimsNothing'
          /\ ClaimsDistinct => ClaimsDistinct'
      BY <1>1, <2>1, PushAddsClaim DEF ClaimInv, ClaimsTracked
    <2>3. Live' = Live
      BY <1>1, <2>1 DEF Live
    <2> QED BY <1>1, <1>2, <2>1, <2>2, <2>3
        DEF ClaimInv, ClaimsTracked, AheadIsLive, WithinALap, Distance, ClaimsAreHonoured,
            ClaimsDistinct, NoUidLeaks
  <1>4. ASSUME HandlerThrows \/ HandlerReturns
        PROVE  /\ frames # <<>> /\ PopFrame
               /\ Last(frames).nxt = Last(frames).cur
               /\ Last(frames).nxt \in Int
    <2>1. frames # <<>> /\ PopFrame /\ Last(frames).at = "handler"
      BY <1>4 DEF HandlerThrows, HandlerReturns
    <2>2. /\ Last(frames) \in Frame
          /\ Last(frames) = frames[Len(frames)] /\ Len(frames) \in DOMAIN frames
      BY <1>1, <2>1, FrontProperties DEF TypeOK
    <2> QED BY <2>1, <2>2
        DEF ClaimInv, ClaimsTracked, HandlerClaimsNothing, Frame, Position
  <1>5. ASSUME HandlerThrows \/ HandlerReturns
        PROVE  /\ ClaimedPositions' = ClaimedPositions
               /\ ClaimsDistinct => ClaimsDistinct'
               /\ HandlerClaimsNothing'
    BY <1>1, <1>4, <1>5, PopDropsClaim DEF ClaimInv, ClaimsTracked
  <1>6. CASE HandlerThrows
    <2>1. UNCHANGED <<given, returned>>
      BY <1>6 DEF HandlerThrows, history
    <2>2. Live' = Live
      BY <1>1, <2>1 DEF Live
    <2> QED BY <1>1, <1>2, <1>5, <1>6, <2>1, <2>2
        DEF ClaimInv, ClaimsTracked, AheadIsLive, WithinALap, Distance, ClaimsAreHonoured,
            ClaimsDistinct, NoUidLeaks
  <1>7. CASE HandlerReturns
    <2>1. ReadSlot(Last(frames).nxt) /\ returned' = TRUE /\ UNCHANGED slots
      BY <1>7 DEF HandlerReturns
    <2>2. Live' \subseteq Live
      BY <1>1, <1>4, <1>7, <2>1, ReadNeverRevives
    <2> QED BY <1>1, <1>5, <1>7, <2>1, <2>2
        DEF ClaimInv, ClaimsTracked, AheadIsLive, WithinALap, Distance, ClaimsAreHonoured,
            NoUidLeaks
  <1> QED BY <1>3, <1>6, <1>7

\* Every step keeps the claims in order.
LEMMA ClaimStep == ClaimInv /\ [Next]_vars => ClaimInv'
  <1> SUFFICES ASSUME ClaimInv, [Next]_vars PROVE ClaimsTracked'
    BY SlotStep DEF ClaimInv
  <1>1. ASSUME NEW uid \in Fresh, Put(uid) PROVE ClaimsTracked'
    BY <1>1, PutKeepsClaims
  <1>2. CASE PutRejected
    BY <1>2, OtherStepsKeepClaims DEF PutRejected, vars, ringVars, history, Live
  <1>3. CASE TakeDirectly
    BY <1>3, TakeDirectlyKeepsClaims
  <1>4. CASE TakeCallsPadding \/ TakeRefusedByPool
    BY <1>4, CallOutKeepsClaims
  <1>5. CASE PaddingReturns
    BY <1>5, PaddingReturnsKeepsClaims
  <1>6. CASE TakeCallsHandler \/ HandlerThrows \/ HandlerReturns
    BY <1>6, HandlerKeepsClaims
  <1>7. CASE SetBufferPaddingExecutor
    BY <1>7, OtherStepsKeepClaims
    DEF SetBufferPaddingExecutor, ringVars, history, Live
  <1>8. CASE ShutdownExecutor
    BY <1>8, OtherStepsKeepClaims DEF ShutdownExecutor, ringVars, history, Live
  <1>9. CASE UNCHANGED vars
    BY <1>9, OtherStepsKeepClaims DEF vars, ringVars, history, Live
  <1> QED BY <1>1, <1>2, <1>3, <1>4, <1>5, <1>6, <1>7, <1>8, <1>9 DEF Next, Take

\* A ring begins with nothing to claim.
LEMMA InitialClaims == Init => ClaimInv
  <1> SUFFICES ASSUME Init PROVE ClaimInv
    OBVIOUS
  <1>1. SlotInv
    BY InitialSlots
  <1>2. Live = {} /\ Claims = {} /\ ClaimedPositions = {}
    BY DEF Init, Live, Claims, ClaimedPositions
  <1> QED BY <1>1, <1>2, SizeType
      DEF Init, ClaimInv, ClaimsTracked, AheadIsLive, WithinALap, Distance,
          HandlerClaimsNothing, ClaimsAreHonoured, NoUidLeaks

\* The inductive invariant of the takes in progress.
THEOREM ClaimInvariant == Spec => []ClaimInv
  BY InitialClaims, ClaimStep, PTL DEF Spec

\* Whatever puts and takes are nested inside its call-out, a take that found a
\* uid finds it again: 'Curosr not in can take status' is not thrown at it.
THEOREM ClaimsAreSafe == Spec => []ClaimsAreHonoured
  <1>1. ClaimInv => ClaimsAreHonoured
    BY DEF ClaimInv, ClaimsTracked
  <1> QED BY <1>1, ClaimInvariant, PTL

\* No uid behind the cursor is dropped while the pool is up.
THEOREM UidsDoNotLeak == Spec => []NoUidLeaks
  <1>1. ClaimInv => NoUidLeaks
    BY DEF ClaimInv, ClaimsTracked
  <1> QED BY <1>1, ClaimInvariant, PTL

\* A put is refused for want of room only, or because its slot belongs to a take
\* in progress or to a position lost at shutdown: the slot's uid is a lap behind.
LEMMA RefusalIsForClaim ==
  ASSUME ClaimInv
  PROVE  RefusalIsJustified
  <1> SUFFICES ASSUME ~returned, ~PutAccepted, Distance # BufferSize - 1
               PROVE  tail + 1 - BufferSize \in ClaimedPositions \union lost
    BY DEF RefusalIsJustified
  <1>1. /\ TypeOK /\ BufferSize \in Nat \ {0}
        /\ tail \in Int /\ cursor \in Int /\ cursor <= tail /\ -1 <= cursor
        /\ Live \subseteq 0 .. tail
    BY SizeType DEF ClaimInv, SlotInv, TypeOK, Position, Live
  <1>2. flags[calSlotIndex(tail + 1)] = CAN_TAKE_FLAG
    BY <1>1, IndexInRange DEF PutAccepted, TypeOK
  <1>3. PICK p \in Live : calSlotIndex(p) = calSlotIndex(tail + 1)
    BY <1>1, <1>2, IndexInRange
    DEF ClaimInv, SlotInv, SlotSafety, FlagTracksLive
  <1>4. p > tail - BufferSize /\ p <= tail /\ p \in Int
    BY <1>1 DEF ClaimInv, ClaimsTracked, WithinALap
  <1>5. p = tail + 1 - BufferSize
    <2>1. p < tail + 1 /\ tail + 1 <= p + BufferSize /\ tail + 1 \in Int
      BY <1>1, <1>4
    <2>2. tail + 1 = p + BufferSize
      BY <1>3, <1>4, <2>1, SameSlotIsALap
    <2> QED BY <1>1, <1>4, <2>2
  <1>6. p <= cursor
    <2>1. Distance < BufferSize - 1
      BY <1>1 DEF ClaimInv, ClaimsTracked, WithinALap, Distance
    <2> QED BY <1>1, <1>5, <2>1 DEF Distance
  <1> QED BY <1>5, <1>6 DEF ClaimInv, ClaimsTracked, NoUidLeaks

\* put() refuses a uid for want of room only, or because its slot belongs to a
\* take in progress or to a position lost at shutdown.
THEOREM RefusalsAreJustified == Spec => []RefusalIsJustified
  BY RefusalIsForClaim, ClaimInvariant, PTL

-----------------------------------------------------------------------------
(* The end of a sequence *)

\* Appending to a sequence appends to its end from any position.
LEMMA AppendToSuffix ==
  ASSUME NEW S, NEW s \in Seq(S), NEW e \in S, NEW m \in 1 .. Len(s) + 1
  PROVE  SubSeq(Append(s, e), m, Len(s) + 1) = Append(SubSeq(s, m, Len(s)), e)
  <1> DEFINE n == Len(s)
             t == Append(s, e)
             k == n + 1
  <1>1. /\ t \in Seq(S) /\ Len(t) = k /\ n \in Nat /\ t[k] = e
        /\ \A i \in 1 .. n : t[i] = s[i]
        /\ m \in Int /\ m <= k /\ 1 <= m
    BY AppendKeeps
  <1>2. \A i \in m .. n : s[i] \in S
    OBVIOUS
  <1>3. k = n + 1 /\ \A i \in m .. k : t[i] \in S
    BY <1>1
  <1> HIDE DEF n, t, k
  <1> DEFINE u == SubSeq(s, m, n)
             v == SubSeq(t, m, k)
             l == n - m + 1
  <1>4. /\ u \in Seq(S) /\ Len(u) = l
        /\ \A i \in 1 .. l : u[i] = s[m + i - 1]
    BY <1>1, <1>2, <1>3, SubSeqProperties
  <1>5. /\ v \in Seq(S) /\ Len(v) = l + 1
        /\ \A i \in 1 .. l + 1 : v[i] = t[m + i - 1]
    BY <1>1, <1>3, SubSeqProperties
  <1>6. /\ l \in Nat /\ m + (l + 1) - 1 = k
        /\ \A i \in 1 .. l : m + i - 1 \in 1 .. n
        /\ 1 .. l + 1 = (1 .. l) \union {l + 1}
    BY <1>1, <1>3
  <1> HIDE DEF u, v, l
  <1>7. /\ Append(u, e) \in Seq(S) /\ Len(Append(u, e)) = l + 1
        /\ \A i \in 1 .. l : Append(u, e)[i] = u[i]
        /\ Append(u, e)[l + 1] = e
    BY <1>4, AppendKeeps
  <1>8. \A i \in 1 .. l : v[i] = Append(u, e)[i]
    BY <1>1, <1>4, <1>5, <1>6, <1>7
  <1>9. v[l + 1] = e
    <2>1. l + 1 \in 1 .. l + 1
      BY <1>6
    <2> QED BY <1>1, <1>5, <1>6, <2>1
  <1>10. \A i \in 1 .. Len(v) : v[i] = Append(u, e)[i]
    BY <1>5, <1>6, <1>7, <1>8, <1>9
  <1>11. v = Append(u, e)
    BY <1>5, <1>7, <1>10, SeqEqual
  <1> QED BY <1>11 DEF u, v, t, n, k

-----------------------------------------------------------------------------
(* The queue in the ring *)

\* What is ahead of the cursor is the queue: its length is the room taken, and
\* its head the uid the next take claims.
LEMMA UnclaimedProperties ==
  ASSUME SlotInv
  PROVE  /\ Unclaimed \in Seq(Uid) /\ Len(Unclaimed) = tail - cursor
         /\ TakeFindsUid <=> Unclaimed # <<>>
         /\ TakeFindsUid =>
              /\ NextCursor = cursor + 1
              /\ Head(Unclaimed) = produced[NextCursor + 1]
              /\ Tail(Unclaimed) = SubSeq(produced, NextCursor + 2, tail + 1)
  <1>1. /\ tail \in Int /\ cursor \in Int /\ cursor <= tail /\ -1 <= cursor
        /\ produced \in Seq(Uid) /\ Len(produced) = tail + 1
    BY DEF SlotInv, TypeOK, Position, HistoryOK
  <1>2. \A i \in cursor + 2 .. tail + 1 : produced[i] \in Uid
    BY <1>1
  <1>3. Unclaimed \in Seq(Uid) /\ Len(Unclaimed) = tail - cursor
    <2> DEFINE m == cursor + 2
               n == tail + 1
    <2>1. m \in Int /\ n \in Int /\ \A i \in m .. n : produced[i] \in Uid
      BY <1>1, <1>2
    <2>2. Unclaimed = SubSeq(produced, m, n)
      BY DEF Unclaimed
    <2>3. /\ SubSeq(produced, m, n) \in Seq(Uid)
          /\ Len(SubSeq(produced, m, n)) = IF m <= n THEN n - m + 1 ELSE 0
      <3> HIDE DEF m, n
      <3> QED BY <2>1, SubSeqProperties
    <2> QED BY <1>1, <2>2, <2>3
  <1>4. TakeFindsUid <=> Unclaimed # <<>>
    <2>1. Unclaimed = <<>> <=> Len(Unclaimed) = 0
      BY <1>3, EmptySeq
    <2> QED BY <1>1, <1>3, <2>1 DEF TakeFindsUid
  <1>5. ASSUME TakeFindsUid
        PROVE  /\ NextCursor = cursor + 1
               /\ Head(Unclaimed) = produced[NextCursor + 1]
               /\ Tail(Unclaimed) = SubSeq(produced, NextCursor + 2, tail + 1)
    <2> DEFINE m == cursor + 2
               n == tail + 1
    <2>1. NextCursor = cursor + 1 /\ cursor < tail
      BY <1>1, <1>5 DEF TakeFindsUid, NextCursor
    <2>2. m \in 1 .. Len(produced) /\ n \in m .. Len(produced)
      BY <1>1, <2>1
    <2>3. Unclaimed = SubSeq(produced, m, n)
      BY DEF Unclaimed
    <2>4. /\ Head(SubSeq(produced, m, n)) = produced[m]
          /\ Tail(SubSeq(produced, m, n)) = SubSeq(produced, m + 1, n)
      <3> HIDE DEF m, n
      <3> QED BY <1>1, <2>2, HeadTailOfSubSeq
    <2>5. m = NextCursor + 1 /\ m + 1 = NextCursor + 2
      BY <1>1, <2>1
    <2> QED BY <2>1, <2>3, <2>4, <2>5
  <1> QED BY <1>3, <1>4, <1>5

-----------------------------------------------------------------------------
(* The steps of the queue, until a rejected-take handler has returned *)

\* Until then the positions claimed are undelivered.
LEMMA ClaimsAreLive ==
  ASSUME ClaimInv, ~returned
  PROVE  /\ SlotInv /\ TypeOK /\ ClaimsDistinct
         /\ ClaimedPositions \subseteq Live /\ Live \subseteq 0 .. tail
         /\ tail \in Int /\ cursor \in Int /\ cursor <= tail /\ -1 <= cursor
         /\ produced \in Seq(Uid) /\ Len(produced) = tail + 1
  BY DEF ClaimInv, ClaimsTracked, ClaimsAreHonoured, ClaimsDistinct, SlotInv,
         TypeOK, Position, HistoryOK, Live

\* put() enqueues, and never beyond the capacity.
LEMMA PutEnqueues ==
  ASSUME ClaimInv, ~returned, NEW uid \in Fresh, Put(uid)
  PROVE  Queue!Enqueue(uid)
  <1>1. /\ SlotInv /\ ClaimedPositions \subseteq 0 .. tail
        /\ tail \in Int /\ cursor \in Int /\ cursor <= tail /\ -1 <= cursor
        /\ produced \in Seq(Uid) /\ Len(produced) = tail + 1 /\ uid \in Uid
    BY ClaimsAreLive DEF Fresh
  <1>2. /\ tail' = tail + 1 /\ produced' = Append(produced, uid)
        /\ UNCHANGED <<cursor, executor, frames, given, lost, returned>>
        /\ Distance # BufferSize - 1
    BY DEF Put, PutAccepted
  <1>3. Len(Unclaimed) < BufferSize
    <2>1. Distance < BufferSize /\ BufferSize \in Nat \ {0}
      BY SizeType DEF ClaimInv, ClaimsTracked, WithinALap
    <2>2. Len(Unclaimed) = tail - cursor
      BY <1>1, UnclaimedProperties
    <2> QED BY <1>1, <1>2, <2>1, <2>2 DEF Distance
  <1>4. Unclaimed' = Append(Unclaimed, uid)
    <2> DEFINE m == cursor + 2
    <2>1. m \in 1 .. Len(produced) + 1
      BY <1>1
    <2>2. m = cursor + 2
      OBVIOUS
    <2> HIDE DEF m
    <2>3. SubSeq(Append(produced, uid), m, Len(produced) + 1)
            = Append(SubSeq(produced, m, Len(produced)), uid)
      BY <1>1, <2>1, AppendToSuffix
    <2>4. tail' + 1 = Len(produced) + 1 /\ tail + 1 = Len(produced)
      BY <1>1, <1>2
    <2>5. Unclaimed' = SubSeq(Append(produced, uid), m, Len(produced) + 1)
      BY <1>2, <2>2, <2>4 DEF Unclaimed
    <2>6. Unclaimed = SubSeq(produced, m, Len(produced))
      BY <2>2, <2>4 DEF Unclaimed
    <2> QED BY <2>3, <2>5, <2>6
  <1>5. ClaimedUids' = ClaimedUids
    <2>1. ClaimedPositions' = ClaimedPositions
      BY <1>2 DEF ClaimedPositions, Claims
    <2>2. \A p \in 0 .. tail : produced'[p + 1] = produced[p + 1]
      BY <1>1, PutAddsLive
    <2> QED BY <1>1, <2>1, <2>2 DEF ClaimedUids
  <1> QED BY <1>2, <1>3, <1>4, <1>5 DEF Queue!Enqueue

\* A step that moves the cursor over a uid takes the head of the queue.
LEMMA CursorTakesHead ==
  ASSUME SlotInv, TakeFindsUid, cursor' = NextCursor, UNCHANGED <<tail, produced>>
  PROVE  /\ Unclaimed # <<>> /\ Unclaimed' = Tail(Unclaimed)
         /\ Head(Unclaimed) = produced[NextCursor + 1]
  BY UnclaimedProperties DEF Unclaimed

\* The whole of take() claims and delivers.
LEMMA TakeDirectlyDelivers ==
  ASSUME ClaimInv, ~returned, TakeDirectly
  PROVE  Queue!ClaimAndDeliver
  <1>1. /\ TakeFindsUid /\ cursor' = NextCursor /\ ReadSlot(NextCursor)
        /\ UNCHANGED <<tail, slots, executor, frames, produced, lost, returned>>
    BY DEF TakeDirectly
  <1>2. SlotInv /\ NextCursor \in Live /\ NextCursor \in Int
    BY <1>1, CursorStepsOverLive, ClaimsAreLive
  <1>3. given' = Append(given, produced[NextCursor + 1])
    BY <1>1, <1>2, ReadDelivers
  <1>4. /\ Unclaimed # <<>> /\ Unclaimed' = Tail(Unclaimed)
        /\ given' = Append(given, Head(Unclaimed))
    BY <1>1, <1>2, <1>3, CursorTakesHead
  <1>5. ClaimedUids' = ClaimedUids
    BY <1>1 DEF ClaimedUids, ClaimedPositions, Claims
  <1> QED BY <1>1, <1>4, <1>5 DEF Queue!ClaimAndDeliver

\* A take that calls out claims the head, one that the pool refuses drops it; on
\* an empty queue neither does anything.
LEMMA CallOutClaims ==
  ASSUME ClaimInv, ~returned, TakeCallsPadding \/ TakeRefusedByPool
  PROVE  Queue!Claim \/ Queue!Drop \/ UNCHANGED Queue!vars
  <1>1. /\ cursor' = NextCursor
        /\ UNCHANGED <<tail, executor, produced, given, returned>>
    BY DEF TakeCallsPadding, TakeRefusedByPool, history
  <1>2. SlotInv /\ TypeOK
    BY ClaimsAreLive
  <1>3. TakeFindsUid => /\ Unclaimed # <<>> /\ Unclaimed' = Tail(Unclaimed)
                        /\ Head(Unclaimed) = produced[NextCursor + 1]
    BY <1>1, <1>2, CursorTakesHead
  <1>4. ~TakeFindsUid => Unclaimed' = Unclaimed
    BY <1>1 DEF Unclaimed, TakeFindsUid, NextCursor
  <1>5. CASE TakeCallsPadding
    <2>1. PushFrame("padding")
      BY <1>5 DEF TakeCallsPadding
    <2>2. ClaimedPositions' = ClaimedPositions \union
            IF TakeFindsUid THEN {NextCursor} ELSE {}
      BY <1>2, <2>1, PushAddsClaim
    <2>3. TakeFindsUid => ClaimedUids' = ClaimedUids \union {produced[NextCursor + 1]}
      BY <1>1, <2>2 DEF ClaimedUids
    <2>4. ~TakeFindsUid => ClaimedUids' = ClaimedUids
      BY <1>1, <2>2 DEF ClaimedUids
    <2> QED BY <1>1, <1>3, <1>4, <2>3, <2>4 DEF Queue!Claim, Queue!vars
  <1>6. CASE TakeRefusedByPool
    <2>1. executor = "shutdown" /\ UNCHANGED frames
      BY <1>6 DEF TakeRefusedByPool
    <2>2. ClaimedUids' = ClaimedUids
      BY <1>1, <2>1 DEF ClaimedUids, ClaimedPositions, Claims
    <2> QED BY <1>1, <1>3, <1>4, <2>1, <2>2 DEF Queue!Drop, Queue!vars
  <1> QED BY <1>5, <1>6

\* asyncPadding() returns: what the take claimed is delivered.
LEMMA PaddingReturnsDelivers ==
  ASSUME ClaimInv, ~returned, PaddingReturns
  PROVE  (\E uid \in Uid : Queue!Deliver(uid)) \/ UNCHANGED Queue!vars
  <1> DEFINE f == Last(frames)
  <1>1. /\ frames # <<>> /\ SlotInv /\ TypeOK
        /\ UNCHANGED <<tail, cursor, slots, executor, produced, lost, returned>>
    BY ClaimsAreLive DEF PaddingReturns
  <1>2. UNCHANGED Unclaimed
    BY <1>1 DEF Unclaimed
  <1>3. f \in Frame
    BY <1>1, FrontProperties DEF TypeOK
  <1>4. CASE f.nxt = f.cur
    <2> DEFINE g == [f EXCEPT !.at = "handler"]
    <2>1. g \in Frame /\ g.nxt = g.cur /\ ReplaceFrame(g) /\ UNCHANGED given
      BY <1>3, <1>4 DEF PaddingReturns, ReplaceFrame, Frame
    <2> HIDE DEF g
    <2>2. ClaimedPositions' = ClaimedPositions
      BY <1>1, <1>4, <2>1, ToHandlerKeepsClaims
    <2>3. ClaimedUids' = ClaimedUids
      BY <1>1, <2>2 DEF ClaimedUids
    <2> QED BY <1>1, <1>2, <2>1, <2>3 DEF Queue!vars
  <1>5. CASE f.nxt # f.cur
    <2>1. PopFrame /\ ReadSlot(f.nxt) /\ f.nxt \in Int
      BY <1>3, <1>5 DEF PaddingReturns, Frame, Position
    <2>2. /\ f.nxt \in ClaimedPositions
          /\ ClaimedPositions' = ClaimedPositions \ {f.nxt}
      BY <1>1, <1>5, <2>1, ClaimsAreLive, PopDropsClaim
    <2>3. /\ f.nxt \in 0 .. tail /\ f.nxt \in Live
          /\ ClaimedPositions \subseteq 0 .. tail
          /\ tail \in Int /\ produced \in Seq(Uid) /\ Len(produced) = tail + 1
      BY <2>2, ClaimsAreLive
    <2>4. given' = Append(given, produced[f.nxt + 1])
      BY <1>1, <2>1, <2>3, ReadDelivers
    <2>5. \A p \in ClaimedPositions :
            produced[p + 1] = produced[f.nxt + 1] => p = f.nxt
      BY <1>1, <2>3 DEF SlotInv, HistoryOK
    <2>6. ClaimedUids' = ClaimedUids \ {produced[f.nxt + 1]}
      BY <1>1, <2>2, <2>5 DEF ClaimedUids
    <2>7. produced[f.nxt + 1] \in ClaimedUids /\ produced[f.nxt + 1] \in Uid
      BY <2>2, <2>3 DEF ClaimedUids
    <2> QED BY <1>1, <1>2, <2>4, <2>6, <2>7 DEF Queue!Deliver
  <1> QED BY <1>4, <1>5

\* A take on an empty ring calls the handler, or is thrown out of it: nothing
\* happens to the queue.
LEMMA HandlerStutters ==
  ASSUME ClaimInv, ~returned, TakeCallsHandler \/ HandlerThrows
  PROVE  UNCHANGED Queue!vars
  <1>1. /\ TypeOK
        /\ UNCHANGED <<tail, cursor, produced, given, executor, returned>>
    BY ClaimsAreLive DEF TakeCallsHandler, HandlerThrows, ringVars, history
  <1>2. ClaimedPositions' = ClaimedPositions
    <2>1. CASE TakeCallsHandler
      <3>1. PushFrame("handler") /\ ~TakeFindsUid
        BY <2>1 DEF TakeCallsHandler
      <3> QED BY <1>1, <3>1, PushAddsClaim
    <2>2. CASE HandlerThrows
      <3>1. frames # <<>> /\ PopFrame /\ Last(frames).at = "handler"
        BY <2>2 DEF HandlerThrows
      <3>2. /\ Last(frames) \in Frame
            /\ Last(frames) = frames[Len(frames)] /\ Len(frames) \in DOMAIN frames
        BY <1>1, <3>1, FrontProperties DEF TypeOK
      <3>3. Last(frames).nxt = Last(frames).cur
        BY <3>1, <3>2 DEF ClaimInv, ClaimsTracked, HandlerClaimsNothing
      <3> QED BY <1>1, <3>1, <3>3, PopDropsClaim
    <2> QED BY <2>1, <2>2
  <1> QED BY <1>1, <1>2 DEF Queue!vars, Unclaimed, ClaimedUids

-----------------------------------------------------------------------------
(* Refinement *)

\* An empty ring is an empty queue.
LEMMA InitialQueue == Init => Queue!Init
  <1> SUFFICES ASSUME Init PROVE Queue!Init
    OBVIOUS
  <1>1. Unclaimed = <<>>
    BY SubSeqEmpty DEF Init, Unclaimed
  <1>2. ClaimedUids = {}
    BY DEF Init, ClaimedUids, ClaimedPositions, Claims
  <1> QED BY <1>1, <1>2 DEF Init, Queue!Init

\* Every step of the ring is a step of the queue or leaves it alone.
LEMMA QueueStep == ClaimInv /\ [Next]_vars => [Queue!Next]_(Queue!vars)
  <1> SUFFICES ASSUME ClaimInv, [Next]_vars
               PROVE  Queue!Next \/ UNCHANGED Queue!vars
    OBVIOUS
  <1>1. CASE returned
    <2>1. returned' = TRUE
      BY <1>1 DEF Next, Take, Put, PutRejected, TakeDirectly, TakeCallsPadding,
          TakeRefusedByPool, TakeCallsHandler, PaddingReturns, HandlerThrows,
          HandlerReturns, SetBufferPaddingExecutor, ShutdownExecutor, vars,
          history, ClaimInv, SlotInv, TypeOK
    <2> QED BY <2>1 DEF Queue!Next, Queue!Breach
  <1>2. CASE ~returned
    <2>1. ASSUME NEW uid \in Fresh, Put(uid) PROVE Queue!Next
      <3>1. uid \in Uid
        BY DEF Fresh
      <3> QED BY <1>2, <2>1, <3>1, PutEnqueues DEF Queue!Next
    <2>2. CASE TakeDirectly
      BY <1>2, <2>2, TakeDirectlyDelivers DEF Queue!Next
    <2>3. CASE TakeCallsPadding \/ TakeRefusedByPool
      BY <1>2, <2>3, CallOutClaims DEF Queue!Next
    <2>4. CASE PaddingReturns
      BY <1>2, <2>4, PaddingReturnsDelivers DEF Queue!Next
    <2>5. CASE TakeCallsHandler \/ HandlerThrows
      BY <1>2, <2>5, HandlerStutters
    <2>6. CASE HandlerReturns
      BY <2>6 DEF HandlerReturns, Queue!Next, Queue!Breach
    <2>7. CASE SetBufferPaddingExecutor
      BY <2>7 DEF SetBufferPaddingExecutor, ringVars, history, Queue!vars,
          Unclaimed, ClaimedUids, ClaimedPositions, Claims
    <2>8. CASE ShutdownExecutor
      BY <2>8 DEF ShutdownExecutor, ringVars, history, Queue!Next, Queue!Close,
          Unclaimed, ClaimedUids, ClaimedPositions, Claims
    <2>9. CASE PutRejected \/ UNCHANGED vars
      BY <2>9 DEF PutRejected, vars, ringVars, history, Queue!vars,
          Unclaimed, ClaimedUids, ClaimedPositions, Claims
    <2> QED BY <2>1, <2>2, <2>3, <2>4, <2>5, <2>6, <2>7, <2>8, <2>9 DEF Next, Take
  <1> QED BY <1>1, <1>2

\* Until a rejected-take handler has returned, clients of the ring see a bounded
\* first-in-first-out queue: flags, wrap-around and re-entrant takes are hidden.
THEOREM RingIsAQueue == Spec => ImplementsQueue
  BY InitialQueue, QueueStep, ClaimInvariant, PTL
  DEF Spec, ImplementsQueue, Queue!Spec
=============================================================================
