-------------------------- MODULE CachedUidProofs --------------------------
(***************************************************************************)
(* Proofs about CachedUidGenerator: it is a client of the ring and the     *)
(* executor as BufferPaddingExecutor describes them, is full when it is    *)
(* ready for the first time, and then gives its uids in order, once.       *)
(***************************************************************************)
EXTENDS CachedUidGenerator, BufferPaddingProofs, BitsAllocatorProofs

USE DEF START_POINT, CAN_PUT_FLAG, CAN_TAKE_FLAG

-----------------------------------------------------------------------------
(* The generator as a client *)

\* What the generator does to the ring and the executor, they can do.
LEMMA CachedStepIsPaddingStep ==
  ASSUME [CachedNext]_cachedVars
  PROVE  [PaddingNext]_allVars
  <1>1. CASE AfterPropertiesSet \/ AssignmentFails \/ CallTooEarly \/ UNCHANGED cachedVars
    BY <1>1 DEF AfterPropertiesSet, AssignmentFails, CallTooEarly, cachedVars
  <1>2. CASE InitRingBuffer \/ FillSlots \/ FillThrows \/ StartPadding
    BY <1>2 DEF InitRingBuffer, FillSlots, FillThrows, StartPadding, PaddingNext, PassStep
  <1>3. CASE GetUID \/ Destroy \/ Scheduled \/ Padding
    BY <1>3 DEF GetUID, Destroy, Scheduled, Padding, PaddingNext
  <1> QED BY <1>1, <1>2, <1>3 DEF CachedNext

\* initRingBuffer(), getUID(), destroy() and the schedule use the executor as any
\* client may: what is proved of PaddingSpec holds of the generator.
THEOREM CachedIsPadding == CachedSpec => PaddingSpec
  <1>1. CachedInit => PaddingInit
    BY DEF CachedInit
  <1>2. [CachedNext]_cachedVars => [PaddingNext]_allVars
    BY CachedStepIsPaddingStep
  <1> QED BY <1>1, <1>2, PTL DEF CachedSpec, PaddingSpec

\* Until a rejected-take handler has returned, callers of getUID() see a bounded
\* first-in-first-out queue of uids, from its first fill to its destruction: the
\* ring's refinement, with the generator and its executor as the client.
THEOREM GeneratorIsAQueue ==
  ASSUME UidsAreNaturals PROVE CachedSpec => ImplementsQueue
  BY CachedIsPadding, PaddingIsARing, RingIsAQueue, PTL DEF ImplementsRing

-----------------------------------------------------------------------------
(* Nothing runs before the first pass *)

\* On an empty stack no pass can go on.
LEMMA NoPassStepWhenIdle ==
  ASSUME Idle PROVE ~PassStep
  BY DEF Idle, PassStep, AsyncPaddingBegins, AsyncPaddingSkipped, AskProvider, PutNext,
         PutRefused, PutHandlerReturns, PutHandlerThrows, PutHandlerPuts, InPutHandler,
         PassOnTop, TakeOnTop

\* The phases pass one way; before the first pass no client code runs.
LEMMA NothingBegunStep ==
  ASSUME CachedInv, [CachedNext]_cachedVars
  PROVE  /\ NothingBegun'
         /\ phase' \in {"new", "assigning", "wired", "filling", "ready", "failed"}
  <1> USE DEF CachedInv, Enter
  <1>1. CASE phase \notin {"new", "assigning", "wired"}
    <2>1. /\ phase' \notin {"new", "assigning", "wired"}
          /\ phase' \in {"filling", "ready", "failed"}
      BY <1>1 DEF CachedNext, AfterPropertiesSet, AssignmentFails, InitRingBuffer,
          FillSlots, FillThrows, StartPadding, CallTooEarly, GetUID, Destroy,
          Scheduled, Padding, cachedVars
    <2> QED BY <2>1 DEF NothingBegun
  <1>2. CASE phase \in {"new", "assigning", "wired"}
    <2>1. Idle /\ ~running /\ ~returned /\ tail = START_POINT /\ given = <<>>
      BY <1>2 DEF NothingBegun
    <2>2. ~Settled /\ ~PassStep
      BY <1>2, <2>1, NoPassStepWhenIdle DEF Settled
    <2>3. CASE AfterPropertiesSet \/ AssignmentFails \/ CallTooEarly
               \/ UNCHANGED cachedVars
      BY <1>2, <2>1, <2>3 DEF NothingBegun, AfterPropertiesSet, AssignmentFails,
          CallTooEarly, cachedVars, allVars, padVars, vars, ringVars, history, Idle
    <2>4. CASE InitRingBuffer
      BY <2>1, <2>4 DEF NothingBegun, InitRingBuffer, Wire, SetBufferPaddingExecutor,
          padVars, ringVars, history, Idle
    <2>5. CASE FillSlots
      BY <2>5 DEF NothingBegun, FillSlots
    <2> QED BY <1>2, <2>2, <2>3, <2>4, <2>5
        DEF CachedNext, FillThrows, StartPadding, GetUID, Destroy, Scheduled, Padding
  <1> QED BY <1>1, <1>2

-----------------------------------------------------------------------------
(* The first filling *)

\* Before the first take only a full ring refuses a uid.
LEMMA RefusedBeforeFirstTake ==
  ASSUME ClaimInv, cursor = START_POINT, ~PutAccepted
  PROVE  tail = BufferSize - 1
  <1>1. /\ tail \in Int /\ tail >= -1 /\ BufferSize \in Nat \ {0}
        /\ Distance = tail /\ tail < BufferSize /\ TypeOK
    BY SizeType DEF ClaimInv, SlotInv, TypeOK, Position, ClaimsTracked, WithinALap, Distance
  <1>2. CASE Distance = BufferSize - 1
    BY <1>1, <1>2
  <1>3. CASE Distance # BufferSize - 1
    <2>1. calSlotIndex(tail + 1) \in Index
      BY <1>1, IndexInRange
    <2>2. flags[calSlotIndex(tail + 1)] = CAN_TAKE_FLAG
      BY <1>1, <1>3, <2>1 DEF PutAccepted, TypeOK
    <2>3. PICK p \in Live : calSlotIndex(p) = calSlotIndex(tail + 1)
      BY <2>1, <2>2 DEF ClaimInv, SlotInv, SlotSafety, FlagTracksLive
    <2>4. p \in 0 .. tail /\ p > tail - BufferSize
      BY DEF ClaimInv, ClaimsTracked, WithinALap, Live
    <2>5. /\ p \in Int /\ tail + 1 \in Int /\ p < tail + 1
          /\ tail + 1 <= p + BufferSize
      BY <1>1, <2>4
    <2>6. tail + 1 = p + BufferSize
      BY <2>3, <2>5, SameSlotIsALap
    <2> QED BY <1>1, <2>4, <2>6
  <1> QED BY <1>2, <1>3

\* A ring filled to its size refuses every uid before the first take.
LEMMA FullRingRefuses ==
  ASSUME cursor = START_POINT, tail = BufferSize - 1
  PROVE  ~PutAccepted
  BY SizeType DEF PutAccepted, Distance

\* A take on a ring that holds a uid takes one off.
LEMMA TakesMoveCursor ==
  ASSUME TypeOK, TakeFindsUid,
         TakeDirectly \/ TakeCallsPadding \/ TakeRefusedByPool \/ TakeCallsHandler
  PROVE  cursor' = cursor + 1
  BY DEF TakeDirectly, TakeCallsPadding, TakeRefusedByPool, TakeCallsHandler, NextCursor,
         TakeFindsUid

\* What a handler or a padding returns to leaves the cursor alone.
LEMMA FramesKeepCursor ==
  ASSUME PaddingReturns \/ HandlerThrows \/ HandlerReturns
  PROVE  UNCHANGED <<tail, cursor, executor>> /\ frames # <<>>
  BY DEF PaddingReturns, HandlerThrows, HandlerReturns, ringVars

\* The first pass goes on until every slot is filled, and the first take finds
\* them filled.
LEMMA FilledFirstKept ==
  ASSUME ClaimInv, PassInv, [PaddingNext]_allVars,
         frames = <<>>, pass.at \in {"none", "handler"} => tail = BufferSize - 1,
         cursor = START_POINT, cursor' = START_POINT
  PROVE  /\ frames' = <<>>
         /\ pass'.at \in {"none", "handler"} => tail' = BufferSize - 1
  <1>1. TypeOK /\ tail \in Int /\ BufferSize \in Nat \ {0} /\ pass \in Pass \union {NoPass}
    BY SizeType DEF ClaimInv, SlotInv, TypeOK, Position, PassInv, PassTypeOK
  <1>2. CASE ClientTakes
    <2>1. Idle \/ pass.at = "handler"
      BY <1>2 DEF ClientTakes, ClientMayTake, InPutHandler, TakeOnTop
    <2>2. tail = BufferSize - 1
      BY <2>1 DEF Idle, NoPass
    <2>3. TakeFindsUid
      BY <1>1, <2>2 DEF TakeFindsUid
    <2> QED BY <1>1, <1>2, <2>3, TakesMoveCursor DEF ClientTakes
  <1>3. CASE TakeHandlerEnds \/ AsyncPaddingBegins \/ AsyncPaddingSkipped
    BY <1>3, FramesKeepCursor
    DEF TakeHandlerEnds, AsyncPaddingBegins, AsyncPaddingSkipped, TakeOnTop
  <1>4. CASE PaddingBufferCalled \/ (TimerFires /\ TimerBeginsPass)
    <2>1. pass'.at = "provider" /\ UNCHANGED frames
      BY <1>4 DEF PaddingBufferCalled, TimerFires, TimerBeginsPass, BeginPass, vars
    <2> QED BY <2>1
  <1>5. CASE AskProvider
    <2>1. /\ pass' = [pass EXCEPT !.at = "putting", !.next = 0] /\ UNCHANGED frames
          /\ pass # NoPass
      BY <1>5 DEF AskProvider, PassOnTop, vars
    <2> QED BY <1>1, <2>1 DEF Pass
  <1>6. CASE PutNext
    <2> DEFINE place == IF pass.next + 1 = UidsPerSecond THEN "provider" ELSE "putting"
               next == pass.next + 1
    <2>1. /\ pass # NoPass /\ UNCHANGED frames
          /\ pass' = [pass EXCEPT !.next = next, !.at = place]
      BY <1>6 DEF PutNext, PassOnTop, Put
    <2>2. place \in {"provider", "putting"}
      OBVIOUS
    <2> HIDE DEF place, next
    <2> QED BY <1>1, <2>1, <2>2 DEF Pass
  <1>7. CASE PutRefused
    BY <1>7, RefusedBeforeFirstTake DEF PutRefused, PutRejected, vars, ringVars
  <1>8. CASE PutHandlerReturns \/ PutHandlerThrows
    <2>1. LeavePass /\ pass.at = "handler"
      BY <1>8 DEF PutHandlerReturns, PutHandlerThrows, InPutHandler
    <2> QED BY <2>1, FramesKeepCursor DEF LeavePass, vars, ringVars
  <1>9. CASE PutHandlerPuts
    BY <1>9, FullRingRefuses DEF PutHandlerPuts, InPutHandler, Put
  <1>10. CASE Wire \/ Start \/ Shutdown
    BY <1>10 DEF Wire, Start, Shutdown, SetBufferPaddingExecutor, ShutdownExecutor,
        padVars, vars, ringVars
  <1>11. CASE TimerFiresAfterShutdown \/ TimerSkipsPass \/ UNCHANGED allVars
    BY <1>11 DEF TimerFiresAfterShutdown, TimerSkipsPass, allVars, padVars, vars, ringVars
  <1> QED BY <1>2, <1>3, <1>4, <1>5, <1>6, <1>7, <1>8, <1>9, <1>10, <1>11
      DEF PaddingNext, PassStep, TimerFires

\* The cursor never moves back.
LEMMA CursorAdvances ==
  ASSUME TypeOK, [PaddingNext]_allVars
  PROVE  cursor' >= cursor /\ cursor \in Int /\ cursor >= -1
  <1>1. cursor \in Int /\ cursor >= -1 /\ NextCursor >= cursor
    BY DEF TypeOK, Position, NextCursor
  <1>2. UNCHANGED cursor \/ cursor' = NextCursor
    <2>1. CASE ClientTakes
      BY <2>1 DEF ClientTakes, TakeDirectly, TakeCallsPadding, TakeRefusedByPool,
          TakeCallsHandler, ringVars
    <2>2. CASE TakeHandlerEnds \/ AsyncPaddingSkipped \/ PutHandlerReturns
               \/ PutHandlerThrows
      BY <2>2, FramesKeepCursor DEF TakeHandlerEnds, AsyncPaddingSkipped,
          PutHandlerReturns, PutHandlerThrows, LeavePass, vars, ringVars
    <2>3. CASE AsyncPaddingBegins \/ PaddingBufferCalled \/ TimerFires \/ AskProvider
               \/ UNCHANGED allVars
      BY <2>3 DEF AsyncPaddingBegins, PaddingBufferCalled, TimerFires, TimerBeginsPass,
          TimerFiresAfterShutdown, TimerSkipsPass, BeginPass, AskProvider, allVars, vars,
          ringVars
    <2>4. CASE PutNext \/ PutRefused \/ PutHandlerPuts
      BY <2>4 DEF PutNext, PutRefused, PutHandlerPuts, Put, PutRejected, vars, ringVars
    <2>5. CASE Wire \/ Start \/ Shutdown
      BY <2>5 DEF Wire, Start, Shutdown, SetBufferPaddingExecutor, ShutdownExecutor, vars,
          ringVars
    <2> QED BY <2>1, <2>2, <2>3, <2>4, <2>5 DEF PaddingNext, PassStep
  <1> QED BY <1>1, <1>2

\* Where a step enters the phases of a ring in use.
LEMMA PhaseOfUse ==
  ASSUME CachedInv, [CachedNext]_cachedVars, phase' \in {"filling", "ready"}
  PROVE  phase \in {"filling", "ready"} \/ (phase = "wired" /\ FillSlots)
  <1>1. CASE phase \in {"new", "assigning", "wired"}
    <2>1. ~Settled /\ ~PassStep
      BY <1>1, NoPassStepWhenIdle DEF Settled, CachedInv, NothingBegun
    <2> QED BY <1>1, <2>1 DEF CachedNext, AfterPropertiesSet, AssignmentFails,
        InitRingBuffer, FillSlots, FillThrows, StartPadding, CallTooEarly, GetUID,
        Destroy, Scheduled, Padding, cachedVars, Enter
  <1>2. CASE phase = "failed"
    BY <1>2 DEF CachedNext, AfterPropertiesSet, AssignmentFails,
        InitRingBuffer, FillSlots, FillThrows, StartPadding, CallTooEarly, GetUID,
        Destroy, Scheduled, Padding, cachedVars, Enter
  <1> QED BY <1>1, <1>2 DEF CachedInv

\* The state in which the first pass begins.
LEMMA FillSlotsBegins ==
  ASSUME CachedInv, TypeOK, phase = "wired", FillSlots
  PROVE  /\ frames' = <<>> /\ cursor' = -1 /\ given' = <<>> /\ ~returned'
         /\ pass' = [at |-> "provider", by |-> "direct", depth |-> 0, next |-> 0]
  <1>1. Idle /\ ~returned /\ tail = START_POINT /\ given = <<>>
    BY DEF CachedInv, NothingBegun
  <1>2. BeginPass("direct")
    BY DEF FillSlots, PaddingBufferCalled
  <1>3. frames = <<>> /\ Len(frames) = 0 /\ cursor = -1
    BY <1>1, EmptySeq DEF Idle, TypeOK
  <1> QED BY <1>1, <1>2, <1>3 DEF BeginPass, vars, ringVars, history

\* A ring that is in use was filled.
LEMMA FilledFirstStep ==
  ASSUME CachedInv, ClaimInv, PassInv, [CachedNext]_cachedVars
  PROVE  FilledFirst'
  <1> SUFFICES ASSUME phase' \in {"filling", "ready"}, cursor' = START_POINT
               PROVE  /\ frames' = <<>>
                      /\ pass'.at \in {"none", "handler"} => tail' = BufferSize - 1
    BY DEF FilledFirst
  <1>1. TypeOK /\ [PaddingNext]_allVars
    BY CachedStepIsPaddingStep DEF ClaimInv, SlotInv
  <1>2. CASE phase = "wired" /\ FillSlots
    BY <1>1, <1>2, FillSlotsBegins
  <1>3. CASE phase \in {"filling", "ready"}
    <2>1. cursor = START_POINT
      BY <1>1, CursorAdvances
    <2> QED BY <1>1, <1>3, <2>1, FilledFirstKept DEF CachedInv, FilledFirst
  <1> QED BY <1>2, <1>3, PhaseOfUse

-----------------------------------------------------------------------------
(* Takes in order *)

\* Delivering the next position keeps the uids given in order.
LEMMA DeliverNext ==
  ASSUME SlotInv, NEW position \in Live, Len(given) = position, ReadSlot(position),
         \A k \in DOMAIN given : given[k] = produced[k],
         UNCHANGED <<tail, slots, produced>>
  PROVE  /\ Len(given') = position + 1
         /\ \A k \in DOMAIN given' : given'[k] = produced'[k]
  <1>1. position \in Nat /\ given \in Seq(Uid \union {ZeroUid})
    BY DEF Live, SlotInv, TypeOK, Position
  <1>2. PICK u : u = produced[position + 1]
    OBVIOUS
  <1>3. given' = Append(given, u) /\ u \in Uid \union {ZeroUid}
    BY <1>1, <1>2, ReadDelivers
  <1>4. /\ Len(given') = position + 1 /\ DOMAIN given' = 1 .. position + 1
        /\ DOMAIN given = 1 .. position
        /\ \A k \in 1 .. position : given'[k] = given[k]
        /\ given'[position + 1] = u
    BY <1>1, <1>3, AppendKeeps
  <1> QED BY <1>1, <1>2, <1>4

\* What is put goes behind all that was given.
LEMMA GivenStaysInOrder ==
  ASSUME SlotInv, \A k \in DOMAIN given : given[k] = produced[k],
         Len(given) = cursor + 1 - Len(frames), Len(frames) \in Nat,
         NEW u \in Uid, Put(u)
  PROVE  \A k \in DOMAIN given' : given'[k] = produced'[k]
  <1>1. /\ produced \in Seq(Uid) /\ Len(produced) = tail + 1 /\ cursor \in Int
        /\ tail \in Int /\ cursor <= tail /\ given \in Seq(Uid \union {ZeroUid})
        /\ produced' = Append(produced, u) /\ given' = given
    BY DEF SlotInv, TypeOK, Position, HistoryOK, Put
  <1>2. \A k \in 1 .. Len(produced) : produced'[k] = produced[k]
    BY <1>1, AppendKeeps
  <1>3. DOMAIN given \subseteq 1 .. Len(produced)
    BY <1>1
  <1> QED BY <1>1, <1>2, <1>3

\* A take that is called out is the only one, and nobody can take inside it.
LEMMA SerialStack ==
  ASSUME TypeOK, TakesAreSerial
  PROVE  /\ StackInOrder
         /\ frames = <<>> => Len(frames) = 0
         /\ frames # <<>> =>
              /\ Last(frames) = frames[1] /\ frames[1] \in Frame
              /\ DOMAIN frames = {1} /\ Len(frames) = 1
         /\ Len(frames) \in Nat
         /\ ~(frames # <<>> /\ Last(frames).at = "handler")
  <1>1. frames = <<>> => Len(frames) = 0
    BY EmptySeq DEF TypeOK
  <1>2. frames # <<>> =>
          /\ Last(frames) = frames[1] /\ frames[1] \in Frame
          /\ DOMAIN frames = {1} /\ Len(frames) = 1
    BY TopFrame DEF TakesAreSerial
  <1>3. \A k \in DOMAIN frames : frames[k].at = "padding" => k = Len(frames)
    <2>1. CASE frames = <<>>
      BY <2>1
    <2>2. CASE frames # <<>>
      BY <1>2, <2>2
    <2> QED BY <2>1, <2>2
  <1>4. PaddingOnTop => Last(frames).nxt = cursor
    BY <1>2 DEF TakesAreSerial, PaddingOnTop
  <1>5. pass # NoPass => /\ pass.depth = Len(frames)
                         /\ pass.by = "take" => PaddingOnTop
                         /\ pass.by # "take" => frames = <<>>
    BY <1>2 DEF TakesAreSerial, PaddingOnTop
  <1> QED BY <1>1, <1>2, <1>3, <1>4, <1>5 DEF TakesAreSerial, StackInOrder

\* A take on a ring at rest finds a uid, and leaves the threshold behind it or has
\* the pool pad.
LEMMA ClientTakesInOrder ==
  ASSUME ClaimInv, PassInv, TakesAreSerial, Undisturbed, executor = "up", ClientTakes
  PROVE  TakesAreSerial'
  <1>1. /\ TypeOK /\ SlotInv /\ ~returned /\ UNCHANGED pass
        /\ tail \in Int /\ cursor \in Int /\ cursor <= tail
        /\ PaddingThreshold \in Nat /\ PaddingThreshold > 0
    BY ThresholdType
    DEF ClaimInv, SlotInv, TypeOK, Position, ClientTakes, padVars, TakesAreSerial,
        Undisturbed
  <1>2. Idle
    BY <1>1, SerialStack DEF ClientTakes, ClientMayTake, Undisturbed, TakeOnTop
  <1>3. /\ tail - cursor >= PaddingThreshold /\ Len(given) = cursor + 1
        /\ frames = <<>> /\ Len(frames) = 0 /\ pass = NoPass
        /\ \A k \in DOMAIN given : given[k] = produced[k]
    BY <1>1, <1>2, SerialStack DEF TakesAreSerial, Idle
  <1>4. /\ TakeFindsUid /\ NextCursor = cursor + 1 /\ NextCursor \in Live
        /\ ~TakeRefusedByPool /\ ~TakeCallsHandler
    <2>1. cursor # tail
      BY <1>1, <1>3
    <2>2. NextCursor \in Live
      BY <1>1, <2>1
      DEF ClaimInv, ClaimsTracked, AheadIsLive, NextCursor, TypeOK, Position
    <2> QED BY <2>1, <2>2 DEF TakeFindsUid, NextCursor, TakeRefusedByPool,
        TakeCallsHandler
  <1>5. CASE TakeDirectly
    <2>1. /\ cursor' = NextCursor /\ ReadSlot(NextCursor) /\ ~CallsExecutor
          /\ UNCHANGED <<tail, slots, frames, produced, returned>>
      BY <1>5 DEF TakeDirectly
    <2>2. /\ Len(given') = NextCursor + 1
          /\ \A k \in DOMAIN given' : given'[k] = produced'[k]
      BY <1>1, <1>3, <1>4, <2>1, DeliverNext
    <2>3. tail' - cursor' >= PaddingThreshold
      BY <1>1, <1>4, <2>1 DEF CallsExecutor, BelowThreshold
    <2> QED BY <1>1, <1>3, <1>4, <2>1, <2>2, <2>3
        DEF TakesAreSerial, PaddingThreshold
  <1>6. CASE TakeCallsPadding
    <2>1. /\ cursor' = NextCursor /\ PushFrame("padding")
          /\ UNCHANGED <<produced, given, returned>>
      BY <1>6 DEF TakeCallsPadding, history
    <2>2. /\ Len(frames') = 1 /\ frames' # <<>>
          /\ frames'[1] = [cur |-> cursor, nxt |-> NextCursor, at |-> "padding"]
      <3>1. frames'[Len(frames')]
              = [cur |-> cursor, nxt |-> NextCursor, at |-> "padding"]
        BY <1>1, <2>1, PushedFrame
      <3>2. Len(frames') = 1 /\ frames' # <<>>
        BY <1>1, <1>3, <2>1, PushedFrame
      <3> QED BY <3>1, <3>2
    <2>3. /\ frames'[1].at = "padding" /\ frames'[1].nxt = cursor'
          /\ frames'[1].cur = cursor /\ cursor # cursor'
      BY <1>1, <1>4, <2>1, <2>2
    <2>4. Len(given') = cursor' + 1 - Len(frames')
      BY <1>1, <1>3, <1>4, <2>1, <2>2
    <2>5. ~Idle' /\ pass' = NoPass /\ pass'.at # "handler"
      BY <1>1, <1>3, <2>2 DEF Idle, NoPass
    <2> QED BY <1>1, <1>3, <2>1, <2>2, <2>3, <2>4, <2>5 DEF TakesAreSerial
  <1> QED BY <1>4, <1>5, <1>6 DEF ClientTakes

\* A pass begins on an empty stack, or in the one take that is called out.
LEMMA BeginPassInOrder ==
  ASSUME TypeOK, TakesAreSerial, NEW by \in {"take", "direct", "timer"}, BeginPass(by),
         by = "take" <=> frames # <<>>
  PROVE  TakesAreSerial'
  <1>1. /\ UNCHANGED <<tail, cursor, frames, produced, given, returned>>
        /\ pass' = [at |-> "provider", by |-> by, depth |-> Len(frames), next |-> 0]
    BY DEF BeginPass, vars, ringVars, history
  <1>2. /\ pass'.at = "provider" /\ pass'.by = by /\ pass'.depth = Len(frames)
        /\ ~Idle'
    BY <1>1 DEF Idle, NoPass
  <1> QED BY <1>1, <1>2 DEF TakesAreSerial

\* Steps of the pass that leave it outside a handler disturb nothing.
LEMMA InsidePassInOrder ==
  ASSUME SlotInv, TakesAreSerial, pass \in Pass, pass' \in Pass, pass'.at # "handler",
         pass'.by = pass.by, pass'.depth = pass.depth,
         UNCHANGED <<cursor, frames, given, returned>>,
         \A k \in DOMAIN given' : given'[k] = produced'[k]
  PROVE  TakesAreSerial'
  <1>1. pass # NoPass /\ pass' # NoPass
    BY DEF Pass, NoPass
  <1> QED BY <1>1 DEF TakesAreSerial, Idle

\* A refused uid means a full ring, but for the slot of the take called out.
LEMMA PutRefusedInOrder ==
  ASSUME ClaimInv, PassInv, TakesAreSerial, executor = "up", PutRefused
  PROVE  TakesAreSerial'
  <1>1. /\ TypeOK /\ pass.at = "putting" /\ ~PutAccepted /\ ~returned
        /\ pass' = [pass EXCEPT !.at = "handler"]
        /\ UNCHANGED <<tail, cursor, frames, produced, given, returned>>
    BY DEF PutRefused, PutRejected, vars, ringVars, history, TakesAreSerial, ClaimInv,
        SlotInv
  <1>2. pass \in Pass /\ pass # NoPass
    BY <1>1 DEF PassInv, PassTypeOK, NoPass
  <1>3. /\ pass' # NoPass /\ pass'.at = "handler"
        /\ pass'.by = pass.by /\ pass'.depth = pass.depth
    BY <1>1, <1>2 DEF Pass, NoPass
  <1>4. tail - cursor >= PaddingThreshold
    <2>1. tail - cursor >= BufferSize - 1
      BY <1>1, RefusedWhenFull, SerialStack
    <2> QED BY <2>1, SizeType, ThresholdType DEF ClaimInv, SlotInv, TypeOK, Position
  <1> QED BY <1>1, <1>2, <1>3, <1>4 DEF TakesAreSerial, PaddingThreshold

\* A pass that ends hands over to the take it padded for, which gets the uid at the
\* cursor.
LEMMA PutHandlerReturnsInOrder ==
  ASSUME ClaimInv, PassInv, TakesAreSerial, PutHandlerReturns
  PROVE  TakesAreSerial'
  <1>1. /\ pass.at = "handler" /\ pass # NoPass /\ pass' = NoPass /\ ~returned
        /\ pass.by = "take" => PaddingReturns
        /\ pass.by # "take" => UNCHANGED vars
        /\ pass.by = "take" <=> frames # <<>>
        /\ TypeOK /\ SlotInv
        /\ tail - cursor >= PaddingThreshold
        /\ Len(given) = cursor + 1 - Len(frames)
        /\ \A k \in DOMAIN given : given[k] = produced[k]
    BY DEF PutHandlerReturns, InPutHandler, PassOnTop, LeavePass, ClaimInv, SlotInv,
        TakesAreSerial
  <1>2. CASE frames = <<>>
    <2>1. UNCHANGED <<tail, cursor, frames, produced, given, returned>>
      BY <1>1, <1>2 DEF vars, ringVars, history
    <2> QED BY <1>1, <1>2, <2>1 DEF TakesAreSerial, PaddingThreshold
  <1>3. CASE frames # <<>>
    <2>1. /\ Last(frames) = frames[1] /\ DOMAIN frames = {1} /\ Len(frames) = 1
          /\ frames[1].nxt = cursor /\ frames[1].cur # cursor
      BY <1>1, <1>3, SerialStack DEF TakesAreSerial
    <2>2. /\ PopFrame /\ ReadSlot(cursor)
          /\ UNCHANGED <<tail, cursor, slots, produced, returned>>
      BY <1>1, <1>3, <2>1 DEF PaddingReturns
    <2>3. cursor \in Live
      <3>1. cursor \in ClaimedPositions
        BY <2>1 DEF ClaimedPositions, Claims
      <3> QED BY <1>1, <3>1 DEF ClaimInv, ClaimsTracked, ClaimsAreHonoured
    <2>4. cursor \in Int /\ Len(given) = cursor
      BY <1>1, <2>1 DEF TypeOK, Position
    <2>5. /\ Len(given') = cursor + 1
          /\ \A k \in DOMAIN given' : given'[k] = produced'[k]
      BY <1>1, <2>2, <2>3, <2>4, DeliverNext
    <2>6. Len(frames') = 0 /\ DOMAIN frames' = 1 .. Len(frames')
      BY <1>1, <1>3, <2>1, <2>2, PoppedFrame
    <2>7. frames' = <<>>
      BY <1>1, <1>3, <2>2, <2>6, PoppedFrame
    <2> QED BY <1>1, <2>2, <2>4, <2>5, <2>6, <2>7 DEF TakesAreSerial, PaddingThreshold
  <1> QED BY <1>2, <1>3

\* A pass that was cut short by an exception leaves `running` set for good.
LEMMA DisturbedForGood ==
  ASSUME PassInv, [PaddingNext]_allVars, Undisturbed'
  PROVE  Undisturbed
  <1> SUFFICES ASSUME running, pass = NoPass PROVE FALSE
    BY DEF Undisturbed, PaddingThreshold
  <1>1. ~running' \/ pass' # NoPass
    BY DEF Undisturbed
  <1>2. ~PassStep \/ AsyncPaddingSkipped
    BY DEF PassStep, AsyncPaddingBegins, BeginPass, AskProvider, PutNext, PutRefused,
        PutHandlerReturns, PutHandlerThrows, PutHandlerPuts, InPutHandler, PassOnTop
  <1>3. UNCHANGED <<running, pass>>
    BY <1>2 DEF PaddingNext, ClientTakes, TakeHandlerEnds, PaddingBufferCalled, BeginPass,
        AsyncPaddingSkipped, TimerFires, TimerFiresAfterShutdown, TimerBeginsPass,
        TimerSkipsPass, Wire, Start, Shutdown, padVars, allVars
  <1> QED BY <1>1, <1>3

\* Every step of a ring in use, with nothing nested in its passes, keeps the takes
\* in order.
LEMMA InOrderStep ==
  ASSUME UidsAreNaturals, ClaimInv, PassInv, TakesAreSerial, Undisturbed,
         [PaddingNext]_allVars, executor = "up", executor' = "up", Undisturbed'
  PROVE  TakesAreSerial'
  <1>1. TypeOK /\ SlotInv
    BY DEF ClaimInv, SlotInv
  <1>2. StackInOrder /\ Len(frames) \in Nat
        /\ (frames # <<>> => Last(frames).at # "handler")
    BY <1>1, SerialStack
  <1>3. CASE ClientTakes
    BY <1>3, ClientTakesInOrder
  <1>4. CASE TakeHandlerEnds
    BY <1>2, <1>4 DEF TakeHandlerEnds, HandlerThrows, HandlerReturns
  <1>5. CASE AsyncPaddingBegins
    BY <1>1, <1>5, BeginPassInOrder DEF AsyncPaddingBegins, TakeOnTop
  <1>6. CASE PaddingBufferCalled
    BY <1>1, <1>6, BeginPassInOrder DEF PaddingBufferCalled, Idle
  <1>7. CASE TimerFires /\ TimerBeginsPass
    BY <1>1, <1>7, BeginPassInOrder DEF TimerFires, TimerBeginsPass, Idle
  <1>8. CASE AsyncPaddingSkipped
    BY <1>2, <1>8
    DEF AsyncPaddingSkipped, TakeOnTop, PassOnTop, Undisturbed, StackInOrder
  <1>9. CASE AskProvider
    <2>1. /\ pass.at = "provider" /\ pass # NoPass
          /\ pass' = [pass EXCEPT !.at = "putting", !.next = 0]
          /\ UNCHANGED <<cursor, frames, produced, given, returned>>
      BY <1>9 DEF AskProvider, PassOnTop, vars, ringVars, history
    <2>2. pass \in Pass
      BY <2>1 DEF PassInv, PassTypeOK
    <2>3. /\ pass' \in Pass /\ pass'.at # "handler"
          /\ pass'.by = pass.by /\ pass'.depth = pass.depth
      BY <2>1, <2>2 DEF Pass
    <2>4. \A k \in DOMAIN given' : given'[k] = produced'[k]
      BY <2>1 DEF TakesAreSerial
    <2> QED BY <1>1, <2>1, <2>2, <2>3, <2>4, InsidePassInOrder
  <1>10. ASSUME Put(uidOf(lastSecond, pass.next)), pass.at \in {"putting", "handler"}
         PROVE  \A k \in DOMAIN given' : given'[k] = produced'[k]
    <2>1. uidOf(lastSecond, pass.next) \in Uid
      <3>1. lastSecond \in Nat /\ pass.next \in Nat
        BY PassPlaces DEF PassInv, PassTypeOK
      <3> QED BY <3>1, UidOrder DEF UidsAreNaturals
    <2> QED BY <1>1, <1>2, <1>10, <2>1, GivenStaysInOrder DEF TakesAreSerial
  <1>11. CASE PutNext
    <2> DEFINE place == IF pass.next + 1 = UidsPerSecond THEN "provider" ELSE "putting"
               next == pass.next + 1
    <2>1. /\ pass.at = "putting" /\ pass # NoPass
          /\ pass' = [pass EXCEPT !.next = next, !.at = place]
          /\ UNCHANGED <<cursor, frames, given, returned>>
          /\ Put(uidOf(lastSecond, pass.next))
      BY <1>11 DEF PutNext, PassOnTop, Put
    <2>2. /\ pass \in Pass /\ place \in {"provider", "putting"} /\ next \in Nat
      BY <2>1 DEF PassInv, PassTypeOK, Pass
    <2> HIDE DEF place, next
    <2>3. /\ pass' \in Pass /\ pass'.at # "handler"
          /\ pass'.by = pass.by /\ pass'.depth = pass.depth
      BY <2>1, <2>2 DEF Pass
    <2> QED BY <1>1, <1>10, <2>1, <2>2, <2>3, InsidePassInOrder
  <1>12. CASE PutRefused
    BY <1>12, PutRefusedInOrder
  <1>13. CASE PutHandlerReturns
    BY <1>13, PutHandlerReturnsInOrder
  <1>14. CASE PutHandlerThrows
    <2>1. running /\ UNCHANGED running /\ pass' = NoPass
      BY <1>14 DEF PutHandlerThrows, InPutHandler, PassOnTop, LeavePass, PassInv,
          RunningFlag
    <2> QED BY <2>1 DEF Undisturbed
  <1>15. CASE PutHandlerPuts
    <2>1. /\ pass.at = "handler" /\ Put(uidOf(lastSecond, pass.next))
          /\ UNCHANGED <<pass, cursor, frames, given, returned>> /\ tail' = tail + 1
          /\ pass # NoPass
      BY <1>15 DEF PutHandlerPuts, InPutHandler, PassOnTop, Put, padVars
    <2>2. tail' - cursor' >= PaddingThreshold
      BY <1>1, <2>1, ThresholdType DEF TakesAreSerial, TypeOK, Position
    <2> QED BY <1>10, <2>1, <2>2 DEF TakesAreSerial, PaddingThreshold
  <1>16. ASSUME UNCHANGED <<tail, cursor, frames, produced, given, returned, pass>>
         PROVE  TakesAreSerial'
    BY <1>16 DEF TakesAreSerial, Idle, PaddingThreshold
  <1>17. CASE Wire \/ Start \/ Shutdown
    BY <1>16, <1>17 DEF Wire, Start, Shutdown, SetBufferPaddingExecutor,
        ShutdownExecutor, padVars, vars, ringVars, history
  <1>18. CASE TimerFiresAfterShutdown \/ TimerSkipsPass \/ UNCHANGED allVars
    BY <1>16, <1>18 DEF TimerFiresAfterShutdown, TimerSkipsPass, allVars, padVars, vars,
        ringVars, history
  <1> QED BY <1>3, <1>4, <1>5, <1>6, <1>7, <1>8, <1>9, <1>11, <1>12, <1>13, <1>14,
      <1>15, <1>17, <1>18 DEF PaddingNext, PassStep, TimerFires

\* Only the wiring turns the pool up.
LEMMA UpWasUp ==
  ASSUME CachedInv, [CachedNext]_cachedVars, phase \in {"filling", "ready"},
         executor' = "up"
  PROVE  executor = "up"
  <1>1. \/ ClientTakes \/ TakeHandlerEnds \/ PassStep \/ TimerFires \/ Start \/ Shutdown
        \/ UNCHANGED allVars
    BY DEF CachedNext, AfterPropertiesSet, AssignmentFails, InitRingBuffer, FillSlots,
        FillThrows, StartPadding, CallTooEarly, GetUID, Destroy, Scheduled, Padding,
        cachedVars, PassStep
  <1>2. CASE ClientTakes \/ TakeHandlerEnds
    BY <1>2, FramesKeepCursor
    DEF ClientTakes, TakeDirectly, TakeCallsPadding, TakeRefusedByPool,
        TakeCallsHandler, TakeHandlerEnds
  <1>3. CASE PassStep
    BY <1>3, FramesKeepCursor
    DEF PassStep, AsyncPaddingBegins, AsyncPaddingSkipped, BeginPass, AskProvider,
        PutNext, PutRefused, PutRejected, PutHandlerReturns, PutHandlerThrows,
        PutHandlerPuts, Put, LeavePass, vars
  <1>4. CASE TimerFires \/ Start \/ Shutdown \/ UNCHANGED allVars
    BY <1>4
    DEF TimerFires, TimerFiresAfterShutdown, TimerBeginsPass, TimerSkipsPass, BeginPass,
        Start, Shutdown, ShutdownExecutor, allVars, vars
  <1> QED BY <1>1, <1>2, <1>3, <1>4

\* A ring in use gives its uids in order.
LEMMA TakesInOrderStep ==
  ASSUME UidsAreNaturals, CachedInv, ClaimInv, PassInv, [CachedNext]_cachedVars
  PROVE  TakesInOrder'
  <1> SUFFICES ASSUME phase' \in {"filling", "ready"}, executor' = "up", Undisturbed'
               PROVE  TakesAreSerial'
    BY DEF TakesInOrder
  <1>1. TypeOK /\ [PaddingNext]_allVars
    BY CachedStepIsPaddingStep DEF ClaimInv, SlotInv
  <1>2. CASE phase = "wired" /\ FillSlots
    <2>1. /\ frames' = <<>> /\ cursor' = -1 /\ given' = <<>> /\ ~returned'
          /\ pass' = [at |-> "provider", by |-> "direct", depth |-> 0, next |-> 0]
      BY <1>1, <1>2, FillSlotsBegins
    <2>2. /\ ~Idle' /\ pass'.at = "provider" /\ pass'.by = "direct" /\ pass'.depth = 0
          /\ Len(frames') = 0 /\ Len(given') = 0 /\ DOMAIN given' = {}
      BY <2>1 DEF Idle, NoPass
    <2>3. pass' # NoPass => /\ pass'.depth = Len(frames')
                            /\ pass'.by = "take" <=> frames' # <<>>
      BY <2>1, <2>2
    <2>4. Len(given') = cursor' + 1 - Len(frames')
      <3>1. cursor' = -1 /\ Len(frames') = 0 /\ Len(given') = 0
        BY <2>1, <2>2
      <3> QED BY <3>1
    <2> QED BY <2>1, <2>2, <2>3, <2>4 DEF TakesAreSerial
  <1>3. CASE phase \in {"filling", "ready"}
    <2>1. executor = "up" /\ Undisturbed
      BY <1>1, <1>3, UpWasUp, DisturbedForGood
    <2>2. TakesAreSerial
      BY <1>3, <2>1 DEF CachedInv, TakesInOrder
    <2> QED BY <1>1, <2>1, <2>2, InOrderStep
  <1> QED BY <1>2, <1>3, PhaseOfUse

-----------------------------------------------------------------------------
(* The seconds borrowed *)

\* A later second has greater uids.
LEMMA LaterSecondIsGreater ==
  ASSUME NEW s \in Nat, NEW t \in Nat, s <= t, NEW i \in Nat
  PROVE  uidOf(s, 0) \in Nat /\ uidOf(t, i) \in Nat /\ uidOf(s, 0) <= uidOf(t, i)
  <1>1. /\ s * UidsPerSecond \in Nat /\ t * UidsPerSecond \in Nat
        /\ (t - s) * UidsPerSecond >= 0
        /\ t * UidsPerSecond = s * UidsPerSecond + (t - s) * UidsPerSecond
    BY BatchType
  <1> QED BY <1>1, BatchType DEF uidOf

\* Every batch put is of a second after the start.
LEMMA SecondsStep ==
  ASSUME PassInv, SecondsAreAfterStart, [PaddingNext]_allVars
  PROVE  SecondsAreAfterStart'
  <1>1. /\ lastSecond \in Nat /\ lastSecond >= StartSecond /\ produced \in Seq(Nat)
        /\ pass.at \in {"putting", "handler"} => lastSecond > StartSecond
        /\ \A i \in DOMAIN produced : produced[i] >= uidOf(StartSecond + 1, 0)
        /\ pass \in Pass \union {NoPass} /\ pass.next \in Nat
    BY PassPlaces DEF SecondsAreAfterStart, PassInv, PassTypeOK
  <1>2. ASSUME UNCHANGED <<lastSecond, produced>>,
               pass'.at \in {"putting", "handler"} => pass.at \in {"putting", "handler"}
        PROVE  SecondsAreAfterStart'
    BY <1>2 DEF SecondsAreAfterStart, uidOf
  <1>3. CASE ClientTakes \/ TakeHandlerEnds \/ AsyncPaddingSkipped \/ Wire
    BY <1>2, <1>3, OnlyPutProduces
    DEF ClientTakes, TakeHandlerEnds, AsyncPaddingSkipped, Wire, padVars
  <1>4. CASE AsyncPaddingBegins \/ PaddingBufferCalled \/ (TimerFires /\ TimerBeginsPass)
    <2>1. pass'.at = "provider" /\ UNCHANGED <<lastSecond, produced>>
      BY <1>4 DEF AsyncPaddingBegins, PaddingBufferCalled, TimerFires, TimerBeginsPass,
          BeginPass, vars, history
    <2> QED BY <1>2, <2>1
  <1>5. CASE AskProvider
    <2>1. lastSecond' = lastSecond + 1 /\ UNCHANGED produced
      BY <1>5 DEF AskProvider, vars, history
    <2> QED BY <1>1, <2>1, BatchType DEF SecondsAreAfterStart, uidOf
  <1>6. CASE PutNext \/ PutHandlerPuts
    <2> DEFINE u == uidOf(lastSecond, pass.next)
    <2>1. /\ pass.at \in {"putting", "handler"} /\ UNCHANGED lastSecond
          /\ produced' = Append(produced, u)
      BY <1>6 DEF PutNext, PutHandlerPuts, InPutHandler, Put, padVars
    <2>2. u \in Nat /\ u >= uidOf(StartSecond + 1, 0)
      <3>1. /\ StartSecond + 1 \in Nat /\ StartSecond + 1 <= lastSecond
            /\ lastSecond \in Nat /\ pass.next \in Nat
        BY <1>1, <2>1, BatchType
      <3>2. /\ uidOf(StartSecond + 1, 0) \in Nat /\ u \in Nat
            /\ uidOf(StartSecond + 1, 0) <= u
        BY <3>1, LaterSecondIsGreater
      <3> HIDE DEF u
      <3> QED BY <3>2
    <2> HIDE DEF u
    <2>3. /\ DOMAIN produced = 1 .. Len(produced)
          /\ DOMAIN produced' = 1 .. Len(produced) + 1
          /\ \A i \in 1 .. Len(produced) : produced'[i] = produced[i]
          /\ produced'[Len(produced) + 1] = u
      BY <1>1, <2>1, <2>2, AppendKeeps
    <2>4. \A i \in DOMAIN produced' : produced'[i] >= uidOf(StartSecond + 1, 0)
      BY <1>1, <2>2, <2>3
    <2> QED BY <1>1, <2>1, <2>4 DEF SecondsAreAfterStart, uidOf
  <1>7. CASE PutRefused
    BY <1>2, <1>7, OnlyPutProduces DEF PutRefused
  <1>8. CASE PutHandlerReturns \/ PutHandlerThrows
    <2>1. LeavePass
      BY <1>8 DEF PutHandlerReturns, PutHandlerThrows
    <2>2. UNCHANGED <<lastSecond, produced>> /\ pass'.at = "none"
      BY <2>1, OnlyPutProduces DEF LeavePass, NoPass
    <2> QED BY <1>2, <2>2
  <1>9. CASE Start \/ Shutdown
    BY <1>2, <1>9, OnlyPutProduces DEF Start, Shutdown
  <1>10. CASE TimerFiresAfterShutdown \/ TimerSkipsPass \/ UNCHANGED allVars
    BY <1>2, <1>10 DEF TimerFiresAfterShutdown, TimerSkipsPass, allVars, padVars, vars,
        history
  <1> QED BY <1>3, <1>4, <1>5, <1>6, <1>7, <1>8, <1>9, <1>10
      DEF PaddingNext, PassStep, TimerFires

-----------------------------------------------------------------------------
(* The generator *)

\* The generator begins with nothing made.
LEMMA InitialCached == CachedInit => CachedInv
  <1> SUFFICES ASSUME CachedInit PROVE CachedInv
    OBVIOUS
  <1>1. /\ phase = "new" /\ frames = <<>> /\ pass = NoPass /\ running = FALSE
        /\ returned = FALSE /\ tail = START_POINT /\ given = <<>> /\ produced = <<>>
        /\ lastSecond = StartSecond
    BY DEF CachedInit, PaddingInit, Init
  <1>2. NothingBegun /\ FilledFirst /\ TakesInOrder
    BY <1>1 DEF NothingBegun, FilledFirst, TakesInOrder, Idle
  <1>3. SecondsAreAfterStart
    BY <1>1, BatchType DEF SecondsAreAfterStart, NoPass
  <1> QED BY <1>1, <1>2, <1>3 DEF CachedInv

\* The inductive invariant of the generator, with those of the ring and the passes.
THEOREM CachedInvariant ==
  ASSUME UidsAreNaturals PROVE CachedSpec => [](ClaimInv /\ PassInv /\ CachedInv)
  <1>1. CachedInit => CachedInv
    BY InitialCached
  <1>2. ClaimInv /\ PassInv /\ CachedInv /\ [CachedNext]_cachedVars => CachedInv'
    <2> SUFFICES ASSUME ClaimInv, PassInv, CachedInv, [CachedNext]_cachedVars
                 PROVE  CachedInv'
      OBVIOUS
    <2>1. SecondsAreAfterStart'
      BY CachedStepIsPaddingStep, SecondsStep DEF CachedInv
    <2> QED BY <2>1, NothingBegunStep, FilledFirstStep, TakesInOrderStep DEF CachedInv
  <1> QED BY <1>1, <1>2, CachedIsPadding, PaddingInvariant, PTL DEF CachedSpec

\* Type correctness of the generator, its executor and its ring.
THEOREM CachedTypeCorrect ==
  ASSUME UidsAreNaturals PROVE CachedSpec => []CachedTypeOK
  <1>1. PaddingTypeOK /\ CachedInv => CachedTypeOK
    BY DEF CachedInv, CachedTypeOK
  <1> QED BY <1>1, CachedInvariant, CachedIsPadding, PaddingTypeCorrect, PTL

\* "During RingBuffer initializing, the entire RingBuffer will be filled": nothing is
\* taken before every slot has its uid.
THEOREM ReadyMeansFull ==
  ASSUME UidsAreNaturals PROVE CachedSpec => []FullWhenReady
  <1>1. CachedInv => FullWhenReady
    BY DEF CachedInv, FilledFirst, FullWhenReady, Idle, NoPass
  <1> QED BY <1>1, CachedInvariant, PTL

\* With a threshold, and nothing that takes or throws inside a pass, getUID() of a
\* ready generator gives the uids in the order they were generated.
THEOREM ReadyGivesInOrder ==
  ASSUME UidsAreNaturals PROVE CachedSpec => []ReadyNeverFails
  <1>1. ASSUME ClaimInv, CachedInv PROVE ReadyNeverFails
    <2> SUFFICES ASSUME phase = "ready", executor = "up", Undisturbed
                 PROVE  /\ \A k \in DOMAIN frames : frames[k].at # "handler"
                        /\ given = SubSeq(produced, 1, Len(given))
      BY DEF ReadyNeverFails
    <2>1. TakesAreSerial /\ TypeOK /\ SlotInv
      BY <1>1 DEF CachedInv, TakesInOrder, ClaimInv, SlotInv
    <2>2. \A k \in DOMAIN frames : frames[k].at # "handler"
      <3>1. frames # <<>> => DOMAIN frames = {1} /\ frames[1].at # "handler"
        BY <2>1, SerialStack DEF TakesAreSerial
      <3> QED BY <3>1
    <2>3. given = SubSeq(produced, 1, Len(given))
      <3> DEFINE n == Len(given)
      <3>1. /\ given \in Seq(Uid \union {ZeroUid}) /\ produced \in Seq(Uid)
            /\ n \in Nat /\ n <= Len(produced)
            /\ \A k \in 1 .. n : given[k] = produced[k]
        <4>1. /\ given \in Seq(Uid \union {ZeroUid}) /\ produced \in Seq(Uid)
              /\ Len(produced) = tail + 1 /\ tail \in Int /\ cursor \in Int
              /\ cursor <= tail
          BY <2>1 DEF SlotInv, TypeOK, Position, HistoryOK
        <4>2. n = cursor + 1 - Len(frames) /\ Len(frames) \in Nat
          BY <2>1, SerialStack DEF TakesAreSerial
        <4>3. \A k \in 1 .. n : given[k] = produced[k]
          BY <2>1, <4>1 DEF TakesAreSerial
        <4> QED BY <4>1, <4>2, <4>3
      <3> QED BY <3>1
    <2> QED BY <2>2, <2>3
  <1> QED BY <1>1, CachedInvariant, PTL

-----------------------------------------------------------------------------
(* The longs *)

\* The n-th uid since second 0 is one of its second's, at its offset.
LEMMA SecondAndOffset ==
  ASSUME NEW n \in Nat
  PROVE  /\ n \div UidsPerSecond \in Nat /\ n % UidsPerSecond \in Offsets
         /\ n = uidOf(n \div UidsPerSecond, n % UidsPerSecond)
         /\ \A s \in Nat : uidOf(s, 0) <= n <=> s <= n \div UidsPerSecond
  <1> DEFINE q == n \div UidsPerSecond
             r == n % UidsPerSecond
  <1>1. /\ q \in Nat /\ r \in 0 .. UidsPerSecond - 1 /\ n = UidsPerSecond * q + r
        /\ UidsPerSecond \in Nat \ {0}
    BY BatchType
  <1> HIDE DEF q, r
  <1>2. n = uidOf(q, r) /\ r \in Offsets
    BY <1>1 DEF uidOf, Offsets
  <1>3. ASSUME NEW s \in Nat PROVE uidOf(s, 0) <= n <=> s <= q
    <2>1. CASE s <= q
      BY <1>1, <1>2, <2>1, LaterSecondIsGreater
    <2>2. CASE q + 1 <= s
      <3>1. uidOf(q + 1, 0) <= uidOf(s, 0) /\ uidOf(q + 1, 0) \in Nat
            /\ uidOf(s, 0) \in Nat
        <4>1. q + 1 \in Nat /\ 0 \in Nat
          BY <1>1
        <4> QED BY <2>2, <4>1, LaterSecondIsGreater
      <3>2. n < uidOf(q + 1, 0)
        <4>1. uidOf(q + 1, 0) = uidOf(q, UidsPerSecond)
          BY <1>1, UidOrder
        <4>2. uidOf(q, r) < uidOf(q, UidsPerSecond)
          BY <1>1, UidOrder
        <4> QED BY <1>2, <4>1, <4>2
      <3> QED BY <1>1, <2>2, <3>1, <3>2
    <2> QED BY <1>1, <2>1, <2>2
  <1> QED BY <1>1, <1>2, <1>3 DEF q, r

\* A uid that was given was put: its second is one that was asked for.
LEMMA GivenSeconds ==
  ASSUME NoUidTwice, PassInv, CachedInv, ProducedInOrder, NEW k \in DOMAIN given
  PROVE  /\ given[k] \in Nat
         /\ given[k] \div UidsPerSecond \in StartSecond + 1 .. lastSecond
         /\ InRange(k) => given[k] \div UidsPerSecond \in SecondsInRange
  <1> DEFINE q == given[k] \div UidsPerSecond
  <1>1. PICK i \in DOMAIN produced : given[k] = produced[i]
    BY DEF NoUidTwice, Range
  <1>2. /\ given[k] \in Nat /\ lastSecond \in Nat /\ StartSecond \in Nat
        /\ uidOf(StartSecond + 1, 0) <= given[k]
        /\ given[k] < uidOf(lastSecond + 1, 0)
    <2>1. produced \in Seq(Nat) /\ lastSecond \in Nat
      BY DEF PassInv, PassTypeOK
    <2>2. produced[i] >= uidOf(StartSecond + 1, 0) /\ produced[i] < uidOf(lastSecond + 1, 0)
      BY <1>1 DEF CachedInv, SecondsAreAfterStart, ProducedInOrder
    <2>3. uidOf(StartSecond + 1, 0) \in Nat /\ uidOf(lastSecond + 1, 0) \in Nat
      BY <2>1, BatchType, UidOrder
    <2> QED BY <1>1, <2>1, <2>2, <2>3, BatchType
  <1>3. q \in Nat /\ StartSecond + 1 <= q
    BY <1>2, SecondAndOffset
  <1>4. q <= lastSecond
    <2>1. uidOf(lastSecond + 1, 0) \in Nat /\ lastSecond + 1 \in Nat
      BY <1>2, UidOrder
    <2>2. ~(uidOf(lastSecond + 1, 0) <= given[k])
      BY <1>2, <2>1
    <2>3. ~(lastSecond + 1 <= q)
      BY <1>2, <2>1, <2>2, SecondAndOffset
    <2> QED BY <1>2, <1>3, <2>3
  <1>5. InRange(k) => q \in SecondsInRange
    <2> SUFFICES ASSUME InRange(k) PROVE q \in SecondsInRange
      OBVIOUS
    <2>1. q - epochSeconds \in 0 .. maxDeltaSeconds
      BY DEF InRange
    <2>2. q = epochSeconds + (q - epochSeconds)
      <3> HIDE DEF q
      <3> QED BY <1>3, CachedAssumption
    <2> QED BY <2>1, <2>2 DEF SecondsInRange
  <1> QED BY <1>2, <1>3, <1>4, <1>5

\* The uids of a second in range are those of its delta.
LEMMA UidsOfSecondInRange ==
  ASSUME NEW s \in SecondsInRange, NEW i \in Offsets
  PROVE  /\ i \in 0 .. maxSequence /\ s - epochSeconds \in 0 .. maxDeltaSeconds
         /\ s \in Int
         /\ nextIdsForOneSecond(s)[i] = allocate(s - epochSeconds, workerId, i)
  <1>1. /\ maxDeltaSeconds \in Nat /\ maxSequence \in Nat
        /\ epochSeconds \in Nat /\ UidsPerSecond = maxSequence + 1
    BY CachedAssumption, LargestValues
  <1>2. PICK d \in 0 .. maxDeltaSeconds : s = epochSeconds + d
    BY DEF SecondsInRange
  <1>3. /\ i \in 0 .. maxSequence /\ s - epochSeconds = d /\ s \in Int /\ d \in Int
    BY <1>1, <1>2 DEF Offsets
  <1>4. subtract(s, epochSeconds) = d
    BY <1>3, SecondsAreLongs DEF subtract
  <1>5. uidsOfSecond(d, workerId)[i] = allocate(d, workerId, i)
    BY <1>3, CachedAssumption, OffsetsAreSequences
  <1> QED BY <1>3, <1>4, <1>5 DEF nextIdsForOneSecond

\* LayoutParses: parseUID() finds the worker id and the second of a uid.
THEOREM EveryLayoutParses == LayoutParses
  <1> SUFFICES ASSUME NEW s \in SecondsInRange, NEW i \in Offsets
               PROVE  /\ parseWorkerId(nextIdsForOneSecond(s)[i]) = workerId
                      /\ parseDeltaSeconds(nextIdsForOneSecond(s)[i]) + epochSeconds = s
    BY DEF LayoutParses
  <1> DEFINE d == s - epochSeconds
  <1>1. /\ i \in 0 .. maxSequence /\ d \in 0 .. maxDeltaSeconds /\ s \in Int
        /\ nextIdsForOneSecond(s)[i] = allocate(d, workerId, i)
    BY UidsOfSecondInRange
  <1>2. d \in 0 .. 2 * maxDeltaSeconds + 1 /\ d + epochSeconds = s
    BY <1>1, LargestValues, CachedAssumption
  <1> HIDE DEF d
  <1>3. /\ parseDeltaSeconds(allocate(d, workerId, i)) = d
        /\ parseWorkerId(allocate(d, workerId, i)) = workerId
    BY <1>1, <1>2, CachedAssumption, ParsingInvertsAllocating
  <1> QED BY <1>1, <1>2, <1>3

\* LayoutIsInjective: no two uids of seconds in range are the same long.
THEOREM EveryLayoutIsInjective == LayoutIsInjective
  <1> SUFFICES ASSUME NEW s \in SecondsInRange, NEW t \in SecondsInRange,
                      NEW i \in Offsets, NEW j \in Offsets,
                      nextIdsForOneSecond(s)[i] = nextIdsForOneSecond(t)[j]
               PROVE  s = t /\ i = j
    BY DEF LayoutIsInjective
  <1> DEFINE d == s - epochSeconds
             e == t - epochSeconds
  <1>1. s = t
    BY EveryLayoutParses DEF LayoutParses
  <1>2. /\ i \in 0 .. maxSequence /\ d \in 0 .. maxDeltaSeconds
        /\ nextIdsForOneSecond(s)[i] = allocate(d, workerId, i)
        /\ j \in 0 .. maxSequence /\ e \in 0 .. maxDeltaSeconds
        /\ nextIdsForOneSecond(t)[j] = allocate(e, workerId, j)
    BY UidsOfSecondInRange
  <1>3. d \in 0 .. 2 * maxDeltaSeconds + 1 /\ e \in 0 .. 2 * maxDeltaSeconds + 1
    BY <1>2, LargestValues
  <1> HIDE DEF d, e
  <1>4. /\ parseSequence(allocate(d, workerId, i)) = i
        /\ parseSequence(allocate(e, workerId, j)) = j
    BY <1>2, <1>3, CachedAssumption, ParsingInvertsAllocating
  <1> QED BY <1>1, <1>2, <1>4

\* "Get a unique ID": no two calls of getUID() return the same long, while the
\* seconds fit their field.
THEOREM UidsAreUnique ==
  ASSUME UidsAreNaturals PROVE CachedSpec => []UniqueUids
  <1>1. ASSUME ClaimInv, PassInv, CachedInv, ProducedInOrder PROVE UniqueUids
    <2> SUFFICES ASSUME NEW j \in DOMAIN given, NEW k \in DOMAIN given,
                        InRange(j), InRange(k), Uids[j] = Uids[k]
                 PROVE  j = k
      BY DEF UniqueUids
    <2> DEFINE s == given[j] \div UidsPerSecond
               t == given[k] \div UidsPerSecond
               a == given[j] % UidsPerSecond
               b == given[k] % UidsPerSecond
    <2>1. NoUidTwice
      BY <1>1 DEF ClaimInv, SlotInv
    <2>2. /\ given[j] \in Nat /\ given[k] \in Nat
          /\ s \in SecondsInRange /\ t \in SecondsInRange
      BY <1>1, <2>1, GivenSeconds
    <2>3. /\ a \in Offsets /\ b \in Offsets
          /\ given[j] = uidOf(s, a) /\ given[k] = uidOf(t, b)
      BY <2>2, SecondAndOffset
    <2>4. nextIdsForOneSecond(s)[a] = nextIdsForOneSecond(t)[b]
      BY DEF Uids, uid
    <2>5. s = t /\ a = b
      <3> HIDE DEF s, t, a, b
      <3> QED BY <2>2, <2>3, <2>4, EveryLayoutIsInjective DEF LayoutIsInjective
    <2>6. given[j] = given[k]
      <3> HIDE DEF s, t, a, b
      <3> QED BY <2>3, <2>5
    <2> QED BY <2>1, <2>6 DEF NoUidTwice
  <1> QED BY <1>1, CachedInvariant, CachedIsPadding, UidsEnterInOrder, PTL

\* parseUID(getUID()) names this worker and a second that was asked for after the
\* start, while the seconds fit their field.
THEOREM UidsParseBack ==
  ASSUME UidsAreNaturals PROVE CachedSpec => []UidsParseToUs
  <1>1. ASSUME ClaimInv, PassInv, CachedInv, ProducedInOrder PROVE UidsParseToUs
    <2> SUFFICES ASSUME NEW k \in DOMAIN given, InRange(k)
                 PROVE  /\ parseWorkerId(Uids[k]) = workerId
                        /\ parseDeltaSeconds(Uids[k]) + epochSeconds
                             \in StartSecond + 1 .. lastSecond
      BY DEF UidsParseToUs
    <2> DEFINE s == given[k] \div UidsPerSecond
               a == given[k] % UidsPerSecond
    <2>1. /\ given[k] \in Nat /\ s \in SecondsInRange
          /\ s \in StartSecond + 1 .. lastSecond
      BY <1>1, GivenSeconds DEF ClaimInv, SlotInv
    <2>2. a \in Offsets
      BY <2>1, SecondAndOffset
    <2>3. Uids[k] = nextIdsForOneSecond(s)[a]
      BY DEF Uids, uid
    <2> HIDE DEF s, a
    <2>4. /\ parseWorkerId(Uids[k]) = workerId
          /\ parseDeltaSeconds(Uids[k]) + epochSeconds = s
      BY <2>1, <2>2, <2>3, EveryLayoutParses DEF LayoutParses
    <2> QED BY <2>1, <2>4
  <1> QED BY <1>1, CachedInvariant, CachedIsPadding, UidsEnterInOrder, PTL
\* A uid whose seconds fit their field has its highest bit clear.
SignIsOfRange == \A k \in DOMAIN given : InRange(k) => Uids[k] >= 0

\* "The highest bit is always 0", of every uid of a second that fits its field: one
\* borrowed beyond the field is the only way to a negative uid.
THEOREM NegativeOnlyBeyondRange ==
  ASSUME UidsAreNaturals PROVE CachedSpec => []SignIsOfRange
  <1>1. ASSUME ClaimInv, PassInv, CachedInv, ProducedInOrder PROVE SignIsOfRange
    <2> SUFFICES ASSUME NEW k \in DOMAIN given, InRange(k) PROVE Uids[k] >= 0
      BY DEF SignIsOfRange
    <2> DEFINE s == given[k] \div UidsPerSecond
               a == given[k] % UidsPerSecond
               d == s - epochSeconds
    <2>1. given[k] \in Nat /\ s \in SecondsInRange
      BY <1>1, GivenSeconds DEF ClaimInv, SlotInv
    <2>2. a \in Offsets
      BY <2>1, SecondAndOffset
    <2>3. Uids[k] = nextIdsForOneSecond(s)[a]
      BY DEF Uids, uid
    <2> HIDE DEF s, a
    <2>4. /\ a \in 0 .. maxSequence /\ d \in 0 .. maxDeltaSeconds
          /\ Uids[k] = allocate(d, workerId, a)
      BY <2>1, <2>2, <2>3, UidsOfSecondInRange
    <2> HIDE DEF d
    <2>5. allocate(d, workerId, a) \in Nat
      BY <2>4, CachedAssumption, AllocateKeepsOrder
    <2> QED BY <2>4, <2>5
  <1> QED BY <1>1, CachedInvariant, CachedIsPadding, UidsEnterInOrder, PTL
=============================================================================
