----------------------------- MODULE RingBuffer -----------------------------
(***************************************************************************)
(* buffer/ring-buffer.ts: the double ring (slots and flags) that holds the *)
(* uids generated ahead of their use.                                      *)
(*                                                                         *)
(* The program runs on one JavaScript thread, so put() and take() are      *)
(* never preempted.  What interleaves is RE-ENTRANCY: take() moves the     *)
(* cursor first, then calls out (asyncPadding(), then the rejected-take    *)
(* handler), and only then reads the slot it claimed.  Whatever runs       *)
(* inside those calls may put and take on the same ring.  A take that has  *)
(* called out is a frame of the call stack `frames`; calls nest, so only   *)
(* the last frame can continue.                                            *)
(*                                                                         *)
(* The client of this module is the most general one: any code may run     *)
(* inside a call-out.  BufferPaddingExecutor replaces it by the real one.  *)
(***************************************************************************)
EXTENDS Integers, Sequences, SequencesExt

CONSTANTS
  BufferSize,           \* number of slots
  PaddingFactor,        \* percent of the ring: below it a take asks for padding
  Uid,                  \* the uids a client may put (finite: bounds the model)
  ZeroUid,              \* what a slot holds before its first put (0n)
  TakeHandlerMayReturn, \* the default handler always throws: FALSE
  MaxDepth              \* bound on nested takes (the stack of the runtime)

ASSUME SizeAssumption ==
  /\ BufferSize \in Nat \ {0}
  /\ \E k \in 0 .. BufferSize : BufferSize = 2 ^ k

\* The constructor's check; whole percents.
ASSUME FactorAssumption == PaddingFactor \in 1 .. 99

ASSUME ClientAssumption ==
  /\ TakeHandlerMayReturn \in BOOLEAN
  /\ MaxDepth \in Nat

\* Math.trunc: a small ring or a small factor makes it 0.
PaddingThreshold == (BufferSize * PaddingFactor) \div 100

START_POINT == -1
CAN_PUT_FLAG == 0
CAN_TAKE_FLAG == 1

VARIABLES
  tail,     \* last position produced
  cursor,   \* last position claimed by a take
  slots,    \* slot index -> uid
  flags,    \* slot index -> CAN_PUT_FLAG or CAN_TAKE_FLAG
  executor, \* bufferPaddingExecutor: "none", "up", or "shutdown"
  frames,   \* takes that have called out, innermost last
  produced, \* history: the uids put, in order; position p is produced[p + 1]
  given,    \* history: the uids returned by take(), in order
  lost,     \* history: positions claimed by a take that the pool then refused
  returned  \* history: a rejected-take handler has returned

ringVars == <<tail, cursor, slots, flags>>
history == <<produced, given, lost, returned>>
vars == <<ringVars, executor, frames, history>>

Index == 0 .. BufferSize - 1
Position == Nat \union {START_POINT}

calSlotIndex(sequence) == sequence % BufferSize

\* `at` is where the take is: inside asyncPadding() or inside the handler.
Frame == [cur : Position, nxt : Position, at : {"padding", "handler"}]

TypeOK ==
  /\ tail \in Position
  /\ cursor \in START_POINT .. tail
  /\ slots \in [Index -> Uid \union {ZeroUid}]
  /\ flags \in [Index -> {CAN_PUT_FLAG, CAN_TAKE_FLAG}]
  /\ executor \in {"none", "up", "shutdown"}
  /\ frames \in Seq(Frame)
  /\ produced \in Seq(Uid)
  /\ given \in Seq(Uid \union {ZeroUid})
  /\ lost \subseteq Nat
  /\ returned \in BOOLEAN

Init ==
  /\ tail = START_POINT
  /\ cursor = START_POINT
  /\ slots = [i \in Index |-> ZeroUid]
  /\ flags = [i \in Index |-> CAN_PUT_FLAG]
  /\ executor = "none"
  /\ frames = <<>>
  /\ produced = <<>>
  /\ given = <<>>
  /\ lost = {}
  /\ returned = FALSE

-----------------------------------------------------------------------------
(* put() *)

\* Positions between cursor and tail, the never-consumed ring counted from 0.
Distance == tail - (IF cursor = START_POINT THEN 0 ELSE cursor)

\* Mutant: without the flag pre-check.
PutUnflagged == Distance # BufferSize - 1

PutAccepted ==
  /\ Distance # BufferSize - 1
  /\ flags[calSlotIndex(tail + 1)] = CAN_PUT_FLAG

\* Mutant: the slot of the current tail is written, not that of the next.
PutAtTail(uid) ==
  /\ PutAccepted
  /\ slots' = [slots EXCEPT ![calSlotIndex(tail)] = uid]
  /\ flags' = [flags EXCEPT ![calSlotIndex(tail + 1)] = CAN_TAKE_FLAG]
  /\ tail' = tail + 1
  /\ produced' = Append(produced, uid)
  /\ UNCHANGED <<cursor, executor, frames, given, lost, returned>>

Put(uid) ==
  /\ PutAccepted
  /\ slots' = [slots EXCEPT ![calSlotIndex(tail + 1)] = uid]
  /\ flags' = [flags EXCEPT ![calSlotIndex(tail + 1)] = CAN_TAKE_FLAG]
  /\ tail' = tail + 1
  /\ produced' = Append(produced, uid)
  /\ UNCHANGED <<cursor, executor, frames, given, lost, returned>>

\* put() hands the uid to the rejected-put handler and returns false.  The ring
\* does nothing after the handler, so what the handler does to the ring is
\* the same as doing it next.
PutRejected ==
  /\ ~PutAccepted
  /\ UNCHANGED vars

-----------------------------------------------------------------------------
(* take() *)

\* Mutant: the cursor moves without looking at tail.
NextCursorBlindly == cursor + 1

NextCursor == IF cursor = tail THEN cursor ELSE cursor + 1
TakeFindsUid == cursor # tail
\* Mutant: the fill level before this take is compared.
BelowThresholdBefore == tail - cursor < PaddingThreshold

BelowThreshold == tail - NextCursor < PaddingThreshold
CallsExecutor == BelowThreshold /\ executor # "none"

\* Mutants: no assertion on the flag; the flag is not reset.
ReadSlotUnchecked(position) ==
  /\ given' = Append(given, slots[calSlotIndex(position)])
  /\ flags' = [flags EXCEPT ![calSlotIndex(position)] = CAN_PUT_FLAG]
ReadSlotUnfreed(position) ==
  /\ given' = IF flags[calSlotIndex(position)] = CAN_TAKE_FLAG
                THEN Append(given, slots[calSlotIndex(position)]) ELSE given
  /\ UNCHANGED flags

\* The end of take(): it asserts the flag of its slot, reads the slot, then
\* frees it.  A failed assertion throws and leaves the ring alone.
ReadSlot(position) ==
  LET i == calSlotIndex(position)
  IN  IF flags[i] = CAN_TAKE_FLAG
        THEN /\ given' = Append(given, slots[i])
             /\ flags' = [flags EXCEPT ![i] = CAN_PUT_FLAG]
        ELSE UNCHANGED <<given, flags>>

PushFrame(at) ==
  /\ Len(frames) < MaxDepth
  /\ frames' = Append(frames, [cur |-> cursor, nxt |-> NextCursor, at |-> at])

\* No call-out: the whole of take() in one step.
TakeDirectly ==
  /\ TakeFindsUid
  /\ ~CallsExecutor
  /\ cursor' = NextCursor
  /\ ReadSlot(NextCursor)
  /\ UNCHANGED <<tail, slots, executor, frames, produced, lost, returned>>

\* The rest is below the threshold: asyncPadding() is entered with the
\* cursor already moved.
TakeCallsPadding ==
  /\ CallsExecutor
  /\ executor = "up"
  /\ PushFrame("padding")
  /\ cursor' = NextCursor
  /\ UNCHANGED <<tail, slots, flags, executor, history>>

\* asyncPadding() submits to a pool that was shut down: it throws, take()
\* throws with it, and the position it claimed is never read.
TakeRefusedByPool ==
  /\ CallsExecutor
  /\ executor = "shutdown"
  /\ cursor' = NextCursor
  /\ lost' = IF TakeFindsUid THEN lost \union {NextCursor} ELSE lost
  /\ UNCHANGED <<tail, slots, flags, executor, frames, produced, given>>
  /\ UNCHANGED returned

\* Nothing to take and no padding to ask for: straight to the handler.
TakeCallsHandler ==
  /\ ~TakeFindsUid
  /\ ~CallsExecutor
  /\ PushFrame("handler")
  /\ UNCHANGED <<ringVars, executor, history>>

PopFrame == frames' = Front(frames)

\* Mutant: a padding that failed takes the take down with it.
PaddingAborts ==
  /\ frames # <<>>
  /\ Last(frames).at = "padding"
  /\ PopFrame
  /\ UNCHANGED <<ringVars, executor, history>>

\* asyncPadding() returns to the innermost take, which goes on to its slot,
\* or to the handler if it found the ring empty when it began.
PaddingReturns ==
  /\ frames # <<>>
  /\ Last(frames).at = "padding"
  /\ LET f == Last(frames)
     IN  IF f.nxt = f.cur
           THEN /\ frames' = Append(Front(frames), [f EXCEPT !.at = "handler"])
                /\ UNCHANGED <<flags, given>>
           ELSE /\ PopFrame
                /\ ReadSlot(f.nxt)
  /\ UNCHANGED <<tail, cursor, slots, executor, produced, lost, returned>>

\* exceptionRejectedTakeBuffer(), or a configured handler that throws.
HandlerThrows ==
  /\ frames # <<>>
  /\ Last(frames).at = "handler"
  /\ PopFrame
  /\ UNCHANGED <<ringVars, executor, history>>

\* A configured handler that returns: take() goes on to the slot of the
\* position the cursor had not left.
HandlerReturns ==
  /\ TakeHandlerMayReturn
  /\ frames # <<>>
  /\ Last(frames).at = "handler"
  /\ PopFrame
  /\ ReadSlot(Last(frames).nxt)
  /\ returned' = TRUE
  /\ UNCHANGED <<tail, cursor, slots, executor, produced, lost>>

-----------------------------------------------------------------------------
SetBufferPaddingExecutor ==
  /\ executor = "none"
  /\ executor' = "up"
  /\ UNCHANGED <<ringVars, frames, history>>

\* BufferPaddingExecutor.shutdown(), seen from the ring.
ShutdownExecutor ==
  /\ executor = "up"
  /\ executor' = "shutdown"
  /\ UNCHANGED <<ringVars, frames, history>>

\* The clients never put a uid twice (BufferPaddingExecutor shows that the
\* padding passes do not).
Fresh == Uid \ Range(produced)

Take ==
  \/ TakeDirectly
  \/ TakeCallsPadding
  \/ TakeRefusedByPool
  \/ TakeCallsHandler
  \/ PaddingReturns
  \/ HandlerThrows
  \/ HandlerReturns

Next ==
  \/ \E uid \in Fresh : Put(uid)
  \/ PutRejected
  \/ Take
  \/ SetBufferPaddingExecutor
  \/ ShutdownExecutor

Spec == Init /\ [][Next]_vars

-----------------------------------------------------------------------------
(* Properties *)

\* Positions whose uid was put and not yet returned by a take.
Live == {p \in 0 .. tail : produced[p + 1] \notin Range(given)}

\* A slot is flagged CAN_TAKE exactly when it stores a uid nobody has received.
FlagTracksLive ==
  \A i \in Index :
    flags[i] = CAN_TAKE_FLAG <=> \E p \in Live : calSlotIndex(p) = i

\* No slot stores two undelivered uids: tail has not lapped a pending take.
OneLivePerSlot ==
  \A p, q \in Live : calSlotIndex(p) = calSlotIndex(q) => p = q

\* The uid of an undelivered position is still in its slot.
LiveNotOverwritten == \A p \in Live : slots[calSlotIndex(p)] = produced[p + 1]

\* The slot protocol of put() steps 1-4 and take() steps 1-3 under every
\* re-entrant interleaving: what is stored is neither overwritten nor
\* mislabelled, whatever runs inside asyncPadding() and the handlers.
SlotSafety == FlagTracksLive /\ OneLivePerSlot /\ LiveNotOverwritten

\* "the consumer take the UID twice after walk a round the ring" (the comment
\* at the end of take()) never happens, and only uids that were put are given.
NoUidTwice ==
  /\ \A i, j \in DOMAIN given : given[i] = given[j] => i = j
  /\ Range(given) \subseteq Range(produced)

\* The inductive invariant behind the two: the history agrees with tail.
HistoryOK ==
  /\ Len(produced) = tail + 1
  /\ \A i, j \in DOMAIN produced : produced[i] = produced[j] => i = j

SlotInv == TypeOK /\ HistoryOK /\ SlotSafety /\ NoUidTwice

\* Positions claimed by a take that has called out and not yet read its slot.
Claims == {k \in DOMAIN frames : frames[k].nxt # frames[k].cur}
ClaimedPositions == {frames[k].nxt : k \in Claims}

\* Until a rejected-take handler has returned, every take that found a uid owns
\* its position while it is called out: the 'Curosr not in can take status'
\* assertion holds for it whatever puts and takes are nested inside the call.
ClaimsAreHonoured ==
  ~returned =>
    /\ ClaimedPositions \subseteq Live
    /\ \A j, k \in Claims : frames[j].nxt = frames[k].nxt => j = k

\* Until a rejected-take handler has returned, a uid behind the cursor is either
\* about to be returned or was dropped by a take that ran into a pool shut down;
\* while the pool is up none is dropped.
NoUidLeaks ==
  ~returned =>
    /\ {p \in Live : p <= cursor} = ClaimedPositions \union lost
    /\ ClaimedPositions \intersect lost = {}
    /\ executor # "shutdown" => lost = {}

\* put() refuses a uid only when the ring is full, or when the slot it needs
\* belongs to a take still called out or to a position lost after shutdown:
\* the flag pre-check never wedges a ring that has room.
RefusalIsJustified ==
  ~returned /\ ~PutAccepted /\ Distance # BufferSize - 1
    => tail + 1 - BufferSize \in ClaimedPositions \union lost

\* The inductive invariant behind the three: what is ahead of the cursor is
\* undelivered, tail never laps an undelivered position, and a take inside a
\* rejected-take handler claims nothing.
AheadIsLive == ~returned => \A p \in cursor + 1 .. tail : p \in Live

WithinALap ==
  /\ Distance < BufferSize
  /\ \A p \in Live : p > tail - BufferSize

HandlerClaimsNothing ==
  \A k \in DOMAIN frames : frames[k].at = "handler" => frames[k].nxt = frames[k].cur

ClaimsTracked ==
  /\ AheadIsLive /\ WithinALap /\ HandlerClaimsNothing
  /\ ClaimsAreHonoured /\ NoUidLeaks

ClaimInv == SlotInv /\ ClaimsTracked

\* The queue in the ring: what is ahead of the cursor, and what the takes that
\* have called out claimed.
Unclaimed == SubSeq(produced, cursor + 2, tail + 1)
ClaimedUids == {produced[p + 1] : p \in ClaimedPositions}

\* Until a rejected-take handler has returned, the ring with its flags,
\* wrap-around and re-entrant takes implements the bounded queue of UidQueue.
Queue == INSTANCE UidQueue WITH
  Capacity <- BufferSize,
  queue <- Unclaimed,
  claims <- ClaimedUids,
  given <- given,
  closed <- executor = "shutdown",
  void <- returned

ImplementsQueue == Queue!Spec

=============================================================================
