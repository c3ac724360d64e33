------------------------- MODULE CachedUidGenerator -------------------------
(***************************************************************************)
(* impl/cached-uid-generator.ts: the life of a generator whose uids are    *)
(* generated ahead, composed of the ring and its padding executor          *)
(* (BufferPaddingExecutor) and the layout of a uid (BitsAllocator).        *)
(*                                                                         *)
(* The modules below speak of the n-th uid since second 0; uid(n) is the   *)
(* long it stands for.  afterPropertiesSet() suspends once, at the await   *)
(* of assignWorkerId(); initRingBuffer() runs without a break, but calls   *)
(* the rejected-put handler, which may call back.  One call of             *)
(* afterPropertiesSet() is modelled, as the container makes it.            *)
(***************************************************************************)
EXTENDS BufferPaddingExecutor, BitsAllocator

CONSTANTS
  boostPower,
  epochSeconds,
  workerId      \* what assignWorkerId() returns, after its range check

\* The setters of the layout ignore a width of 0 (GeneratorConfiguration!TypeOK).
ASSUME CachedAssumption ==
  /\ workerIdBits > 0 /\ sequenceBits > 0
  /\ boostPower \in Nat \ {0}
  /\ epochSeconds \in Nat
  /\ workerId \in 0 .. maxWorkerId
  /\ BufferSize = shiftLeft(maxSequence + 1, boostPower)
  /\ UidsPerSecond = maxSequence + 1

VARIABLE phase \* "new", "assigning", "wired", "filling", "ready", "failed"

cachedVars == <<allVars, phase>>

CachedTypeOK ==
  /\ PaddingTypeOK
  /\ phase \in {"new", "assigning", "wired", "filling", "ready", "failed"}

CachedInit == PaddingInit /\ phase = "new"

Enter(p) == phase' = p

-----------------------------------------------------------------------------
(* nextIdsForOneSecond() *)

\* Unlike getCurrentSecond(), no check that the second fits its field.
nextIdsForOneSecond(second) == uidsOfSecond(subtract(second, epochSeconds), workerId)

\* Mutant: offsets are counted from 1.
uidAfter(n) == nextIdsForOneSecond(n \div UidsPerSecond)[n % UidsPerSecond] + 1
uid(n) == nextIdsForOneSecond(n \div UidsPerSecond)[n % UidsPerSecond]

-----------------------------------------------------------------------------
(* afterPropertiesSet() *)

AfterPropertiesSet ==
  /\ phase = "new"
  /\ Enter("assigning")
  /\ UNCHANGED allVars

\* Assigning throws, or the id is out of range: no ring is ever made.
AssignmentFails ==
  /\ phase = "assigning"
  /\ Enter("failed")
  /\ UNCHANGED allVars

\* initRingBuffer(): ring, executor and handlers are wired ...
InitRingBuffer ==
  /\ phase = "assigning"
  /\ Enter("wired")
  /\ Wire

\* Mutant: the first pass is left to the first take, as asyncPadding().
FillNothing ==
  /\ phase = "wired"
  /\ Enter("filling")
  /\ UNCHANGED allVars

\* ... all slots are filled by a direct pass ...
FillSlots ==
  /\ phase = "wired"
  /\ Enter("filling")
  /\ PaddingBufferCalled

\* ... a put handler that throws takes the initialisation down, and leaves a
\* ring that works but for `running` ...
FillThrows ==
  /\ phase = "filling"
  /\ PutHandlerThrows
  /\ Enter("failed")

\* ... and the schedule is started.
StartPadding ==
  /\ phase = "filling"
  /\ Idle
  /\ \/ Start /\ Enter("ready")
     \/ ~UsingSchedule /\ Enter("ready") /\ UNCHANGED allVars
     \* scheduleWithFixedDelay() refused: a handler has called destroy().
     \/ UsingSchedule /\ executor = "shutdown" /\ Enter("failed") /\ UNCHANGED allVars

-----------------------------------------------------------------------------
(* The generator in use *)

\* The event loop has control: no initRingBuffer() on the stack.
Settled == Idle => phase \in {"ready", "failed"}

\* getUID() without a ring and destroy() without an executor throw.
CallTooEarly ==
  /\ executor = "none"
  /\ UNCHANGED cachedVars

GetUID == Settled /\ (ClientTakes \/ TakeHandlerEnds) /\ UNCHANGED phase

Destroy == Settled /\ Shutdown /\ UNCHANGED phase

Scheduled == Settled /\ TimerFires /\ UNCHANGED phase

Padding ==
  /\ PassStep
  /\ PutHandlerThrows => phase # "filling"
  /\ UNCHANGED phase

CachedNext ==
  \/ AfterPropertiesSet \/ AssignmentFails
  \/ InitRingBuffer \/ FillSlots \/ FillThrows \/ StartPadding
  \/ CallTooEarly \/ GetUID \/ Destroy \/ Scheduled \/ Padding

CachedSpec == CachedInit /\ [][CachedNext]_cachedVars

-----------------------------------------------------------------------------
(* Properties *)

Uids == [k \in DOMAIN given |-> uid(given[k])]

\* The second of the k-th uid given fits its field.
InRange(k) == given[k] \div UidsPerSecond - epochSeconds \in 0 .. maxDeltaSeconds

\* "Get a unique ID": no two calls return the same long.
UniqueUids ==
  \A j, k \in DOMAIN given : InRange(j) /\ InRange(k) /\ Uids[j] = Uids[k] => j = k

\* parseUID(getUID()) names this worker, and a second after the start of the
\* executor that has been asked for: adding the offsets of a batch never
\* carries into the worker id, and the borrowed seconds are the ones counted.
UidsParseToUs ==
  \A k \in DOMAIN given : InRange(k) =>
    /\ parseWorkerId(Uids[k]) = workerId
    /\ parseDeltaSeconds(Uids[k]) + epochSeconds \in StartSecond + 1 .. lastSecond

\* "During RingBuffer initializing, the entire RingBuffer will be filled": a
\* generator that is ready for the first time has a uid in every slot.
FullWhenReady ==
  phase \in {"filling", "ready"} /\ Idle /\ cursor = START_POINT
    => tail = BufferSize - 1

\* With a threshold, no put handler that takes, and no pass that was cut short
\* by an exception, getUID() of a generator that is ready and not destroyed
\* never throws, and gives the uids in the order they were generated, none
\* left out.
Undisturbed ==
  /\ PaddingThreshold > 0
  /\ "take" \notin PutHandlerDoes
  /\ running => pass # NoPass

ReadyNeverFails ==
  phase = "ready" /\ executor = "up" /\ Undisturbed =>
    /\ \A k \in DOMAIN frames : frames[k].at # "handler"
    /\ given = SubSeq(produced, 1, Len(given))

\* "sign(1bit) The highest bit is always 0."
HighestBitIsZero == \A k \in DOMAIN given : Uids[k] >= 0

-----------------------------------------------------------------------------
(* What these rest on *)

\* In the seconds that fit, the layout tells two uids apart, and parseUID() undoes
\* it.  The uids of a second are its first one plus an offset.
SecondsInRange == {epochSeconds + delta : delta \in 0 .. maxDeltaSeconds}
Offsets == 0 .. UidsPerSecond - 1

LayoutIsInjective ==
  \A s, t \in SecondsInRange : \A i, j \in Offsets :
    nextIdsForOneSecond(s)[i] = nextIdsForOneSecond(t)[j] => s = t /\ i = j

LayoutParses ==
  \A s \in SecondsInRange : \A i \in Offsets :
    /\ parseWorkerId(nextIdsForOneSecond(s)[i]) = workerId
    /\ parseDeltaSeconds(nextIdsForOneSecond(s)[i]) + epochSeconds = s

\* Nothing runs before the first pass.
NothingBegun ==
  phase \in {"new", "assigning", "wired"} =>
    /\ Idle /\ ~running /\ ~returned
    /\ tail = START_POINT /\ given = <<>>

\* Until the first take no take is called out, and a pass ends with every slot
\* filled.
FilledFirst ==
  phase \in {"filling", "ready"} /\ cursor = START_POINT =>
    /\ frames = <<>>
    /\ pass.at \in {"none", "handler"} => tail = BufferSize - 1

\* One take at most is called out, inside asyncPadding() and at the cursor; the
\* pass on the stack is the one it called, and leaves the threshold behind it;
\* and all the positions before the cursor were given, in order.
TakesAreSerial ==
  /\ ~returned
  /\ frames # <<>> =>
       /\ Len(frames) = 1 /\ frames[1].at = "padding"
       /\ frames[1].nxt = cursor /\ frames[1].cur # cursor
  /\ pass # NoPass =>
       pass.depth = Len(frames) /\ (pass.by = "take" <=> frames # <<>>)
  /\ Idle \/ pass.at = "handler" => tail - cursor >= PaddingThreshold
  /\ Len(given) = cursor + 1 - Len(frames)
  /\ \A k \in DOMAIN given : given[k] = produced[k]

TakesInOrder ==
  phase \in {"filling", "ready"} /\ executor = "up" /\ Undisturbed => TakesAreSerial

\* No second is asked for that is not after the start of the executor.
SecondsAreAfterStart ==
  /\ lastSecond >= StartSecond
  /\ pass.at \in {"putting", "handler"} => lastSecond > StartSecond
  /\ \A i \in DOMAIN produced : produced[i] >= uidOf(StartSecond + 1, 0)

CachedInv ==
  /\ phase \in {"new", "assigning", "wired", "filling", "ready", "failed"}
  /\ NothingBegun /\ FilledFirst /\ TakesInOrder
  /\ SecondsAreAfterStart
=============================================================================
