----------------------- MODULE BufferPaddingExecutor -----------------------
(***************************************************************************)
(* buffer/buffer-padding-executor.ts with deps/java/executors.ts, closed   *)
(* with the ring of RingBuffer.                                            *)
(*                                                                         *)
(* Nothing here runs on another thread.  asyncPadding() submits to a pool  *)
(* that runs the task on the caller's stack, so a padding pass started by  *)
(* take() runs INSIDE that take; a pass started by the timer or called     *)
(* directly runs on an empty stack.  At most one pass is on the stack      *)
(* (the compare-and-set on `running`): `pass` records it, with the number  *)
(* of take frames below it.  Client code runs when the stack is empty,     *)
(* inside the rejected-put handler the pass calls, and inside the          *)
(* rejected-take handler of a take.                                        *)
(***************************************************************************)
EXTENDS RingBuffer

CONSTANTS
  UidsPerSecond,  \* what the uid provider returns for one second
  StartSecond,    \* the clock, in seconds, when the executor is constructed
  UsingSchedule,  \* whether a schedule was configured
  PutHandlerDoes, \* what the rejected-put handler may do; default {"return"}
  TakeHandlerMayTake, \* whether the rejected-take handler may call take()
  MaxSecond       \* bound: clients and timers stop at this lastSecond

ASSUME ExecutorAssumption ==
  /\ UidsPerSecond \in Nat \ {0}
  /\ StartSecond \in Nat
  /\ UsingSchedule \in BOOLEAN
  /\ PutHandlerDoes \subseteq {"return", "throw", "take", "put", "shutdown"}
  /\ TakeHandlerMayTake \in BOOLEAN
  /\ MaxSecond \in Nat

VARIABLES
  running,    \* the single-flight flag
  lastSecond, \* last second whose uids were asked for
  pass,       \* the padding pass on the stack
  timer,      \* the schedule: "off", "armed", or "running" its command
  passes      \* history: number of passes begun

padVars == <<running, lastSecond, pass, timer, passes>>
allVars == <<vars, padVars>>

\* at: about to call the provider, putting its batch, or inside the
\* rejected-put handler.  next: offset of the next uid in the batch.
Pass == [at : {"provider", "putting", "handler"}, by : {"take", "direct", "timer"},
         depth : Nat, next : Nat]
NoPass == [at |-> "none", by |-> "none", depth |-> 0, next |-> 0]

PaddingTypeOK ==
  /\ TypeOK
  /\ running \in BOOLEAN
  /\ lastSecond \in Nat
  /\ pass \in Pass \union {NoPass}
  /\ timer \in {"off", "armed", "running"}
  /\ passes \in Nat

PaddingInit ==
  /\ Init
  /\ running = FALSE
  /\ lastSecond = StartSecond
  /\ pass = NoPass
  /\ timer = "off"
  /\ passes = 0

\* The provider's batch for a second, in increasing order.
uidOf(second, offset) == second * UidsPerSecond + offset

-----------------------------------------------------------------------------
(* Who is running *)

Idle == frames = <<>> /\ pass = NoPass
PassOnTop == pass # NoPass /\ Len(frames) = pass.depth
TakeOnTop == frames # <<>> /\ ~PassOnTop
InPutHandler == PassOnTop /\ pass.at = "handler"

\* Where client code may call take(); it gets the ring once it is wired.
ClientMayTake ==
  /\ executor # "none"
  /\ lastSecond < MaxSecond \/ executor = "shutdown"
  /\ \/ Idle
     \/ InPutHandler /\ "take" \in PutHandlerDoes
     \/ TakeOnTop /\ Last(frames).at = "handler" /\ TakeHandlerMayTake

-----------------------------------------------------------------------------
(* RingBuffer.take(), called by clients *)

ClientTakes ==
  /\ ClientMayTake
  /\ TakeDirectly \/ TakeCallsPadding \/ TakeRefusedByPool \/ TakeCallsHandler
  /\ UNCHANGED padVars

TakeHandlerEnds ==
  /\ TakeOnTop
  /\ HandlerThrows \/ HandlerReturns
  /\ UNCHANGED padVars

-----------------------------------------------------------------------------
(* paddingBuffer() *)

\* Mutant: the compare-and-set is dropped, a pass begins whoever is running.
BeginPassAnyway(by) ==
  /\ running' = TRUE
  /\ pass' = [at |-> "provider", by |-> by, depth |-> Len(frames), next |-> 0]
  /\ passes' = passes + 1
  /\ UNCHANGED <<vars, lastSecond>>

\* The compare-and-set that admits a pass.
BeginPass(by) ==
  /\ ~running
  /\ running' = TRUE
  /\ pass' = [at |-> "provider", by |-> by, depth |-> Len(frames), next |-> 0]
  /\ passes' = passes + 1
  /\ UNCHANGED <<vars, lastSecond>>

\* asyncPadding() from take(): submit() runs the pass now.
AsyncPaddingBegins ==
  /\ TakeOnTop
  /\ Last(frames).at = "padding"
  /\ BeginPass("take")
  /\ UNCHANGED timer

\* "Padding buffer is still running": the task returns at once.
AsyncPaddingSkipped ==
  /\ TakeOnTop
  /\ running
  /\ PaddingReturns
  /\ UNCHANGED padVars

PaddingBufferCalled ==
  /\ Idle
  /\ lastSecond < MaxSecond
  /\ BeginPass("direct")
  /\ UNCHANGED timer

\* Mutant: lastSecond is read, not incremented.
AskProviderAgain ==
  /\ PassOnTop
  /\ pass.at = "provider"
  /\ pass' = [pass EXCEPT !.at = "putting", !.next = 0]
  /\ UNCHANGED <<vars, running, lastSecond, timer, passes>>

\* uidProvider(lastSecond.incrementAndGet()).
AskProvider ==
  /\ PassOnTop
  /\ pass.at = "provider"
  /\ lastSecond' = lastSecond + 1
  /\ pass' = [pass EXCEPT !.at = "putting", !.next = 0]
  /\ UNCHANGED <<vars, running, timer, passes>>

PutNext ==
  /\ PassOnTop
  /\ pass.at = "putting"
  /\ Put(uidOf(lastSecond, pass.next))
  /\ pass' = [pass EXCEPT
       !.next = @ + 1,
       !.at = IF pass.next + 1 = UidsPerSecond THEN "provider" ELSE "putting"]
  /\ UNCHANGED <<running, lastSecond, timer, passes>>

\* Mutants: no break out of the two loops; the refused uid is put again until
\* it fits.
PutRefusedContinues ==
  /\ PassOnTop
  /\ pass.at = "putting"
  /\ PutRejected
  /\ pass' = [pass EXCEPT !.at = "provider"]
  /\ UNCHANGED <<running, lastSecond, timer, passes>>
PutRefusedSpins ==
  /\ PassOnTop
  /\ pass.at = "putting"
  /\ PutRejected
  /\ UNCHANGED padVars

\* put() calls the rejected-put handler.
PutRefused ==
  /\ PassOnTop
  /\ pass.at = "putting"
  /\ PutRejected
  /\ pass' = [pass EXCEPT !.at = "handler"]
  /\ UNCHANGED <<running, lastSecond, timer, passes>>

\* Back to whoever called the pass: take() goes on; the scheduler arms the
\* next delay, whether or not it was shut down meanwhile.
LeavePass ==
  /\ pass' = NoPass
  /\ timer' = IF pass.by = "timer" THEN "armed" ELSE timer
  /\ IF pass.by = "take" THEN PaddingReturns ELSE UNCHANGED vars
  /\ UNCHANGED <<lastSecond, passes>>

\* Mutant: `running` is not reset at the end of the pass.
PutHandlerReturnsUnreset ==
  /\ InPutHandler
  /\ "return" \in PutHandlerDoes
  /\ UNCHANGED running
  /\ LeavePass

PutHandlerReturns ==
  /\ InPutHandler
  /\ "return" \in PutHandlerDoes
  /\ running' = FALSE
  /\ LeavePass

\* The exception skips the reset of `running`; the pool, and the scheduler,
\* report it and carry on.
PutHandlerThrows ==
  /\ InPutHandler
  /\ "throw" \in PutHandlerDoes
  /\ UNCHANGED running
  /\ LeavePass

\* A handler that made room puts the refused uid after all.
PutHandlerPuts ==
  /\ InPutHandler
  /\ "put" \in PutHandlerDoes
  /\ uidOf(lastSecond, pass.next) \notin Range(produced)
  /\ Put(uidOf(lastSecond, pass.next))
  /\ UNCHANGED padVars

-----------------------------------------------------------------------------
(* Wiring, start() and shutdown() *)

Wire ==
  /\ SetBufferPaddingExecutor
  /\ UNCHANGED padVars

\* scheduleWithFixedDelay(): refused after shutdown.
Start ==
  /\ Idle
  /\ UsingSchedule
  /\ timer = "off"
  /\ executor # "shutdown"
  /\ timer' = "armed"
  /\ UNCHANGED <<vars, running, lastSecond, pass, passes>>

\* The timer's callback: nothing after shutdown; else a pass, or only the next
\* delay when `running` is set.
TimerFiresAfterShutdown ==
  /\ executor = "shutdown"
  /\ timer' = "off"
  /\ UNCHANGED <<vars, running, lastSecond, pass, passes>>

TimerBeginsPass ==
  /\ executor # "shutdown"
  /\ lastSecond < MaxSecond
  /\ timer' = "running"
  /\ BeginPass("timer")

TimerSkipsPass ==
  /\ executor # "shutdown"
  /\ running
  /\ UNCHANGED allVars

TimerFires ==
  /\ Idle
  /\ timer = "armed"
  /\ TimerFiresAfterShutdown \/ TimerBeginsPass \/ TimerSkipsPass

\* shutdownNow() on the pool and on the schedule; a pending timer is cleared,
\* one whose command is running is not.
Shutdown ==
  /\ \/ Idle
     \/ InPutHandler /\ "shutdown" \in PutHandlerDoes
  /\ ShutdownExecutor
  /\ timer' = IF timer = "armed" THEN "off" ELSE timer
  /\ UNCHANGED <<running, lastSecond, pass, passes>>

PassStep ==
  \/ AsyncPaddingBegins \/ AsyncPaddingSkipped
  \/ AskProvider \/ PutNext \/ PutRefused
  \/ PutHandlerReturns \/ PutHandlerThrows \/ PutHandlerPuts

PaddingNext ==
  \/ ClientTakes \/ TakeHandlerEnds
  \/ PaddingBufferCalled
  \/ PassStep
  \/ TimerFires
  \/ Wire \/ Start \/ Shutdown

PaddingSpec == PaddingInit /\ [][PaddingNext]_allVars

\* The event loop: synchronous code finishes, and a timer that is due fires
\* some time although clients keep coming.
Fairness ==
  /\ WF_allVars(PassStep)
  /\ WF_allVars(TakeHandlerEnds)
  /\ SF_allVars(TimerFires)

FairPaddingSpec == PaddingSpec /\ Fairness

-----------------------------------------------------------------------------
(* Properties *)

\* Passes never nest: while one is on the stack, in its rejected-put handler too,
\* no take that a handler makes, timer or direct call begins another.
SingleFlight == [][pass # NoPass => passes' = passes]_allVars

\* Uids enter the ring in increasing order over all passes, and the next pass
\* starts above all of them: what one pass leaves of a second is never reused.
ProducedInOrder ==
  /\ \A i, j \in DOMAIN produced : i < j => produced[i] < produced[j]
  /\ \A i \in DOMAIN produced : produced[i] < uidOf(lastSecond + 1, 0)

\* Time borrowed from the future: a pass discards part of one second at most,
\* all the other seconds it asked for are in the ring in full.
SecondsAccounted ==
  UidsPerSecond * (lastSecond - StartSecond - passes) <= Len(produced)

\* The inductive invariant behind the three.  `running` is set while a pass is on
\* the stack, and reset when it leaves unless a handler threw.  Offset is how much of the batch of
\* lastSecond has been put, or passed over by an earlier pass.
Offset == IF pass.at \in {"putting", "handler"} THEN pass.next ELSE UidsPerSecond

PassTypeOK ==
  /\ running \in BOOLEAN
  /\ lastSecond \in Nat /\ passes \in Nat
  /\ pass \in Pass \union {NoPass}
  /\ pass.at \in {"putting", "handler"} => pass.next < UidsPerSecond
  /\ timer \in {"off", "armed", "running"}
  /\ produced \in Seq(Nat)

\* A rejected-put handler may have put the uid that was refused.
BatchInOrder ==
  /\ \A i, j \in DOMAIN produced : i < j => produced[i] < produced[j]
  /\ \A i \in DOMAIN produced :
       \/ produced[i] < uidOf(lastSecond, Offset)
       \/ pass.at = "handler" /\ produced[i] = uidOf(lastSecond, Offset)

BatchAccounted ==
  UidsPerSecond * (lastSecond - StartSecond - passes)
    + (IF pass = NoPass THEN 0 ELSE Offset) <= Len(produced)

RunningFlag ==
  /\ pass # NoPass => running
  /\ running /\ "throw" \notin PutHandlerDoes => pass # NoPass

PassInv == PassTypeOK /\ RunningFlag /\ BatchInOrder /\ BatchAccounted

DefaultHandlers ==
  /\ PutHandlerDoes \intersect {"throw", "take"} = {}
  /\ ~TakeHandlerMayReturn

\* Whenever the event loop has control the ring holds the threshold, however
\* takes, timers and direct passes were mixed.
RestAboveThreshold ==
  Idle /\ executor = "up" /\ produced # <<>> /\ DefaultHandlers
    => tail - cursor >= PaddingThreshold

\* While the pool is up and the threshold is not 0, only a take on a ring that
\* was never filled can be rejected.
NeverRejectedOnceFilled ==
  executor = "up" /\ PaddingThreshold > 0 /\ DefaultHandlers
    => \A k \in DOMAIN frames :
         frames[k].at = "handler" => frames[k].cur = START_POINT

\* The inductive invariant behind the two.  With the default handlers nothing
\* runs inside a pass: it belongs to the last frame, if to any, and that take is
\* the last that moved the cursor.
PaddingOnTop == frames # <<>> /\ Last(frames).at = "padding"

StackInOrder ==
  /\ \A k \in DOMAIN frames : frames[k].at = "padding" => k = Len(frames)
  /\ PaddingOnTop => Last(frames).nxt = cursor
  /\ pass # NoPass => /\ pass.depth = Len(frames)
                      /\ pass.by = "take" => PaddingOnTop
                      /\ pass.by # "take" => frames = <<>>

AtRest ==
  \/ pass.at = "handler"
  \/ produced # <<>> /\ pass = NoPass /\ ~PaddingOnTop

RestKept == AtRest => tail - cursor >= PaddingThreshold

OnlyFirstTakeFails ==
  PaddingThreshold > 0 => \A k \in DOMAIN frames :
    frames[k].nxt = frames[k].cur => frames[k].cur = START_POINT

RestInv ==
  DefaultHandlers =>
    /\ ~returned /\ StackInOrder
    /\ executor # "shutdown" => RestKept /\ OnlyFirstTakeFails

\* A pass started with the pool up always leaves the stack.
PassEnds == pass # NoPass ~> pass = NoPass

\* "Filling periodically in a scheduled thread": while the schedule is on, a
\* ring with room is filled up again although no take asks for it (up to the
\* bound on seconds).
ScheduleRefills ==
  (/\ Idle /\ timer = "armed"
   /\ tail - cursor < BufferSize - 1 /\ lastSecond < MaxSecond)
    ~> (tail - cursor >= BufferSize - 1 \/ executor = "shutdown")

\* Every step is a step of the ring with its most general client; in
\* particular each uid put is fresh.
ImplementsRing == Spec

\* What `running` is said to mean: "Whether buffer padding is running".
RunningMeansPadding == running => pass # NoPass

=============================================================================
