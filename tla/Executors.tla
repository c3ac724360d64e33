------------------------------ MODULE Executors ------------------------------
(***************************************************************************)
(* deps/java/executors.ts on deps/java/thread.ts, with the threads named   *)
(* by utils/naming-thread-factory.ts: what the two executors promise any   *)
(* client.  (BufferPaddingExecutor models the one use the program makes.)  *)
(*                                                                         *)
(* A thread is a name.  A job (a pool task, a scheduled command, the body  *)
(* of a started thread) runs on the caller's stack until it ends or first  *)
(* awaits; an await suspends it, and the event loop resumes it on an empty *)
(* stack.  Whatever runs, main or a job, may call the executors.           *)
(*                                                                         *)
(* One factory names all threads here, the pool's, the schedule's and the  *)
(* client's: the general case of a factory for each executor.              *)
(***************************************************************************)
EXTENDS Integers, FiniteSets, Sequences, SequencesExt

CONSTANTS
  MaxJobs,    \* bound on the jobs alive at a time
  Names,      \* names for the factory, and class names of its invokers
  PoolSize,
  Schedules,  \* the calls of scheduleWithFixedDelay()
  MaxThreads, \* clients start no thread once there are so many
  MaxSubmits  \* bound on the tasks submitted

ASSUME ExecutorsAssumption ==
  /\ {MaxJobs, PoolSize} \subseteq Nat \ {0}
  /\ {MaxThreads, MaxSubmits} \subseteq Nat
  /\ "NamingThreadFactory" \in Names
  /\ {"submit", "start", "none"} \cap Schedules = {}

VARIABLES
  name,             \* the factory's name; Blank: the invoker's class name
  sequences,        \* prefix -> threads named with it
  minted,           \* history: thread -> times a thread of this name was made
  workers,          \* number of the pool's threads
  nextWorker,
  poolShutdown,
  turns,            \* history: worker index -> tasks it was given
  submits,          \* history: tasks submitted
  scheduled,        \* the schedules begun
  armed,            \* the schedules with a pending timer
  timer,            \* the schedule whose timer the field `timer` holds, or None
  scheduleShutdown,
  jobs,             \* job -> what it is and where
  stack             \* the jobs being run, innermost last

factoryVars == <<name, sequences, minted>>
poolVars == <<workers, nextWorker, poolShutdown, turns, submits>>
scheduleVars == <<scheduled, armed, timer, scheduleShutdown>>
vars == <<factoryVars, poolVars, scheduleVars, jobs, stack>>

Jobs == 1 .. MaxJobs
Blank == "blank"
None == "none"
FactoryName == "NamingThreadFactory"
NoJob == [by |-> None, at |-> "free"]

\* by: who began it.  at: in its first run, suspended, or resumed.
JobState == [by : Schedules \union {"submit", "start"},
             at : {"first", "suspended", "resumed"}]
Thread == Names \X (Nat \ {0})

TypeOK ==
  /\ name \in Names \union {Blank}
  /\ sequences \in [Names -> Nat]
  /\ IsABag(minted) /\ BagToSet(minted) \subseteq Thread
  /\ workers \in 0 .. PoolSize
  /\ nextWorker \in 0 .. PoolSize - 1
  /\ {poolShutdown, scheduleShutdown} \subseteq BOOLEAN
  /\ turns \in [1 .. PoolSize -> Nat] /\ submits \in Nat
  /\ armed \subseteq scheduled /\ scheduled \subseteq Schedules
  /\ timer \in Schedules \union {None}
  /\ jobs \in [Jobs -> JobState \union {NoJob}]
  /\ stack \in Seq(Jobs)

Init ==
  /\ name \in Names \union {Blank}
  /\ sequences = [p \in Names |-> 0]
  /\ minted = EmptyBag
  /\ workers = 0
  /\ nextWorker = 0
  /\ poolShutdown = FALSE
  /\ turns = [i \in 1 .. PoolSize |-> 0]
  /\ submits = 0
  /\ scheduled = {}
  /\ armed = {}
  /\ timer = None
  /\ scheduleShutdown = FALSE
  /\ jobs = [j \in Jobs |-> NoJob]
  /\ stack = <<>>

-----------------------------------------------------------------------------
(* NamingThreadFactory *)

\* The class name in the frame that called newThread(); of a function or a
\* static method, its own name; without a frame, that of the factory.
Frames == [owner : Names \union {"Function", "Object", Blank, None}, method : Names]
getInvoker(frame) ==
  CASE frame.owner = None -> FactoryName
    [] frame.owner \in Names -> frame.owner
    [] OTHER -> frame.method

Prefix == IF name = Blank THEN {getInvoker(frame) : frame \in Frames} ELSE {name}
NextThread(prefix) == <<prefix, sequences[prefix] + 1>>

\* newThread(): the sequence of the prefix, which need not be the current name.
NewThread(prefix) ==
  /\ prefix \in Prefix
  /\ sequences' = [sequences EXCEPT ![prefix] = @ + 1]
  /\ minted' = minted (+) SetToBag({NextThread(prefix)})
  /\ UNCHANGED name

\* Mutant: one sequence, begun again with every name.
SetNameBeginsAgain(prefix) ==
  /\ name' = prefix
  /\ sequences' = [p \in Names |-> 0]
  /\ UNCHANGED <<minted, poolVars, scheduleVars, jobs, stack>>

SetName(prefix) ==
  /\ name' = prefix
  /\ UNCHANGED <<sequences, minted, poolVars, scheduleVars, jobs, stack>>

-----------------------------------------------------------------------------
(* Jobs *)

FreeJobs == {j \in Jobs : jobs[j] = NoJob}

\* The job runs at once, on the stack of whoever began it.
Begin(by) ==
  /\ FreeJobs # {}
  /\ jobs' = [jobs EXCEPT ![Min(FreeJobs)] = [by |-> by, at |-> "first"]]
  /\ stack' = Append(stack, Min(FreeJobs))

\* Clients leave a job for the timers.
ClientBegins(by) == Cardinality(FreeJobs) > 1 /\ Begin(by)

\* The job on top of the stack goes.  A command that comes out of its first
\* run, by returning or with a promise, arms the next delay of its schedule.
LeaveStack(state) ==
  /\ stack # <<>>
  /\ jobs' = [jobs EXCEPT ![Last(stack)] = state]
  /\ stack' = Front(stack)
  /\ UNCHANGED <<factoryVars, poolVars>>

ArmsNext ==
  LET job == jobs[Last(stack)]
  IN  IF job.at = "first" /\ job.by \in Schedules
        THEN /\ armed' = armed \union {job.by}
             /\ timer' = job.by
             /\ UNCHANGED <<scheduled, scheduleShutdown>>
        ELSE UNCHANGED scheduleVars

JobReturns == LeaveStack(NoJob) /\ ArmsNext

\* Mutant: the delay is armed inside the try, after the command.
JobThrowsOut == LeaveStack(NoJob) /\ UNCHANGED scheduleVars

\* reportUncaught(): the factory's handler logs it, and the executor carries
\* on, whether it was thrown or came as a rejected promise.
JobThrows == LeaveStack(NoJob) /\ ArmsNext

\* A command whose promise is not settled is out of the executor's sight: the
\* next run may begin beside it.  Commands leave a job for the timers, too.
JobAwaits ==
  /\ stack # <<>>
  /\ jobs[Last(stack)].by \in Schedules => FreeJobs # {}
  /\ LeaveStack([jobs[Last(stack)] EXCEPT !.at = "suspended"])
  /\ ArmsNext

JobResumes(j) ==
  /\ stack = <<>>
  /\ jobs[j].at = "suspended"
  /\ jobs' = [jobs EXCEPT ![j].at = "resumed"]
  /\ stack' = <<j>>
  /\ UNCHANGED <<factoryVars, poolVars, scheduleVars>>

\* new NamingThreadFactory(..).newThread(body).start(): start() runs the body
\* up to its first await.
StartThread(prefix) ==
  /\ BagCardinality(minted) < MaxThreads
  /\ NewThread(prefix)
  /\ ClientBegins("start")
  /\ UNCHANGED <<poolVars, scheduleVars>>

-----------------------------------------------------------------------------
(* ExecutorService *)

TakesTurn(i) ==
  /\ turns' = [turns EXCEPT ![i] = @ + 1]
  /\ submits' = submits + 1

\* nextThread(): a new worker for each of the first PoolSize tasks, ...
SubmitToNewWorker(prefix) ==
  /\ ~poolShutdown
  /\ submits < MaxSubmits
  /\ workers < PoolSize
  /\ NewThread(prefix)
  /\ workers' = workers + 1
  /\ TakesTurn(workers + 1)
  /\ ClientBegins("submit")
  /\ UNCHANGED <<nextWorker, poolShutdown, scheduleVars>>

\* Mutants: nextWorker is not wrapped; the turn is not passed on.
SubmitUnwrapped ==
  /\ ~poolShutdown
  /\ submits < MaxSubmits
  /\ workers = PoolSize
  /\ TakesTurn((nextWorker % PoolSize) + 1)
  /\ nextWorker' = nextWorker + 1
  /\ ClientBegins("submit")
  /\ UNCHANGED <<factoryVars, workers, poolShutdown, scheduleVars>>
SubmitToSameWorker ==
  /\ ~poolShutdown
  /\ submits < MaxSubmits
  /\ workers = PoolSize
  /\ TakesTurn((nextWorker % PoolSize) + 1)
  /\ ClientBegins("submit")
  /\ UNCHANGED <<factoryVars, workers, nextWorker, poolShutdown, scheduleVars>>

\* ... then the workers in turn, whether or not they have ended their last task.
SubmitToNextWorker ==
  /\ ~poolShutdown
  /\ submits < MaxSubmits
  /\ workers = PoolSize
  /\ TakesTurn((nextWorker % PoolSize) + 1)
  /\ nextWorker' = (nextWorker + 1) % PoolSize
  /\ ClientBegins("submit")
  /\ UNCHANGED <<factoryVars, workers, poolShutdown, scheduleVars>>

SubmitRejected == poolShutdown /\ UNCHANGED vars

ShutdownPool ==
  /\ poolShutdown' = TRUE
  /\ UNCHANGED <<factoryVars, workers, nextWorker, turns, submits, scheduleVars, jobs,
                 stack>>

-----------------------------------------------------------------------------
(* ScheduledExecutorService *)

\* The worker is made with the first schedule and shared by the others.
ScheduleWithFixedDelay(s) ==
  /\ ~scheduleShutdown
  /\ s \notin scheduled
  /\ IF scheduled = {} THEN \E prefix \in Prefix : NewThread(prefix)
                       ELSE UNCHANGED factoryVars
  /\ scheduled' = scheduled \union {s}
  /\ armed' = armed \union {s}
  /\ timer' = s
  /\ UNCHANGED <<poolVars, scheduleShutdown, jobs, stack>>

ScheduleRejected == scheduleShutdown /\ UNCHANGED vars

\* Mutant: the callback arms the next delay before it looks at the flag.
TimerFiresInVain(s) ==
  /\ stack = <<>>
  /\ s \in armed
  /\ scheduleShutdown
  /\ UNCHANGED vars

TimerFires(s) ==
  /\ stack = <<>>
  /\ s \in armed
  /\ ~scheduleShutdown
  /\ armed' = armed \ {s}
  /\ Begin(s)
  /\ UNCHANGED <<factoryVars, poolVars, scheduled, timer, scheduleShutdown>>

TimerFiresAfterShutdown(s) ==
  /\ stack = <<>>
  /\ s \in armed
  /\ scheduleShutdown
  /\ armed' = armed \ {s}
  /\ UNCHANGED <<factoryVars, poolVars, scheduled, timer, scheduleShutdown,
                 jobs, stack>>

\* shutdownNow() clears the timer it holds: the last one armed, not those of
\* other schedules, nor the one a running command is about to arm.
ShutdownSchedule ==
  /\ scheduleShutdown' = TRUE
  /\ armed' = armed \ {timer}
  /\ timer' = None
  /\ UNCHANGED <<factoryVars, poolVars, scheduled, jobs, stack>>

-----------------------------------------------------------------------------
EndRun == JobReturns \/ JobThrows \/ JobAwaits

TimerEvent(s) == TimerFires(s) \/ TimerFiresAfterShutdown(s)

Next ==
  \/ EndRun
  \/ \E j \in Jobs : JobResumes(j)
  \/ \E prefix \in Names : StartThread(prefix) \/ SubmitToNewWorker(prefix)
  \/ SubmitToNextWorker
  \/ \E prefix \in Names \union {Blank} : SetName(prefix)
  \/ \E s \in Schedules : ScheduleWithFixedDelay(s) \/ TimerEvent(s)
  \/ SubmitRejected \/ ScheduleRejected
  \/ ShutdownPool \/ ShutdownSchedule

\* Synchronous code comes to its end, and the event loop serves a timer that
\* is due.
Spec ==
  /\ Init /\ [][Next]_vars
  /\ WF_vars(EndRun)
  /\ \A s \in Schedules : SF_vars(TimerEvent(s))

-----------------------------------------------------------------------------
(* Properties *)

\* No two threads of a factory have the same name, however often its name was
\* changed in between: the log tells workers apart.
DistinctNames == \A thread \in BagToSet(minted) : minted[thread] = 1

\* "the first poolSize submissions each mint a worker and later ones cycle
\* through them": no worker is two tasks ahead of another, though tasks submit
\* tasks in the middle of their own turn.
WorkersTakeTurns ==
  /\ workers = IF submits < PoolSize THEN submits ELSE PoolSize
  /\ \A i, k \in 1 .. workers : turns[i] <= turns[k] + 1

RunningFirst(s) == {k \in DOMAIN stack : jobs[stack[k]] = [by |-> s, at |-> "first"]}

\* A schedule has one chain of timers: either a timer pending or a command about
\* to arm it, never both; it is cut only by shutdownNow().
OneTimerChain ==
  \A s \in scheduled :
    LET links == Cardinality(RunningFirst(s)) + (IF s \in armed THEN 1 ELSE 0)
    IN  links <= 1 /\ (~scheduleShutdown => links = 1)

\* No timer is left for good after shutdownNow(), although it clears one only.
TimersDie == scheduleShutdown ~> [](armed = {})

-----------------------------------------------------------------------------
(* What these rest on *)

\* No thread is made that is beyond the sequence of its prefix.
NamesInv ==
  \A thread \in BagToSet(minted) :
    minted[thread] = 1 /\ thread[2] <= sequences[thread[1]]

\* The workers before the next one are a round ahead of those after it; until there
\* are all of them, each has had the task it was made for.
TurnsInv ==
  IF workers < PoolSize
    THEN /\ submits = workers /\ nextWorker = 0
         /\ \A i \in 1 .. PoolSize : turns[i] = IF i <= workers THEN 1 ELSE 0
    ELSE /\ submits >= PoolSize
         /\ \E round \in 0 .. submits : \A i \in 1 .. PoolSize :
              turns[i] = IF i <= nextWorker THEN round + 1 ELSE round

\* The stack holds the jobs that run, each once.
StackInv ==
  /\ \A k \in DOMAIN stack : jobs[stack[k]].at \in {"first", "resumed"}
  /\ \A k, m \in DOMAIN stack : stack[k] = stack[m] => k = m

\* A schedule has a timer, or one command on the stack that is to arm it.
ChainInv ==
  \A s \in Schedules :
    /\ \A k, m \in RunningFirst(s) : k = m
    /\ RunningFirst(s) # {} => s \notin armed /\ s \in scheduled
    /\ s \in scheduled /\ ~scheduleShutdown => s \in armed \/ RunningFirst(s) # {}

ExecutorsInv == TypeOK /\ NamesInv /\ TurnsInv /\ StackInv /\ ChainInv
=============================================================================
