-------------------------- MODULE ExecutorsProofs --------------------------
(***************************************************************************)
(* Proofs about Executors, for every number of workers, schedules and jobs *)
(* and every set of names: threads have names of their own, workers take   *)
(* turns, and a schedule has one chain of timers.  The factory, the pool   *)
(* and the jobs have invariants of their own, whose conjunction is         *)
(* ExecutorsInv.                                                           *)
(***************************************************************************)
EXTENDS Executors, SequenceTheorems, FiniteSetTheorems, WellFoundedInduction, TLAPS

FactoryInv ==
  /\ name \in Names \union {Blank}
  /\ sequences \in [Names -> Nat]
  /\ IsABag(minted) /\ BagToSet(minted) \subseteq Thread
  /\ NamesInv

PoolInv ==
  /\ workers \in 0 .. PoolSize
  /\ nextWorker \in 0 .. PoolSize - 1
  /\ poolShutdown \in BOOLEAN
  /\ turns \in [1 .. PoolSize -> Nat] /\ submits \in Nat
  /\ TurnsInv

\* The jobs and the stack; and the schedules.
RunsInv ==
  /\ jobs \in [Jobs -> JobState \union {NoJob}]
  /\ stack \in Seq(Jobs)
  /\ StackInv

ScheduleInv ==
  /\ scheduleShutdown \in BOOLEAN
  /\ armed \subseteq scheduled /\ scheduled \subseteq Schedules
  /\ timer \in Schedules \union {None}
  /\ ChainInv

LEMMA PartsOfExecutorsInv ==
  ExecutorsInv <=> FactoryInv /\ PoolInv /\ RunsInv /\ ScheduleInv
  BY DEF ExecutorsInv, TypeOK, FactoryInv, PoolInv, RunsInv, ScheduleInv

-----------------------------------------------------------------------------
(* NamingThreadFactory *)

\* Whatever the invoker is called, the prefix is a name.
LEMMA PrefixIsAName ==
  ASSUME name \in Names \union {Blank}
  PROVE  Prefix \subseteq Names
  <1>1. \A frame \in Frames : getInvoker(frame) \in Names
    BY ExecutorsAssumption DEF Frames, getInvoker, FactoryName
  <1> QED BY <1>1 DEF Prefix

\* A new thread is the next of its prefix, which no thread has been.
LEMMA NewThreadKeepsFactory ==
  ASSUME FactoryInv, NEW prefix \in Names, NewThread(prefix)
  PROVE  FactoryInv'
  <1> DEFINE t == NextThread(prefix)
             n == sequences[prefix] + 1
  <1>1. /\ minted' = minted (+) SetToBag({t}) /\ name' = name
        /\ sequences' = [sequences EXCEPT ![prefix] = n]
    BY DEF NewThread
  <1>2. /\ sequences \in [Names -> Nat] /\ n \in Nat \ {0} /\ n > sequences[prefix]
        /\ DOMAIN minted \subseteq Thread
        /\ minted \in [DOMAIN minted -> {i \in Nat : i > 0}]
        /\ \A u \in DOMAIN minted : minted[u] = 1 /\ u[2] <= sequences[u[1]]
    BY DEF FactoryInv, NamesInv, IsABag, BagToSet
  <1>3. t = <<prefix, n>> /\ t \in Thread
    BY <1>2 DEF NextThread, Thread
  <1>4. t \notin DOMAIN minted
    BY <1>2, <1>3
  <1>5. /\ DOMAIN minted' = DOMAIN minted \union {t}
        /\ \A u \in DOMAIN minted' : minted'[u] = 1
        /\ minted' = [u \in DOMAIN minted' |-> minted'[u]]
    <2> HIDE DEF t
    <2>1. minted' = [u \in DOMAIN minted \union {t} |->
                       (IF u \in DOMAIN minted THEN minted[u] ELSE 0)
                         + (IF u \in {t} THEN 1 ELSE 0)]
      BY <1>1 DEF (+), SetToBag
    <2> QED BY <1>2, <1>4, <2>1
  <1>6. IsABag(minted') /\ BagToSet(minted') \subseteq Thread
    <2>1. minted' \in [DOMAIN minted' -> {i \in Nat : i > 0}]
      BY <1>5
    <2> QED BY <1>2, <1>3, <1>5, <2>1 DEF IsABag, BagToSet
  <1>7. sequences' \in [Names -> Nat]
        /\ \A p \in Names : sequences[p] <= sequences'[p]
    BY <1>1, <1>2
  <1>8. \A u \in DOMAIN minted' : u[2] <= sequences'[u[1]]
    <2>1. ASSUME NEW u \in DOMAIN minted PROVE u[2] <= sequences'[u[1]]
      <3>1. u \in Thread /\ u[2] <= sequences[u[1]]
        BY <1>2
      <3>2. u[1] \in Names /\ u[2] \in Nat
        BY <3>1 DEF Thread
      <3> QED BY <1>2, <1>7, <3>1, <3>2
    <2>2. t[2] <= sequences'[t[1]]
      BY <1>1, <1>2, <1>3
    <2> QED BY <1>5, <2>1, <2>2
  <1>9. NamesInv'
    BY <1>5, <1>8 DEF NamesInv, BagToSet
  <1> QED BY <1>1, <1>6, <1>7, <1>9 DEF FactoryInv

-----------------------------------------------------------------------------
(* ExecutorService *)

LEMMA PoolSizeType == PoolSize \in Nat \ {0}
  BY ExecutorsAssumption

\* A task for a worker that is made for it.
LEMMA NewWorkerKeepsTurns ==
  ASSUME PoolInv, workers < PoolSize, workers' = workers + 1,
         TakesTurn(workers + 1), UNCHANGED <<nextWorker, poolShutdown>>
  PROVE  PoolInv'
  <1>1. /\ workers \in Nat /\ workers < PoolSize /\ PoolSize \in Nat \ {0}
        /\ turns \in [1 .. PoolSize -> Nat] /\ submits = workers /\ nextWorker = 0
        /\ \A i \in 1 .. PoolSize : turns[i] = IF i <= workers THEN 1 ELSE 0
        /\ poolShutdown \in BOOLEAN
    BY PoolSizeType DEF PoolInv, TurnsInv
  <1>2. /\ turns' = [turns EXCEPT ![workers + 1] = @ + 1] /\ submits' = submits + 1
        /\ workers' = workers + 1 /\ nextWorker' = 0 /\ poolShutdown' = poolShutdown
    BY <1>1 DEF TakesTurn
  <1>3. \A i \in 1 .. PoolSize : turns'[i] = IF i <= workers' THEN 1 ELSE 0
    BY <1>1, <1>2
  <1>4. /\ workers' \in 0 .. PoolSize /\ nextWorker' \in 0 .. PoolSize - 1
        /\ poolShutdown' \in BOOLEAN
        /\ turns' \in [1 .. PoolSize -> Nat] /\ submits' \in Nat
    BY <1>1, <1>2
  <1>5. TurnsInv'
    <2>1. CASE workers' < PoolSize
      BY <1>1, <1>2, <1>3, <2>1 DEF TurnsInv
    <2>2. CASE ~(workers' < PoolSize)
      <3>1. submits' >= PoolSize /\ workers' = PoolSize
        BY <1>1, <1>2, <2>2
      <3>2. 1 \in 0 .. submits'
        BY <1>1, <1>2
      <3>3. \A i \in 1 .. PoolSize : turns'[i] = IF i <= nextWorker' THEN 1 + 1 ELSE 1
        BY <1>1, <1>2, <1>3, <3>1
      <3> QED BY <2>2, <3>1, <3>2, <3>3 DEF TurnsInv
    <2> QED BY <2>1, <2>2
  <1> QED BY <1>4, <1>5 DEF PoolInv

\* A task for the next worker.
LEMMA NextWorkerKeepsTurns ==
  ASSUME PoolInv, workers = PoolSize, TakesTurn((nextWorker % PoolSize) + 1),
         nextWorker' = (nextWorker + 1) % PoolSize, UNCHANGED <<workers, poolShutdown>>
  PROVE  PoolInv'
  <1>1. /\ workers = PoolSize /\ PoolSize \in Nat \ {0}
        /\ nextWorker \in 0 .. PoolSize - 1 /\ poolShutdown \in BOOLEAN
        /\ turns \in [1 .. PoolSize -> Nat] /\ submits \in Nat /\ submits >= PoolSize
    BY PoolSizeType DEF PoolInv, TurnsInv
  <1>2. PICK round \in 0 .. submits :
          \A i \in 1 .. PoolSize : turns[i] = IF i <= nextWorker THEN round + 1 ELSE round
    BY <1>1 DEF PoolInv, TurnsInv
  <1>3. nextWorker % PoolSize = nextWorker
    BY <1>1
  <1>4. nextWorker' = IF nextWorker + 1 = PoolSize THEN 0 ELSE nextWorker + 1
    BY <1>1
  <1>5. /\ turns' = [turns EXCEPT ![nextWorker + 1] = @ + 1] /\ submits' = submits + 1
        /\ workers' = workers /\ poolShutdown' = poolShutdown
    BY <1>3 DEF TakesTurn
  <1>6. \A i \in 1 .. PoolSize :
          turns'[i] = IF i <= nextWorker + 1 THEN round + 1 ELSE round
    BY <1>1, <1>2, <1>5
  <1>7. \E r \in 0 .. submits' : \A i \in 1 .. PoolSize :
          turns'[i] = IF i <= nextWorker' THEN r + 1 ELSE r
    <2>1. CASE nextWorker + 1 = PoolSize
      <3>1. round + 1 \in 0 .. submits' /\ nextWorker' = 0
        BY <1>1, <1>4, <1>5, <2>1
      <3>2. \A i \in 1 .. PoolSize :
              turns'[i] = IF i <= nextWorker' THEN (round + 1) + 1 ELSE round + 1
        BY <1>1, <1>6, <2>1, <3>1
      <3> QED BY <3>1, <3>2
    <2>2. CASE nextWorker + 1 # PoolSize
      <3>1. round \in 0 .. submits' /\ nextWorker' = nextWorker + 1
        BY <1>1, <1>4, <1>5, <2>2
      <3> QED BY <1>6, <3>1
    <2> QED BY <2>1, <2>2
  <1>8. TurnsInv'
    <2>1. ~(workers' < PoolSize) /\ submits' >= PoolSize
      BY <1>1, <1>5
    <2> QED BY <1>7, <2>1 DEF TurnsInv
  <1>9. /\ workers' \in 0 .. PoolSize /\ nextWorker' \in 0 .. PoolSize - 1
        /\ poolShutdown' \in BOOLEAN
        /\ turns' \in [1 .. PoolSize -> Nat] /\ submits' \in Nat
    BY <1>1, <1>4, <1>5
  <1> QED BY <1>8, <1>9 DEF PoolInv

-----------------------------------------------------------------------------
(* Jobs and their stack *)

\* The least of the free jobs is one of them.
LEMMA FreeJobIsFree ==
  ASSUME FreeJobs # {}
  PROVE  Min(FreeJobs) \in Jobs /\ jobs[Min(FreeJobs)] = NoJob
  <1>1. FreeJobs \subseteq Nat
    BY ExecutorsAssumption DEF FreeJobs, Jobs
  <1>2. PICK m \in FreeJobs : \A j \in FreeJobs : ~(<<j, m>> \in OpToRel(<, Nat))
    BY <1>1, NatLessThanWellFounded, WFMin, Zenon
  <1>3. \A j \in FreeJobs : m <= j
    <2> TAKE j \in FreeJobs
    <2>1. ~(<<j, m>> \in OpToRel(<, Nat)) /\ j \in Nat /\ m \in Nat
      BY <1>1, <1>2
    <2> QED BY <2>1 DEF OpToRel
  <1>4. Min(FreeJobs) \in FreeJobs
    BY <1>3 DEF Min
  <1> QED BY <1>4 DEF FreeJobs

\* A job is begun on top of the stack, where only it is new.
LEMMA BeginKeepsRuns ==
  ASSUME RunsInv, NEW by \in Schedules \union {"submit", "start"}, Begin(by)
  PROVE  /\ RunsInv'
         /\ \A s \in Schedules :
              RunningFirst(s)' = RunningFirst(s)
                \union (IF s = by THEN {Len(stack) + 1} ELSE {})
  <1> DEFINE j == Min(FreeJobs)
             n == Len(stack)
             job == [by |-> by, at |-> "first"]
  <1>1. j \in Jobs /\ jobs[j] = NoJob
    BY FreeJobIsFree DEF Begin
  <1>2. jobs' = [jobs EXCEPT ![j] = job] /\ stack' = Append(stack, j)
    BY DEF Begin
  <1>3. /\ jobs \in [Jobs -> JobState \union {NoJob}] /\ stack \in Seq(Jobs)
        /\ \A k \in DOMAIN stack : jobs[stack[k]].at \in {"first", "resumed"}
        /\ \A k, m \in DOMAIN stack : stack[k] = stack[m] => k = m
    BY DEF RunsInv, StackInv
  <1>4. job \in JobState /\ job.at = "first" /\ job.by = by
    BY DEF JobState
  <1> HIDE DEF j, job
  <1>5. /\ stack' \in Seq(Jobs) /\ n \in Nat /\ DOMAIN stack = 1 .. n
        /\ DOMAIN stack' = 1 .. n + 1 /\ stack'[n + 1] = j
        /\ \A k \in 1 .. n : stack'[k] = stack[k] /\ stack[k] \in Jobs
    BY <1>1, <1>2, <1>3
  <1> HIDE DEF n
  <1>6. jobs' \in [Jobs -> JobState \union {NoJob}] /\ jobs'[j] = job
        /\ \A i \in Jobs : i # j => jobs'[i] = jobs[i]
    BY <1>1, <1>2, <1>3, <1>4
  <1>7. \A k \in 1 .. n : stack[k] # j
    BY <1>1, <1>3, <1>5 DEF NoJob
  <1>8. \A k \in 1 .. n : jobs'[stack'[k]] = jobs[stack[k]]
    BY <1>5, <1>6, <1>7
  <1>9. \A k \in 1 .. n + 1 : k \in 1 .. n \/ k = n + 1
    BY <1>5
  <1>10. StackInv'
    <2>1. \A k \in 1 .. n + 1 : jobs'[stack'[k]].at \in {"first", "resumed"}
      BY <1>3, <1>4, <1>5, <1>6, <1>8, <1>9
    <2>2. \A k, m \in 1 .. n + 1 : stack'[k] = stack'[m] => k = m
      BY <1>3, <1>5, <1>7, <1>9
    <2> QED BY <1>5, <2>1, <2>2 DEF StackInv
  <1>11. ASSUME NEW s \in Schedules
         PROVE  RunningFirst(s)' = RunningFirst(s) \union (IF s = by THEN {n + 1} ELSE {})
    <2>1. n + 1 \notin 1 .. n /\ n + 1 \in 1 .. n + 1 /\ 1 .. n \subseteq 1 .. n + 1
      BY <1>5
    <2>2. jobs'[stack'[n + 1]] = [by |-> s, at |-> "first"] <=> s = by
      BY <1>5, <1>6 DEF job
    <2> QED BY <1>5, <1>8, <1>9, <2>1, <2>2 DEF RunningFirst
  <1> QED BY <1>5, <1>6, <1>10, <1>11 DEF RunsInv, n

\* The job on top goes, to its end or to wait for its promise.
LEMMA LeaveKeepsRuns ==
  ASSUME RunsInv, NEW state, LeaveStack(state),
         state \in {NoJob, [jobs[Last(stack)] EXCEPT !.at = "suspended"]}
  PROVE  /\ RunsInv' /\ jobs[Last(stack)] \in JobState
         /\ \A s \in Schedules :
              /\ RunningFirst(s)' = RunningFirst(s) \ {Len(stack)}
              /\ Len(stack) \in RunningFirst(s) <=>
                   jobs[Last(stack)].at = "first" /\ jobs[Last(stack)].by = s
  <1> DEFINE n == Len(stack)
             j == stack[n]
  <1>1. /\ jobs \in [Jobs -> JobState \union {NoJob}] /\ stack \in Seq(Jobs)
        /\ \A k \in DOMAIN stack : jobs[stack[k]].at \in {"first", "resumed"}
        /\ \A k, m \in DOMAIN stack : stack[k] = stack[m] => k = m
        /\ stack # <<>>
    BY DEF RunsInv, StackInv, LeaveStack
  <1>2. jobs' = [jobs EXCEPT ![j] = state] /\ stack' = SubSeq(stack, 1, n - 1)
        /\ Last(stack) = j
    BY DEF LeaveStack, Front, Last
  <1>3. n \in Nat \ {0} /\ DOMAIN stack = 1 .. n /\ \A k \in 1 .. n : stack[k] \in Jobs
    BY <1>1
  <1>4. /\ stack' \in Seq(Jobs) /\ DOMAIN stack' = 1 .. n - 1
        /\ \A k \in 1 .. n - 1 : stack'[k] = stack[k]
    <2> HIDE DEF n
    <2>1. n - 1 \in Nat /\ \A k \in 1 .. n - 1 : stack[k] \in Jobs
      BY <1>3
    <2>2. /\ SubSeq(stack, 1, n - 1) \in Seq(Jobs)
          /\ Len(SubSeq(stack, 1, n - 1)) = n - 1
          /\ \A k \in 1 .. n - 1 : SubSeq(stack, 1, n - 1)[k] = stack[k]
      <3> DEFINE i == n - 1
      <3>1. i \in Nat /\ \A k \in 1 .. i : stack[k] \in Jobs
        BY <2>1
      <3>2. /\ SubSeq(stack, 1, i) \in Seq(Jobs)
            /\ Len(SubSeq(stack, 1, i)) = IF 1 <= i THEN i - 1 + 1 ELSE 0
            /\ \A k \in 1 .. i - 1 + 1 : SubSeq(stack, 1, i)[k] = stack[1 + k - 1]
        <4> HIDE DEF i
        <4> QED BY <3>1, SubSeqProperties
      <3>3. \A k \in 1 .. i : 1 + k - 1 = k
        BY <3>1
      <3> HIDE DEF i
      <3>4. /\ SubSeq(stack, 1, i) \in Seq(Jobs) /\ Len(SubSeq(stack, 1, i)) = i
            /\ \A k \in 1 .. i : SubSeq(stack, 1, i)[k] = stack[k]
        BY <3>1, <3>2, <3>3
      <3> QED BY <3>4 DEF i
    <2> QED BY <1>2, <2>1, <2>2
  <1>5. n \in 1 .. n /\ (\A k \in 1 .. n - 1 : k \in 1 .. n /\ k # n)
        /\ 1 .. n - 1 = 1 .. n \ {n}
    BY <1>3
  <1> HIDE DEF n
  <1>6. j \in Jobs /\ jobs[j] \in JobState /\ jobs[j].at \in {"first", "resumed"}
    <2>1. j \in Jobs /\ jobs[j] \in JobState \union {NoJob}
          /\ jobs[j].at \in {"first", "resumed"}
      BY <1>1, <1>3, <1>5
    <2>2. jobs[j] # NoJob
      BY <2>1 DEF NoJob
    <2> QED BY <2>1, <2>2
  <1> HIDE DEF j
  <1>7. state \in JobState \union {NoJob}
    BY <1>2, <1>6 DEF JobState
  <1>8. /\ jobs' \in [Jobs -> JobState \union {NoJob}]
        /\ \A i \in Jobs : i # j => jobs'[i] = jobs[i]
    BY <1>1, <1>2, <1>6, <1>7
  <1>9. \A k \in 1 .. n - 1 : stack'[k] = stack[k] /\ jobs'[stack'[k]] = jobs[stack[k]]
    <2> TAKE k \in 1 .. n - 1
    <2>1. k \in 1 .. n /\ k # n /\ stack[k] \in Jobs
      BY <1>3, <1>5
    <2>2. stack[k] # j
      BY <1>1, <1>3, <1>5, <2>1 DEF j
    <2> QED BY <1>4, <1>8, <2>1, <2>2
  <1>10. StackInv'
    BY <1>1, <1>3, <1>4, <1>5, <1>9 DEF StackInv
  <1>11. ASSUME NEW s \in Schedules
         PROVE  /\ RunningFirst(s)' = RunningFirst(s) \ {n}
                /\ n \in RunningFirst(s) <=> jobs[j].at = "first" /\ jobs[j].by = s
    <2>1. RunningFirst(s)' = RunningFirst(s) \ {n}
      BY <1>3, <1>4, <1>5, <1>9 DEF RunningFirst
    <2>2. jobs[j] = [by |-> s, at |-> "first"] <=> jobs[j].at = "first" /\ jobs[j].by = s
      BY <1>6 DEF JobState
    <2>3. n \in RunningFirst(s) <=> jobs[j] = [by |-> s, at |-> "first"]
      BY <1>3, <1>5 DEF RunningFirst, j
    <2> QED BY <2>1, <2>2, <2>3
  <1> QED BY <1>2, <1>4, <1>6, <1>8, <1>10, <1>11 DEF RunsInv, n

\* A promise settles: its job runs again, alone.
LEMMA ResumeKeepsRuns ==
  ASSUME RunsInv, NEW j \in Jobs, JobResumes(j)
  PROVE  RunsInv' /\ \A s \in Schedules : RunningFirst(s)' = RunningFirst(s)
  <1>1. /\ jobs \in [Jobs -> JobState \union {NoJob}] /\ stack = <<>>
        /\ jobs[j].at = "suspended" /\ jobs' = [jobs EXCEPT ![j].at = "resumed"]
        /\ stack' = <<j>>
    BY DEF RunsInv, JobResumes
  <1>2. jobs[j] \in JobState
    BY <1>1 DEF NoJob
  <1>3. /\ jobs'[j] \in JobState /\ jobs'[j].at = "resumed"
        /\ jobs' \in [Jobs -> JobState \union {NoJob}]
    BY <1>1, <1>2 DEF JobState
  <1>4. stack' \in Seq(Jobs) /\ DOMAIN stack' = {1} /\ stack'[1] = j /\ DOMAIN stack = {}
    BY <1>1
  <1>5. StackInv'
    BY <1>3, <1>4 DEF StackInv
  <1>6. \A s \in Schedules : RunningFirst(s)' = {} /\ RunningFirst(s) = {}
    BY <1>3, <1>4 DEF RunningFirst
  <1> QED BY <1>3, <1>4, <1>5, <1>6 DEF RunsInv

-----------------------------------------------------------------------------
(* ScheduledExecutorService *)

\* A command that comes out of its first run hands the chain to a timer.
LEMMA EndRunKeepsSchedules ==
  ASSUME RunsInv, ScheduleInv, NEW state, LeaveStack(state), ArmsNext,
         state \in {NoJob, [jobs[Last(stack)] EXCEPT !.at = "suspended"]}
  PROVE  RunsInv' /\ ScheduleInv'
  <1> DEFINE job == jobs[Last(stack)]
             n == Len(stack)
  <1>1. /\ RunsInv' /\ job \in JobState
        /\ \A s \in Schedules : /\ RunningFirst(s)' = RunningFirst(s) \ {n}
                                /\ n \in RunningFirst(s) <=> job.at = "first" /\ job.by = s
    BY LeaveKeepsRuns
  <1>2. IF job.at = "first" /\ job.by \in Schedules
          THEN /\ armed' = armed \union {job.by} /\ timer' = job.by
               /\ scheduled' = scheduled /\ scheduleShutdown' = scheduleShutdown
          ELSE UNCHANGED <<scheduled, armed, timer, scheduleShutdown>>
    BY DEF ArmsNext, scheduleVars
  <1> HIDE DEF job, n
  <1>3. \A s \in Schedules :
          /\ \A k, m \in RunningFirst(s) : k = m
          /\ RunningFirst(s) # {} => s \notin armed /\ s \in scheduled
          /\ s \in scheduled /\ ~scheduleShutdown => s \in armed \/ RunningFirst(s) # {}
    BY DEF ScheduleInv, ChainInv
  <1>4. CASE job.at = "first" /\ job.by \in Schedules
    <2>1. RunningFirst(job.by) = {n} /\ job.by \in scheduled
      BY <1>1, <1>3, <1>4
    <2>2. ASSUME NEW s \in Schedules
          PROVE  /\ \A k, m \in RunningFirst(s)' : k = m
                 /\ RunningFirst(s)' # {} => s \notin armed' /\ s \in scheduled'
                 /\ s \in scheduled' /\ ~scheduleShutdown'
                      => s \in armed' \/ RunningFirst(s)' # {}
      <3>1. CASE s = job.by
        BY <1>1, <1>2, <1>4, <2>1, <3>1
      <3>2. CASE s # job.by
        <4>1. RunningFirst(s)' = RunningFirst(s)
          BY <1>1, <3>2
        <4> QED BY <1>2, <1>3, <1>4, <3>2, <4>1
      <3> QED BY <3>1, <3>2
    <2>3. ChainInv'
      BY <2>2 DEF ChainInv
    <2> QED BY <1>1, <1>2, <1>4, <2>1, <2>3 DEF ScheduleInv
  <1>5. CASE ~(job.at = "first" /\ job.by \in Schedules)
    <2>1. \A s \in Schedules : RunningFirst(s)' = RunningFirst(s)
      BY <1>1, <1>5
    <2>2. ChainInv'
      BY <1>2, <1>3, <1>5, <2>1 DEF ChainInv
    <2> QED BY <1>1, <1>2, <1>5, <2>2 DEF ScheduleInv
  <1> QED BY <1>4, <1>5

\* Where no command is begun and none comes to arm its timer, the chains are kept
\* if the timers are.
LEMMA SameRunsKeepSchedules ==
  ASSUME ScheduleInv, UNCHANGED scheduleVars,
         \A s \in Schedules : RunningFirst(s)' = RunningFirst(s)
  PROVE  ScheduleInv'
  BY DEF ScheduleInv, ChainInv, scheduleVars

\* A task or a thread is no command of a schedule.
LEMMA ClientBeginsKeepsSchedules ==
  ASSUME RunsInv, ScheduleInv, NEW by \in {"submit", "start"}, ClientBegins(by),
         UNCHANGED scheduleVars
  PROVE  RunsInv' /\ ScheduleInv'
  <1>1. by \in Schedules \union {"submit", "start"} /\ by \notin Schedules
    BY ExecutorsAssumption
  <1>2. /\ RunsInv'
        /\ \A s \in Schedules : RunningFirst(s)' = RunningFirst(s)
             \union (IF s = by THEN {Len(stack) + 1} ELSE {})
    BY <1>1, BeginKeepsRuns DEF ClientBegins
  <1>3. \A s \in Schedules : RunningFirst(s)' = RunningFirst(s)
    BY <1>1, <1>2
  <1> QED BY <1>2, <1>3, SameRunsKeepSchedules

\* The timer hands the chain to the command.
LEMMA TimerKeepsSchedules ==
  ASSUME RunsInv, ScheduleInv, NEW s \in Schedules, TimerFires(s)
  PROVE  RunsInv' /\ ScheduleInv'
  <1>1. /\ s \in armed /\ ~scheduleShutdown /\ armed' = armed \ {s} /\ Begin(s)
        /\ UNCHANGED <<scheduled, timer, scheduleShutdown>>
    BY DEF TimerFires
  <1>2. /\ RunsInv'
        /\ \A c \in Schedules : RunningFirst(c)' = RunningFirst(c)
             \union (IF c = s THEN {Len(stack) + 1} ELSE {})
    BY <1>1, BeginKeepsRuns
  <1>3. ChainInv'
    <2>1. ASSUME NEW c \in Schedules
          PROVE  /\ \A k, m \in RunningFirst(c)' : k = m
                 /\ RunningFirst(c)' # {} => c \notin armed' /\ c \in scheduled'
                 /\ c \in scheduled' /\ ~scheduleShutdown'
                      => c \in armed' \/ RunningFirst(c)' # {}
      <3>1. /\ \A k, m \in RunningFirst(c) : k = m
            /\ RunningFirst(c) # {} => c \notin armed /\ c \in scheduled
            /\ c \in scheduled /\ ~scheduleShutdown => c \in armed \/ RunningFirst(c) # {}
        BY DEF ScheduleInv, ChainInv
      <3>2. CASE c = s
        <4>1. RunningFirst(c) = {} /\ RunningFirst(c)' = {Len(stack) + 1} /\ c \in scheduled
          BY <1>1, <1>2, <3>1, <3>2 DEF ScheduleInv
        <4> QED BY <1>1, <3>2, <4>1
      <3>3. CASE c # s
        BY <1>1, <1>2, <3>1, <3>3
      <3> QED BY <3>2, <3>3
    <2> QED BY <2>1 DEF ChainInv
  <1> QED BY <1>1, <1>2, <1>3 DEF ScheduleInv

\* Steps between the runs: a schedule is begun, its timer dies, or all are told to.
LEMMA OtherStepsKeepSchedules ==
  ASSUME ScheduleInv, NEW s \in Schedules, UNCHANGED <<jobs, stack>>,
         \/ ScheduleWithFixedDelay(s)
         \/ TimerFiresAfterShutdown(s)
         \/ ShutdownSchedule
  PROVE  ScheduleInv'
  <1>1. \A c \in Schedules : RunningFirst(c)' = RunningFirst(c)
    BY DEF RunningFirst
  <1>2. \A c \in Schedules :
          /\ \A k, m \in RunningFirst(c) : k = m
          /\ RunningFirst(c) # {} => c \notin armed /\ c \in scheduled
          /\ c \in scheduled /\ ~scheduleShutdown => c \in armed \/ RunningFirst(c) # {}
    BY DEF ScheduleInv, ChainInv
  <1>3. CASE ScheduleWithFixedDelay(s)
    <2>1. /\ s \notin scheduled /\ scheduled' = scheduled \union {s} /\ timer' = s
          /\ armed' = armed \union {s} /\ scheduleShutdown' = scheduleShutdown
      BY <1>3 DEF ScheduleWithFixedDelay
    <2>2. ChainInv'
      BY <1>1, <1>2, <2>1 DEF ChainInv
    <2> QED BY <2>1, <2>2 DEF ScheduleInv
  <1>4. CASE TimerFiresAfterShutdown(s)
    <2>1. /\ scheduleShutdown /\ armed' = armed \ {s}
          /\ UNCHANGED <<scheduled, timer, scheduleShutdown>>
      BY <1>4 DEF TimerFiresAfterShutdown
    <2>2. ChainInv'
      BY <1>1, <1>2, <2>1 DEF ChainInv
    <2> QED BY <2>1, <2>2 DEF ScheduleInv
  <1>5. CASE ShutdownSchedule
    <2>1. /\ scheduleShutdown' = TRUE /\ armed' = armed \ {timer} /\ timer' = None
          /\ scheduled' = scheduled
      BY <1>5 DEF ShutdownSchedule
    <2>2. ChainInv'
      BY <1>1, <1>2, <2>1 DEF ChainInv
    <2> QED BY <2>1, <2>2 DEF ScheduleInv
  <1> QED BY <1>3, <1>4, <1>5

-----------------------------------------------------------------------------
(* The inductive invariant *)

LEMMA InitialExecutors == Init => ExecutorsInv
  <1> SUFFICES ASSUME Init PROVE ExecutorsInv
    OBVIOUS
  <1>1. FactoryInv
    <2>1. minted = [t \in {} |-> 1]
      BY DEF Init, EmptyBag, SetToBag
    <2>2. sequences \in [Names -> Nat] /\ name \in Names \union {Blank}
      BY DEF Init
    <2>3. IsABag(minted) /\ BagToSet(minted) = {}
      BY <2>1 DEF IsABag, BagToSet
    <2> QED BY <2>2, <2>3 DEF FactoryInv, NamesInv
  <1>2. PoolInv
    <2>1. /\ workers = 0 /\ nextWorker = 0 /\ poolShutdown = FALSE /\ submits = 0
          /\ turns = [i \in 1 .. PoolSize |-> 0] /\ PoolSize \in Nat \ {0}
      BY PoolSizeType DEF Init
    <2>2. TurnsInv
      BY <2>1 DEF TurnsInv
    <2>3. workers \in 0 .. PoolSize /\ nextWorker \in 0 .. PoolSize - 1
      BY <2>1
    <2>4. turns \in [1 .. PoolSize -> Nat]
      BY <2>1
    <2> QED BY <2>1, <2>2, <2>3, <2>4 DEF PoolInv
  <1>3. RunsInv
    BY DEF Init, RunsInv, StackInv
  <1>4. ScheduleInv
    <2>1. DOMAIN stack = {} /\ scheduled = {} /\ armed = {}
      BY DEF Init
    <2>2. \A s \in Schedules : RunningFirst(s) = {}
      BY <2>1 DEF RunningFirst
    <2>3. ChainInv
      BY <2>1, <2>2 DEF ChainInv
    <2>4. scheduleShutdown \in BOOLEAN /\ timer = None
      BY DEF Init
    <2> QED BY <2>1, <2>3, <2>4 DEF ScheduleInv
  <1> QED BY <1>1, <1>2, <1>3, <1>4, PartsOfExecutorsInv

\* What does not concern a part leaves it as it was.
LEMMA UntouchedParts ==
  /\ FactoryInv /\ UNCHANGED factoryVars => FactoryInv'
  /\ PoolInv /\ UNCHANGED poolVars => PoolInv'
  /\ RunsInv /\ ScheduleInv /\ UNCHANGED <<scheduleVars, jobs, stack>>
       => RunsInv' /\ ScheduleInv'
  <1>1. FactoryInv /\ UNCHANGED factoryVars => FactoryInv'
    BY DEF FactoryInv, NamesInv, factoryVars
  <1>2. PoolInv /\ UNCHANGED poolVars => PoolInv'
    BY DEF PoolInv, TurnsInv, poolVars
  <1>3. RunsInv /\ UNCHANGED <<jobs, stack>> => RunsInv'
    BY DEF RunsInv, StackInv
  <1>4. ScheduleInv /\ UNCHANGED <<scheduleVars, jobs, stack>> => ScheduleInv'
    BY DEF ScheduleInv, ChainInv, RunningFirst, scheduleVars
  <1> QED BY <1>1, <1>2, <1>3, <1>4

LEMMA StepOfExecutors == ExecutorsInv /\ [Next]_vars => ExecutorsInv'
  <1> SUFFICES ASSUME FactoryInv, PoolInv, RunsInv, ScheduleInv, [Next]_vars
               PROVE  FactoryInv' /\ PoolInv' /\ RunsInv' /\ ScheduleInv'
    BY DEF ExecutorsInv, TypeOK, FactoryInv, PoolInv, RunsInv, ScheduleInv
  <1>1. ASSUME UNCHANGED vars PROVE FactoryInv' /\ PoolInv' /\ RunsInv' /\ ScheduleInv'
    BY <1>1, UntouchedParts DEF vars
  <1>2. ASSUME EndRun PROVE FactoryInv' /\ PoolInv' /\ RunsInv' /\ ScheduleInv'
    <2>1. PICK state \in {NoJob, [jobs[Last(stack)] EXCEPT !.at = "suspended"]} :
            LeaveStack(state) /\ ArmsNext
      BY <1>2 DEF EndRun, JobReturns, JobThrows, JobAwaits
    <2>2. RunsInv' /\ ScheduleInv'
      BY <2>1, EndRunKeepsSchedules
    <2>3. UNCHANGED <<factoryVars, poolVars>>
      BY <2>1 DEF LeaveStack
    <2> QED BY <2>2, <2>3, UntouchedParts
  <1>3. ASSUME NEW j \in Jobs, JobResumes(j)
        PROVE  FactoryInv' /\ PoolInv' /\ RunsInv' /\ ScheduleInv'
    <2>1. UNCHANGED <<factoryVars, poolVars, scheduleVars>>
      BY <1>3 DEF JobResumes
    <2>2. RunsInv' /\ ScheduleInv'
      BY <1>3, <2>1, ResumeKeepsRuns, SameRunsKeepSchedules
    <2> QED BY <2>1, <2>2, UntouchedParts
  <1>4. ASSUME NEW prefix \in Names, StartThread(prefix)
        PROVE  FactoryInv' /\ PoolInv' /\ RunsInv' /\ ScheduleInv'
    <2>1. NewThread(prefix) /\ ClientBegins("start") /\ UNCHANGED <<poolVars, scheduleVars>>
      BY <1>4 DEF StartThread
    <2> QED BY <2>1, NewThreadKeepsFactory, ClientBeginsKeepsSchedules, UntouchedParts
  <1>5. ASSUME NEW prefix \in Names, SubmitToNewWorker(prefix)
        PROVE  FactoryInv' /\ PoolInv' /\ RunsInv' /\ ScheduleInv'
    <2>1. /\ NewThread(prefix) /\ ClientBegins("submit") /\ UNCHANGED scheduleVars
          /\ workers < PoolSize /\ workers' = workers + 1 /\ TakesTurn(workers + 1)
          /\ UNCHANGED <<nextWorker, poolShutdown>>
      BY <1>5 DEF SubmitToNewWorker
    <2> QED BY <2>1, NewThreadKeepsFactory, NewWorkerKeepsTurns, ClientBeginsKeepsSchedules
  <1>6. ASSUME SubmitToNextWorker PROVE FactoryInv' /\ PoolInv' /\ RunsInv' /\ ScheduleInv'
    <2>1. /\ ClientBegins("submit") /\ UNCHANGED <<factoryVars, scheduleVars>>
          /\ workers = PoolSize /\ TakesTurn((nextWorker % PoolSize) + 1)
          /\ nextWorker' = (nextWorker + 1) % PoolSize
          /\ UNCHANGED <<workers, poolShutdown>>
      BY <1>6 DEF SubmitToNextWorker
    <2> QED BY <2>1, NextWorkerKeepsTurns, ClientBeginsKeepsSchedules, UntouchedParts
  <1>7. ASSUME NEW prefix \in Names \union {Blank}, SetName(prefix)
        PROVE  FactoryInv' /\ PoolInv' /\ RunsInv' /\ ScheduleInv'
    <2>1. /\ name' = prefix /\ UNCHANGED <<sequences, minted>>
          /\ UNCHANGED <<poolVars, scheduleVars, jobs, stack>>
      BY <1>7 DEF SetName
    <2>2. FactoryInv'
      BY <1>7, <2>1 DEF FactoryInv, NamesInv
    <2> QED BY <2>1, <2>2, UntouchedParts
  <1>8. ASSUME NEW s \in Schedules, ScheduleWithFixedDelay(s)
        PROVE  FactoryInv' /\ PoolInv' /\ RunsInv' /\ ScheduleInv'
    <2>1. /\ UNCHANGED factoryVars \/ \E prefix \in Prefix : NewThread(prefix)
          /\ UNCHANGED <<poolVars, jobs, stack>>
      BY <1>8 DEF ScheduleWithFixedDelay
    <2>2. Prefix \subseteq Names
      BY PrefixIsAName DEF FactoryInv
    <2>3. FactoryInv'
      BY <2>1, <2>2, NewThreadKeepsFactory, UntouchedParts
    <2>4. ScheduleInv' /\ RunsInv'
      BY <1>8, <2>1, OtherStepsKeepSchedules DEF RunsInv, StackInv
    <2> QED BY <2>1, <2>3, <2>4, UntouchedParts
  <1>9. ASSUME NEW s \in Schedules, TimerFires(s)
        PROVE  FactoryInv' /\ PoolInv' /\ RunsInv' /\ ScheduleInv'
    <2>1. UNCHANGED <<factoryVars, poolVars>>
      BY <1>9 DEF TimerFires
    <2> QED BY <1>9, <2>1, TimerKeepsSchedules, UntouchedParts
  <1>10. ASSUME NEW s \in Schedules, TimerFiresAfterShutdown(s)
         PROVE  FactoryInv' /\ PoolInv' /\ RunsInv' /\ ScheduleInv'
    <2>1. UNCHANGED <<factoryVars, poolVars, jobs, stack>>
      BY <1>10 DEF TimerFiresAfterShutdown
    <2>2. ScheduleInv' /\ RunsInv'
      BY <1>10, <2>1, OtherStepsKeepSchedules DEF RunsInv, StackInv
    <2> QED BY <2>1, <2>2, UntouchedParts
  <1>11. ASSUME ShutdownPool PROVE FactoryInv' /\ PoolInv' /\ RunsInv' /\ ScheduleInv'
    <2>1. /\ poolShutdown' = TRUE /\ UNCHANGED <<workers, nextWorker, turns, submits>>
          /\ UNCHANGED <<factoryVars, scheduleVars, jobs, stack>>
      BY <1>11 DEF ShutdownPool
    <2>2. PoolInv'
      BY <2>1 DEF PoolInv, TurnsInv
    <2> QED BY <2>1, <2>2, UntouchedParts
  <1>12. ASSUME ShutdownSchedule PROVE FactoryInv' /\ PoolInv' /\ RunsInv' /\ ScheduleInv'
    <2>1. UNCHANGED <<factoryVars, poolVars, jobs, stack>>
      BY <1>12 DEF ShutdownSchedule
    <2>2. RunsInv'
      BY <2>1 DEF RunsInv, StackInv
    <2>3. ScheduleInv'
      <3>1. CASE Schedules = {}
        BY <1>12, <3>1 DEF ShutdownSchedule, ScheduleInv, ChainInv
      <3>2. CASE Schedules # {}
        BY <1>12, <2>1, <3>2, OtherStepsKeepSchedules
      <3> QED BY <3>1, <3>2
    <2> QED BY <2>1, <2>2, <2>3, UntouchedParts
  <1> QED
    BY <1>1, <1>2, <1>3, <1>4, <1>5, <1>6, <1>7, <1>8, <1>9, <1>10, <1>11, <1>12
    DEF Next, TimerEvent, SubmitRejected, ScheduleRejected

\* The fairness of Spec plays no part.
LEMMA ExecutorsInvariant == Spec => []ExecutorsInv
  <1>1. Init => ExecutorsInv
    BY InitialExecutors
  <1>2. ExecutorsInv /\ [Next]_vars => ExecutorsInv'
    BY StepOfExecutors
  <1> QED BY <1>1, <1>2, PTL DEF Spec

-----------------------------------------------------------------------------
(* Theorems *)

\* TypeOK: nextWorker stays an index, and the stack holds jobs.
THEOREM ExecutorsTypeCorrect == Spec => []TypeOK
  <1>1. ExecutorsInv => TypeOK
    BY DEF ExecutorsInv
  <1> QED BY <1>1, ExecutorsInvariant, PTL

\* DistinctNames: a sequence for each prefix that is never begun again is enough,
\* however often setName() was called in between.
THEOREM NamesAreDistinct == Spec => []DistinctNames
  <1>1. ExecutorsInv => DistinctNames
    BY DEF ExecutorsInv, NamesInv, DistinctNames
  <1> QED BY <1>1, ExecutorsInvariant, PTL

\* WorkersTakeTurns: of a pool of any size, no worker is two tasks ahead, though
\* tasks submit tasks in the middle of their own turn.
THEOREM TurnsAreTaken == Spec => []WorkersTakeTurns
  <1>1. ASSUME ExecutorsInv PROVE WorkersTakeTurns
    <2>1. PoolInv /\ PoolSize \in Nat \ {0}
      BY <1>1, PartsOfExecutorsInv, PoolSizeType
    <2>2. workers \in 0 .. PoolSize
      BY <2>1 DEF PoolInv
    <2>3. CASE workers < PoolSize
      BY <2>1, <2>2, <2>3 DEF PoolInv, TurnsInv, WorkersTakeTurns
    <2>4. CASE ~(workers < PoolSize)
      <3>1. workers = PoolSize /\ submits >= PoolSize /\ submits \in Nat
        BY <2>1, <2>2, <2>4 DEF PoolInv, TurnsInv
      <3>2. PICK round \in 0 .. submits : \A i \in 1 .. PoolSize :
              turns[i] = IF i <= nextWorker THEN round + 1 ELSE round
        BY <2>1, <2>4 DEF PoolInv, TurnsInv
      <3>3. workers = IF submits < PoolSize THEN submits ELSE PoolSize
        BY <2>1, <3>1
      <3>4. \A i, k \in 1 .. workers : turns[i] <= turns[k] + 1
        BY <3>1, <3>2
      <3> QED BY <3>3, <3>4 DEF WorkersTakeTurns
    <2> QED BY <2>3, <2>4
  <1> QED BY <1>1, ExecutorsInvariant, PTL

\* OneTimerChain: of any number of schedules, whose commands return, throw, await,
\* submit and shut down, none is cut before shutdownNow(), and none is doubled.
THEOREM ChainsAreSingle == Spec => []OneTimerChain
  <1>1. ASSUME ExecutorsInv, NEW s \in scheduled
        PROVE  LET links == Cardinality(RunningFirst(s)) + (IF s \in armed THEN 1 ELSE 0)
               IN  links <= 1 /\ (~scheduleShutdown => links = 1)
    <2>1. s \in Schedules /\ ScheduleInv
      BY <1>1, PartsOfExecutorsInv DEF ScheduleInv
    <2>2. /\ \A k, m \in RunningFirst(s) : k = m
          /\ RunningFirst(s) # {} => s \notin armed
          /\ ~scheduleShutdown => s \in armed \/ RunningFirst(s) # {}
      BY <1>1, <2>1 DEF ScheduleInv, ChainInv
    <2>3. CASE RunningFirst(s) = {}
      <3>1. Cardinality(RunningFirst(s)) = 0
        BY <2>3, FS_EmptySet
      <3> QED BY <2>2, <2>3, <3>1
    <2>4. CASE RunningFirst(s) # {}
      <3>1. PICK k \in RunningFirst(s) : RunningFirst(s) = {k}
        BY <2>2, <2>4
      <3>2. Cardinality(RunningFirst(s)) = 1
        BY <3>1, FS_Singleton
      <3> QED BY <2>2, <2>4, <3>2
    <2> QED BY <2>3, <2>4
  <1>2. ExecutorsInv => OneTimerChain
    BY <1>1 DEF OneTimerChain
  <1> QED BY <1>2, ExecutorsInvariant, PTL
=============================================================================
