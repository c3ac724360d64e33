# Specifications of UidGenerator

TLA+ specifications of the generator of unique ids in this repository: models
of its components, checked with TLC on small instances, and theorems about
them proved with TLAPS for every value of their constants. Paths below are
relative to the repository (`src/...` is its source directory).

## The system

The library hands out 64-bit ids made of a sign bit, a second since an epoch, a
worker id and a sequence. There are two generators. `DefaultUidGenerator` reads
the wall clock in every call. `CachedUidGenerator` takes ids from a ring buffer
that is filled ahead of use, with seconds borrowed from the future. Both get
their worker id at start from a row inserted into a database.

It is a port of a threaded Java program to one JavaScript thread. Nothing is
preempted, but much is re-entrant: the "thread pool" runs its task on the
caller's stack, and the policies for rejected puts and takes are client code
called in the middle of `put()` and `take()`.

### Components

| component | source | state | operations | interacts with |
|---|---|---|---|---|
| Ring buffer | `src/buffer/ring-buffer.ts` | `tail`, `cursor`, `slots`, `flags`, executor | `put`, `take`, setters | `take` calls `asyncPadding()` and the rejected-take handler between claiming a position and reading it; `put` calls the rejected-put handler |
| Padding executor | `src/buffer/buffer-padding-executor.ts` | `running`, `lastSecond`, schedule | `paddingBuffer`, `asyncPadding`, `start`, `shutdown` | asks the uid provider, puts into the ring; called by `take`, the timer and the generator |
| Executors | `src/deps/java/executors.ts` | shut-down flag, timer, workers | `submit`, `scheduleWithFixedDelay`, `shutdownNow` | runs padding passes, reports what they throw |
| Cached generator | `src/impl/cached-uid-generator.ts` | life cycle, ring, executor, configured fields | `afterPropertiesSet`, `getUID`, `destroy`, setters | wires and fills the ring; is the executor's uid provider |
| Default generator | `src/impl/default-uid-generator.ts` | `workerId`, `sequence`, `lastSecond`, configured fields | `afterPropertiesSet`, `getUID`, `parseUID`, setters | clock, time zone, bit layout, worker id assigner |
| Dates | `src/utils/date-utils.ts` | none | parsing of a day, formatting of an instant | `setEpochStr` and `parseUID`, in the time zone of the process |
| Bit layout | `src/bits-allocator.ts`, `src/deps/java/long.ts` | none | `allocate`, wrapping 64-bit arithmetic | used by both generators |
| Worker id assigner | `src/worker/disposable-worker-id-assigner.ts`, `src/worker/dao/` | none | `assignWorkerId` | one INSERT in a transaction of a SQL session |
| SQL sessions | `src/db/*-session.ts` | a connection, an open transaction | `transaction`, `insert`, `selectOne`, `close` | SQLite (synchronous commands) or MySQL (an await each) |
| Data source | `src/db/properties.ts`, `src/db/datasource.ts` | none | `loadProperties`, `openSqlSession` | the session every worker id comes through |
| Threads and naming | `src/deps/java/thread.ts`, `src/utils/naming-thread-factory.ts` | counters per name | `newThread`, `runAsThread` | names for the log, reporting of uncaught errors |
| Host identity | `src/utils/docker-utils.ts`, `src/utils/net-utils.ts` | read once, at load | look-up | fill the columns of the worker row |
| Text, enumerations, logging | rest of `src/utils`, `src/deps` | none | formatting | the log |

### What is hard in it

* **Re-entrancy.** Between the step of the cursor and the read of the slot,
  `take()` may run a whole padding pass and, through a handler, other takes.
* **Boundaries of the ring.** An unused ring counts its cursor as 0 rather than
  -1, so the first fill uses every slot and later fills one less.
* **Single flight.** One flag admits one pass, whoever asks. It is reset only
  when the pass ends normally.
* **Time.** Each pass asks for new seconds and drops the rest of its last one.
  The clock of the default generator moves, either way, between two reads of one
  call, and runs out of bits.
* **Life cycle.** Initialisation awaits the database; shutdown may come from
  inside a pass, and a timer may already be on its way.
* **The epoch.** It is a day of a time zone whose clocks change, and may be set
  again at any time.
* **Transactions.** Callers sharing a connection interleave; commands are
  refused, answers are lost, sessions are closed in the middle, processes die
  and start again elsewhere, a server comes back with an older key counter.
* **The cluster.** Generators never talk to each other, begin at the current
  second whatever their predecessors borrowed, and issue uids even before they
  have a worker id: only the table keeps their uids apart.
* **Configuration.** Some setters throw at a bad value, some ignore it, some leave
  it to a constructor; the size of the ring is a 32-bit shift that may wrap, and
  a setter called during the await reaches the ring but not the layout.
* **Executors.** Tasks submit tasks in the middle of their turn, commands throw or
  go on after an await, and `shutdownNow()` clears one timer of many.

`PROJECT.json` lists each hazard at the line where it bites, with the
properties that watch it.

### What makes each component correct

* Ring: no uid is given twice, overwritten or lost; a claimed position is
  readable when the call-outs return; puts are refused only for want of room.
* Padding: one pass at a time; seconds neither repeat nor are wasted; the ring
  stays above its threshold; passes end; nothing is scheduled after shutdown.
* Generators: uids are unique, positive, ordered, and parse to their fields and
  to the day they belong to.
* Worker ids: never assigned twice, and backed by a stored row.
* Cluster: no uid is issued twice among all generators there have ever been whose
  initialisation did not throw.
* Executors: workers take turns under names of their own; a schedule is one chain
  of timers, which nothing a command does cuts or doubles, and which dies.
* Configuration: whatever layout and ring come out of the setters parse what they
  allocate and hold a whole second.

## Modules

| module | models | checked by |
|---|---|---|
| `RingBuffer` | the ring under its most general client | `MCRingBuffer`, `RingBufferProofs` |
| `UidQueue` | abstract: a bounded queue with claims | implemented by `RingBuffer` |
| `BufferPaddingExecutor` | the executor, its pool and schedule; EXTENDS `RingBuffer` and replaces the general client by the real callers | `MCPadding`, `BufferPaddingProofs` |
| `BitsAllocator` | long arithmetic, layout, parsing, batches (pure operators) | `MCConfiguration`, `MCDefaultUid`, `MCCachedUid`, `BitsAllocatorProofs` |
| `GeneratorConfiguration` | setters, the making of layout and ring; INSTANCEs `BitsAllocator` for the layout made | `MCConfiguration`, `ConfigurationProofs` |
| `Dates` | parsing and formatting in a time zone (pure operators) | `MCDefaultUid` |
| `DefaultUidGenerator` | initialisation, `nextId()`, `setEpochStr()`, `parseUID()`, the clock; EXTENDS `BitsAllocator` and `Dates` | `MCDefaultUid`, `DefaultUidProofs` |
| `CachedUidGenerator` | the life cycle; EXTENDS `BufferPaddingExecutor` and `BitsAllocator` | `MCCachedUid`, `CachedUidProofs` |
| `Executors` | the two executors, threads and their names, under any client | `MCExecutors`, `ExecutorsProofs` |
| `DataSource` | from properties files to the session they open (pure operators) | `MCCluster`, `MCWorkerId` |
| `WorkerNode` | host identity and the entity made of it (pure operators); EXTENDS `DataSource` | `MCCluster`, `MCWorkerId` |
| `WorkerIdAssigner` | the insert, its transaction, the two dialects, sessions, processes and the server; EXTENDS `WorkerNode` | `MCCluster`, `MCWorkerId`, `ClusterProofs` |
| `Cluster` | all generators over one table; EXTENDS `WorkerIdAssigner` and `BitsAllocator` | `MCCluster`, `ClusterProofs` |
| `MCDeployments` | the deployments, machines and files of the instances | `MCCluster`, `MCWorkerId` |
| `*Proofs` | the theorems about the module they are named after; `BufferPaddingProofs`, `CachedUidProofs`, `DefaultUidProofs` and `ClusterProofs` use those of the modules they build on | tlapm |

### RingBuffer

The variables are the fields of the class, and four histories: uids put
(`produced`, where position `p` is element `p + 1`), uids returned (`given`),
positions lost, and whether a rejected-take handler has `returned` (the default
one never does): it makes `take()` read a slot it did not claim, so the promises
about claims are made until then; those about slots and duplicates, always. A `take()` that calls nothing out is one step (`TakeDirectly`).
One that calls out leaves a frame on the stack `frames` (`TakeCallsPadding`,
`TakeCallsHandler`), and goes on when the call returns (`PaddingReturns`,
`HandlerReturns`) or throws (`HandlerThrows`). In between anything may happen
on the same ring, but calls nest: only the last frame goes on.
`TakeRefusedByPool` is the take that finds the pool shut down. `Put` and
`PutRejected` are the two outcomes of `put()`; the rejected-put handler is the
last thing `put()` does, so what it does is the same as doing it next. `slots`
hold uids without the 64-bit width, which plays no part in the ring.

`UidQueue` is what a caller may expect: a queue of bounded capacity, takes that
claim its head and later receive exactly what they claimed, and nothing lost
until the queue is closed or `void` (the handler above). `ImplementsQueue` maps the ring to it: the queue is
the produced uids after the cursor, the claims are those of the frames.

### BufferPaddingExecutor

At most one pass is on the stack, because of `running`. `pass` records where it
is (asking the provider, putting, inside the rejected-put handler), who began it
(a take, the timer, a direct call) and how many takes lie below it. So the stack
is `frames` with the pass at depth `pass.depth`, and `PassOnTop`, `TakeOnTop` and
`Idle` say whose code runs. Clients act when the stack is empty or inside a
handler; `PutHandlerDoes` and `TakeHandlerMayTake` say what handlers do. What a
pass throws is caught by the pool or by the scheduler, which both go on. The
timer is `running` while its command is on the stack, since `shutdownNow()`
cannot clear it then. The provider's uids of second `s` are the numbers from
`s * UidsPerSecond`, in order: the layout is left to `CachedUidGenerator`.

### BitsAllocator, Dates and DefaultUidGenerator

A long has `LongBits` bits, and every operator wraps and masks its shift distance
as `long.ts` does. Powers of two (`pow2`) and the operators on bits (`bitwise`)
are recursive functions, not RECURSIVE operators, so that they can be proved
about. `nextId()` is one step unless it spins: a spin is a state, entered with
`sequence` already 0, left by `SpinEnds` or `SpinThrows`, with clock steps in
between. `workerId` is 0 until the await of `assignWorkerId()` is over, and
`getUID()` may be called meanwhile.

A text of `yyyy-MM-dd` is the number of its day; `zone` gives the offset of local
time at each instant. `parseByDayPattern` finds the midnight of a day, also where
clocks skip it or read it twice. `SetEpochStr` happens at any time but in a spin,
which is synchronous, and to any of `Days`: no code refuses one. Two histories record
what comes of that. `keptPast`: the epoch has never been after the clock; if it has, the
seconds were negative. `keptBack`: once uids were issued the epoch was only moved back;
a later one gives the seconds of the past again. `IncreasingUids` holds while both hold
(`EpochsKept`), `HighestBitIsZero` while the first does, the others always. A
text that is no day throws after it was stored; a blank one changes nothing.
`DefaultEpoch` need not be a midnight: the class default is that of Beijing.

### CachedUidGenerator

`phase` follows `afterPropertiesSet()`: new, assigning (the await), wired,
filling (the first, direct pass), ready or failed. All but the await runs
without a break, so clients and the timer act in a settled phase only, or from
the handler of the first fill. `uid(n)` turns the number the executor puts into
the long it stands for, and the properties speak of these longs.

### GeneratorConfiguration

The variables are the configured fields of both generators and what
`afterPropertiesSet()` makes of them: `layout` (the `BitsAllocator`), then, after
the await, `ring` and the interval of its schedule. Setters may be called in any
order before and during it. The int32 shift that gives the size has width
`IntBits`, less than that of a long as in the code, so that sizes overflow.

### Executors

A thread is a name. A job (task, command, body of a started thread) runs on the
caller's stack (`stack`) until it returns, throws or awaits; a suspended job goes on
from an empty stack. `armed` is the set of schedules with a pending timer, `timer`
the one `shutdownNow()` would clear. The next delay is armed when a command
leaves the stack for the first time, by whichever way. `minted`, `turns` and
`submits` are histories. `BufferPaddingExecutor` models the one use the program makes of these
executors, inlined: one command, synchronous.

### DataSource, WorkerNode and WorkerIdAssigner

A deployment is a directory of properties files, the session each generator uses
and the machines a process may start on. `openSqlSession` says what its files open;
`Deployed` keeps the deployments it opens a table for that outlives the process.
A process is started on a `machine`, an environment and network interfaces;
`Starts` says which do not survive the loading of the two modules that read them.
`buildWorkerNode` gives the type, host and port of its rows.

Each caller walks through `assignWorkerId()`; with SQLite BEGIN and INSERT are one
step, because `node:sqlite` is synchronous and the next break is the await of the
insert; with MySQL each command is a step. The database is external: a
transaction belongs to a connection; BEGIN inside one commits it (MySQL) or
fails (SQLite); a rollback takes its rows, and with SQLite also the key counter.
Refused commands, a commit whose answer is lost, a refused rollback and retries
are actions. `Close` is `close()`, at any time; no session connects again by itself,
so `Reopen` is a new one in its place. `Crash` ends a process, which starts again,
perhaps on another machine. `ServerRestarts` drops every MySQL connection; the key
counter is kept, or falls back to the last committed row, as before MySQL 8.

### Cluster

`Cluster` conjoins the steps of `WorkerIdAssigner` with the `workerId` field of each
generator: it takes the key when the call returns, is checked afterwards, and is
kept by a generator initialised again until the new key is there. What is left of
a generator otherwise is `GetUID`: it issues the n-th uid since the epoch, for any n,
once, at any time from the making of its layout on, as `getUID()` checks no worker id.
That is an abstraction of both generators, justified by
`IncreasingUids` (`DefaultUidGenerator`) and `ProducedInOrder`
(`BufferPaddingExecutor`), which are proved, and it leaves the clocks out: a cached generator
runs ahead of its own, so its successor may begin anywhere. One uid is watched,
any one, fixed at the start; `owned` and `early` count who issued it, with a worker id
or still without one. Keys grow without end, and the field takes each before its range
is checked: `spilled` records that a generator with an id too large for the layout issued
the watched uid, which then is that of another worker id as well, and only the uids
that are never issued so are promised to be unique. All
generators have one layout and one epoch; the default generator's repetition past
its last second (`default_uid_steps_back_at_end`) is left out.

## Runs

Bounds are constants of the modules; each is chosen so that the ring wraps at
least twice or the clock passes both ends of its field.

| run | instance | shows |
|---|---|---|
| `ring_default` | 2 slots, 5 uids, 3 nested takes, threshold 1, handlers that throw or return, symmetric uids | `ClaimsAreHonoured`, `NoUidLeaks`, `RefusalIsJustified`, and that the ring implements `UidQueue`. Two slots with three frames already let a claim be lapped |
| `padding_default` | 4 slots, 2 uids a second, 10 seconds (five laps), put handlers that return or shut down, a schedule | order, seconds accounted for, threshold kept, no rejection once filled, passes end, the schedule refills |
| `padding_reentrant` | 2 slots, handlers that do everything, nesting 3, 6 seconds | `SingleFlight`: a pass asked for inside a pass, by a take, the timer or a client, does not begin; `SlotSafety` and `NoUidTwice` under misbehaving handlers, and that each step is one of `RingBuffer` |
| `configuration` | a long of 6 bits, integers of 4, every layout, bit counts 0 to 4, boost powers past the integer width, factors 0 and 100 | parse inverts allocate, for single uids and batches, order within range, a ring holds a second |
| `executors` | 2 workers, 2 schedules, 4 tasks, 3 jobs at a time, a client's thread | distinct names, turns, one timer chain, timers die |
| `default_uid` | 2 bits of seconds, 1 of sequence, 4 calls; a clock of 2 to 7 that is stepped back up to 3; a default epoch of 1 and three days, whose epochs 0, 2 and 3 lie before, at and after the start of the clock, in a zone that skips one midnight and reads another twice; the layout ends at 3 to 6 | increasing, hence unique, and positive uids while the epochs are kept; a day set reads as that day; spins end |
| `cached_uid` | 4 slots, handlers that throw, put, destroy, also in the first fill | full when ready, no failure while up, unique uids that parse to this worker |
| `cluster` | two generators, seven deployments of which four open a table that lasts, containers and actual machines, of each one that starts; keys 1 to 3, of which only 1 is a worker id that fits: 2 spills into the uids of 0, 3 into those of 1; four uids for each | no uid issued twice unless by an id that spilled, distinct and stored worker ids, no row after a throw (SQLite) |

In `cluster` a permutation swaps the two generators together with their sessions.
It is sound: the set of deployments is mapped to itself, no property and no
operator tells them apart, and a history refers to them nowhere. `ring_default` is
symmetric in its uids for the same reason.

Four runs show where the code departs from what the repository says of it; each is a
finding of `PROJECT.json` with the line it contradicts.

* `padding_stuck`: a rejected-put handler that throws leaves `running` set for
  ever, and no pass begins again.
* `default_uid_steps_back_at_end`: `getNextSecond()` throws past the last second
  with the sequence already wrapped to 0; a clock stepped back into that second
  then issues its sequences twice.
* `cached_last_second`: a borrowed second beyond the delta-seconds field is
  allocated all the same, and the uid is negative.
* `worker_mysql_shared`: on a MySQL connection shared by two generators the
  rollback of one drops the row of the other, whose `transaction()` returns.

Smaller departures met on the way have no run: a one-slot ring refuses every
put once used; a small threshold truncates to 0; the very first take of a ring
that was never filled is rejected although its padding has just filled it; runs
of an asynchronous command overlap, though the comment promises a delay after
the previous one finishes; a large boost power wraps and gives a ring of one
second; a container started again at its host and port leaves several rows where
the session expects one; the launch date of a row is read as midnight UTC of the
day it holds (`sql-worker-node-dao.ts:58`), in zones west of it the day before; a
text `setEpochStr()` cannot parse is stored before it throws; the class default
of the epoch is 2016-05-20 in Beijing, and setting that same day elsewhere gives
another second; an out-of-range worker id stays in a generator whose initialisation failed, and
`getUID()` then issues uids of another worker id; a clock before the epoch gives
negative uids, and an epoch set to a later day repeats uids. The hazards name their lines.

### Fairness

* `FairPaddingSpec`: weak fairness of the steps of a pass and of a returning
  handler, since synchronous code that has begun runs to its end; strong fairness
  of the timer's callback, since the event loop serves a due timer although
  clients keep it from being continuously enabled. Clients, shutdown and direct
  passes owe nothing.
* `Spec` of `Executors`: weak fairness of a running job's end and strong fairness
  of each due timer, for the same reasons. A suspended job owes nothing.
* `FairSpec` of the default generator: time passes, and is not stepped back for
  ever; a spinning call gets to read it.

### Bounds

`Uid`, `MaxDepth`, `MaxSecond`, `MaxClock`, `MaxUids`, `MaxKey` only stop clients, timers
or the environment from going on; a pass or a take that has begun always runs
on. `MaxSecond` leaves room for the seconds a last pass may add. `MaxJobs`,
`MaxThreads` and `MaxSubmits` stop the clients of the executors; clients and
awaiting commands leave one job free, so that a due timer always finds one. TLC
reports no deadlock; only `configuration` is run without that check, since a
configured generator has nothing left to configure.

## Theorems

Every safety property that a passing run checks of a component on a small instance
is proved for all its sizes, by a theorem on its specification; so are the two
refinements. An invariant is seldom inductive as it stands; the strengthening is
stated in the component's module, below its properties, and was checked with TLC
on the run of the component before it was proved.

| module | theorem | says | supposing |
|---|---|---|---|
| `RingBufferProofs` | `TypeCorrect`, `SlotsAreSafe`, `UidsAreGivenOnce` | `TypeOK`, `SlotSafety`, `NoUidTwice` | |
| `RingBufferProofs` | `ClaimsAreSafe`, `UidsDoNotLeak`, `RefusalsAreJustified` | `ClaimsAreHonoured`, `NoUidLeaks`, `RefusalIsJustified` | |
| `RingBufferProofs` | `RingIsAQueue` | `ImplementsQueue`: the ring refines `UidQueue` | |
| `BitsAllocatorProofs` | `AllocateKeepsOrder` | uids are ordered as delta, worker id, sequence, and are not negative | fields in range |
| `BitsAllocatorProofs` | `ParsingInvertsAllocating` | parsing recovers the three fields, of a delta one bit too long as well, and only such a uid is negative | worker id and sequence in range, no empty field |
| `BitsAllocatorProofs` | `WorkerIdsSeparate` | uids of two worker ids differ, whatever their deltas | worker id and sequence in range |
| `ConfigurationProofs` | `ConfigurationTypeCorrect`, `ParsingInverts`, `UidsAreOrdered`, `RingsHoldASecond` | `TypeOK`, `ParseInvertsAllocate`, `OrderedWhileInRange`, `RingHoldsASecond` | |
| `BufferPaddingProofs` | `PaddingIsARing` | `ImplementsRing`: the executor's steps are the ring's | `UidsAreNaturals` |
| `BufferPaddingProofs` | `PaddingTypeCorrect`, `PassesNeverNest`, `UidsEnterInOrder`, `SecondsAreAccounted` | `PaddingTypeOK`, `SingleFlight`, `ProducedInOrder`, `SecondsAccounted` | `UidsAreNaturals` |
| `BufferPaddingProofs` | `RestStaysAboveThreshold`, `FilledRingNeverRejects` | `RestAboveThreshold`, `NeverRejectedOnceFilled` | `UidsAreNaturals` |
| `CachedUidProofs` | `CachedIsPadding` | the generator's steps are those of the executor and its clients | |
| `CachedUidProofs` | `GeneratorIsAQueue` | `ImplementsQueue`, by the generator and its executor | `UidsAreNaturals` |
| `CachedUidProofs` | `CachedTypeCorrect`, `ReadyMeansFull`, `ReadyGivesInOrder` | `CachedTypeOK`, `FullWhenReady`, `ReadyNeverFails` | `UidsAreNaturals` |
| `CachedUidProofs` | `UidsAreUnique`, `UidsParseBack` | `UniqueUids`, `UidsParseToUs` | `UidsAreNaturals` |
| `CachedUidProofs` | `NegativeOnlyBeyondRange` | no uid of a second in range is negative: what `cached_last_second` shows is the only way | `UidsAreNaturals` |
| `CachedUidProofs` | `EveryLayoutParses`, `EveryLayoutIsInjective` | the seconds in range have uids of their own, which parse to them | |
| `DefaultUidProofs` | `GeneratorTypeCorrect`, `UidsIncrease`, `UidsAreNeverRepeated`, `UidsAreInRange` | `TypeOK`, `IncreasingUids`, `UniqueUids` while `EpochsKept`, `HighestBitIsZero` | `ClockIsSupported`, `WorkerIdsFit` |
| `DefaultUidProofs` | `EpochsAreInTheirDay` | `EpochIsInItsDay` | `ClockIsSupported`, `ZoneKeepsDays` |
| `ExecutorsProofs` | `ExecutorsTypeCorrect`, `NamesAreDistinct`, `TurnsAreTaken`, `ChainsAreSingle` | `TypeOK`, `DistinctNames`, `WorkersTakeTurns`, `OneTimerChain` | |
| `ClusterProofs` | `WorkerIdsAreDistinct`, `AssignedIdsStayStored`, `FailuresLeaveNoRow` | `DistinctWorkerIds`, `AssignedIdsAreStored`, `ThrownLeavesNoRow` | `SessionsSupported` |
| `ClusterProofs` | `ClusterImplementsAssigner` | the cluster's steps are the assigner's | |
| `ClusterProofs` | `ClusterTypeCorrect`, `UidsAreUniqueInTheCluster` | `ClusterTypeOK`, `UniqueInTheCluster` | `SessionsSupported` |

### What they suppose

The named assumptions of the modules, which TLC evaluates in every run, are what the
constructors check or the setters let through: a layout fills its long
(`AllocateTotalBits`), a cached generator has no empty field (`CachedAssumption`: a
width of 0 is ignored by its setter), the class defaults are positive
(`ConfigurationAssumption`). Nothing is supposed of how longs behave: that a layout
keeps order, parses and separates worker ids (`LayoutIsOrdered`, `LayoutIsInjective`,
`LayoutParses`, `LayoutSeparates`) is proved for each, and evaluated on their layout by the MC
modules. Some theorems suppose more:

* `UidsAreNaturals` (`BufferPaddingProofs`): every natural number may be put. A finite
  `Uid` is only the bound of TLC; with it, a pass would stop at the last uid.
* `ClockIsSupported`: no clock is stepped back from beyond the last second of the layout,
  counted from any of the epochs. Without it `IncreasingUids` is false: that is
  `default_uid_steps_back_at_end`. A clock stepped back anywhere before is covered.
* `ZoneKeepsDays` (`DefaultUidGenerator`): local time never gains or loses a whole day, as it
  does where a zone changes sides of the date line; it begins before the days that are set.
  Evaluated by the ASSUME of `MCDefaultUid`.
* `WorkerIdsFit`: the assigner returns ids in range. The code checks this only after the
  field is assigned, and an id out of range spills into the seconds of the uids of a
  generator that is used although its initialisation failed. `Cluster` does not suppose it.
* `SessionsSupported`: a MySQL session has one caller. No line of the repository asks for
  that, but `transaction()` does not keep callers apart, and without it
  `AssignedIdsAreStored` is false: that is `worker_mysql_shared`.

What no code keeps clients from is not supposed but said in the property: epochs that are
not kept (`IncreasingUids`, `HighestBitIsZero`), worker ids that spill
(`UniqueInTheCluster`), a rejected-take handler that returns (`ClaimsAreHonoured`,
`NoUidLeaks`, `RefusalIsJustified`).

### How they are proved

*Bits.* The library's induction takes an operator, so induction here is by the least
number outside a set, and the function a recursion defines is shown to exist by
gluing its finite beginnings (`Induction`, `Recursion`). With these `pow2` and `bitwise` obey
their equations. By induction over the bits, `or` of a multiple of a power of two and a
number below it is their sum, and `and` with one less than a power is the remainder.
So `allocate` is positional notation wrapped to the width of a long, and the shifts of
`parseUID()`, left and back, are a remainder and a quotient.

*Configuration* (`ConfigurationInv`). The properties speak of a layout in use, so
the setters must have let through no width of 0, and the constructor must have refused
what does not fill the long (`LayoutIsFull`). A JavaScript integer is a long of another
width: the shift of a power of two is a power of two, 0 or negative, and one that is
accepted as a size has not fallen below what was shifted (`RingOfLayout`), although
`setSeqBits()` may have been called since the layout was made.

*Slots* (`SlotInv`). `SlotSafety` is not inductive alone: that a uid is in its slot says
nothing of what `take()` returns unless uids are put once and positions agree with
`tail`. `SlotInv` adds this (`HistoryOK`) and `NoUidTwice`. A put writes a slot flagged
CAN_PUT, which stores no live position (`PutKeepsSlots`); `ReadSlot` removes one live
position and the flag of its slot (`ReadKeepsSlots`); every other step changes neither. The
argument never looks at `frames`, so it holds for any client and any handler.

*Claims* (`ClaimInv`). Claims are tied to the cursor and the tail: what is ahead of the
cursor is live, no live position is a lap behind the tail, and a take inside a rejected-take
handler claims nothing. Two positions of one lap do not share a slot (`SlotIsUnique`),
so a take that is called out is the only reader of its slot. A refused put then meets
a full ring or a live position of the lap before, which is claimed or lost.

*The queue.* Under `ClaimInv` each step maps to one of `UidQueue`: a put extends the
suffix of `produced`, a take moves its head into the claims, the read removes the
claim, and a handler that returns makes the queue void.

*Passes* (`PassInv`). What a pass has put is below its own offset in its own second, and
that is below the first uid of any later second: so each uid is new, every step of the
executor is one of the ring, and all that is proved of the ring holds of it. That no pass
begins inside another is an action property: a pass on the stack implies `running`
(`RunningFlag`), which each of the three ways into a pass asks to be unset. A count of
what each pass put bounds the seconds it discards.

*The rest* (`RestInv`). With the default handlers nothing runs inside a pass, so a pass on
the stack belongs to the last frame, and that take is the last that moved the cursor. So
a ring is at rest with its threshold kept after every pass, and a take that finds too
little begins a pass before it decides.

*The cached generator* (`CachedInv`). Nothing runs before the first fill, and that fill ends
with every slot used (`FilledFirst`); while nobody disturbs a pass at most one take is
called out, it is at the cursor, and all before it were given in order (`TakesInOrder`).
Uniqueness and parsing follow from the order of the numbers and from the layout. Since
the generator's steps are the executor's, and those the ring's, it refines `UidQueue` too.

*The default generator* (`NextIdInv`). The last uid issued has a delta the fields have
reached and a sequence not beyond the field, unless the second is used up (the
field is 0 and the call spins) or the layout is (`LastIssued`). Each uid issued is beyond
it, by its delta or else by its sequence, and the fields before it in the layout
decide: a worker id that arrives late is greater than 0, and moving the epoch back
only raises the deltas. The histories `keptPast` and `keptBack` are never set again, so a
step to another epoch either raises the deltas or ends what is promised.

*The epoch* (`EpochIsRead`). The epoch is what its text says, unless the text is no day. A
midnight that is read is the first instant that reads it. One that is skipped is mapped
to an instant beyond the last that reads less, by its offset; that instant reads a time
after midnight, by less than the change of the offset, hence less than a day.

*Executors* (`ExecutorsInv`). The factory: no thread is beyond the sequence of its prefix.
The pool: the workers before the next one are a round ahead of the others. The
jobs: the stack holds each running job once, and a schedule has a timer, or one
command on the stack in its first run.

*The table* (`StoreInv`). Keys are used once and are below the counter; pending rows belong to
one open transaction; with SQLite they are the last row of the one writer, so that a
rollback takes the counter back behind no other row; a caller between BEGIN and COMMIT is alone on
its connection, and its row is pending. Every assigned id is then that of a committed row.

*The cluster* (`ClusterInv`). No two generators have one id, and once the watched uid is issued
its id is assigned for good, to the generator that issued it if to any (`IssuedOnce`).
Of ids that fit, the layout keeps the uids apart; once one that does not fit has issued
the uid, nothing is claimed. That a worker id fits is thus nowhere supposed.

### Model-checked only

* Liveness, with its fairness (`PassEnds`, `ScheduleRefills`, `SpinTerminates`,
  `TimersDie`): out of reach of the provers, as is ENABLED.
* The four violations, which are about single behaviours.

## Not modelled

Enumerations, logging and formatting; daemon flags and exception handlers clients
set; the text of a stack trace (`getInvoker` has its frame); comments, escapes and
continuation lines of properties files; date patterns other than the two used; the
launch date and the timestamps of a row. An epoch set on a cached generator while
it runs: its ring still holds uids of the old one. A generator destroyed before
its ring exists: the call throws, changes nothing, and no line says what it should
do. `selectOne` reads only. A batch is
never empty: the one provider of the program returns `maxSequence + 1` uids. A
counter of 64 bits is a natural number in the ring: 2^63 puts are not reached.
Deleted rows of WORKER_NODE, with which a restarted server could hand out a key
again: no code of the repository deletes any.

## Plan

1. Done: `RingBuffer`, `UidQueue`, `BufferPaddingExecutor`, `BitsAllocator`,
   `DefaultUidGenerator`, `CachedUidGenerator`, `GeneratorConfiguration`,
   `Executors`, `DataSource`, `WorkerNode`, `WorkerIdAssigner`, `Dates`,
   `Cluster`; the theorems above, down to the bits of a long.
2. Next modules: the padding executor's use of `Executors` as a refinement; an
   epoch that moves under a cached generator.
3. Next proofs: the action properties that follow from the invariants (a cursor never goes
   back, a row is never taken back), once a run checks them.
