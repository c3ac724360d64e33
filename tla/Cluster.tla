------------------------------- MODULE Cluster -------------------------------
(***************************************************************************)
(* The generators of all processes over one WORKER_NODE table: each gets   *)
(* its worker id as WorkerIdAssigner says, and numbers its uids on its own *)
(* from then on.  Nothing but the worker id keeps their uids apart.        *)
(*                                                                         *)
(* Of a generator only this is left: it issues the n-th uid since the epoch*)
(* once at most (DefaultUidGenerator!IncreasingUids and                    *)
(* BufferPaddingExecutor!ProducedInOrder), at any time.  No clock says how *)
(* far it has come: a cached generator borrows seconds, so its successor   *)
(* may begin before its last uid.  All have the same layout and epoch.     *)
(*                                                                         *)
(* getUID() checks no worker id: a generator issues uids while the id is 0 *)
(* (its call of assignWorkerId() is not answered), and also if the id is   *)
(* larger than the layout holds, which afterPropertiesSet() stores before  *)
(* it throws.                                                              *)
(*                                                                         *)
(* Uniqueness is checked of one uid, `watched`, which may be any: of the   *)
(* others nothing is recorded.                                             *)
(***************************************************************************)
EXTENDS WorkerIdAssigner, BitsAllocator

CONSTANTS
  Watched, \* the uids to look for
  MaxUid   \* bound on the numbers of uids

ASSUME ClusterAssumption == MaxUid \in Nat

VARIABLES
  workerId, \* caller -> the field of its generator
  issued,   \* caller -> its generator has issued the uid looked for, with this id
  watched,  \* fixed: the uid looked for
  owned,    \* history: how often a generator with a worker id issued it, up to 2
  early,    \* history: a generator without a worker id issued it
  spilled   \* history: a generator whose worker id is too large issued it

generators == <<workerId, issued>>
history == <<watched, owned, early, spilled>>
clusterVars == <<vars, generators, history>>

ClusterTypeOK ==
  /\ TypeOK
  /\ workerId \in [Callers -> Keys \union {0}]
  /\ issued \in [Callers -> BOOLEAN]
  /\ watched \in Watched
  /\ owned \in 0 .. 2
  /\ {early, spilled} \subseteq BOOLEAN

ClusterInit ==
  /\ Init
  /\ workerId = [c \in Callers |-> 0]
  /\ issued = [c \in Callers |-> FALSE]
  /\ watched \in Watched
  /\ owned = 0
  /\ early = FALSE
  /\ spilled = FALSE

\* New generators for some callers: their fields are as constructed.
NewGenerators(callers) ==
  /\ workerId' = [c \in Callers |-> IF c \in callers THEN 0 ELSE workerId[c]]
  /\ issued' = [c \in Callers |-> c \notin callers /\ issued[c]]

-----------------------------------------------------------------------------
(* afterPropertiesSet() of a generator, around assignWorkerId() *)

\* Mutant: the field takes the key of the insert, before the commit.
TakesInsertedKey(c) ==
  /\ CallerStep(c)
  /\ workerId' = [workerId EXCEPT ![c] = IF key'[c] # 0 THEN key'[c] ELSE @]
  /\ UNCHANGED <<process, issued, history>>

\* The field takes the key that is returned, whatever its size; from then on the
\* uids are others.
TakesWorkerId(c) ==
  /\ CallerStep(c)
  /\ IF at'[c] = "returned"
       THEN /\ workerId' = [workerId EXCEPT ![c] = key[c]]
            /\ issued' = [issued EXCEPT ![c] = FALSE]
       ELSE UNCHANGED generators
  /\ UNCHANGED <<process, history>>

\* Afterwards: a new generator, or afterPropertiesSet() of the same one again.
BeginsAgain(c) ==
  /\ CallAgain(c)
  /\ NewGenerators({c}) \/ UNCHANGED generators
  /\ UNCHANGED <<process, history>>

ProcessCrashes(s) ==
  /\ Crash(s)
  /\ NewGenerators({c \in Callers : SessionOf[c] = s})
  /\ UNCHANGED history

-----------------------------------------------------------------------------
(* getUID() *)

UidsPerSecond == maxSequence + 1
uid(n, id) == allocate(n \div UidsPerSecond, id, n % UidsPerSecond)

\* From the making of the layout on, which precedes the call of assignWorkerId().
GetUID(c) ==
  /\ at[c] # "idle"
  /\ ~issued[c]
  /\ \E n \in 0 .. MaxUid : uid(n, workerId[c]) = watched
  /\ issued' = [issued EXCEPT ![c] = TRUE]
  /\ early' = (early \/ workerId[c] = 0)
  /\ spilled' = (spilled \/ workerId[c] > maxWorkerId)
  /\ owned' = IF workerId[c] = 0 THEN owned ELSE Min({owned + 1, 2})
  /\ UNCHANGED <<vars, workerId, watched>>

ClusterNext ==
  \/ \E c \in Callers : TakesWorkerId(c) \/ BeginsAgain(c) \/ GetUID(c)
  \/ \E s \in SessionsInUse :
       \/ ProcessCrashes(s)
       \/ (Close(s) \/ Reopen(s)) /\ UNCHANGED <<generators, history>>
  \/ ServerRestarts /\ UNCHANGED <<generators, history>>

ClusterSpec == ClusterInit /\ [][ClusterNext]_clusterVars

-----------------------------------------------------------------------------
(* Properties *)

\* "Get a unique ID", of all generators there have ever been: no uid is issued
\* twice, though each numbers its uids from where it likes, and processes,
\* connections and the server fail meanwhile, unless it was issued by a generator
\* whose afterPropertiesSet() threw "Worker id exceeds the max".  What a generator
\* issues before it has its worker id is not unique, but is the uid of no other.
UniqueInTheCluster == spilled \/ (owned <= 1 /\ (early => owned = 0))

-----------------------------------------------------------------------------
(* What it rests on *)

\* The layout keeps worker ids apart: the uids of two ids differ, whatever their
\* seconds and sequences.
IdsThatFit == {id \in Keys \union {0} : id <= maxWorkerId}
LayoutSeparates ==
  \A i, j \in IdsThatFit : \A n, m \in 0 .. MaxUid : uid(n, i) = uid(m, j) => i = j

\* The uid looked for is one of this worker id.
IsWatched(id) == id \in IdsThatFit /\ \E n \in 0 .. MaxUid : uid(n, id) = watched

\* No two generators have the same id, and each has one that was assigned.
IdsAreOwned ==
  /\ \A c \in Callers : workerId[c] # 0 => workerId[c] \in WorkerIds
  /\ \A b, c \in Callers : workerId[b] = workerId[c] /\ workerId[c] # 0 => b = c

\* Once the uid is issued its id is taken, for good, and the generator that still
\* has it, if any, is the one that issued it.
IssuedOnce == ~spilled =>
  /\ owned \in 0 .. 1
  /\ owned = 1 => \E id \in WorkerIds :
       IsWatched(id) /\ \A c \in Callers : workerId[c] = id => issued[c]
  /\ early => IsWatched(0) /\ owned = 0

ClusterInv == ClusterTypeOK /\ StoreInv /\ IdsAreOwned /\ IssuedOnce
=============================================================================
