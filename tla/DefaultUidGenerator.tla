------------------------ MODULE DefaultUidGenerator ------------------------
(***************************************************************************)
(* impl/default-uid-generator.ts: uids numbered by the wall clock.         *)
(*                                                                         *)
(* getUID() is synchronous, but it reads the clock more than once: when a  *)
(* second has run out of sequences it spins in getNextSecond() until the   *)
(* clock has moved.  The clock is the environment: it moves on, and may be *)
(* stepped back, between any two reads.  Initialisation suspends at the    *)
(* await of assignWorkerId(), and getUID() may be called meanwhile.        *)
(* setEpochStr() moves the origin of the seconds to any day at any time    *)
(* between calls (Dates); the other setters are in GeneratorConfiguration. *)
(***************************************************************************)
EXTENDS BitsAllocator, Dates, Sequences

CONSTANTS
  DefaultEpochStr,   \* the epoch of the class, its text and its seconds
  DefaultEpoch,
  Days,              \* what setEpochStr() may be called with, besides ...
  NoDay,             \* ... a text that is no day; a blank one changes nothing
  AssignableIds,     \* ids the WorkerIdAssigner may return
  FirstClock,        \* the clock when the generator is created
  MaxClock,          \* bound on the clock
  MaxUids,           \* bound on the uids that clients ask for
  LastStepBack       \* the clock is stepped back from here or before; 0: never

ASSUME GeneratorAssumption ==
  /\ {FirstClock, MaxClock, MaxUids, LastStepBack} \subseteq Nat
  /\ DefaultEpoch \in Instants
  /\ Days \subseteq Int /\ {DefaultEpochStr, NoDay} \cap Days = {}
  /\ AssignableIds \subseteq Nat

VARIABLES
  epochStr, epochSeconds,
  clock,      \* Date.now(), in seconds
  phase,      \* of afterPropertiesSet(): "new", "assigning", "ready", "failed"
  workerId, sequence, lastSecond,
  spinning,   \* getUID() is inside getNextSecond()
  issued,     \* history: the uids returned, in order
  keptPast,   \* history: the epoch has never been after the clock
  keptBack    \* history: once uids were issued the epoch was only moved back

genVars == <<workerId, sequence, lastSecond>>
epoch == <<epochStr, epochSeconds, keptPast, keptBack>>
vars == <<epoch, clock, phase, genVars, spinning, issued>>

TypeOK ==
  /\ epochStr \in Days \union {DefaultEpochStr, NoDay}
  /\ epochSeconds \in Instants
  /\ clock \in 0 .. MaxClock
  /\ phase \in {"new", "assigning", "ready", "failed"}
  /\ workerId \in {0} \union AssignableIds
  /\ sequence \in 0 .. maxSequence
  /\ lastSecond \in -1 .. MaxClock
  /\ spinning \in BOOLEAN
  /\ issued \in Seq(Int)
  /\ {keptPast, keptBack} \subseteq BOOLEAN

Init ==
  /\ epochStr = DefaultEpochStr
  /\ epochSeconds = DefaultEpoch
  /\ clock = FirstClock
  /\ phase = "new"
  /\ workerId = 0
  /\ sequence = 0
  /\ lastSecond = -1
  /\ spinning = FALSE
  /\ issued = <<>>
  /\ keptPast = (DefaultEpoch <= FirstClock)
  /\ keptBack = TRUE

-----------------------------------------------------------------------------
(* afterPropertiesSet() *)

\* The bits allocator exists from here on; the worker id is awaited.
AfterPropertiesSet ==
  /\ phase \in {"new", "failed"}
  /\ ~spinning
  /\ phase' = "assigning"
  /\ UNCHANGED <<epoch, clock, genVars, spinning, issued>>

\* The field is assigned before its range is checked.
WorkerIdAssigned(id) ==
  /\ phase = "assigning"
  /\ ~spinning
  /\ workerId' = id
  /\ phase' = IF id > maxWorkerId THEN "failed" ELSE "ready"
  /\ UNCHANGED <<epoch, clock, sequence, lastSecond, spinning, issued>>

AssignmentFails ==
  /\ phase = "assigning"
  /\ ~spinning
  /\ phase' = "failed"
  /\ UNCHANGED <<epoch, clock, genVars, spinning, issued>>

-----------------------------------------------------------------------------
(* nextId() *)

\* Mutant: the second after the last one is let through.
ExhaustedLate == clock - epochSeconds > maxDeltaSeconds + 1

\* getCurrentSecond() throws; there is no check for a clock before the epoch.
Exhausted == clock - epochSeconds > maxDeltaSeconds

Issue(second, seq) ==
  /\ lastSecond' = second
  /\ sequence' = seq
  /\ issued' = Append(issued, allocate(subtract(second, epochSeconds), workerId, seq))

\* getUID() enters nextId(): the allocator exists, the thread is not spinning.
CallNextId ==
  /\ phase # "new"
  /\ ~spinning
  /\ Len(issued) < MaxUids

\* Mutant: one sequence too many before the wrap.
NextSequenceUnmasked == sequence + 1
NextSequence == and(sequence + 1, maxSequence)

\* "Timestamp bits is exhausted", or "Clock moved backwards": nothing changes.
NextIdRefused ==
  /\ CallNextId
  /\ Exhausted \/ clock < lastSecond
  /\ UNCHANGED vars

\* Mutant: a clock that moved back starts a second anew.
NextIdInAnySecond ==
  /\ CallNextId
  /\ ~Exhausted
  /\ clock # lastSecond
  /\ Issue(clock, 0)
  /\ UNCHANGED <<epoch, clock, phase, workerId, spinning>>

NextIdInNewSecond ==
  /\ CallNextId
  /\ ~Exhausted
  /\ clock > lastSecond
  /\ Issue(clock, 0)
  /\ UNCHANGED <<epoch, clock, phase, workerId, spinning>>

NextIdInSameSecond ==
  /\ CallNextId
  /\ ~Exhausted
  /\ clock = lastSecond
  /\ NextSequence # 0
  /\ Issue(clock, NextSequence)
  /\ UNCHANGED <<epoch, clock, phase, workerId, spinning>>

\* The sequences of the second are used up: the field is 0 before the spin.
NextIdBeginsToSpin ==
  /\ CallNextId
  /\ ~Exhausted
  /\ clock = lastSecond
  /\ NextSequence = 0
  /\ sequence' = 0
  /\ spinning' = TRUE
  /\ UNCHANGED <<epoch, clock, phase, workerId, lastSecond, issued>>

SpinEnds ==
  /\ spinning
  /\ ~Exhausted
  /\ clock > lastSecond
  /\ Issue(clock, 0)
  /\ spinning' = FALSE
  /\ UNCHANGED <<epoch, clock, phase, workerId>>

\* Mutant: getNextSecond() reads the clock without the check.
SpinNeverThrows ==
  /\ spinning
  /\ Exhausted
  /\ UNCHANGED vars

\* getCurrentSecond() throws out of the spin: sequence is already 0, lastSecond
\* still the exhausted second.
SpinThrows ==
  /\ spinning
  /\ Exhausted
  /\ spinning' = FALSE
  /\ UNCHANGED <<epoch, clock, phase, genVars, issued>>

-----------------------------------------------------------------------------
(* setEpochStr(), parseUID() *)

\* No day is refused: one after the clock makes the seconds negative, and one
\* after the last epoch gives them again.
SetEpochStr(day) ==
  LET second == parseByDayPattern(day) IN
  /\ ~spinning
  /\ epochStr' = day
  /\ epochSeconds' = second
  /\ keptPast' = (keptPast /\ second <= clock)
  /\ keptBack' = (keptBack /\ (issued = <<>> \/ second <= epochSeconds))
  /\ UNCHANGED <<clock, phase, genVars, spinning, issued>>

\* 'Unable to parse the date', after the text is stored.
SetEpochStrThrows ==
  /\ ~spinning
  /\ epochStr' = NoDay
  /\ UNCHANGED <<epochSeconds, keptPast, keptBack, clock, phase, genVars, spinning, issued>>

parseUID(uid) ==
  [UID |-> uid,
   timestamp |-> formatByDateTimePattern(epochSeconds + parseDeltaSeconds(uid)),
   workerId |-> parseWorkerId(uid),
   sequence |-> parseSequence(uid)]

-----------------------------------------------------------------------------
(* The clock *)

ClockMovesOn ==
  /\ clock < MaxClock
  /\ clock' = clock + 1
  /\ UNCHANGED <<epoch, phase, genVars, spinning, issued>>

ClockStepsBack ==
  /\ clock > FirstClock
  /\ clock <= LastStepBack
  /\ clock' = clock - 1
  /\ keptPast' = (keptPast /\ epochSeconds < clock)
  /\ UNCHANGED <<epochStr, epochSeconds, keptBack, phase, genVars, spinning, issued>>

Spin == SpinEnds \/ SpinThrows

Next ==
  \/ AfterPropertiesSet \/ AssignmentFails
  \/ \E id \in AssignableIds : WorkerIdAssigned(id)
  \/ NextIdRefused \/ NextIdInNewSecond \/ NextIdInSameSecond
  \/ NextIdBeginsToSpin \/ Spin
  \/ SetEpochStrThrows \/ \E day \in Days : SetEpochStr(day)
  \/ ClockMovesOn \/ ClockStepsBack

Spec == Init /\ [][Next]_vars

\* Time passes, is not stepped back for ever, and a thread that spins gets to
\* read the clock.
FairSpec ==
  /\ Spec
  /\ WF_vars(ClockMovesOn) /\ <>[][clock' >= clock]_clock
  /\ WF_vars(Spin)

-----------------------------------------------------------------------------
(* Properties *)

\* "Get a unique ID" (uid-generator.ts): no uid is returned twice.
UniqueUids == \A i, j \in DOMAIN issued : issued[i] = issued[j] => i = j

\* Uids are returned in increasing order while they are in range, through clock
\* steps and spins, and however often the epoch is moved meanwhile, as long as it is
\* moved neither past the clock nor, once uids are issued, past the epoch before.
\* No code asks the caller of setEpochStr() for either.
EpochsKept == keptPast /\ keptBack
IncreasingUids ==
  EpochsKept => \A i, j \in DOMAIN issued : i < j => issued[i] < issued[j]

\* "sign(1bit) The highest bit is always 0" (README.md), wherever the epoch is
\* moved to up to the clock.
HighestBitIsZero == keptPast => \A i \in DOMAIN issued : issued[i] >= 0

\* setEpochStr() and parseUID() agree on days: a uid of delta 0 reads as one of
\* the day that was set, whatever zone, and though clocks may skip its midnight
\* or read it twice.
EpochIsInItsDay == epochStr \in Days => parseUID(0).timestamp.day = epochStr

\* A second that ran out of sequences does not hold the caller for ever: the
\* spin ends with the next second, or by throwing past the last one.
SpinTerminates == spinning ~> ~spinning

-----------------------------------------------------------------------------
(* What these rest on *)

\* The layout keeps the order of delta, worker id and sequence, in this order, and
\* the arithmetic of a long is that of integers in their ranges.
LayoutIsOrdered ==
  /\ {maxDeltaSeconds, maxWorkerId, maxSequence} \subseteq Nat
  /\ \A d, e \in 0 .. maxDeltaSeconds : \A v, w \in 0 .. maxWorkerId :
       \A s, t \in 0 .. maxSequence :
         /\ allocate(d, v, s) \in Nat
         /\ d < e \/ (d = e /\ (v < w \/ (v = w /\ s < t)))
              => allocate(d, v, s) < allocate(e, w, t)
  /\ \A d \in 0 .. maxDeltaSeconds : toLong(d) = d
  /\ \A s \in 0 .. maxSequence :
       and(s + 1, maxSequence) = IF s = maxSequence THEN 0 ELSE s + 1

\* Days are epochs, and no clock is stepped back from beyond the last second of
\* any of them.
Epochs == {DefaultEpoch} \union {parseByDayPattern(day) : day \in Days}

ClockIsSupported ==
  /\ Epochs \subseteq Instants /\ Instants \subseteq Int
  /\ FirstClock <= MaxClock
  /\ \A e \in Epochs : LastStepBack - e <= maxDeltaSeconds

\* No other check of the range of a worker id keeps it out of the layout.
WorkerIdsFit == AssignableIds \subseteq 0 .. maxWorkerId

\* Local time never gains or loses a day, as where a zone changes sides of the date
\* line; and it begins before the days that are set.
ZoneKeepsDays ==
  /\ \A i, j \in Instants : zone[i] - zone[j] < DayLength
  /\ \A day \in Days : \E i \in Instants : LocalTime(i) < day * DayLength

\* The worker id is that of the one assignment that succeeds.
FieldsInv ==
  /\ phase # "ready" => workerId = 0
  /\ epochSeconds \in Epochs /\ (keptPast => epochSeconds <= clock)

\* The last uid issued is not past the fields: of a delta that they have reached,
\* and of a sequence below the next one, unless the second is used up or the
\* layout is.
LastIssued ==
  EpochsKept /\ issued # <<>> =>
    \E d \in 0 .. maxDeltaSeconds : \E w \in {0, workerId} : \E s \in 0 .. maxSequence :
      /\ issued[Len(issued)] = allocate(d, w, s)
      /\ d <= lastSecond - epochSeconds
      /\ s <= sequence \/ spinning \/ Exhausted

NextIdInv == TypeOK /\ FieldsInv /\ LastIssued /\ HighestBitIsZero /\ IncreasingUids

\* The epoch is what its text says, unless that is no day.
EpochIsRead == epochStr \in Days => epochSeconds = parseByDayPattern(epochStr)
=============================================================================
