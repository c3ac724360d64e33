----------------------- MODULE GeneratorConfiguration -----------------------
(***************************************************************************)
(* From the setters of DefaultUidGenerator and CachedUidGenerator to the   *)
(* layout and the ring they work with: impl/default-uid-generator.ts,      *)
(* impl/cached-uid-generator.ts, and the constructors of bits-allocator.ts *)
(* and buffer/ring-buffer.ts.                                              *)
(*                                                                         *)
(* Some setters throw at a bad value, some ignore it, some take it and     *)
(* leave it to a constructor.  afterPropertiesSet() makes the layout,      *)
(* waits for the worker id, then makes the ring: a setter called meanwhile *)
(* is too late for the one and in time for the other.                      *)
(***************************************************************************)
EXTENDS Integers, FiniteSets

CONSTANTS
  LongBits,       \* width of a long, 64
  IntBits,        \* width of the integers of JavaScript's shifts, 32
  BitCounts,      \* what clients pass to setTimeBits() and its like
  BoostPowers,
  PaddingFactors,
  ScheduleIntervals,
  WorkerIds,      \* what assignWorkerId() may return
  Defaults        \* initial values of the configured fields

ASSUME ConfigurationAssumption ==
  /\ {LongBits, IntBits} \subseteq Nat \ {0}
  /\ BitCounts \union BoostPowers \union PaddingFactors \union ScheduleIntervals
       \subseteq Int
  /\ WorkerIds \subseteq Nat
  /\ {Defaults.timeBits, Defaults.workerBits, Defaults.seqBits, Defaults.boostPower}
       \subseteq Nat \ {0}
  /\ Defaults.paddingFactor \in Int

None == -1 \* no schedule configured, no layout or ring yet

VARIABLES
  timeBits, workerBits, seqBits,               \* of the default generator
  boostPower, paddingFactor, scheduleInterval, \* of the cached one
  phase,       \* of afterPropertiesSet(): "new", "assigning", "ready", "failed"
  layout,      \* bitsAllocator: the bits it was made with
  ring,        \* ringBuffer: its size and padding threshold
  bootInterval \* interval of the schedule that was started

fields ==
  <<timeBits, workerBits, seqBits, boostPower, paddingFactor, scheduleInterval>>
made == <<phase, layout, ring, bootInterval>>
vars == <<fields, made>>

TypeOK ==
  /\ {timeBits, workerBits, seqBits, boostPower} \subseteq Nat \ {0}
  /\ paddingFactor \in Int
  /\ {scheduleInterval, bootInterval} \subseteq Nat \union {None}
  /\ phase \in {"new", "assigning", "ready", "failed"}
  /\ layout \in [time : Nat, worker : Nat, seq : Nat]
  /\ ring \in [size : Nat, threshold : Nat]

NoLayout == [time |-> 1, worker |-> 1, seq |-> 1]
NoRing == [size |-> 0, threshold |-> 0]

Init ==
  /\ timeBits = Defaults.timeBits
  /\ workerBits = Defaults.workerBits
  /\ seqBits = Defaults.seqBits
  /\ boostPower = Defaults.boostPower
  /\ paddingFactor = Defaults.paddingFactor
  /\ scheduleInterval = None
  /\ phase = "new"
  /\ layout = NoLayout
  /\ ring = NoRing
  /\ bootInterval = None

\* Long arithmetic and parsing, for the layout that was made.
Bits == INSTANCE BitsAllocator WITH
  timestampBits <- layout.time,
  workerIdBits <- layout.worker,
  sequenceBits <- layout.seq

-----------------------------------------------------------------------------
(* Setters *)

\* Mutant: the value is taken as it is.
TakesBitsUnchecked(value) == TRUE

\* A count that is not positive is ignored without a word.
TakesBits(value) == value > 0

SetTimeBits(value) ==
  /\ timeBits' = IF TakesBits(value) THEN value ELSE timeBits
  /\ UNCHANGED <<workerBits, seqBits, boostPower, paddingFactor, scheduleInterval>>

SetWorkerBits(value) ==
  /\ workerBits' = IF TakesBits(value) THEN value ELSE workerBits
  /\ UNCHANGED <<timeBits, seqBits, boostPower, paddingFactor, scheduleInterval>>

SetSeqBits(value) ==
  /\ seqBits' = IF TakesBits(value) THEN value ELSE seqBits
  /\ UNCHANGED <<timeBits, workerBits, boostPower, paddingFactor, scheduleInterval>>

\* 'Boost power must be positive!': a bad value throws and is not taken.
SetBoostPower(value) ==
  /\ boostPower' = IF value > 0 THEN value ELSE boostPower
  /\ UNCHANGED <<timeBits, workerBits, seqBits, paddingFactor, scheduleInterval>>

\* 'Schedule interval must positive!'
SetScheduleInterval(value) ==
  /\ scheduleInterval' = IF value > 0 THEN value ELSE scheduleInterval
  /\ UNCHANGED <<timeBits, workerBits, seqBits, boostPower, paddingFactor>>

\* Not checked here, but by the ring.
SetPaddingFactor(value) ==
  /\ paddingFactor' = value
  /\ UNCHANGED <<timeBits, workerBits, seqBits, boostPower, scheduleInterval>>

Configure ==
  /\ phase \in {"new", "assigning"}
  /\ \/ \E n \in BitCounts : SetTimeBits(n) \/ SetWorkerBits(n) \/ SetSeqBits(n)
     \/ \E n \in BoostPowers : SetBoostPower(n)
     \/ \E n \in PaddingFactors : SetPaddingFactor(n)
     \/ \E n \in ScheduleIntervals : SetScheduleInterval(n)
  /\ UNCHANGED made

-----------------------------------------------------------------------------
(* afterPropertiesSet() *)

\* 'allocate not enough 64 bits'.
BitsFill == 1 + timeBits + workerBits + seqBits = LongBits

MakeLayout ==
  /\ phase = "new"
  /\ IF BitsFill
       THEN /\ phase' = "assigning"
            /\ layout' = [time |-> timeBits, worker |-> workerBits, seq |-> seqBits]
       ELSE phase' = "failed" /\ UNCHANGED layout
  /\ UNCHANGED <<fields, ring, bootInterval>>

\* `<<` of JavaScript: operand and result are integers of IntBits, the distance
\* is taken modulo IntBits.
toInt(value) ==
  ((value + Bits!pow2[IntBits - 1]) % Bits!pow2[IntBits]) - Bits!pow2[IntBits - 1]
shiftInt(value, distance) == toInt(toInt(value) * Bits!pow2[distance % IntBits])

bitCount(value) ==
  Cardinality({i \in 0 .. IntBits - 1 : ((value % Bits!pow2[IntBits]) \div Bits!pow2[i]) % 2 = 1})

\* Mutant: the power is that of the field, not of the layout in use.
bufferSizeOfField == shiftInt(Bits!pow2[seqBits], boostPower)

bufferSize == shiftInt(Bits!maxSequence + 1, boostPower)

\* The assertions of the ring's constructor.
RingAccepts ==
  /\ bufferSize > 0
  /\ bitCount(bufferSize) = 1
  /\ paddingFactor \in 1 .. 99

\* The worker id is in range: initRingBuffer().
MakeRing ==
  IF RingAccepts
    THEN /\ phase' = "ready"
         /\ ring' = [size |-> bufferSize,
                     threshold |-> (bufferSize * paddingFactor) \div 100]
         /\ bootInterval' = scheduleInterval
    ELSE phase' = "failed" /\ UNCHANGED <<ring, bootInterval>>

WorkerIdAssigned(id) ==
  /\ phase = "assigning"
  /\ IF id > Bits!maxWorkerId
       THEN phase' = "failed" /\ UNCHANGED <<ring, bootInterval>>
       ELSE MakeRing
  /\ UNCHANGED <<fields, layout>>

Next ==
  \/ Configure
  \/ MakeLayout
  \/ \E id \in WorkerIds : WorkerIdAssigned(id)

Spec == Init /\ [][Next]_vars

-----------------------------------------------------------------------------
(* Properties *)

Made == phase \in {"assigning", "ready"}

allUids ==
  {<<d, w, s>> : d \in 0 .. 2 * Bits!maxDeltaSeconds + 1,
                 w \in 0 .. Bits!maxWorkerId, s \in 0 .. Bits!maxSequence}

uid(args) == Bits!allocate(args[1], args[2], args[3])

\* In every layout the setters can lead to, parseUID() recovers what allocate()
\* was given, even once the seconds have run into the sign bit and the uid has
\* become negative: no shift distance reaches the width of a long.  And the
\* padding path, which adds up the uids of a second, numbers it in the same way.
ParseInvertsAllocate ==
  Made => \A args \in allUids :
    LET u == uid(args)
    IN  /\ Bits!parseDeltaSeconds(u) = args[1]
        /\ Bits!parseWorkerId(u) = args[2]
        /\ Bits!parseSequence(u) = args[3]
        /\ u = Bits!uidsOfSecond(args[1], args[2])[args[3]]

\* A uid is negative exactly when its seconds exceed maxDeltaSeconds, and while
\* they do not, a later second or sequence makes a larger uid.
OrderedWhileInRange ==
  Made => \A args \in allUids :
    LET d == args[1]
        u == uid(args)
        nextSecond == uid(<<d + 1, args[2], 0>>)
    IN  /\ u < 0 <=> d > Bits!maxDeltaSeconds
        /\ args[3] < Bits!maxSequence => u < uid(<<d, args[2], args[3] + 1>>)
        /\ d < Bits!maxDeltaSeconds => u < nextSecond

\* A ring that is made holds the uids of a whole second at least, although the
\* computation of its size may overflow, and however late the setters came: the
\* first pass never drops part of the first second it asks for.
RingHoldsASecond == phase = "ready" => ring.size >= Bits!maxSequence + 1

-----------------------------------------------------------------------------
(* What these rest on *)

\* A layout that is in use fills the long and has no empty field.
LayoutIsFull ==
  Made => /\ {layout.time, layout.worker, layout.seq} \subseteq Nat \ {0}
          /\ 1 + layout.time + layout.worker + layout.seq = LongBits

\* A ring that is in use is as large as the power of two of its layout.
RingOfLayout == phase = "ready" => ring.size >= Bits!pow2[layout.seq]

ConfigurationInv == TypeOK /\ LayoutIsFull /\ RingOfLayout
=============================================================================
