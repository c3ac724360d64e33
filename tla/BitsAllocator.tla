--------------------------- MODULE BitsAllocator ---------------------------
(***************************************************************************)
(* bits-allocator.ts, on the long arithmetic of deps/java/long.ts, and the *)
(* parsing half of DefaultUidGenerator.parseUID().                         *)
(*                                                                         *)
(*   +------+---------------+-----------+----------+                       *)
(*   | sign | delta seconds | worker id | sequence |                       *)
(*   +------+---------------+-----------+----------+                       *)
(*                                                                         *)
(* The width of a long is a parameter; shift distances are taken modulo it *)
(* as the code takes them modulo 64, and every result wraps.               *)
(***************************************************************************)
EXTENDS Integers

CONSTANTS LongBits, timestampBits, workerIdBits, sequenceBits

signBits == 1

\* The only check of the constructor: "allocate not enough 64 bits".
ASSUME AllocateTotalBits ==
  /\ {LongBits, timestampBits, workerIdBits, sequenceBits} \subseteq Nat
  /\ signBits + timestampBits + workerIdBits + sequenceBits = LongBits

-----------------------------------------------------------------------------
(* deps/java/long.ts *)

pow2[n \in Nat] == IF n = 0 THEN 1 ELSE 2 * pow2[n - 1]

Span == pow2[LongBits]

\* Mutant: no wrapping, as with bare bigints.
toLongUnbounded(value) == value

\* BigInt.asIntN and BigInt.asUintN.
toLong(value) == ((value + Span \div 2) % Span) - (Span \div 2)
toUnsignedLong(value) == value % Span

shiftLeft(value, distance) == toLong(value * pow2[distance % LongBits])
unsignedShiftRight(value, distance) ==
  toLong(toUnsignedLong(value) \div pow2[distance % LongBits])

not(value) == toLong(-value - 1)

\* Two longs combined bit by bit, as a table of two bits says.
bitwise(table, left, right) ==
  LET lowest[n \in Nat] == [x \in Nat |-> [y \in Nat |->
        IF n = 0 THEN 0
        ELSE 2 * lowest[n - 1][x \div 2][y \div 2] + table[x % 2][y % 2]]]
  IN  toLong(lowest[LongBits][toUnsignedLong(left)][toUnsignedLong(right)])

OrTable == [a \in {0, 1} |-> [b \in {0, 1} |-> IF a = 1 \/ b = 1 THEN 1 ELSE 0]]
AndTable == [a \in {0, 1} |-> [b \in {0, 1} |-> IF a = 1 /\ b = 1 THEN 1 ELSE 0]]

or(left, right) == bitwise(OrTable, left, right)
and(left, right) == bitwise(AndTable, left, right)

add(left, right) == toLong(left + right)
subtract(left, right) == toLong(left - right)

-----------------------------------------------------------------------------
(* BitsAllocator *)

maxDeltaSeconds == not(shiftLeft(-1, timestampBits))
maxWorkerId == not(shiftLeft(-1, workerIdBits))
maxSequence == not(shiftLeft(-1, sequenceBits))

timestampShift == workerIdBits + sequenceBits
workerIdShift == sequenceBits

\* Mutant: the worker id is shifted by its own width.
allocateUnshifted(deltaSeconds, workerId, sequence) ==
  or(or(shiftLeft(deltaSeconds, timestampShift), shiftLeft(workerId, workerIdBits)),
     sequence)

\* No argument is checked: an oversized one spills into the fields above it.
allocate(deltaSeconds, workerId, sequence) ==
  or(or(shiftLeft(deltaSeconds, timestampShift), shiftLeft(workerId, workerIdShift)),
     sequence)

\* parseUID(): each field shifted to the top, then down without sign.
parseSequence(uid) ==
  unsignedShiftRight(shiftLeft(uid, LongBits - sequenceBits), LongBits - sequenceBits)
parseWorkerId(uid) ==
  unsignedShiftRight(shiftLeft(uid, timestampBits + signBits), LongBits - workerIdBits)
parseDeltaSeconds(uid) == unsignedShiftRight(uid, workerIdBits + sequenceBits)

\* nextIdsForOneSecond(): the uids of one second are the first one plus an offset.
uidsOfSecond(deltaSeconds, workerId) ==
  [offset \in 0 .. maxSequence |-> add(allocate(deltaSeconds, workerId, 0), offset)]
=============================================================================
