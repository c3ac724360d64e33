-------------------------------- MODULE Dates --------------------------------
(***************************************************************************)
(* utils/date-utils.ts over deps/java/java-date.ts: days and times as text *)
(* in the time zone of the process.                                        *)
(*                                                                         *)
(* An instant counts seconds; a text of 'yyyy-MM-dd' is the number of its  *)
(* day (months and days that are out of range roll over), a text of        *)
(* 'yyyy-MM-dd HH:mm:ss' is [day, time].                                   *)
(***************************************************************************)
EXTENDS Integers, FiniteSetsExt

CONSTANTS
  DayLength, \* of a day without a transition
  zone       \* instant -> how far local time is ahead of it

Instants == DOMAIN zone

ASSUME DatesAssumption ==
  /\ DayLength \in Nat \ {0}
  /\ zone \in [Instants -> Int]

LocalTime(instant) == instant + zone[instant]

formatByDateTimePattern(instant) ==
  [day |-> LocalTime(instant) \div DayLength, time |-> LocalTime(instant) % DayLength]

\* The instant of a local time: the first, where clocks are set back over it;
\* where they are set forward over it, as the clock before would have counted.
InstantOf(local) ==
  LET reading == {i \in Instants : LocalTime(i) = local}
      before == Max({i \in Instants : LocalTime(i) < local})
  IN  IF reading # {} THEN Min(reading) ELSE local - zone[before]

\* Mutant: midnight of UTC, which is what `new Date('yyyy-MM-dd')` reads.
parseByDayPatternUtc(day) == day * DayLength

\* The midnight a day begins with.
parseByDayPattern(day) == InstantOf(day * DayLength)
=============================================================================
