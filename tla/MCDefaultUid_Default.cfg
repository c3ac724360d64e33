\* The clock is stepped back within the layout and runs past its end. The default
\* epoch is at 1, the days begin at 0, 2 and 3, the last after the first clock: the
\* layout ends with 4, or with 3, 5 or 6.
SPECIFICATION FairSpec
CONSTANTS
  LongBits = 6
  timestampBits = 2
  workerIdBits = 2
  sequenceBits = 1
  DayLength = 2
  zone <- ZoneWithTransitions
  DefaultEpochStr = DefaultEpochStr
  DefaultEpoch = 1
  NoDay = NoDay
  Days = {1, 2, 3}
  AssignableIds = {1, 3}
  FirstClock = 2
  MaxClock = 7
  MaxUids = 4
  LastStepBack = 3
INVARIANTS
  TypeOK
  IncreasingUids
  HighestBitIsZero
  EpochIsInItsDay
PROPERTIES
  SpinTerminates
