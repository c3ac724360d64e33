\* The clock is stepped back across the last second of the layout.
SPECIFICATION Spec
CONSTANTS
  LongBits = 7
  timestampBits = 3
  workerIdBits = 2
  sequenceBits = 1
  DayLength = 2
  zone <- ZoneWithTransitions
  DefaultEpochStr = DefaultEpochStr
  DefaultEpoch = 2
  NoDay = NoDay
  Days = {}
  AssignableIds = {1, 3}
  FirstClock = 7
  MaxClock = 10
  MaxUids = 8
  LastStepBack = 10
INVARIANTS
  UniqueUids
