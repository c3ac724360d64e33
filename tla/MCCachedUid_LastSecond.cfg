\* The clock is near the end of the delta-seconds field.
SPECIFICATION CachedSpec
CONSTANTS
  BufferSize = 4
  PaddingFactor = 50
  Uid = {0, 1, 2, 3, 4, 5, 6, 7, 8, 9, 10, 11, 12, 13, 14, 15, 16, 17, 18, 19, 20, 21, 22, 23, 24, 25, 26, 27, 28, 29, 30, 31, 32, 33, 34, 35}
  ZeroUid = zero
  TakeHandlerMayReturn = FALSE
  MaxDepth = 2
  UidsPerSecond = 2
  StartSecond = 6
  UsingSchedule = FALSE
  PutHandlerDoes = {"return"}
  TakeHandlerMayTake = FALSE
  MaxSecond = 14
  LongBits = 6
  timestampBits = 3
  workerIdBits = 1
  sequenceBits = 1
  boostPower = 1
  epochSeconds = 1
  workerId = 1
INVARIANTS
  HighestBitIsZero
