\* Put handlers that throw, put and destroy, also inside the first fill.
SPECIFICATION CachedSpec
CONSTANTS
  BufferSize = 4
  PaddingFactor = 50
  Uid = {0, 1, 2, 3, 4, 5, 6, 7, 8, 9, 10, 11, 12, 13, 14, 15, 16, 17, 18, 19, 20, 21, 22, 23, 24, 25}
  ZeroUid = zero
  TakeHandlerMayReturn = FALSE
  MaxDepth = 2
  UidsPerSecond = 2
  StartSecond = 1
  UsingSchedule = TRUE
  PutHandlerDoes = {"return", "throw", "put", "shutdown"}
  TakeHandlerMayTake = FALSE
  MaxSecond = 9
  LongBits = 7
  timestampBits = 4
  workerIdBits = 1
  sequenceBits = 1
  boostPower = 1
  epochSeconds = 1
  workerId = 1
INVARIANTS
  CachedTypeOK
  FullWhenReady
  ReadyNeverFails
  UniqueUids
  UidsParseToUs
