\* A rejected-put handler that throws.
SPECIFICATION PaddingSpec
CONSTANTS
  BufferSize = 2
  PaddingFactor = 50
  Uid = {0, 1, 2, 3, 4, 5, 6, 7, 8, 9, 10}
  ZeroUid = zero
  TakeHandlerMayReturn = FALSE
  MaxDepth = 2
  UidsPerSecond = 1
  StartSecond = 0
  UsingSchedule = TRUE
  PutHandlerDoes = {"return", "throw"}
  TakeHandlerMayTake = FALSE
  MaxSecond = 4
INVARIANTS
  RunningMeansPadding
