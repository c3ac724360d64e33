\* A schedule, direct passes, takes from the take handler, shutdown at any time,
\* also from inside a pass; a fair event loop.
SPECIFICATION FairPaddingSpec
CONSTANTS
  BufferSize = 4
  PaddingFactor = 50
  Uid = {0, 1, 2, 3, 4, 5, 6, 7, 8, 9, 10, 11, 12, 13, 14, 15, 16, 17, 18, 19, 20, 21, 22, 23, 24, 25, 26, 27, 28, 29, 30, 31, 32, 33, 34, 35, 36, 37, 38, 39, 40}
  ZeroUid = zero
  TakeHandlerMayReturn = FALSE
  MaxDepth = 2
  UidsPerSecond = 2
  StartSecond = 0
  UsingSchedule = TRUE
  PutHandlerDoes = {"return", "shutdown"}
  TakeHandlerMayTake = TRUE
  MaxSecond = 10
INVARIANTS
  PaddingTypeOK
  ProducedInOrder
  SecondsAccounted
  RestAboveThreshold
  NeverRejectedOnceFilled
PROPERTIES
  PassEnds
  ScheduleRefills
