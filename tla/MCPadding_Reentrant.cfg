\* Handlers that take, put, throw and shut down inside a pass; a rejected-take
\* handler that takes again, and may return.
SPECIFICATION PaddingSpec
CONSTANTS
  BufferSize = 2
  PaddingFactor = 50
  Uid = {0, 1, 2, 3, 4, 5, 6, 7, 8, 9, 10, 11, 12, 13, 14, 15, 16, 17, 18, 19, 20, 21, 22, 23, 24, 25, 26, 27, 28, 29, 30}
  ZeroUid = zero
  TakeHandlerMayReturn = TRUE
  MaxDepth = 3
  UidsPerSecond = 1
  StartSecond = 0
  UsingSchedule = TRUE
  PutHandlerDoes = {"return", "throw", "take", "put", "shutdown"}
  TakeHandlerMayTake = TRUE
  MaxSecond = 6
INVARIANTS
  SlotSafety
  NoUidTwice
PROPERTIES
  ImplementsRing
  SingleFlight
