\* A rejected-take handler that throws or returns, nested takes, two laps of the ring.
SPECIFICATION Spec
CONSTANTS
  BufferSize = 2
  PaddingFactor = 50
  Uid = {u1, u2, u3, u4, u5}
  ZeroUid = zero
  TakeHandlerMayReturn = TRUE
  MaxDepth = 3
SYMMETRY UidSymmetry
INVARIANTS
  TypeOK
  ClaimsAreHonoured
  NoUidLeaks
  RefusalIsJustified
PROPERTY
  ImplementsQueue
