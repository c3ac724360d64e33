\* A long of 6 bits and integers of 4: every layout, ignored and refused values, sizes that overflow.
SPECIFICATION Spec
CONSTANTS
  LongBits = 6
  IntBits = 4
  BitCounts = {0, 1, 2, 3, 4}
  BoostPowers = {0, 1, 2, 4}
  PaddingFactors = {0, 50, 100}
  ScheduleIntervals = {0, 5}
  WorkerIds = {1, 3}
  Defaults <- FillingDefaults
CHECK_DEADLOCK FALSE
INVARIANTS
  TypeOK
  ParseInvertsAllocate
  OrderedWhileInRange
  RingHoldsASecond
