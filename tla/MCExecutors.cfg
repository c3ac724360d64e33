\* Two workers, two schedules, one task or thread more.
SPECIFICATION Spec
CONSTANTS
  MaxJobs = 3
  Names = {"a", "NamingThreadFactory"}
  PoolSize = 2
  Schedules = {s1, s2}
  MaxThreads = 1
  MaxSubmits = 4
INVARIANTS
  TypeOK
  DistinctNames
  WorkersTakeTurns
  OneTimerChain
PROPERTIES
  TimersDie

