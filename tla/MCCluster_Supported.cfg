\* Two generators, keys 1 to 3 for worker ids up to 1: the id of 2 spills into that
\* of 0, of 3 into that of 1.  Two seconds of two uids each.
SPECIFICATION ClusterSpec
CONSTANTS
  c1 = c1
  c2 = c2
  s1 = s1
  s2 = s2
  Callers = {c1, c2}
  Sessions = {s1, s2}
  Deployments <- Supported
  Stamps = {"now"}
  FirstKey = 1
  MaxKey = 3
  LongBits = 4
  timestampBits = 1
  workerIdBits = 1
  sequenceBits = 1
  MaxUid = 3
  Watched <- WatchedUids
SYMMETRY Symmetry
INVARIANTS
  ClusterTypeOK
  UniqueInTheCluster
  DistinctWorkerIds
  AssignedIdsAreStored
  ThrownLeavesNoRow
