\* MySQL: two generators share a session.
SPECIFICATION Spec
CONSTANTS
  c1 = c1
  c2 = c2
  s1 = s1
  s2 = s2
  Callers = {c1, c2}
  Sessions = {s1, s2}
  Deployments <- SharedMysql
  Stamps = {"now"}
  FirstKey = 1
  MaxKey = 3
INVARIANTS
  AssignedIdsAreStored
