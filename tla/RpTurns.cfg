SPECIFICATION BothSpec
CONSTANTS
  Request = {r1, r2, r3}
  Replica = {p1}
  None = none
  FailureThreshold = 2
  HalfOpenRequests = 1
  Task = {t1, t2}
  Size = 3
  Warmed = 1
  Attempts = 2
INVARIANTS HeadIsAlive OpenMeansFailed HoldersAccounted
PROPERTIES GetsThrough PoolRecovers
