SPECIFICATION AllSpec
CONSTANTS
  r1 = r1  r2 = r2  r3 = r3
  a = a  b = b
  Request = {r1, r2, r3}
  Client = {a, b}
  ClientOf <- TwoOfOne
  Nobody = Nobody
  MaxConnections = 1
  MaxRequests = 1
  Asker = {client}
  Rule = {admin, default, monitoring}
  PerMinute <- MinuteLimits
  PerHour <- HourLimits
  Burst <- BurstLimits
  Second = 1
  Minute = 3
  Hour = 7
  MinuteKeeps = 4
  HourKeeps = 6
  admin = admin  default = default  monitoring = monitoring
INVARIANTS Accounted LimitsRespected
PROPERTIES ToldBeforeRemoved QueuedCallEnds ImplementsSemaphore ServedAgain
CHECK_DEADLOCK FALSE
