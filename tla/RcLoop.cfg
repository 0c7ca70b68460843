SPECIFICATION PartsSpec
CONSTANTS
  MaxAttempts = 3
  Threshold = 2
  BreakerOn = TRUE
  CallbackMayRaise = TRUE
  m1 = m1
  w1 = w1  w2 = w2  w3 = w3
  cleaner = cleaner
  None = none
  Dash = {d1, d2}
  MaxStreams = 3
  Endpoint = endpoint
  Beat = beat
  User = {u1, u2}
  Room = {"quote"}
  Permission = {"read", "admin"}
  Needs <- QuotesNeed
  RoleNeeded <- CustomerRoom
  Public = {}
  Profiles <- SomeProfiles
INVARIANTS Kept Owned AnswersAreFresh
PROPERTIES LoopEnds ProcessingDrains AllEnd
CHECK_DEADLOCK FALSE
