SPECIFICATION BothSpec
CONSTANTS
  h = h  b = b  e1 = e1  e2 = e2  e3 = e3
  Event = {h, b, e1, e2, e3}
  HighRisk = {h}
  Unwritable = {b}
  BatchSize = 2
  MaxRows = 3
  Key = {k1, k2}
  Caller = {t1, t2}
  Hour = 1
  Day = 2
  Never = 9
INVARIANTS LostOnlyIfLate BacklogHasAFlush EntryIsOwed
PROPERTIES TwiceOnlyIfShared RefusedInTheEnd
CHECK_DEADLOCK FALSE
