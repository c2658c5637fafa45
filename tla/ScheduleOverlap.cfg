\* One schedule, two passes of the dispatcher, one editor, one death.
CONSTANTS
  Schedules = {s1}
  Passes = {p1, p2}
  Editors = {u1}
  Executors = {}
  Manual = {}
  MarketAware = {s1}
  Closed = {2}
  MaxOrders = 1
  None = None
  LastSlot = 7
  MaxClock = 2
  MaxRedeliveries = 0
  MaxRaises = 0
  MaxCrashes = 1
SPECIFICATION FairSpec
INVARIANTS FiredOnce OpenDayFireRecorded ActiveIsArmed
PROPERTIES DueIsTaken
CHECK_DEADLOCK FALSE
