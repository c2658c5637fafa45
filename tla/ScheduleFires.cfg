\* One schedule, two run-now requests, two workers, a second delivery, a failing
\* submission, one death.
CONSTANTS
  Schedules = {s1}
  Passes = {}
  Editors = {u1}
  Executors = {e1, e2}
  Manual = {m1, m2}
  MarketAware = {s1}
  Closed = {}
  MaxOrders = 1
  None = None
  LastSlot = 1
  MaxClock = 0
  MaxRedeliveries = 1
  MaxRaises = 1
  MaxCrashes = 1
SPECIFICATION FairSpec
INVARIANT CapPerExecutor
PROPERTIES FireEnds
CHECK_DEADLOCK FALSE
