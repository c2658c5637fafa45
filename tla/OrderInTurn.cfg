\* One order, handled one request or task at a time.
CONSTANTS
  Orders = {o1}
  Handlers = {h1}
  NoOrder = NoOrder
  MaxCrashes = 0
SPECIFICATION FairSpec
INVARIANT LiveIsPolled
PROPERTY ClosedIsBooked
CHECK_DEADLOCK FALSE
