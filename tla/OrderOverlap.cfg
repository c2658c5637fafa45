\* One order, two handlers at a time, one of which may die.
CONSTANTS
  Orders = {o1}
  Handlers = {h1, h2}
  NoOrder = NoOrder
  MaxCrashes = 1
SPECIFICATION FairSpec
INVARIANTS
  ExactlyOnceAtVenue
  BookedOnce
PROPERTIES
  FilledIsFetched
  CancelStopsNewcomers
  SubmitsOnce
  LostAnswerIsAdopted
CHECK_DEADLOCK FALSE
