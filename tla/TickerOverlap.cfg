\* A tick, a cycle and two requests on three orders, one answer of the venue lost.
CONSTANTS
  a = a
  b = b
  Sleeves = {a, b}
  Last = 3
  Ticks = {t1}
  Cycles = {c1}
  Requests = {1, 2}
  Starts <- MCStarts
  Trades <- MCTrades
  Cap = 2
  AccountCap = 1
  MaxLost = 1
  None = None
SPECIFICATION FairSpec
INVARIANTS HiddenExplained FlattenedIsFlat
PROPERTIES RefusalExplained ResetExplained HeldIsDealtWith
CHECK_DEADLOCK FALSE
