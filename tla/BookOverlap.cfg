\* Three fills of a sleeve's orders, two pollers and a post-confirm pipeline beside
\* each other; one failure or death.  No beat and no cycle's check run here (see
\* BookSquared.cfg).  The venue may run out of executions and every process ends.
CONSTANTS
  f1 = f1  f2 = f2  f3 = f3  g1 = g1
  Fills = {f1, f2, f3}
  Foreign = {}
  Sleeved = {f1, f2, f3}
  Signed <- MCSigned
  Price <- MCPrice
  Pollers = {p1, p2}
  Pipes = {c1}
  Beats = {}
  Gates = {}
  Floor = 10
  UnknownCost = 100
  None = None
  MaxFaults = 1
SPECIFICATION Spec
INVARIANTS BookedOnce RowIsBooked LedgerExplainsBook AverageCostAddsUp
CHECK_DEADLOCK FALSE
