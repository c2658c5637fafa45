\* One fill, a sale at the venue that nobody here ordered, a poller, the beat that
\* reconciles and the check of a cycle; one failure or death.
CONSTANTS
  f1 = f1  f2 = f2  f3 = f3  g1 = g1
  Fills = {f1}
  Foreign = {g1}
  Sleeved = {f1}
  Signed <- MCSigned
  Price <- MCPrice
  Pollers = {p1}
  Pipes = {}
  Beats = {b1}
  Gates = {k1}
  Floor = 10
  UnknownCost = 100
  None = None
  MaxFaults = 1
SPECIFICATION FairSpec
PROPERTIES BookIsSquared
