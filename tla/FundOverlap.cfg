\* Two members, a sweep, a cycle and a user; a move of the market, a failure or death.
CONSTANTS
  Members = {m1, m2}
  Sweeps = {s1}
  Cycles = {c1}
  Of <- MCOf
  Humans = {h1}
  Levels = {90, 94, 100}
  Share = 100
  Pool <- MCPool
  SoftPct = 5
  HardPct = 8
  FundPct = 5
  Flattens = {m1}
  MaxMoves = 1
  MaxFaults = 1
SPECIFICATION FairSpec
PROPERTIES OnlyLostUpdatesLoosen FundHaltIsLatched BreachHalts
