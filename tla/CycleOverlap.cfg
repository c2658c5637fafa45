\* Two starts, one of an autopilot, and a request on the rows of a day.
CONSTANTS
  Starters = {s1, s2}
  Fires = {s2}
  Requests = {h1}
  Candidates = {c1}
  LastTarget = 2
  Flavors = {"council", "computed"}
  MaxFaults = 1
SPECIFICATION FairSpec
INVARIANTS UnjudgedWasRejected OnlyOverlapDoubles
PROPERTIES OnlyOverlapRevives CycleEnds
CHECK_DEADLOCK FALSE
