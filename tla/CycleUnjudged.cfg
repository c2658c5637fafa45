\* A rejection and a later start.
CONSTANTS
  Starters = {s1, s2}
  Fires = {}
  Requests = {h1}
  Candidates = {c1}
  LastTarget = 2
  Flavors = {"council"}
  MaxFaults = 0
SPECIFICATION Spec
INVARIANTS RestartIsJudged
CHECK_DEADLOCK FALSE
