\* One run, two workers, a second delivery, two deaths.
CONSTANTS
  Runs = {r1}
  Workers = {w1, w2}
  NoRun = NoRun
  MaxRedeliveries = 1
  MaxCrashes = 2
SPECIFICATION FairSpec
INVARIANTS OutputsPerDelivery QueuedIsWaiting
PROPERTIES NeverRevived StartedRunEnds
CHECK_DEADLOCK FALSE
