\* One backtest, two workers, a second delivery, a death.
CONSTANTS
  Backtests = {b1}
  Workers = {w1, w2}
  NoBacktest = NoBacktest
  MaxRedeliveries = 1
  MaxCrashes = 1
SPECIFICATION FairSpec
INVARIANTS OneExecution
PROPERTIES EndedStaysEnded BacktestEnds
CHECK_DEADLOCK FALSE
