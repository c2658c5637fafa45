------------------------ MODULE MCBacktestLifecycle ------------------------
(* Instances of BacktestLifecycle for TLC. *)
EXTENDS BacktestLifecycle, TLC

\* Workers are interchangeable.
WorkerSymmetry == Permutations(Workers)
=============================================================================
