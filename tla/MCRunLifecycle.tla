--------------------------- MODULE MCRunLifecycle ---------------------------
(* Instances of RunLifecycle for TLC. *)
EXTENDS RunLifecycle, TLC

\* Workers are interchangeable, and so are runs.
Symmetry == Permutations(Workers) \cup Permutations(Runs)
=============================================================================
