-------------------------- MODULE MCOrderLifecycle --------------------------
(* Instances of OrderLifecycle for TLC. *)
EXTENDS OrderProperties, TLC

\* Handlers are interchangeable: no definition tells one from another.
HandlerSymmetry == Permutations(Handlers)
=============================================================================
