---------------------------- MODULE MCStrategyCycle ----------------------------
(* Instances of StrategyCycle for TLC. *)
EXTENDS StrategyCycle
=============================================================================
