------------------------- MODULE MCScheduleDispatch -------------------------
(* Instances of ScheduleDispatch for TLC: all values are in the .cfg files. *)
EXTENDS ScheduleDispatch
=============================================================================
