---------------------------- MODULE MCAccountBook ----------------------------
(* Instances of AccountBook for TLC: a purchase, a sale that turns the      *)
(* position round, a purchase that turns it back, and a sale at the venue.  *)
EXTENDS AccountBook

CONSTANTS f1, f2, f3, g1

MCSigned == [x \in Fills \cup Foreign |->
  IF x = f1 THEN 2 ELSE IF x = f2 THEN -3 ELSE IF x = f3 THEN 2 ELSE -1]
MCPrice == [x \in Fills \cup Foreign |->
  IF x = f1 THEN 8 ELSE IF x = f2 THEN 10 ELSE IF x = f3 THEN 4 ELSE 12]
=============================================================================
