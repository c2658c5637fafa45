----------------------------- MODULE SubmitOnce -----------------------------
(***************************************************************************)
(* What submit_idempotent promises of every order, whoever calls it and    *)
(* however often: a caller first claims the order; only a claimed order is *)
(* placed at the venue, and only once; a claim is given back only while    *)
(* nothing was placed; that the order was placed is learnt afterwards, and *)
(* never forgotten.                                                        *)
(***************************************************************************)
EXTENDS Naturals

CONSTANT Orders

VARIABLES
  claimed,   \* the orders some caller has claimed
  placed,    \* how often each order was placed at the venue
  known      \* the orders known to be placed

vars == <<claimed, placed, known>>

Init ==
  /\ claimed = {}
  /\ placed  = [o \in Orders |-> 0]
  /\ known   = {}

Claim(o) ==
  /\ o \notin claimed
  /\ claimed' = claimed \cup {o}
  /\ UNCHANGED <<placed, known>>

GiveBack(o) ==
  /\ o \in claimed
  /\ placed[o] = 0
  /\ claimed' = claimed \ {o}
  /\ UNCHANGED <<placed, known>>

Place(o) ==
  /\ o \in claimed
  /\ placed[o] = 0
  /\ placed' = [placed EXCEPT ![o] = 1]
  /\ UNCHANGED <<claimed, known>>

Learn(o) ==
  /\ placed[o] = 1
  /\ known' = known \cup {o}
  /\ UNCHANGED <<claimed, placed>>

Next == \E o \in Orders : Claim(o) \/ GiveBack(o) \/ Place(o) \/ Learn(o)

Spec == Init /\ [][Next]_vars
=============================================================================
