------------------------------ MODULE MCFundHalt ------------------------------
(* Instances of FundHalt for TLC: books whose value falls by 6 and by 10 in a *)
(* hundred, beyond the soft and the hard limit; the account's book is theirs. *)
EXTENDS FundHalt, FiniteSetsExt

MCPool == [e \in [Members -> Levels] |-> MapThenSumSet(LAMBDA m : e[m], Members)]
MCOf == [c \in Cycles |-> CHOOSE m \in Members : TRUE]
=============================================================================
