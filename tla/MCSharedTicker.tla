----------------------------- MODULE MCSharedTicker -----------------------------
(* The instance of SharedTicker for TLC: sleeve a and no sleeve hold a share    *)
(* each, and a cycle of sleeve b may buy one.                                   *)
EXTENDS SharedTicker, TLC

CONSTANTS a, b

MCStarts == {[account |-> 2, book |-> (a :> 1 @@ b :> 0)]}
MCTrades == {<<b, 1>>}
=============================================================================
