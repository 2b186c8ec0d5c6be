---------------------------- MODULE MCNodeLedger ----------------------------
(* A small ledger for TLC, once of a node that mines and once of one that *)
(* receives.                                                              *)
EXTENDS NodeLedger, TLC

CONSTANTS b1, b2, b3, t1, t2, t3

\* t1 spends the reward of b1, t2 spends t1, and t3 spends the reward of b1 too.
SpendInputs == (t1 :> {b1}) @@ (t2 :> {t1}) @@ (t3 :> {b1})

\* Only b1's reward is spent.
LaterBlocks == Permutations({b2, b3})
=============================================================================
