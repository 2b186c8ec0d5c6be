------------------------ MODULE MCTransactionPath ------------------------
(* A wallet with two coins and a mempool that all but one of the payments fill. *)
EXTENDS TransactionPath, TLC

CONSTANTS t1, t2, t3

\* One that pays little and two that pay the same.
Fees == [t \in Txs |-> IF t = t1 THEN 1 ELSE 2]
Amounts == [t \in Txs |-> IF t = t3 THEN 1 ELSE 2]

\* The larger coin suffices for any of them, the smaller leaves t1 no change.
WalletCoins == <<6, 3>>

\* Two payments from the shell beside one that any call builds or a client writes.
Ways == [t \in Txs |-> IF t = t2 THEN AllMethods ELSE {"shell"}]

\* A client gives itself more than the wallet has.
Written == {<<[to |-> "self", amount |-> 10]>>}

\* A signature of full length, and one whose s has a leading zero.
Lengths == {<<32, 32>>, <<32, 31>>}
===========================================================================
