--------------------------- MODULE MCChainQueries ---------------------------
(* Transactions between three addresses. *)
EXTENDS ChainQueries, TLC

CONSTANTS t1, t2, t3

Senders == [t \in Txs |-> IF t = t3 THEN 2 ELSE 1]
Receivers == [t \in Txs |-> IF t = t1 THEN 2 ELSE 3]
Fees == [t \in Txs |-> IF t = t1 THEN 1 ELSE 3]

EveryKind ==
    {"FindTransaction", "handleGetTransaction", "GetTransaction", "GetTransactionProof",
     "monitorTransaction", "awaitStake", "GetTransactionHistory",
     "handleGetTransactionHistory", "GetFullTransactionHistory", "SearchByAddress",
     "GetRecentTransactions", "shellMonitor"}
============================================================================
