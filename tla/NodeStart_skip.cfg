\* The same instance, for a miner and the two IDs of the TXNS node.
CONSTANTS
  b1 = b1
  b2 = b2
  t1 = t1
  t2 = t2
  none = none
  Boots = {b1, b2}
  Others = {t1, t2}
  TXNSNodeID = t1
  TxnsPeer = t2
  FileBoot = b1
  Retries = 3
  Rounds = 3
  NoPeer = none
SPECIFICATION StartSpec
INVARIANTS
  MinerSkipsTxns
CHECK_DEADLOCK FALSE
