\* Two boot nodes, of which bootnode.addr names the first, and the two nodes that the code names as the TXNS node.
CONSTANTS
  b1 = b1
  b2 = b2
  t1 = t1
  t2 = t2
  none = none
  Boots = {b1, b2}
  Others = {t1, t2}
  TXNSNodeID = t1
  TxnsPeer = t2
  FileBoot = b1
  Retries = 3
  Rounds = 3
  NoPeer = none
SPECIFICATION FairStart
INVARIANTS
  StartSound
PROPERTIES
  StartEnds
  ConnectionsKept
CHECK_DEADLOCK FALSE
