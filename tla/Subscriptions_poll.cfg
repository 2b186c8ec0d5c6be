\* Two connections with one subscription at a time each, while blocks and transactions arrive and writes stall.
CONSTANTS
  c1 = c1
  c2 = c2
  s1 = s1
  s2 = s2
  Ids = {s1, s2}
  Conns = {c1, c2}
  ClientIP <- OwnAddress
  Txs = {t1}
  Wanted = {t1}
  MaxPerClient = 1
  KnownCap = 0
  Stale = 0
  MaxHeight = 2
SPECIFICATION SubsSpec
SYMMETRY Alike
INVARIANTS
  SubscribersServed
PROPERTIES
  BlocksInOrder
CHECK_DEADLOCK FALSE
