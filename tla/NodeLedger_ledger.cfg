\* A node that mines every block itself, and one that only receives.
CONSTANTS
  b1 = b1
  b2 = b2
  b3 = b3
  t1 = t1
  t2 = t2
  t3 = t3
  Txs = {t1, t2, t3}
  Own = {b1, b2, b3}
  Foreign = {b1, b2, b3}
  Inputs <- SpendInputs
SYMMETRY LaterBlocks
SPECIFICATION Spec
INVARIANTS
  TypeOK
  MinedOnce
  PoolExact
  MinedNotReadmitted
CHECK_DEADLOCK FALSE
