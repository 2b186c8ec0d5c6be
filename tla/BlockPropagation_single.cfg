\* One miner, three validators: agreement in spite of loss and reordering.
CONSTANTS
  v1 = v1
  v2 = v2
  v3 = v3
  m1 = m1
  m2 = m2
  b1 = b1
  b2 = b2
  b3 = b3
  none = none
  Nodes <- SingleNodes
  Miners = {m1}
  Validators = {v1, v2, v3}
  GenesisNode = v1
  Blocks = {b1, b2}
  NoBlock = none
  MaxTracked = 1
SPECIFICATION FairSpec
INVARIANTS
  PrefixAgreement
  MajorityHoldsParent
PROPERTIES
  StreamsAnswered
CHECK_DEADLOCK FALSE
