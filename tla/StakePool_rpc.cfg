\* Stakes changed over RPC.
CONSTANTS
  v1 = v1
  m1 = m1
  r1 = r1
  Nodes = {v1, r1}
  Validators = {v1}
  GenesisNode = v1
  RpcNodes = {r1}
  Stake = 2
  RpcAmounts = {0, 1, 2}
  Unit = 1
  MaxStarts = 2
  MaxStaked = 4
SPECIFICATION FairSpec
INVARIANTS
  TypeOK
PROPERTIES
  SyncEnds
CHECK_DEADLOCK FALSE
