\* Validators register and restart, stakes spread by sync.
CONSTANTS
  v1 = v1
  m1 = m1
  r1 = r1
  Nodes = {v1, m1, r1}
  Validators = {v1}
  GenesisNode = v1
  RpcNodes = {}
  Stake = 2
  RpcAmounts = {}
  Unit = 1
  MaxStarts = 3
  MaxStaked = 0
SPECIFICATION Spec
INVARIANTS
  NoInflation
  HostsAgree
  ValidatorsReachable
PROPERTIES
  StakeKept
CHECK_DEADLOCK FALSE
