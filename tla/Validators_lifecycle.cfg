\* Slashing at the second and third missed block, a stake that halves to below the minimum unless a reward comes first.
CONSTANTS
  OwnStake = 4
  Reward = 4
  MaxStake = 8
  MinStake = 2
  MaxMissed = 2
  MissLimit = 3
  MaxRecords = 2
  Threshold = 2
  Probation = 1
  Timeout = 1
  MaxTimeouts = 3
SPECIFICATION FairSpec
INVARIANTS
  WatchAgrees
PROPERTIES
  NoPartAfterSlash
  SilentRemoved
CHECK_DEADLOCK FALSE
