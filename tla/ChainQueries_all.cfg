\* Every query beside a growing chain, and the statistics of every chain reached.
CONSTANTS
  t1 = t1
  t2 = t2
  t3 = t3
  Txs = {t1, t2}
  Sender <- Senders
  Receiver <- Receivers
  Validators = {v1, v2}
  Word = 8
  PerDays = {0, 2, 4}
  Fee <- Fees
  HashPerDay = 1
  MaxStamp = 2
  MaxDays = 2
  StatsWindow = 3
  HalvingBlocks = 2
  InitialReward = 8
  Touching = {t1, t2}
  Kinds <- EveryKind
  MaxHeight = 4
  SearchCap = 2
  ScanBack = 2
  Limits = {1, 3}
  Offsets = {0, 1}
  MaxResults = 2
  MonitorTries = 3
  MonitorGrace = 1
  StakeTries = 2
  ShellLooks = 2
SPECIFICATION FairSpec
INVARIANTS
  AnswersComplete
  StatisticsExact
PROPERTIES
  QueryEnds
CHECK_DEADLOCK FALSE
