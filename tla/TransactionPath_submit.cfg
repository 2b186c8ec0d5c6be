\* Three payments, one of them by any call, and a mempool that two fill.
CONSTANTS
  t1 = t1
  t2 = t2
  t3 = t3
  Txs = {t1, t2, t3}
  Fee <- Fees
  Amount <- Amounts
  Methods <- Ways
  Coins <- WalletCoins
  SigLengths <- Lengths
  ClientOutputs <- Written
  MaxSize = 2
  PeerSync = TRUE
  MaxPeerList = 1
  BlockLimit = 1
  MaxBlocks = 2
SPECIFICATION FairSpec
INVARIANTS
  MempoolSound
  SpentAgainOnlyIfPooled
  ShellRejectedOnlyIfSpent
  ValueKept
PROPERTIES
  Settled
CHECK_DEADLOCK FALSE
