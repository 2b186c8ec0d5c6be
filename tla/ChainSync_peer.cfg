\* Two synchronisations with a peer that mines, on a stream that may break.
CONSTANTS
  MaxHeight = 3
  FirstHeight = 2
  MaxSyncs = 2
  MaxLength = 6
SPECIFICATION FairSpec
INVARIANTS
  TypeOK
PROPERTIES
  SyncIsReplica
  SyncReturns
CHECK_DEADLOCK FALSE
