SPECIFICATION Spec
CONSTANTS
  SnapshotThreshold = 1
  MaxBatchEntries = 2
  Taker = {ticker}
  InitialLogs = {1}
  MaxStored = 6
  MaxTotal = 2
  MaxEvents <- NoCrash
INVARIANT FollowerMissesNothing
