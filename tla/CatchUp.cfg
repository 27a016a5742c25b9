SPECIFICATION Spec
CONSTANTS
  SnapshotThreshold = 1
  MaxBatchEntries = 2
  Taker = {ticker}
  InitialLogs = {0}
  MaxStored = 6
  MaxTotal = 3
  MaxEvents <- NoCrash
PROPERTY FollowerCatchesUp
