SPECIFICATION Spec
CONSTANTS
  SnapshotThreshold = 1
  MaxBatchEntries = 2
  Taker = {ticker}
  InitialLogs = {0}
  MaxStored = 6
  MaxTotal = 4
  MaxEvents <- NoCrash
INVARIANT CommitHasMajority
