SPECIFICATION Spec
CONSTANTS
  SnapshotThreshold = 1
  MaxBatchEntries = 2
  Taker = {ticker, operator}
  InitialLogs = {0, 1, 2}
  MaxStored = 6
  MaxTotal = 3
  MaxEvents <- AnyEvents
SYMMETRY Symmetry
INVARIANTS
  TypeOK
  LeaderMissesNothing
  ExactUnlessMishap
  CompleteUnlessOverwritten
  MajorityUnlessMishap
