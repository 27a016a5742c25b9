INIT InitCluster
NEXT Next
CONSTANTS
  a = a
  b = b
  c = c
  Node = {a, b, c}
  Nil = Nil
  Value = {v}
  NoOp = NoOp
  MaxBatchEntries = 4
  MaxEvents <- ClusterEvents
INVARIANTS
  TypeOK
  ElectionSafety
  VoteOnce
  LeaderHint
  LogMatching
  MatchIndexSound
  LeaderCompleteness
  CommittedEntriesAgree
PROPERTIES
  StoreNeverForgets
  ElectionsRefined
  WinnerAppendsOnly
  CommitHasMajority
SYMMETRY Symmetry
VIEW View
CHECK_DEADLOCK FALSE
