INIT InitElected
NEXT Next
CONSTANTS
  a = a
  b = b
  c = c
  Node = {a, b, c}
  Nil = Nil
  Value = {v}
  NoOp = NoOp
  MaxBatchEntries = 4
  MaxEvents <- UnsavedAckEvents
INVARIANTS
  MatchIndexSound
VIEW View
CHECK_DEADLOCK FALSE
