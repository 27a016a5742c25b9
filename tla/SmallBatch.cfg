INIT InitElected
NEXT Next
CONSTANTS
  a = a
  b = b
  c = c
  Node = {a, b, c}
  Nil = Nil
  Value = {v}
  NoOp = NoOp
  MaxBatchEntries = 1
  MaxEvents <- SmallBatchEvents
INVARIANTS
  CommittedEntriesAgree
VIEW View
CHECK_DEADLOCK FALSE
