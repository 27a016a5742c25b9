INIT InitOvertaken
NEXT Next
CONSTANTS
  a = a
  b = b
  c = c
  d = d
  e = e
  Node = {a, b, c, d, e}
  Nil = Nil
  Value = {v}
  NoOp = NoOp
  MaxBatchEntries = 4
  MaxEvents <- NoEvents
INVARIANTS
  CommittedEntriesAgree
VIEW View
CHECK_DEADLOCK FALSE
