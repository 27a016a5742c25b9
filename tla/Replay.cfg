SPECIFICATION Spec
CONSTANTS
  first = first
  other = other
  Request = {first, other}
  Elsewhere = {first}
  Command <- MCCommand
  Id <- Payloads
  MaxClientIdLen = 2
  NumberOfSlots = 2
  MaxOffices = 2
  MaxLog = 3
  MaxEvents <- OneCrash
  MaxTotal = 3
INVARIANTS
  StateMachineSafety
CHECK_DEADLOCK FALSE
