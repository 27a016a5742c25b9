SPECIFICATION Spec
CONSTANTS
  first = first
  other = other
  Request = {first, other}
  Elsewhere = {first}
  Command <- MCCommand
  Id <- Payloads
  MaxClientIdLen = 2
  NumberOfSlots = 2
  MaxOffices = 2
  MaxLog = 3
  MaxEvents <- TwoOffices
  MaxTotal = 4
PROPERTIES
  WaitersAnswered
CHECK_DEADLOCK FALSE
