SPECIFICATION Spec
CONSTANTS
  first = first
  other = other
  Request = {first, other}
  Elsewhere = {first}
  Command <- MCCommand
  Id <- Payloads
  MaxClientIdLen = 2
  NumberOfSlots = 2
  MaxOffices = 2
  MaxLog = 3
  MaxEvents <- AnyEvents
  MaxTotal = 4
INVARIANTS
  TypeOK
  AppliedOnlyCommitted
  NothingSkipped
  AnswersAreCommitted
  RetriesNotApplied
  
PROPERTIES
  FirstOfficeApplies
  FirstOfficeAnswers
CHECK_DEADLOCK FALSE
