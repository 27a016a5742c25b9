SPECIFICATION Spec
CONSTANTS
  Id = {x, y, z}
  NumberOfSlots = 3
  MaxMinutes = 7
INVARIANTS
  TypeOK
  EveryIdHasItsSlot
  ForgottenAfterADay
PROPERTIES
  CountedOncePerDay
