SPECIFICATION Spec
CONSTANTS
  Writers = {w1}
  MaxEvents = 3
  MaxTime = 2
  Bodies = {b1, b2}
  Ties = FALSE
  StepsBack = FALSE
  MaxTampers = 1
INVARIANTS
  TypeOK
  UntamperedIsValid
  TamperingIsFound
  ChangeIsFound
  EditIsNeverValid
CHECK_DEADLOCK FALSE
