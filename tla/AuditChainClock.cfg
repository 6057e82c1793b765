SPECIFICATION Spec
CONSTANTS
  Writers = {w1}
  MaxEvents = 3
  MaxTime = 2
  Bodies = {b1, b2}
  Ties = FALSE
  StepsBack = TRUE
  MaxTampers = 0
INVARIANTS
  UntamperedIsValid
CHECK_DEADLOCK FALSE
