SPECIFICATION QSpec
CONSTANTS
  Writers = {w1, w2}
  MaxEvents = 3
  MaxTime = 1
  Bodies = {b1, b2}
  Ties = TRUE
  StepsBack = TRUE
  MaxTampers = 0
  Limits = {1, 2}
  None = None
SYMMETRY Symmetry
INVARIANTS
  QTypeOK
  PagingMissesNothing
CHECK_DEADLOCK FALSE
