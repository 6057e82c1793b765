CONSTANTS
  None = None
  NumCustomers = 2
  Requests = {r1, r2}
  Values = {v0, v1}
  Seeded = v0
  MaxStarts = 2
SPECIFICATION Spec
INVARIANTS TypeOK NoHalfSeed
PROPERTIES SeedOverwritesNothing OnlySentFieldsChange SuccessMeansStored DeletedStaysDeleted
CHECK_DEADLOCK FALSE
