CONSTANTS
  None = None
  NumCustomers = 1
  Requests = {r1}
  Values = {v0, v1}
  Seeded = v0
  MaxStarts = 2
SPECIFICATION Spec
INVARIANTS SeedIsIdempotent
CHECK_DEADLOCK FALSE
