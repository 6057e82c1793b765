SPECIFICATION Spec
CONSTANTS
  Threads = {t1, t2}
  Agents = {a1}
  SessionIds = {s1}
  Second = 2
  MinTtl = 1
  MaxTtl = 2
  MaxTime = 3
  MaxChanges = 2
  None = None
PROPERTIES
  RevocationIsIdempotent
CHECK_DEADLOCK FALSE
