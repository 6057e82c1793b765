SPECIFICATION FairSpec
CONSTANTS
  Threads = {t1, t2}
  Agents = {a1}
  SessionIds = {s1, s2}
  Second = 2
  MinTtl = 1
  MaxTtl = 2
  MaxTime = 2
  MaxChanges = 2
  None = None
INVARIANTS
  TypeOK
  RevokedNeverValidates
  TokenEndsWithRow
PROPERTIES
  CreatedForActiveAgent
  OperationsEnd
CHECK_DEADLOCK FALSE
