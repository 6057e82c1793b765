SPECIFICATION Spec
CONSTANTS
  Workers = {w1}
  Requests = {r1, r2, r3}
  Agents = {a1}
  Sessions = {s1}
  Keys = {k1, k2}
  Operations = {read}
  a1 = a1
  a2 = a2
  s1 = s1
  s2 = s2
  k1 = k1
  k2 = k2
  read = read
  None = None
  Calls <- RetryCalls
  SessionAgent <- OneSessionAgent
  MaxFaults = 1
  MaxChanges = 1
SYMMETRY RequestSymmetry
INVARIANTS
  AtMostOncePerKey
  RevocationWindow
PROPERTIES
  ImplementsLedger
CHECK_DEADLOCK FALSE
