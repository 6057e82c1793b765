SPECIFICATION Spec
CONSTANTS
  Workers = {w1}
  Requests = {r1, r2}
  Agents = {a1}
  Sessions = {s1}
  Keys = {k1, k2}
  Operations = {read}
  a1 = a1
  a2 = a2
  s1 = s1
  s2 = s2
  k1 = k1
  k2 = k2
  read = read
  None = None
  Calls <- TraceCalls
  SessionAgent <- OneSessionAgent
  MaxFaults = 0
  MaxChanges = 0
INVARIANTS
  EveryDecisionQueryable
CHECK_DEADLOCK FALSE
