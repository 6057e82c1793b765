SPECIFICATION FairSpec
CONSTANTS
  Workers = {w1}
  Requests = {r1, r2}
  Agents = {a1, a2}
  Sessions = {s1, s2}
  Keys = {k1, k2}
  Operations = {read}
  a1 = a1
  a2 = a2
  s1 = s1
  s2 = s2
  k1 = k1
  k2 = k2
  read = read
  None = None
  Calls <- MixedCalls
  SessionAgent <- MCSessionAgent
  MaxFaults = 1
  MaxChanges = 0
INVARIANTS
  TypeOK
  AuthorizedBeforeForward
  AuditTellsTruth
  EventsWellFormed
  AnswerIsAudited
PROPERTIES
  EveryCallEnds
  LoopReleased
CHECK_DEADLOCK FALSE
