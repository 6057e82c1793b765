SPECIFICATION FairSpec
CONSTANTS
  Txns = {t1, t2, t3}
  a1 = a1
  a2 = a2
  m1 = m1
  m2 = m2
  m3 = m3
  n1 = n1
  Agents = {a1, a2}
  Manifests = {m1, m2, m3, n1}
  ManifestAgent <- MCManifestAgent
  MaxCalls = 4
  None = None
INVARIANTS
  TypeOK
  OneActive
  RolloutSparesAudit
PROPERTIES
  NeverWithoutPolicy
  ImplementsRegister
  TransactionsEnd
CHECK_DEADLOCK FALSE
