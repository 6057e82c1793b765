CONSTANTS
  None = None
  Bounded <- MCBounded
  ManifestRows <- MCManifestRows
  ToolRows <- MCToolRows
  Requests <- MCRequests
  Times = {0, 1, 2}
  MaxChanges = 1
  AgentIds = {"a", "b"}
  Customers <- MCCustomers
  Users <- MCUsers
  SessionIds = {s1, s2}
  SubjectOf <- MCSubjectOf
  AccessTokens <- MCAccessTokens
  Configurations <- MCConfigurations
  MaxEvents = 2
SPECIFICATION ASpec
VIEW AdmittedView
INVARIANTS TypeOK AllowedIffPermitted OwnRecordOnly EvaluationDecides
           HostNamedTheCustomer ProductionTrustsProvider
CHECK_DEADLOCK FALSE
