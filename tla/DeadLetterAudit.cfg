SPECIFICATION Spec
CONSTANTS
  AuditEvents = {a1}
  K8sEvents = {}
  Undecodable = {}
  Malformed = {}
  Policies = {p1}
  NoPolicy = NoPolicy
  Replicas = {r1}
  MaxDeliver = 2
  SameSecond = FALSE
  MaxWrites = 1
  MaxFailures = 2
  MaxRetry = 1
  MaxFaults = 1
  MaxCrashes = 0
INVARIANTS TypeOK LedgerInv
PROPERTIES ImplementsLedger
CHECK_DEADLOCK FALSE
