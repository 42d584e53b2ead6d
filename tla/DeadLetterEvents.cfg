SPECIFICATION Spec
CONSTANTS
  AuditEvents = {}
  K8sEvents = {k1}
  Undecodable = {}
  Malformed = {}
  Policies = {p1}
  NoPolicy = NoPolicy
  Replicas = {r1, r2}
  MaxDeliver = 2
  SameSecond = FALSE
  MaxWrites = 0
  MaxFailures = 2
  MaxRetry = 1
  MaxFaults = 0
  MaxCrashes = 1
INVARIANTS  NoForkedRetries
CHECK_DEADLOCK FALSE
