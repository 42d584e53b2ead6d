SPECIFICATION Spec
CONSTANTS
  AuditEvents = {a1, a2}
  K8sEvents = {}
  Undecodable = {a1}
  Malformed = {a2}
  Policies = {p1}
  NoPolicy = NoPolicy
  Replicas = {r1, r2}
  MaxDeliver = 2
  SameSecond = FALSE
  MaxWrites = 0
  MaxFailures = 1
  MaxRetry = 2
  MaxFaults = 0
  MaxCrashes = 0
INVARIANTS  NoForkedRetries
CHECK_DEADLOCK FALSE
