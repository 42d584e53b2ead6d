SPECIFICATION FairSpec
CONSTANTS
  AuditEvents = {a1}
  K8sEvents = {}
  Undecodable = {}
  Malformed = {}
  Policies = {p1}
  NoPolicy = NoPolicy
  Replicas = {r1}
  MaxDeliver = 2
  SameSecond = FALSE
  MaxWrites = 2
  MaxFailures = 1
  MaxRetry = 1
  MaxFaults = 0
  MaxCrashes = 0
PROPERTIES FixedEventsDrain
CHECK_DEADLOCK FALSE
