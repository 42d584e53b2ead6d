SPECIFICATION Spec
CONSTANTS
  HourLen = 2
  CursorTTL = 0
  MaxQueryWindow = 3
  MaxPageSize = 2
  DefaultLimit = 2
  ListWindow = 3
  DefaultFacets = 1
  MaxFacets = 2
  AuditLogs <- MCAuditLogs
  Events <- MCEvents
  Old <- MCOld
  Policies <- MCPolicies
  Verdict <- MCVerdict
  Jobs <- MCJobs
  MaxRetries = 2
  MaxNow = 2
  MaxRuns = 2
  MaxFaults = 1
INVARIANTS FeedReflectsHistory OneActivityPerAuditLog
CHECK_DEADLOCK FALSE
