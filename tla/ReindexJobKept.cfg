SPECIFICATION Spec
CONSTANTS
  Jobs = {j1}
  WithTTL = {j1}
  Reconcilers = {w1}
  MaxConcurrentJobs = 1
  BackoffLimit = 0
  MaxCreates = 2
  MaxDeletes = 1
  MaxProgress = 1
  MaxFaults = 0
INVARIANTS TypeOK VersionInv
PROPERTIES FinishedIsKept
CHECK_DEADLOCK FALSE
