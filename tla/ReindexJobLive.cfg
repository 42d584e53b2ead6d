SPECIFICATION FairSpec
CONSTANTS
  Jobs = {j1}
  WithTTL = {j1}
  Reconcilers = {w1}
  MaxConcurrentJobs = 1
  BackoffLimit = 1
  MaxCreates = 1
  MaxDeletes = 0
  MaxProgress = 0
  MaxFaults = 1
PROPERTIES  EveryJobStarts FinishedIsCollected
CHECK_DEADLOCK FALSE
