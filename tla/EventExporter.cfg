SPECIFICATION FairSpec
CONSTANTS
  Events = {e1}
  Labelled = {e1}
  PlaneType = "edge"
  Capacity = 1
  MaxPending = 1
  MaxVersion = 2
  MaxFaults = 1
  MaxRuns = 2
INVARIANTS TypeOK IncomingIsKept VersionsAdvance  AckedIsStored
PROPERTIES  ShutdownEnds LatestIsReported
CHECK_DEADLOCK FALSE
