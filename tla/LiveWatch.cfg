CONSTANTS
  Items <- MCItems
  Requests <- MCRequests
  Capacity = 1
  MaxPublished = 2
  MaxFaults = 1
  MaxWatches = 2
SPECIFICATION FairSpec
INVARIANTS TypeOK DeliveredMatches NothingMissed ClosedOnce
PROPERTIES StopEnds MatchingIsDelivered
CHECK_DEADLOCK FALSE
