SPECIFICATION FairSpec
CONSTANTS
  Policies = {p1, p2}
  Workers = {w1}
  EventWorkers = {}
  MaxWrites = 2
  MaxFaults = 1
INVARIANTS TypeOK CacheFollowsPolicies ReadsAreCached
 
CHECK_DEADLOCK FALSE
