SPECIFICATION Spec
CONSTANTS
  Policies = {p1, p2}
  Workers = {w1}
  EventWorkers = {}
  MaxWrites = 1
  MaxFaults = 0
INVARIANTS StandingIsEvaluated
CHECK_DEADLOCK FALSE
