SPECIFICATION HttpSpec
CONSTANTS
  Requests = {r1, r2, r3}
  Clients = {r1, r2, r3}
  PoolConcurrency = 1
  MaxQueue = 2
  failureThreshold = 1
  successThreshold = 2
  resetTimeout = 1
  MaxRuns = 1
  MaxTime = 2
INVARIANTS PoolExact LeasesFollowCalls
PROPERTIES CoolsDown GrantsInOrder EveryRequestEnds ImplementsBreaker
CHECK_DEADLOCK FALSE
