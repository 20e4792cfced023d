SPECIFICATION Spec
CONSTANTS
  g1 = g1
  g2 = g2
  g3 = g3
  p1 = p1
  p2 = p2
  k1 = k1
  NoJob = NoJob
  Earlier <- McEarlier
  Getters <- McGetters
  Posters <- McPosters
  Keys <- McKeys
  Jobs <- McJobs
  KeyOf <- McKeyOf
  Priority <- McPriority
  Concurrency = 2
  MaxRetries = 1
  MaxBatchSize = 2
  MaxEntries = 1
  Swr = FALSE
INVARIANTS OwnResponse
CHECK_DEADLOCK FALSE
