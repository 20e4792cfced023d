SPECIFICATION FairPoolSpec
CONSTANTS
  Tasks = {t1, t2, t3, t4}
  size = 2
  maxQueue = 2
INVARIANTS WorkersExact OneVerdict
PROPERTIES EveryTaskAnswered
CHECK_DEADLOCK FALSE
