SPECIFICATION FairSpec
CONSTANTS
  Keys = {a, b, c}
  Overflow = overflow
  LaneModes = {"fair", "single"}
  LaneCapacity = 2
  LaneBudget = 2
  FlushBudget = 3
  MicroThreshold = 2
  MaxLanes = 2
  MaxTasks = 6
INVARIANTS FlushWhenNeeded LanesFair YieldsToHost
PROPERTIES EveryTaskRuns
