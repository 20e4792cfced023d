SPECIFICATION EngineSpec
CONSTANTS
  Fibers = {f1, f2, f3}
  Capacity = 2
  DrainBudget = 1
  MayRefuse = TRUE
  MaxSteps = 3
INVARIANTS DrivenByItsHost
PROPERTIES EveryFiberEnds
CHECK_DEADLOCK FALSE
