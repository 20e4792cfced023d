SPECIFICATION Spec
CONSTANTS
  Children = {c1, c2}
  Callers = {s1, s2}
  Strategies <- BothStrategies
  MaxRestarts = 1
  WithinMs = 1
  SyncInterrupt = FALSE
  MaxTime = 2
INVARIANTS NothingLeftOver BudgetKept
PROPERTIES FinalIsFinal ShutdownAnswered
CHECK_DEADLOCK FALSE
