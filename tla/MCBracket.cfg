SPECIFICATION BracketSpec
CONSTANTS
  f1 = f1
  f2 = f2
  f3 = f3
  f4 = f4
  Fibers <- MCFibers
  Bracketed <- MCBracketed
  Ensured <- MCEnsured
  Capacity = 1
INVARIANTS AtMostCapacity NoLostWakeup ConnectionsAccounted
PROPERTIES ImplementsSemaphore EverythingEnds
