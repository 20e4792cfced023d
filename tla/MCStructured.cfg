SPECIFICATION StructuredSpec
CONSTANTS
  Root = root
  Subs <- MCSubs
  Children <- MCChildren
  Callers = {a}
  CloseTargets <- MCCloseTargets
  None = None
  s1 = s1
  s2 = s2
  f1 = f1
  f2 = f2
  f3 = f3
  Inner = s1
  Left = f1
  Right = f2
  Continuation = f3
  Closer = a
  Programs <- MCPrograms
  MaxFinalizers = 2
  MayDie = TRUE
INVARIANTS ClosedInOrder CombinatorExact
PROPERTIES CloseTerminates
