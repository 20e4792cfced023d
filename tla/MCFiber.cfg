SPECIFICATION FairSpec
CONSTANTS
  j1 = j1
  j2 = j2
  Joiners <- MCJoiners
  None = None
  MaxOps = 4
  MaxAnswers = 2
  MayDrop = TRUE
  SelfInterrupt = TRUE
INVARIANTS RegionsRestored AnswersMatch
PROPERTIES ImplementsContract EveryJoinerTold
