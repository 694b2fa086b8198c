SPECIFICATION MCSpec
CONSTANTS
  MaxSeq = 4
  Counts = {1, 2}
  MaxTime = 4
  MaxStale = 1
  IdrMinInterval = 2
  None = None
  Fragments <- MCFragments
  Times <- MCTimes
INVARIANTS WindowInv IdrDiscipline OneFate
PROPERTIES DiscardIsAsked RefinesStream
CHECK_DEADLOCK FALSE
