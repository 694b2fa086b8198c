SPECIFICATION MCSpec
CONSTANTS
  FrameSeqs = {1, 2, 6}
  TwoParts = {1, 6}
  MayBeKey = {1}
  MayBeEmpty = {}
  MaxTime = 0
  MaxStale = 0
  IdrMinInterval = 2
  MaxPendingAus = 2
  PruneKeep = 4
  None = None
  Fragments <- MCFragments
  Times <- MCTimes
INVARIANTS CompleteFramesAssemble
CHECK_DEADLOCK FALSE
