SPECIFICATION MCFairSpec
CONSTANTS
  FrameSeqs = {1, 2, 3, 4, 6}
  TwoParts = {6}
  MayBeKey = {1, 4}
  MayBeEmpty = {2}
  MaxTime = 2
  MaxStale = 1
  IdrMinInterval = 1
  MaxPendingAus = 2
  PruneKeep = 4
  None = None
  Fragments <- MCFragments
  Times <- MCTimes
INVARIANTS HandOffChain DeliveredAccounted NoLostWakeup IdrGate
PROPERTIES StopReturns DiscardIsRequested
