SPECIFICATION MCSpec
CONSTANTS
  MaxTheta = 2
  MaxDelay = 2
  MaxExchanges = 4
  Holds = {0, 2}
  Starts = {1}
  Window = 3
  None = None
  Thetas <- MCThetas
  Delays <- MCDelays
INVARIANTS ErrorBound BestOfWindow
CHECK_DEADLOCK FALSE
