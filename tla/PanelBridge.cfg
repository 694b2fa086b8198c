SPECIFICATION PSpec
CONSTANTS
  MaxAus = 4
  MaxPendingAus = 2
  MaxInFlight = 2
  NumInputs = 3
  Oversized = {2}
  Swallowed = {3}
  None = None
  Slots = {0, 1}
  MaxRefs = 2
  MaxViewports = 1
  MaxDetaches = 1
  MaxSessions = 1
CHECK_DEADLOCK FALSE
INVARIANTS InFlightCap SoleOwner CodecOnLiveWindow
PROPERTIES KeepsFed StopReturnsToUi
