SPECIFICATION SessionSpec
CONSTANTS
  MaxScript = 2
  MaxTime = 2
  PingInterval = 2
  ViewportInterval = 2
  Internal = 1
  ProtocolViolation = 2
  None = None
  Messages <- MCMessages
  Scripts <- ProtocolScripts
  Times <- MCTimes
INVARIANTS EndsOnce MilestoneOrder ConfigAcked
