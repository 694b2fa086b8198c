SPECIFICATION NetFairSpec
CONSTANTS
  MaxTime = 1
  PingInterval = 3
  ViewportInterval = 1
  Internal = 1
  ProtocolViolation = 2
  None = None
  Messages <- MCMessages
  Scripts <- MCScripts
  Times <- MCTimes
  Extras <- MCExtras
  MultiDisplay = 2
  Sizes = {1, 2}
  OpenResults = {TRUE, FALSE}
  MaxDatagrams = 1
INVARIANTS ReadyBeforeMedia FanIn EndReachesApp
PROPERTIES SettledViewport HandshakeCompletes
