SPECIFICATION NetSpec
CONSTANTS
  MaxTime = 0
  PingInterval = 1
  ViewportInterval = 1
  Internal = 1
  ProtocolViolation = 2
  None = None
  Messages <- MCMessages
  Scripts <- MCScripts
  Times <- MCTimes
  Extras <- MCExtras
  MultiDisplay = 2
  Sizes = {1}
  OpenResults = {TRUE}
  MaxDatagrams = 0
INVARIANTS DecoderMatchesConfig
