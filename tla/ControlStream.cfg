SPECIFICATION StreamSpec
CONSTANTS
  MaxTime = 0
  PingInterval = 1
  ViewportInterval = 1
  BodyCells = 1
  MaxChunk = 7
  Internal = 1
  ProtocolViolation = 2
  None = None
  Messages <- MCMessages
  Scripts <- MCScripts
  Times <- MCTimes
PROPERTIES ChunkingInvisible
