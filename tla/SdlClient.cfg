SPECIFICATION SSpec
CONSTANTS
  MaxDatagrams = 3
  MaxPendingAus = 2
  MaxReports = 2
CHECK_DEADLOCK FALSE
INVARIANTS DatagramsInOrder StatsExact
PROPERTIES NewestFrameShown ClientExits
