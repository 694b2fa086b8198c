SPECIFICATION XSpec
CONSTANTS
  Extras <- MCExtras
  Served = {0, 2}
  MaxCmds = 3
  MaxChanges = 2
CHECK_DEADLOCK FALSE
INVARIANTS RunningIsBegun NothingDangles
PROPERTIES PictureAdvances EventsReachApp AppEnds
