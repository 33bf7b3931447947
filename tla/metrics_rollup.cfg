SPECIFICATION RollSpec
CONSTANTS
  Procs = {p1}
  Win5 = 2
  Win1h = 4
  FlushEvery = 2
  MaxRaw = 12
  Slack = 0
  Retain5 = 6
  MaxTime = 6
  Jump = 2
  Faults = {"crash", "append", "save", "back", "read", "sleep"}
  MaxFaults = 2
INVARIANT NoDoubleCount
INVARIANT NothingSkipped
INVARIANT HoursAreWhole
CHECK_DEADLOCK FALSE
