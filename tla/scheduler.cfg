SPECIFICATION FairSpec
CONSTANTS
  Jobs = {job}
  Due <- MCDue
  Slots = {s1, s2}
  NoJob = NoJob
  Resync = 1
  MaxClock = 3
  MaxBack = 1
  MaxRuns = 3
  MaxFaults = 1
  HourLen = 2
  DayLen = 3
  WeekLen = 2
  Days <- MCDays
  Horizon = 6
  Spring = 8
  Autumn = 27
  Exprs <- MCExprs
  Never = Never
INVARIANTS
  NoOverlap
  NeverStuckRunning
  EveryRunAccounted
  StreakCountsRow
  NextRunIsLaunched
PROPERTIES
  OncePerMinute
  SilenceIsBounded
