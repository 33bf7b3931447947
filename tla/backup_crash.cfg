SPECIFICATION FairSpec
CONSTANTS
  Procs = {p1}
  Stacks = {db}
  Retain = 1
  MaxClock = 3
  MaxBack = 1
  MaxFaults = 2
  MaxLost = 1
  None = None
INVARIANTS
  NoStackForgotten
PROPERTIES
  LastGoodCopyStays
  EventuallyBack
