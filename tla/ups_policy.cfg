SPECIFICATION FairSpec
CONSTANTS
  p1 = p1
  Procs = {p1}
  db = db
  svc = svc
  Targets = {db, svc}
  Stacks = {db}
  Rank <- MCRank
  None = None
  Reused = Reused
  MaxFaults = 1
  MaxLost = 0
  MaxTails = 1
INVARIANTS
  NothingForgotten
  AlertFirst
  StopsInOrder
PROPERTIES
  ImplementsPromise
  PowerBackRestores
  BatteryCompletesStops
