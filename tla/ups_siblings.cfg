SPECIFICATION Spec
CONSTANTS
  p1 = p1
  p2 = p2
  Procs = {p1, p2}
  db = db
  svc = svc
  Targets = {db}
  Stacks = {db}
  Rank <- MCRank
  None = None
  Reused = Reused
  MaxFaults = 1
  MaxLost = 0
  MaxTails = 1
PROPERTIES
  LatchOnlyFromIdle
SYMMETRY MCSymmetry
