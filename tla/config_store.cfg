SPECIFICATION Spec
CONSTANTS
  Procs = {p1, p2}
  Threads = {t1}
  Keys = {k1, k2}
  Free = Free
  Retention = 1
  MaxWrites = 3
  MaxFaults = 1
SYMMETRY Symmetry
INVARIANTS
  CacheTruthful
  LocksFollowSaves
PROPERTIES
  
  PreImageKept
