SPECIFICATION Spec
CONSTANTS
  r1 = r1
  r2 = r2
  Requests = {r1, r2}
  None = None
  MaxActs = 2
  Tolerance = 2
SYMMETRY RequestSymmetry
INVARIANTS
  ActionShown
  FreshSinceDrop
PROPERTIES
  SnapshotKept
