SPECIFICATION FairSpec
CONSTANTS
  Jobs = {j1, j2}
INVARIANTS
  OneCommand
  CodeIsTrue

  
CHECK_DEADLOCK FALSE
