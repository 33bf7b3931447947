SPECIFICATION FairSpec
CONSTANTS
  Jobs = {j1}
PROPERTIES
  DeadlineEnds
CHECK_DEADLOCK FALSE
