SPECIFICATION FairSpec
CONSTANTS
  Keys = {k1}
  Loop = Loop
  Posts = {}
  Cooldown = 4
  Missing = Missing
  MaxFaults = 1
INVARIANTS
  LedgerMatches
PROPERTIES
  ConfirmedFault
  
  StaysBadIsTold
