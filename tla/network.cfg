SPECIFICATION FairSpec
CONSTANTS
  lan = lan
  wifi = wifi
  Procs = {p1}
  Posts = {post}
  Wifi = wifi
  Order <- WiredFirst
  None = None
  FailAfter = 2
  RecoverAfter = 1
  MaxFaults = 1
INVARIANTS
  Bound
PROPERTIES
  RadioFollowsWire
  AliasSettles
