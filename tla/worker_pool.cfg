SPECIFICATION Spec
CONSTANTS
  r1 = r1
  o1 = o1
  o2 = o2
  n1 = n1
  n2 = n2
  Requests = {r1}
  Tasks = {o1, o2, n1, n2}
  Batch <- MCBatch
  Width <- MCWidth
  Lives = 2
  Marker = Marker
CHECK_DEADLOCK FALSE
INVARIANTS
  ItemsHaveWorkers
  RunOnce
PROPERTIES
  EveryCallReturns
