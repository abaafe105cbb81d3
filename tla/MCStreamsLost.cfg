SPECIFICATION Spec
CONSTANTS
  MaxThreads = 2
  Plans <- MCOneWayPlans
  BufBase = 100
  Faults = {}
  IdRange = 4
  Smp = TRUE
  MaxPending = 4
INVARIANT AllFinishedCounted
CHECK_DEADLOCK FALSE
