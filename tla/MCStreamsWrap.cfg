SPECIFICATION Spec
CONSTANTS
  MaxThreads = 2
  Plans <- MCOneWayPlans
  BufBase = 100
  Faults = {}
  IdRange = 2
  Smp = FALSE
  MaxPending = 4
INVARIANT IdsAlwaysExpected
CHECK_DEADLOCK FALSE
