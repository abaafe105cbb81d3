SPECIFICATION Spec
CONSTANTS
  MaxThreads = 2
  Plans <- MCPlans
  BufBase = 100
  Faults = {}
  IdRange = 4
  Smp = FALSE
  MaxPending = 2
  MaxRuns = 2
INVARIANTS
  TableOfThisRun
  NothingLeft
PROPERTIES
  StaysInStep
  AllRunsServed
CHECK_DEADLOCK FALSE
