SPECIFICATION Spec
CONSTANTS
  MaxThreads = 2
  Plans <- MCMixedPlans
  BufBase = 100
  Faults = {"create", "open", "alloc", "put", "spawn", "task"}
  IdRange = 4
  Smp = TRUE
  MaxPending = 4
INVARIANTS
  IdsAlwaysExpected
  CounterNeverAhead
PROPERTIES
  StreamsAreSafe
CHECK_DEADLOCK FALSE
