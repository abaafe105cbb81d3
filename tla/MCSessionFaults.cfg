SPECIFICATION Spec
CONSTANTS
  MaxThreads = 2
  Plans <- MCFaultPlans
  BufBase = 100
  Faults = {"create", "open", "alloc", "put", "spawn", "task"}
  IdRange = 4
  Smp = TRUE
  MaxPending = 2
  MaxRuns = 1
INVARIANTS
  TransactionExclusive
  TasksFinishedBeforeDelete
  DataIntegrity
PROPERTIES
  StaysInStepSafely
  TransactionAnswered
CHECK_DEADLOCK FALSE
