SPECIFICATION Spec
CONSTANTS
  MaxThreads = 2
  Plans <- MCOneWayPlans
  BufBase = 100
  Faults = {}
  IdRange = 4
  Smp = FALSE
  MaxPending = 4
INVARIANTS
  RegionsAgree
  AllFinishedCounted
PROPERTIES
  StreamsAreOneWay
  StreamsEnd
CHECK_DEADLOCK FALSE
