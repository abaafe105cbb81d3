SPECIFICATION Spec
CONSTANTS
  MaxThreads = 3
  Plans <- MCPlans
  BufBase = 100
  Faults = {"create", "open", "alloc", "put"}
INVARIANTS
  HandshakeComplete
  OneMessage
  HandshakeFrees
  IInv
PROPERTIES
  HandshakeEnds
  HostLeaves
CHECK_DEADLOCK FALSE
