SPECIFICATION Spec
CONSTANTS
  Sizes <- MCSizes
  Avail <- MCAvail
INVARIANT InsideBuffer
CHECK_DEADLOCK FALSE
