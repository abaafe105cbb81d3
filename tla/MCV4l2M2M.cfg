SPECIFICATION Spec
CONSTANT
  Jobs <- MCJobs
INVARIANTS
  BuffersOwnedOnce
  FieldMatchesData
PROPERTIES
  ConvertsInOrder
  MainEnds
CHECK_DEADLOCK FALSE
