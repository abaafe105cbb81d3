SPECIFICATION Spec
CONSTANT
  Jobs <- MCOddJobs
INVARIANT FramesAsAsked
CHECK_DEADLOCK FALSE
