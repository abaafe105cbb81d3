SPECIFICATION Spec
CONSTANTS
  Tile = 2
  Pad = 4
  Boards <- MCBoards
  Lines <- MCLines
INVARIANTS
  FillInside
  FillDrawsImage
  DisplaysAsPromised
  LcdRestored
CHECK_DEADLOCK FALSE
