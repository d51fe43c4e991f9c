CONSTANTS
  HeaderSize = 56
  Offset = 8
  NodeSize = 12
  MaxNode = 3
  INVALID_REF = INVALID_REF
SPECIFICATION Spec
INVARIANT BlocksInside
CHECK_DEADLOCK FALSE
