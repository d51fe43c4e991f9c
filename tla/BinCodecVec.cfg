CONSTANTS
  Type = {"leaf", "inner", "outer"}
  Root = "outer"
  Fields <- MCFields
  Message <- MCMessage
  Image <- MCImage
  Legal <- MCLegal
  BufLens = {31}
  Base = 8
  SizeWidth = 2
  IntMax = 31
  FillBytes = {0, 7}
  MemSize = 50
  MaxElems = 2
SPECIFICATION Spec
INVARIANTS RoundTrip
CHECK_DEADLOCK FALSE
