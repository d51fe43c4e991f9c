CONSTANTS
  Type = {"leaf", "inner", "outer"}
  Root = "outer"
  Fields <- MCFields
  Message <- MCMessage
  Image <- MCImage
  Legal <- MCLegal
  BufLens = {0, 1, 2, 3, 4, 5, 6, 7, 8, 9, 10, 11, 12, 13, 14, 15, 16, 17, 18, 19, 20, 21, 22, 23, 24, 25, 26, 27, 28, 29, 30}
  Base = 8
  SizeWidth = 2
  IntMax = 31
  FillBytes = {0, 1, 7}
  MemSize = 50
  MaxElems = 1
SPECIFICATION Spec
INVARIANTS TypeOK RoundTrip TruncatedRefused EncodeExact
CHECK_DEADLOCK FALSE
