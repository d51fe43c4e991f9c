SPECIFICATION Spec
CONSTANTS
  x = x
  NUL = NUL
  Char = {NUL, x}
  Key = {1, 2}
  MaxSize = 3
  MaxStr = 2
  MaxSub = 1
  Stored <- MCStored
  Inputs <- MCInputs
  PbBound = 4
INVARIANTS
  TypeOK
  LoadExact
PROPERTY
  ImplementsList
