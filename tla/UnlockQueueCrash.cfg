CONSTANTS
  Capacity = 11
  PackHeadSize = 2
  AlignLevel = 2
  Word = 32
  Half = 16
  SeqMod = 3
  short = short
  long = long
  wide = wide
  huge = huge
  wrapping = wrapping
  Msg = {short, long}
  MsgLen <- MCMsgLen
  RecvSpaces = {3}
  Crashes = TRUE
SPECIFICATION Spec
INVARIANTS RingInv SeqInv EmptyIsEmpty PeekStable
PROPERTY ImplementsFifo
