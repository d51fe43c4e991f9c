CONSTANTS
  Capacity = 10
  PackHeadSize = 2
  AlignLevel = 2
  Word = 32
  Half = 6
  SeqMod = 2
  short = short
  long = long
  wide = wide
  huge = huge
  wrapping = wrapping
  Msg = {short, long, wide, huge, wrapping}
  MsgLen <- MCMsgLen
  RecvSpaces = {2, 3}
  Crashes = FALSE
SPECIFICATION Spec
INVARIANTS RingInv SeqInv EmptyIsEmpty PeekStable
PROPERTY ImplementsFifo
CONSTRAINT UntilCutSent
