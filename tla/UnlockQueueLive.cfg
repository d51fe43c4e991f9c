CONSTANTS
  Capacity = 13
  PackHeadSize = 2
  AlignLevel = 2
  Word = 32
  Half = 16
  SeqMod = 4
  short = short
  long = long
  Msg = {short, long}
  MsgLen <- MCMsgLen
  RecvSpaces = {3}
  Crashes = FALSE
SPECIFICATION LiveSpec
PROPERTIES FullIsTemporary EveryPackTaken
