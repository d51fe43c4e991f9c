CONSTANTS
  Peer = {1, 2, 3}
  Stranger = {4}
  kMaxQueueRecvPkgCount = 2
  IdMod = 8
  short = short
  long = long
  Msg = {short, long}
  MsgLen <- MCMsgLen
  Spaces = {1}
  QueueCap = 1
SPECIFICATION Spec
INVARIANTS TypeOK BoundedBypass EmptyMeansAllEmpty
