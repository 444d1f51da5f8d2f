CONSTANTS
  None = None
  Callers = {"a"}
  Cmd <- MCCmd
  WithDone = {"a"}
  TxInvs = {}
  BlockInvs = {"blk"}
  MaxAnnounce = 1
  Inbound = TRUE
  MaxInvTrickleSize = 1
  RecvCmds = {"notfound"}
  MaxRecv = 1
CHECK_DEADLOCK FALSE
SPECIFICATION FairSpec
INVARIANT AnsweredIsNotPending
PROPERTIES QueuedIsWritten QueueHandlerEnds
