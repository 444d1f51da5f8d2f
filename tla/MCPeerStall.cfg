CONSTANTS
  None = None
  Callers = {"a"}
  Cmd <- MCCmd
  WithDone = {"a"}
  TxInvs = {}
  BlockInvs = {}
  MaxAnnounce = 0
  Inbound = TRUE
  MaxInvTrickleSize = 1
  RecvCmds = {"notfound"}
  MaxRecv = 1
CHECK_DEADLOCK FALSE
SPECIFICATION FairSpec
PROPERTY OutHandlerEnds
