CONSTANTS
  None = None
  Callers = {"a"}
  Cmd <- MCCmd
  WithDone = {"a"}
  TxInvs = {}
  BlockInvs = {}
  MaxAnnounce = 0
  Inbound = FALSE
  MaxInvTrickleSize = 1
  RecvCmds = {}
  MaxRecv = 1
CHECK_DEADLOCK FALSE
SPECIFICATION Spec
INVARIANT HandlersNeedNegotiation
