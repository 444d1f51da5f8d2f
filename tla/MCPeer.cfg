CONSTANTS
  None = None
  Callers = {"a"}
  Cmd <- MCCmd
  WithDone = {"a"}
  TxInvs = {"tx"}
  BlockInvs = {}
  MaxAnnounce = 2
  Inbound = TRUE
  MaxInvTrickleSize = 1
  RecvCmds = {"ping", "version"}
  MaxRecv = 1
CHECK_DEADLOCK FALSE
CONSTRAINT OneMessage
SPECIFICATION Spec
INVARIANTS HandoffInOrder OnlyOnce
