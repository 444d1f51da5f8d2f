CONSTANTS
  Blocks = {"g", "a", "b", "c"}
  Genesis = "g"
  Prev <- MCPrev
  Path <- MCPath
  Work <- MCWork
  NumTx <- MCNumTx
  TotalTxns <- MCTotalTxns
  Version514 = {}
  Sane = {"g", "a", "b", "c"}
  ContextOK = {"g", "a", "b", "c"}
  Connectable = {"g", "a", "b", "c"}
  FastAdd = {}
  Workers = {w1, w2}
  MaxFailures = 0
  MaxCrashes = 0
SPECIFICATION Spec
INVARIANT ReorganizeKeepsTip
