CONSTANTS
  Blocks = {"g", "a", "b", "d", "c"}
  Genesis = "g"
  Prev <- MCPrev
  Path <- MCPath
  Work <- MCWork
  NumTx <- MCNumTx
  TotalTxns <- MCTotalTxns
  Version514 = {}
  Sane = {"g", "a", "b", "d", "c"}
  ContextOK = {"g", "a", "b", "d", "c"}
  Connectable = {"g", "a", "b", "d", "c"}
  FastAdd = {}
  Workers = {w1}
  MaxFailures = 0
  MaxCrashes = 0
SPECIFICATION Spec
INVARIANT MostWorkSelected
