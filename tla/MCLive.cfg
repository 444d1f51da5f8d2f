CONSTANTS
  Blocks = {"g", "a", "c"}
  Genesis = "g"
  Prev <- MCPrev
  Path <- MCPath
  Work <- MCWork
  NumTx <- MCNumTx
  TotalTxns <- MCTotalTxns
  Version514 = {}
  Sane = {"g", "a", "c"}
  ContextOK = {"g", "a", "c"}
  Connectable = {"g", "a", "c"}
  FastAdd = {}
  Workers = {"w1", "w2"}
  MaxFailures = 1
  MaxCrashes = 0
SPECIFICATION FairSpec
PROPERTIES CallsReturn
