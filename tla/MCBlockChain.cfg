CONSTANTS
  Blocks = {"g", "a", "b", "c", "x", "y"}
  Genesis = "g"
  Prev <- MCPrev
  Path <- MCPath
  Work <- MCWork
  NumTx <- MCNumTx
  TotalTxns <- MCTotalTxns
  Version514 = {"b"}
  Sane = {"g", "a", "b", "c", "x", "y"}
  ContextOK = {"g", "a", "b", "c", "x", "y"}
  Connectable = {"g", "a", "b", "c", "y"}
  FastAdd = {"a"}
  Workers = {w1, w2}
  MaxFailures = 1
  MaxCrashes = 1
SYMMETRY WorkerSymmetry
SPECIFICATION Spec
INVARIANTS TypeOK MainIndexMatchesBest MemoryMatchesDb RestartSucceeds ChainIsValid CleanRowsMatchDb
PROPERTIES FlagsNeverUnset TipMovesByOneBlock
