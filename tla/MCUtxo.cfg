CONSTANTS
  Tx <- MCTx
  Block <- MCBlock
  Genesis = "G"
  Subsidy = 800
  CoinbaseMaturity = 1
  MaxSatoshi = 2000
  MaxBlockSigOps = 6
  BadScripts = {"forged"}
  CheckpointHeight = 1
  Callers = {p, q}
  MaxBlocks = 6
SPECIFICATION Spec
INVARIANTS JournalUndoesTip CheckedReorgGoesThrough
PROPERTIES ImplementsUtxoSet
SYMMETRY Sym
CHECK_DEADLOCK FALSE
