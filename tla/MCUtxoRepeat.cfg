CONSTANTS
  Tx <- MCTx
  Block <- MCRepeat
  Genesis = "G"
  Subsidy = 800
  CoinbaseMaturity = 1
  MaxSatoshi = 2000
  MaxBlockSigOps = 6
  BadScripts = {"forged"}
  CheckpointHeight = 1
  Callers = {p}
  MaxBlocks = 2
SPECIFICATION Spec
PROPERTIES NoUnspentOverwritten
CHECK_DEADLOCK FALSE
