SPECIFICATION Spec
CONSTANTS
  PrivKeys <- MCPrivKeys
  rootKey = 3
  ScalarBaseMult <- MCScalarBaseMult
  ScalarMult <- MCScalarMult
  MulMod <- MCMulMod
  ChainXor <- MCChainXor
  Passphrases <- MCPassphrases
  ImportKeys <- MCImportKeys
  Scripts <- MCScripts
  MaxChain = 0
  MaxHeight = 2
  RecentMax = 3
  FileVersion <- MCNew
  MaxOps = 0
  MaxSyncOps = 4
INVARIANT
  SyncedToNamesItsBlock
CHECK_DEADLOCK FALSE
