SPECIFICATION Spec
CONSTANTS
  PrivKeys <- MCPrivKeys
  rootKey = 3
  ScalarBaseMult <- MCScalarBaseMult
  ScalarMult <- MCScalarMult
  MulMod <- MCMulMod
  ChainXor <- MCChainXor
  Passphrases <- MCPassphrases
  ImportKeys <- MCImportKeys
  Scripts <- MCScripts
  MaxChain = 2
  MaxHeight = 0
  RecentMax = 2
  FileVersion <- MCNew
  MaxOps = 5
  MaxSyncOps = 1
INVARIANTS
  KeysAreKept
  WatchingChainAgrees
  FileRoundTrips
CHECK_DEADLOCK FALSE
