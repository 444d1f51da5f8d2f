CONSTANTS
  NumLen = 2
  MaxOps = 6
  MaxStackSize = 8
  MaxElementSize = 71
  MaxKeys = 3
  LockThreshold = 100
  SeqDisabled = 64
  SeqIsSeconds = 16
  SeqMask = 8
  MaxSequence = 127
  RedeemScripts <- MCRedeemScripts
  Spends <- MCSpends
  CurveOrder = 200
  MaxScriptSize = 400
  MaxDataCarrierSize = 80
  Outputs <- MCOutputs
  KeyRings <- MCKeyRings
  HashTypes = {1, 3, 130}
  Nonces <- MCNonces
  FirstTx <- MCFirstTx
  MaxCalls = 3
SPECIFICATION SignSpec
INVARIANTS EngineNeverStuck ConditionalsFollowBlocks MultiSigIsOrderedMatch RedeemScriptDecides SignedScriptsVerify StrictEncodingIsCanonical
CHECK_DEADLOCK FALSE
