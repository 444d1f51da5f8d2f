CONSTANTS
  Base = 4
  HashDigits = 7
  List <- MCList
  IsTestnet = FALSE
  FirstPowLimit = 1008
  SecondPowLimitBits <- SecondBits
  MinActualTimespan = 2
  MaxActualTimespan = 5
  AveragingTargetTimespan = 4
  RetargetAdjustmentFactor = 2
  maxRetargetTimespan = 8
  PowLimit = 1008
  Decay <- MCDecay
  Tx <- MCTx
  InitialChains <- MCInitialChains
  InitialBody <- MCInitialBody
  MaxBlockBaseSize = 4
  MaxBlockSigOpsCost = 16
  MaxSatoshi = 100
  MinCoinbaseScriptLen = 2
  MaxCoinbaseScriptLen = 4
  LockTimeThreshold = 20
  TimeLimit = 20
  medianTimeBlocks = 3
  baseSubsidy = 8
  SubsidyReductionInterval = 2
  Curve <- MCCurve
  Payees <- MCPayees
  CoreAmount = 30
  TestnetCoreAmount = 30
  CorePubkeys <- MCKeys
  Blacklist = {}
  Checkpoints <- NoCheckpoints
  CheckpointConfirmations = 2
  Strangers <- MCStrangers
  MaxInv = 3
  approxNodesPerWeek = 1
  denseEntries = 2
  Blocks <- MCBlocks
  MaxNew = 2
  MaxForkDepth = 1
CHECK_DEADLOCK FALSE
SPECIFICATION RulesSpec
INVARIANTS BodyCommitted NextBlockPossible TemplatesConnect QueriesFollowChain
