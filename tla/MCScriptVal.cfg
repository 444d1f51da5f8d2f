CONSTANTS
  Calls <- MCCalls
  Inputs <- MCInputs
  Arguments <- MCArguments
  NumCPU = 1
  maxEntries = 1
  Valid <- MCValid
SPECIFICATION FairSpec
INVARIANT VerdictSound
PROPERTY PoolEnds
