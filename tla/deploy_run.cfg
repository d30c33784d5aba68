SPECIFICATION FairSpec
CONSTANTS
  only = only
  Deps <- MCDeps
  MaxChunks = 1
  Budget <- MCLosses
INVARIANTS TypeInv VerdictKept
PROPERTIES BoardSpec EveryDeploymentEnds
CHECK_DEADLOCK FALSE
