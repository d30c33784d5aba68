SPECIFICATION Spec
CONSTANTS
  only = only
  Deps <- MCDeps
  MaxChunks = 2
  Budget <- MCNoCrash
INVARIANTS VerdictIsReal RunsOnce LogWhole
CHECK_DEADLOCK FALSE
