SPECIFICATION FairSpec
CONSTANTS
  MaxMsg = 2
  Calls <- MCSecond
  Gated <- MCFirst
  Overlap = FALSE
  MaxScans = 1
  Budget <- MCDeaths
INVARIANT ReadIsHanded
PROPERTY CallsAreHanded
CHECK_DEADLOCK FALSE
