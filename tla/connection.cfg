SPECIFICATION LinkFairSpec
CONSTANTS
  k1 = k1
  k2 = k2
  MaxSocks = 4
  Calls <- MCCalls
  Kinds <- Faults
  Budget = 2
INVARIANTS LinkTypeInv OneLive
PROPERTIES PresenceSettles Reconnects CallersReturn
CHECK_DEADLOCK FALSE
