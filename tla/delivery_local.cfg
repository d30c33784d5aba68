SPECIFICATION Spec
CONSTANTS
  MaxMsg = 2
  Calls <- MCBoth
  Gated <- MCFirst
  Overlap = FALSE
  MaxScans = 1
  Budget <- MCLocal
PROPERTIES FedAgain ReadOnward InboxSpec
CHECK_DEADLOCK FALSE
