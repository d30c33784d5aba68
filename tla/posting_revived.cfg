SPECIFICATION Spec
CONSTANTS
  p1 = p1
  p2 = p2
  h1 = h1
  k = k
  u1 = u1
  none = none
  None = none
  Posts <- MCPosts
  Keys <- MCKeys
  EscalateN = 2
  Humans <- MCHumans
  ByAgent <- MCPosts
  KeyOf <- MCNoKey
  Uploads <- MCUploads
  Bodies <- MCNoFiles
  Budget <- MCNone
PROPERTIES TerminalStays
