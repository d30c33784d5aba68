SPECIFICATION Spec
CONSTANTS
  a = a
  none = none
  Turns = 3
  Processes = 2
  None = none
  Channels <- MCChannels
  ChannelOf <- MCChannelOf
INVARIANTS
  OneTurn
  FirstIn
  BilledOnce
PROPERTIES
  TurnsMove
CHECK_DEADLOCK FALSE
