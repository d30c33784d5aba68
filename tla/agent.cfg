SPECIFICATION Spec
CONSTANTS
  Instructions = 3
  Crashes = 2
  SpawnFailures = 1
  CrashMax = 1
INVARIANTS
  OneProcess
  LostStaysLost
PROPERTIES
  DownIsAnswered
CHECK_DEADLOCK FALSE
