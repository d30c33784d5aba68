SPECIFICATION Spec
CONSTANTS
  t1 = t1
  t2 = t2
  Tasks = {t1, t2}
  None = None
  Requests = 2
  Cuts = 1
  Writes = 1
  Stops = 2
INVARIANTS
  MergedIsTrue
  MainRestored
PROPERTIES
  PendingEnds
CHECK_DEADLOCK FALSE
