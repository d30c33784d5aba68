SPECIFICATION Spec
CONSTANTS
  Sessions = 2
  Ports = {1, 2}
  TaskOf <- MCOneTask
  Faults = 1
  Recycles = 1
INVARIANTS
  PortsHeld
PROPERTIES
  RowsSettle
  LeakEnds
CHECK_DEADLOCK FALSE
