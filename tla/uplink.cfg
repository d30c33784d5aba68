SPECIFICATION FairSpec
CONSTANTS
  MaxUsage = 2
  MaxDiag = 1
  UsageCap = 1
  DiagCap = 2
  UsageBatch = 1
  DiagBatch = 2
  Budget <- MCEachOnce
INVARIANTS UsageNeverLost ReportedOnce DiagNeverLost
PROPERTIES LedgerSpec EveryUsageRecorded
CHECK_DEADLOCK FALSE
