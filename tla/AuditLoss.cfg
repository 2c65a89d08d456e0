SPECIFICATION AuditFairSpec
CONSTANTS
  Kinds <- MCGoodKinds
  BatchSize = 2
  MaxLog = 4
  MaxFailures = 1
  MaxRestarts = 1
PROPERTIES
  EventuallyStored
CHECK_DEADLOCK FALSE
