SPECIFICATION FairSpec
CONSTANTS
  t1 = t1
  t2 = t2
  w1 = w1
  w2 = w2
  Payloads <- MCPayloads
  TenantOf <- MCTenantOf
  Workers <- TwoWorkers
  Batch = 2
  MaxRows = 3
  MaxRollbacks = 1
INVARIANTS
  LockExclusive
PROPERTIES
  NeverRepublished
  EventuallySent
  ImplementsAtLeastOnce
CHECK_DEADLOCK FALSE
