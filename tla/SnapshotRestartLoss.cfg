SPECIFICATION Spec
CONSTANTS
  t1 = t1
  t2 = t2
  i1 = i1
  i2 = i2
  Tenants <- MCTenants
  Items <- MCItems
  Entries = {v}
  NoEntry = NoEntry
  NoSnapshot = NoSnapshot
  MaxLog = 3
  MaxSequence = 2
  MaxRestarts = 1
  MaxWriteFailures = 0
SYMMETRY MCSymmetry
INVARIANTS
  FullSnapshot
CHECK_DEADLOCK FALSE
