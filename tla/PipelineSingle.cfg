SPECIFICATION PipelineSpec
CONSTANTS
  t1 = t1
  t2 = t2
  i1 = i1
  i2 = i2
  v = v
  w1 = w1
  w2 = w2
  Tenants = {t1, t2}
  Items = {i1, i2}
  Entries = {v}
  NoEntry = NoEntry
  NoSnapshot = NoSnapshot
  Payloads <- MCPayloads
  TenantOf <- MCTenantOf
  Workers = {w1}
  Batch = 2
  MaxRows = 2
  MaxRollbacks = 2
  MaxRestarts = 1
INVARIANTS
  NothingInvented
  TenantOrder
PROPERTIES
  Converges
CHECK_DEADLOCK FALSE
