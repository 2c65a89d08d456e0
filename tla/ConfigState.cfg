SPECIFICATION ConfigStateSpec
CONSTANTS
  Tables <- MCTables
  Ids = {d1, d2}
  Requests = {q1, q2}
  Names = {m1, m2}
  Urls = {l1, l2}
  Limits <- MCLimits
  Null = Null
  t1 = t1
  t2 = t2
  i1 = i1
  i2 = i2
  Tenants <- MCTenants
  Items <- MCItems
  Entries = {v}
  NoEntry = NoEntry
  NoSnapshot = NoSnapshot
  MaxLog = 3
  MaxSequence = 2
  MaxRestarts = 1
  MaxWriteFailures = 1
  Snapshots <- MCSnapshots
  Upstreams <- MCUpstreams
  Method = "GET"
  Path <- MCPath
  Host <- MCHost
  Checks = {c1, c2, c3}
  max_requests = 1
  window_secs = 3
  MaxDelay = 1
  MaxTime = 5
  Tasks = {k1, k2}
  Lifetimes <- MCLifetimes
  Margin = 2
  MaxAge = 6
  Inserters = {n1, n2, n3}
  rebuild_every = 2
  MaxEntries = 6
SYMMETRY MCSymmetry
INVARIANTS
  
  SnapshotIsReplay
  LongestWins
  MatchIsUsable
  WindowIsExact
  CachedTokenAlive
  IndexCatchesUp
PROPERTIES
  SourceKept
CHECK_DEADLOCK FALSE
