SPECIFICATION ServicesSpec
CONSTANTS
  TenantIds = {t1, t2}
  UpstreamIds = {u1, u2}
  RouteIds = {r1, r2}
  Requests = {q1, q2}
  NoId = NoId
  Kinds <- MCKinds
  BatchSize = 2
  MaxLog = 4
  MaxFailures = 1
  MaxRestarts = 2
  Callers = {c1, c2, c3}
  failure_threshold = 3
  reset_timeout = 2
  HttpRequests = {h1, h2}
  NoRequest = NoRequest
  ToolCalls = {m1, m2}
  NoCall = NoCall
  MaxNotifications = 1
  PluginFiles = {p1, p2}
  Contents = {v}
  Absent = Absent
  Broken = Broken
  Capacity = 2
  MaxChanges = 4
  PanelKinds <- MCPanelKinds
  RowIds = {1, 2}
  Diffs <- MCDiffs
  MaxTimers = 2
  Duration = 2
  MaxToasts = 3
  HISTORY_SIZE = 3
  MaxSamples = 8
INVARIANTS
  
  
  UnstoredIsReplayed
PROPERTIES
  NoResurrection
  StoredUnlessRejected
  OpensOnConsecutiveFailures
  Recovers
  EveryoneIsAnswered
  
  PluginsConverge
  ShownInFull
  TimersRunOut
  DownIsNoticed
CHECK_DEADLOCK FALSE
