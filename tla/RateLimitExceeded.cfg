SPECIFICATION LimiterSpec
CONSTANTS
  Checks = {c1, c2, c3}
  max_requests = 1
  window_secs = 2
  MaxDelay = 1
  MaxTime = 2
INVARIANT AtMostMaxRequests
CHECK_DEADLOCK FALSE
