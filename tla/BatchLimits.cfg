CONSTANTS
  p1 = p1
  p2 = p2
  p3 = p3
  NoProxy = NoProxy
  Workers = {w1, w2}
  Proxies = {p1, p2, p3}
  ProxyPool <- PoolOfThree
  Count = 3
  WorkingSize = 2
  MaxProxyFails = 1
  MaxPerIP = 2
  FailThreshold = 1
  AutoPause = FALSE
  Cooldown = FALSE
  MaxJobAttempts = 2
  Outcomes = {"success", "unreachable"}
SPECIFICATION Spec
INVARIANTS CapOvershoot
\* The batch ends.
CHECK_DEADLOCK FALSE
