CONSTANTS
  p1 = p1
  p2 = p2
  p3 = p3
  NoProxy = NoProxy
  Workers = {w1, w2}
  Proxies = {p1, p2, p3}
  ProxyPool <- PoolOfThree
  Count = 2
  WorkingSize = 2
  MaxProxyFails = 1
  MaxPerIP = 1
  FailThreshold = 2
  AutoPause = FALSE
  Cooldown = FALSE
  MaxJobAttempts = 2
  Outcomes = {"success", "unreachable"}
SPECIFICATION Spec
PROPERTIES ReserveFirst
\* The batch ends.
CHECK_DEADLOCK FALSE
