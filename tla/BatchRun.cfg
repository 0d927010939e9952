CONSTANTS
  p1 = p1
  p2 = p2
  p3 = p3
  NoProxy = NoProxy
  Workers = {w1, w2}
  Proxies = {p1, p2, p3}
  ProxyPool <- PoolOfThree
  Count = 2
  WorkingSize = 2
  MaxProxyFails = 1
  MaxPerIP = 1
  FailThreshold = 1
  AutoPause = TRUE
  Cooldown = TRUE
  MaxJobAttempts = 2
  Outcomes = {"success", "throttled", "cancelled"}
SPECIFICATION FairSpec
INVARIANTS TypeOK JobsConserved
PROPERTIES PauseHolds BatchEnds TallySpec
\* The batch ends.
CHECK_DEADLOCK FALSE
