SPECIFICATION FairSpec
CONSTANTS
  g1 = g1
  g2 = g2
  all = all
  s1 = s1
  s2 = s2
  none = none
  AllAccounts = all
  NoSession = none
  NoAccount = noacc
  Accounts = {a1}
  Groups = {g1}
  Sessions = {s1}
  Requests = {r1, r2}
  Arrivals <- HealthArrivals
  Outcomes <- AllOutcomes
  MaxAccountConcurrency = 2
  RateLimitCooldown = 2
  NetworkCooldown = 1
  StickySessionTTL = 0
  SweepEvery = 2
  ModelRounds = 2
  ChatTurns = 2
  Admin = {"ban", "unban", "clearlimit", "usage", "usable", "restart"}
PROPERTIES BanHonoured RateLimitHonoured RequestEnds
