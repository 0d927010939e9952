SPECIFICATION Spec
CONSTANTS
  g1 = g1
  g2 = g2
  all = all
  s1 = s1
  s2 = s2
  none = none
  AllAccounts = all
  NoSession = none
  NoAccount = noacc
  Accounts = {a1, a2}
  Groups = {g1}
  Sessions = {s1}
  Requests = {r1, r2}
  Arrivals <- PlainArrivals
  Outcomes = {"ok", "forbidden"}
  MaxAccountConcurrency = 2
  RateLimitCooldown = 1
  NetworkCooldown = 1
  StickySessionTTL = 0
  SweepEvery = 2
  ModelRounds = 2
  ChatTurns = 2
  Admin = {"upsert", "restart"}
PROPERTIES BanHonoured
