CONSTANTS
  i1 = i1
  i2 = i2
  i3 = i3
  c1 = c1
  c2 = c2
  None = None
  Ids = {i1, i2, i3}
  Emails = {"e1", "e2"}
  Notes = {0, 1}
  NoNote = 0
  Stored <- TwoAccounts
  Calls = {c1, c2}
  Requests <- RequestLists
  Gate = 1
  MaxAttempts = 2
  Outcomes = {"ok", "denied", "busy", "limited"}
  MaxEdits = 1
  MaxBatches = 2
  EngWorkers = {w1}
  EngCount = 1
  MaxMinute = 2
  PerMinKept = 1
  AutoImport = TRUE
  RemoveOnFail = TRUE
  MailAddrs = {a1, a2}
  MailWorkers = {w1, w2}
  MailJobs = 3
  MailSlots = 2
  MailTries = 2
  MailKey = TRUE
  MailAtFirst = {a1}
  NoAddr = NoAddr
  Page = Page
  MailPageOps = 1
  CapHosts = {h1, h2}
  CapCallers = {c1}
  CapFillers = {f1}
  CapProvider = "auto"
  CapLimits = {1, 2}
  CapWarm = 1
  CapTokens = 1
  CapBatches = 1
  MaxGates = 2
  NoHost = NoHost
  AttWorkers = {w1}
  AttJobs = 2
  AttTries = 2
  AttCaptcha = TRUE
  AttProxies = {p1, p2}
  AttPosts = 1
  AttTokens = 4
  AttRotations = 1
  AttPipeline = TRUE
  SkipVerify = FALSE
SPECIFICATION PartsSpec
INVARIANTS TypeOK EditsSurvive ResultsAddUp RunningIsReal EngineSound SuccessesArrive PerMinSound  SolverSound 
PROPERTIES NeverRevived AttemptsRunOut
\* The parts end: the requests and the attempts, or the bounds of the other ones.
CHECK_DEADLOCK FALSE
