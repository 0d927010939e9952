SPECIFICATION PartsSpec
CONSTANTS
  k1 = k1
  p1 = p1
  Services = {s0, s1}
  DefaultService = s0
  Groups = {g0, g1}
  DefaultGroup = g0
  Keys = {k1, k2}
  AllAccounts = all
  Empty = empty
  Requests = {r1}
  Callers = {u1, u2, u3}
  Ports = {p1, p2}
  DefaultPort = p1
  Hosts = {any, local}
  DefaultHost = any
  Down = down
  Bad = bad
  PortsTaken = {p2}
  AntOutputs = 2
  AntPieces = 2
  AntParts = 2
  RspTools = 2
  RspBlocks = 3
  RspPieces = 2
  CvIds = {c1, c2}
  CvItems = 4
  CvBlocks = 5
  CvMessages = 3
  NoId = noid
  CtNames <- ToolNames
  CtSpaces <- SpaceNames
  CtLen = 3
  WarpPorts = {p1, p2}
  WarpOwn = own
  WarpCalls = {w1, w2}
  WarpOps = 3
  WarpOutages = 1
  NoWarp = NoWarp
  PlugIds = {x1, x2}
  PlugOld = {x1}
  Box = Box
  LooseStart = TRUE
  PlugOps = 2
  PlugOutages = 1
INVARIANTS TypeOK KeysResolve DefaultsStand MissedGroupLostKey StaleIsDoomed  ResponsesStreamsFit ClientToolsFit AnthropicFits ConversationsFit WarpSound
PROPERTIES GoodBoxKept

\* Streams end; histories, and the operations on exits and containers, are
\* bounded.
CHECK_DEADLOCK FALSE
