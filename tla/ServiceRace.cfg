SPECIFICATION ServiceSpec
CONSTANTS
  Callers = {u1, u2}
  Ports = {p1, p2}
  DefaultPort = p1
  Hosts = {any}
  DefaultHost = any
  Down = down
  Bad = bad
  PortsTaken = {}
INVARIANTS EnabledListens
