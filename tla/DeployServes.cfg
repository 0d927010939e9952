CONSTANTS
  PlugIds = {x1, x2}
  PlugOld = {}
  Box = Box
  LooseStart = TRUE
  PlugOps = 2
  PlugOutages = 1
SPECIFICATION PlugSpec
PROPERTIES DeployServes
\* The operations are bounded.
CHECK_DEADLOCK FALSE
