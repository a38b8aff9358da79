SPECIFICATION FairSpec
CONSTANTS
  Jobs = {j1, j2}
  NoJob = NoJob
  NoPort = NoPort
  p1 = p1
  p2 = p2
  Ports <- MCPorts
  Configs <- MCAlwaysOn
  Faults = {}
  Kills = FALSE
  MaxPosted = 3
PROPERTIES
  EveryJobIsOffered
CHECK_DEADLOCK FALSE
