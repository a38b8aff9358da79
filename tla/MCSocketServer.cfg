SPECIFICATION Spec
CONSTANTS
  Jobs = {j1, j2}
  NoJob = NoJob
  NoPort = NoPort
  p1 = p1
  p2 = p2
  Ports <- MCPorts
  Configs <- MCConfigs
  Faults = {"thread", "socket", "accept", "tempfile", "read", "save"}
  Kills = TRUE
  MaxPosted = 3
SYMMETRY Symmetry
INVARIANTS
  MailboxesMatchCallbacks
  SocketFollowsServer
  NoJobLost
  QueueIsShown
