SPECIFICATION Spec
CONSTANTS
  Faxes = {f1, f2}
  SocketFaxes = {}
  Workers = {w1, w2}
  Pids = {p1, p2}
  NoFax = NoFax
  NoPid = NoPid
  Faults = {"thread", "fork", "exec", "mkdir", "save"}
  FaxLists = TRUE
SYMMETRY Symmetry
INVARIANTS
  OneSession
  PipeAndWatchPaired
  KillTargetIsCurrent
  ExactlyOnePlace
  QuitLeavesNothingRunning
  NoSessionDuringSettings
  ReceiveStartsClean
PROPERTIES
  ItemFixedWhileSending
  ImplementsFaxJobs
