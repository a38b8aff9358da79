SPECIFICATION FairSpec
CONSTANTS
  Faxes = {f1}
  SocketFaxes = {f1}
  Workers = {w1}
  Pids = {p1, p2}
  NoFax = NoFax
  NoPid = NoPid
  Faults = {"fork", "exec"}
  FaxLists = TRUE
INVARIANTS
  NoStalePages
  StateIsShown
PROPERTIES
  ReturnsToStandby
  KillIsDealtWith
  CloseDownCompletes
