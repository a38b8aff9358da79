SPECIFICATION FairSpec
CONSTANTS
  Frames = {f1, f2}
  NoFrame = NoFrame
  KissSessions = {k1}
  AgwpeSessions = {a1}
  MaxHeard = 2
  MaxRequests = 2
INVARIANTS
  ClientsAreHandled
  EveryFrameOnce
PROPERTIES
  QueuesDrain
CHECK_DEADLOCK FALSE
