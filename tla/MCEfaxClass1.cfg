SPECIFICATION FairSpec
CONSTANTS
  Res <- MCRes
  Rates = 2
  NoRetry = {FALSE, TRUE}
  DisTries = 5
  Confirm = {"MCF", "RTP", "PIP"}
  Reject = {"RTN"}
  MaxFaults = 4
INVARIANTS
  NoPageTwice
  LastPageIsGivenUp
PROPERTIES
  ImplementsPageTransfer
  BothHangUp
