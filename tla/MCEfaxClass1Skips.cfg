SPECIFICATION FairSpec
CONSTANTS
  Res <- MCRes3
  Rates = 2
  NoRetry = {FALSE}
  DisTries = 5
  Confirm = {"MCF"}
  Reject = {"RTN"}
  MaxFaults = 2
INVARIANTS
  SuccessMeansSent
