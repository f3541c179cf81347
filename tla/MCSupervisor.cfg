\* Two servers and an account that is not enabled: requests, failures, a stop, a kill
\* and a restart.  CHECK_DEADLOCK is off because a container that is down and not
\* started again does nothing.
SPECIFICATION FairSpec
CONSTANTS
  N = 3
  Enabled = {1, 3}
  DatabaseOf <- Distinct
  EarlyTerm = FALSE
  ErrExit = TRUE
  MaxRequests = 1
  MaxFaults = 1
  MaxTerms = 1
  MaxKills = 1
  MaxStarts = 2
CHECK_DEADLOCK FALSE
INVARIANTS
  TypeOK
  OnlyForceCutsRequests
  StoppedIsCheckpointed
PROPERTIES
  OneDownAllDown
  StopsOnTerm
