SPECIFICATION FairSpec
CONSTANTS
  r1 = r1
  r2 = r2
  Reqs = {r1, r2}
  Blocks = 2
  MAX_RETRIES = 2
  DATA_RETRIES = 1
  READ_SINGLE_RETRIES = 1
  Setups <- AllSetups
INVARIANTS HostExclusive SuspendedQuiet ClaimBalanced WrongReports
PROPERTIES RequestsEnd
CHECK_DEADLOCK FALSE
