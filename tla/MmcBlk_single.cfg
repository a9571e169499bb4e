SPECIFICATION FairSpec
CONSTANTS
  r1 = r1
  r2 = r2
  Reqs = {r1, r2}
  Blocks = 2
  MAX_RETRIES = 2
  DATA_RETRIES = 1
  READ_SINGLE_RETRIES = 1
  Setups <- SingleSetups
PROPERTY SingleTrue
CHECK_DEADLOCK FALSE
