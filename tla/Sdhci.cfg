SPECIFICATION FairSpec
CONSTANTS
  m1 = m1
  m2 = m2
  Mrqs = {m1, m2}
  Kinds <- CommandMeanwhile
  MaxMeanwhile = 1
  Setups <- OneFault
  Unwatched = FALSE
INVARIANTS OnlyLiveRequests NoWarning NoStrayInterrupt
PROPERTIES HostSpec
