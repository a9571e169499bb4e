SPECIFICATION FairSpec
CONSTANTS
  Mrqs = {m1, m2}
  Kinds <- AllKinds
  Unwatched = FALSE
  LateTimers = TRUE
INVARIANTS CtoOff
