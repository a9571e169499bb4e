SPECIFICATION Spec
CONSTANTS
  r1 = r1  r2 = r2  w1 = w1  w2 = w2  nobody = nobody
  Procs = {r1, w1}
  NoProc = nobody
  Bytes = {0, 1}
  Size = 2
  Driver = "globalfifo"
  Requests <- PairRequests
  Other <- PairOther
INVARIANTS ReturnMatchesTransfer
PROPERTY FifoSpec
CHECK_DEADLOCK FALSE
