SPECIFICATION FairSpec
CONSTANTS
  t1 = t1  t2 = t2  t3 = t3  nobody = nobody
  Procs = {t1, t2, t3}
  NoProc = nobody
  Bytes = {0, 1}
  Size = 2
  Driver = "component"
  Owners <- BothOwners
INVARIANTS CopyUnderLock NoLostWakeup NoDanglingEntry ReturnMatchesTransfer
PROPERTIES FifoSpec NonblockReturns
