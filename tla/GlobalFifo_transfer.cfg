SPECIFICATION FairSpec
CONSTANTS
  r1 = r1  r2 = r2  w1 = w1  w2 = w2  nobody = nobody
  Procs = {r1, r2, w1}
  NoProc = nobody
  Bytes = {0}
  Size = 2
  Driver = "plat-misc"
  Requests <- ReadersRequests
  Other <- ReadersOther
INVARIANTS TypeOK CopyUnderLock NoLostReaderWakeup NoLostWriterWakeup
           NoDanglingEntry NoOops
PROPERTIES NonblockReturns
