-------------------------- MODULE GlobalFifoProofs --------------------------
(***************************************************************************)
(* Proofs about GlobalFifo for any number of tasks, any capacity, any      *)
(* requests and both drivers.                                              *)
(***************************************************************************)
EXTENDS GlobalFifo, TLAPS

(* The statements of read and write, from the mutex to the removal of the  *)
(* wait entry.                                                             *)
Queued ==
  (LockedPcs \ {"poll_w"}) \cup {"sched", "relock", "out2", "unlink"}
Transferring == Queued \cup {"enter"}

(* Only an owner of the mutex is between its acquisition and its release;  *)
(* a task that died in a walk keeps the mutex.                             *)
MutexInv == \A p \in Procs : pc[p] \in LockedPcs \cup {"oops"} => mutex = p

(* A task inside a call has the device open, and an unbound device has no  *)
(* files: nothing is in flight when probe initialises the device again.    *)
FilesInv ==
  /\ \A p \in Procs : pc[p] # "idle" => p \in files
  /\ ~bound => files = {}

(* The control points belong to the operations. *)
OpInv ==
  \A p \in Procs :
    /\ pc[p] \in Transferring => call[p].op \in {"read", "write"}
    /\ pc[p] = "sigio" => call[p].op = "write"
    /\ pc[p] = "unlink" => call[p].op = "read" /\ Driver = "globalfifo"

(* A head is walked by a task at the walk, or by one that died there. *)
WalkInv ==
  \A h \in Heads : walk[h] # NoProc =>
    \/ pc[walk[h]] = "walk" /\ Woken(call[walk[h]].op) = h
    \/ pc[walk[h]] = "oops"

(* The lists whose entries are all added and removed under their own lock. *)
Sound(h) == h = "w_wait" \/ Driver = "plat-misc"

(* On those, the entry of a caller is linked on its own head only, that of *)
(* a sleeping poller on both; a task outside the driver is on neither.     *)
QueueAt(p, h) ==
  /\ pc[p] \in Queued /\ h = HeadOf(call[p].op) => p \in wq[h]
  /\ pc[p] \in Transferring /\ h = Woken(call[p].op) => p \notin wq[h]
  /\ pc[p] = "enter" => p \notin wq[h]
  /\ pc[p] = "poll_w" /\ h = "r_wait" => p \in wq[h]
  /\ pc[p] \in {"p_sched", "repoll"} => p \in wq[h]
  /\ pc[p] = "p_free_w" /\ h = "r_wait" => p \notin wq[h]
  /\ pc[p] \in {"idle", "return"} => p \notin wq[h]

QueueInv == \A p \in Procs, h \in Heads : Sound(h) => QueueAt(p, h)

(* The count stays within what the device holds from the clip to the       *)
(* update, and the buffer agrees with the memory at the update.            *)
CopyInv ==
  \A p \in Procs :
    /\ pc[p] \in {"copy", "update"} =>
         /\ ~Blocked(call[p].op)
         /\ cnt[p] <= Movable(call[p].op)
    /\ pc[p] = "update" /\ call[p].op = "read" =>
         buf[p] = [i \in 1 .. cnt[p] |-> mem[i]]
    /\ pc[p] = "update" /\ call[p].op = "write" =>
         /\ buf[p] \in [1 .. cnt[p] -> Bytes]
         /\ \A i \in 1 .. cnt[p] : mem[current_len + i] = buf[p][i]

(* The owner of the mutex is on its way to wake the tasks of a head, or    *)
(* died on that way.                                                       *)
Waking(op) ==
  /\ mutex # NoProc
  /\ \/ pc[mutex] = "oops"
     \/ pc[mutex] \in {"wake", "walk"} /\ call[mutex].op = op

(* A task of plat-misc.c asleep for data that is there is about to be      *)
(* woken.                                                                  *)
ReaderWakeInv ==
  Driver = "plat-misc" /\ current_len > 0 =>
    \A p \in Procs : Asleep(p, {"read", "pollin"}) => Waking("write")

NoClear == \A p \in Procs : "clear" \notin Other[p]

(* Without FIFO_CLEAR so is a task asleep for space that is there. *)
WriterWakeInv ==
  NoClear /\ current_len < Size =>
    \A p \in Procs : Asleep(p, {"write", "pollout"}) => Waking("read")

(* A call that has not reached its update, or failed, has moved nothing;   *)
(* one that has moved its bytes has their number in ret.                   *)
ReturnInv ==
  \A p \in Procs :
    /\ pc[p] \notin {"wake", "walk", "sigio", "out", "out2", "unlink", "return",
                  "oops"}
         => last[p] = <<>> /\ ret[p] = 0
    /\ ret[p] < 0 => last[p] = <<>>
    /\ Driver = "globalfifo" /\ ret[p] >= 0 => Len(last[p]) = ret[p]

(* Nobody dies in a walk of the driver that names the right heads. *)
OopsInv == Driver = "plat-misc" => NoOops

IInv ==
  /\ TypeOK /\ MutexInv /\ FilesInv /\ OpInv /\ WalkInv /\ QueueInv
  /\ CopyInv /\ ReaderWakeInv /\ WriterWakeInv /\ ReturnInv /\ OopsInv

-----------------------------------------------------------------------------
(* A function on 1 .. n is a sequence of length n: the buffer a copy fills. *)
LEMMA SeqOf ==
  ASSUME NEW S, NEW n \in Nat, NEW f \in [1 .. n -> S]
  PROVE  f \in Seq(S) /\ Len(f) = n
OBVIOUS

(* The clipped count is within the capacity. *)
LEMMA ClipType ==
  ASSUME TypeOK, NEW p \in Procs, Clip(p)
  PROVE  cnt' \in [Procs -> 0 .. Size]
<1>1. call[p] \in CallRecs /\ current_len \in 0 .. Size
  BY DEF TypeOK
<1>2. call[p].count \in Nat
  BY <1>1 DEF CallRecs
<1>3. Movable(call[p].op) \in 0 .. Size
  BY <1>1, SizeAssumption DEF Movable
<1> DEFINE n == IF call[p].count > Movable(call[p].op)
                THEN Movable(call[p].op) ELSE call[p].count
<1>4. n \in 0 .. Size
  BY <1>2, <1>3, SizeAssumption
<1>5. cnt' = [cnt EXCEPT ![p] = n] /\ cnt \in [Procs -> 0 .. Size]
  BY DEF Clip, TypeOK
<1>6. QED
  BY <1>4, <1>5

(* What read copies out of mem is a sequence of bytes. *)
LEMMA CopyType ==
  ASSUME TypeOK, NEW p \in Procs
  PROVE  [i \in 1 .. cnt[p] |-> mem[i]] \in Seq(Bytes)
<1>1. cnt[p] \in 0 .. Size /\ mem \in [1 .. Size -> Bytes]
  BY DEF TypeOK
<1>2. [i \in 1 .. cnt[p] |-> mem[i]] \in [1 .. cnt[p] -> Bytes]
  BY <1>1, SizeAssumption
<1>3. QED
  BY <1>1, <1>2, SeqOf, SizeAssumption

(* What write stores into mem keeps mem an array of bytes. *)
LEMMA StoredType ==
  ASSUME TypeOK, NEW n \in 0 .. Size, NEW d \in [1 .. n -> Bytes],
         NEW k \in 0 .. n
  PROVE  Stored(d, k) \in [1 .. Size -> Bytes]
<1>1. Len(d) = n
  BY SeqOf, SizeAssumption
<1>2. current_len \in 0 .. Size /\ mem \in [1 .. Size -> Bytes]
  BY DEF TypeOK
<1>3. QED
  BY <1>1, <1>2, BytesAssumption, SizeAssumption DEF Stored

(* So does moving the bytes that stay to the front. *)
LEMMA ShiftedType ==
  ASSUME TypeOK, NEW n \in 0 .. current_len
  PROVE  Shifted(n) \in [1 .. Size -> Bytes]
<1>1. current_len \in 0 .. Size /\ mem \in [1 .. Size -> Bytes]
  BY DEF TypeOK
<1>2. QED
  BY <1>1, SizeAssumption DEF Shifted

(* At the update the count fits: current_len neither wraps nor overflows. *)
LEMMA UpdateFits ==
  ASSUME TypeOK, CopyInv, NEW p \in Procs, pc[p] = "update"
  PROVE  /\ call[p].op = "read" => /\ cnt[p] \in 0 .. current_len
                                   /\ current_len - cnt[p] \in 0 .. Size
         /\ call[p].op = "write" => /\ cnt[p] \in 0 .. Size - current_len
                                    /\ current_len + cnt[p] \in 0 .. Size
<1>1. current_len \in 0 .. Size /\ cnt[p] \in 0 .. Size
  BY DEF TypeOK
<1>2. cnt[p] <= Movable(call[p].op)
  BY DEF CopyInv
<1>3. QED
  BY <1>1, <1>2, SizeAssumption DEF Movable


(* Every step keeps the types; the counts and lengths need CopyInv. *)
LEMMA TypeOKStep == IInv /\ [Next]_vars => TypeOK'
<1> SUFFICES ASSUME IInv, [Next]_vars
             PROVE  TypeOK'
  OBVIOUS
<1> USE NoProcAssumption, SizeAssumption, BytesAssumption,
      RequestsAssumption DEF IInv, TypeOK, SyncType, TaskStates,
      Heads, Pcs, LockedPcs, At, Goto, sync, device, calls, lists
<1>1. CASE globalfifo_probe \/ globalfifo_remove
  <2>1. CASE globalfifo_probe
    BY <2>1 DEF globalfifo_probe
  <2>2. CASE globalfifo_remove
    BY <2>2 DEF globalfifo_remove
  <2>3. QED
    BY <1>1, <2>1, <2>2
<1>2. ASSUME NEW p \in Procs, File(p) PROVE TypeOK'
  <2>1. CASE globalfifo_open(p)
    BY <2>1 DEF globalfifo_open
  <2>2. CASE globalfifo_release(p)
    BY <2>2 DEF globalfifo_release, globalfifo_fasync
  <2>3. CASE globalfifo_ioctl(p)
    BY <2>3 DEF globalfifo_ioctl
  <2>4. ASSUME NEW m \in BOOLEAN, SetFasync(p, m) PROVE TypeOK'
    BY <2>4 DEF SetFasync, globalfifo_fasync
  <2>5. ASSUME NEW c \in Requests[p], Enter(p, c) PROVE TypeOK'
    BY <2>5 DEF Enter
  <2>6. CASE Signal(p)
    BY <2>6 DEF Signal, Signalled, Runnable, InCall
  <2>7. QED
    BY <1>2, <2>1, <2>2, <2>3, <2>4, <2>5, <2>6 DEF File
<1>3. ASSUME NEW p \in Procs, Wait(p) PROVE TypeOK'
  <2>1. CASE Lock(p)
    BY <2>1 DEF Lock, mutex_lock, Linked, HeadOf, Edit
  <2>2. CASE WouldBlock(p)
    BY <2>2 DEF WouldBlock
  <2>3. CASE Sleep(p)
    BY <2>3 DEF Sleep, Interruptible, mutex_unlock, Blocked
  <2>4. CASE Schedule(p)
    BY <2>4 DEF Schedule, Runnable
  <2>5. CASE Relock(p)
    BY <2>5 DEF Relock, mutex_lock
  <2>6. CASE Clip(p)
    <3>1. cnt' \in [Procs -> 0 .. Size]
      BY <2>6, ClipType
    <3>2. QED
      BY <2>6, <3>1 DEF Clip
  <2>7. QED
    BY <1>3, <2>1, <2>2, <2>3, <2>4, <2>5, <2>6 DEF Wait
<1>4. ASSUME NEW p \in Procs, ReadCopy(p) \/ WriteCopy(p) PROVE TypeOK'
  <2>1. CASE ReadCopy(p)
    <3>1. CASE Fault(p)
      BY <2>1, <3>1 DEF ReadCopy, Fault, EFAULT
    <3>2. CASE /\ buf' = [buf EXCEPT ![p] = [i \in 1 .. cnt[p] |-> mem[i]]]
               /\ Goto(p, "update")
               /\ UNCHANGED ret
      BY <2>1, <3>2, CopyType DEF ReadCopy
    <3>3. QED
      BY <2>1, <3>1, <3>2 DEF ReadCopy
  <2>2. CASE WriteCopy(p)
    <3>1. cnt[p] \in 0 .. Size /\ cnt[p] \in Nat
      OBVIOUS
    <3>2. ASSUME NEW d \in [1 .. cnt[p] -> Bytes], NEW k \in 0 .. cnt[p]
          PROVE  Stored(d, k) \in [1 .. Size -> Bytes] /\ d \in Seq(Bytes)
      BY <3>1, SeqOf, StoredType
    <3>3. ASSUME NEW d \in [1 .. cnt[p] -> Bytes], NEW k \in 0 .. cnt[p] - 1,
                 mem' = Stored(d, k), Fault(p)
          PROVE  TypeOK'
      <4>1. k \in 0 .. cnt[p]
        BY <3>1
      <4>2. mem' \in [1 .. Size -> Bytes]
        BY <3>2, <3>3, <4>1
      <4>3. QED
        BY <2>2, <3>3, <4>2 DEF WriteCopy, Fault
    <3>4. ASSUME NEW d \in [1 .. cnt[p] -> Bytes],
                 mem' = Stored(d, cnt[p]),
                 buf' = [buf EXCEPT ![p] = d],
                 Goto(p, "update"),
                 UNCHANGED ret
          PROVE  TypeOK'
      <4>1. cnt[p] \in 0 .. cnt[p]
        BY <3>1
      <4>2. mem' \in [1 .. Size -> Bytes] /\ d \in Seq(Bytes)
        BY <3>2, <3>4, <4>1
      <4>3. buf' \in [Procs -> Seq(Bytes)]
        BY <3>4, <4>2
      <4>4. QED
        BY <2>2, <3>4, <4>2, <4>3 DEF WriteCopy
    <3>5. QED
      BY <2>2, <3>3, <3>4 DEF WriteCopy
  <2>3. QED
    BY <1>4, <2>1, <2>2
<1>5. ASSUME NEW p \in Procs, ReadUpdate(p) \/ WriteUpdate(p) PROVE TypeOK'
  <2>1. CASE ReadUpdate(p)
    <3>1. /\ Shifted(cnt[p]) \in [1 .. Size -> Bytes]
          /\ current_len - cnt[p] \in 0 .. Size
      BY <2>1, UpdateFits, ShiftedType DEF ReadUpdate
    <3>2. QED
      BY <2>1, <3>1 DEF ReadUpdate, Moved
  <2>2. CASE WriteUpdate(p)
    <3>1. current_len + cnt[p] \in 0 .. Size
      BY <2>2, UpdateFits DEF WriteUpdate
    <3>2. QED
      BY <2>2, <3>1 DEF WriteUpdate, Moved
  <2>3. QED
    BY <1>5, <2>1, <2>2
<1>6. ASSUME NEW p \in Procs, Finish(p) PROVE TypeOK'
  <2>1. CASE WakeBegin(p)
    BY <2>1 DEF WakeBegin, Woken
  <2>2. CASE WakeEnd(p)
    BY <2>2 DEF WakeEnd, Woken, Runnable
  <2>3. CASE Out(p)
    BY <2>3 DEF Out, mutex_unlock
  <2>4. CASE Out2(p)
    <3>1. ret' \in [Procs -> {-EAGAIN, -EFAULT, -ERESTARTSYS} \cup 0 .. Size]
      BY <2>4 DEF Out2, Returned
    <3>2. edits' \in SUBSET Procs /\ task' \in [Procs -> TaskStates]
      BY <2>4 DEF Out2, Edit, Runnable
    <3>3. wq' \in [Heads -> SUBSET Procs]
      BY <2>4 DEF Out2, Unlinked
    <3>4. QED
      BY <2>4, <3>1, <3>2, <3>3 DEF Out2
  <2>5. CASE UnlinkBegin(p)
    BY <2>5 DEF UnlinkBegin
  <2>6. CASE UnlinkEnd(p)
    <3>1. ret' \in [Procs -> {-EAGAIN, -EFAULT, -ERESTARTSYS} \cup 0 .. Size]
      BY <2>6 DEF UnlinkEnd, Returned
    <3>2. pc' \in [Procs -> Pcs]
      <4> DEFINE w == walk[HeadOf(call[p].op)]
      <4>1. \/ pc' = [pc EXCEPT ![p] = "return"]
            \/ pc' = [pc EXCEPT ![p] = "return", ![w] = "oops"]
        BY <2>6 DEF UnlinkEnd
      <4>2. pc \in [Procs -> Pcs] /\ "return" \in Pcs /\ "oops" \in Pcs
        OBVIOUS
      <4>3. QED
        BY ONLY <4>1, <4>2
    <3>3. task' \in [Procs -> TaskStates]
      <4>1. task' = Runnable({p})
        BY <2>6 DEF UnlinkEnd
      <4>2. QED
        BY <4>1 DEF Runnable, TaskStates
    <3>4. wq' \in [Heads -> SUBSET Procs]
      <4>1. PICK L \in Outcomes(HeadOf(call[p].op), p) :
                   wq' = [wq EXCEPT ![HeadOf(call[p].op)] = L]
        BY <2>6 DEF UnlinkEnd
      <4>2. L \in SUBSET Procs
        BY DEF Outcomes, HeadOf
      <4>3. QED
        BY <4>1, <4>2
    <3>5. QED
      BY <2>6, <3>1, <3>2, <3>3, <3>4 DEF UnlinkEnd
  <2>7. QED
    BY <1>6, <2>1, <2>2, <2>3, <2>4, <2>5, <2>6 DEF Finish
<1>7. ASSUME NEW p \in Procs, KillFasync(p) PROVE TypeOK'
  BY <1>7 DEF KillFasync, Signalled, Runnable, InCall
<1>8. ASSUME NEW p \in Procs, Return(p) PROVE TypeOK'
  <2>1. NoCall \in CallRecs /\ <<>> \in Seq(Bytes)
    BY DEF NoCall, CallRecs
  <2>2. /\ call' \in [Procs -> CallRecs]
        /\ buf' \in [Procs -> Seq(Bytes)]
        /\ last' \in [Procs -> Seq(Bytes)]
    BY <1>8, <2>1 DEF Return
  <2>3. cnt' \in [Procs -> 0 .. Size]
    BY <1>8 DEF Return
  <2>4. ret' \in [Procs -> {-EAGAIN, -EFAULT, -ERESTARTSYS} \cup 0 .. Size]
    BY <1>8 DEF Return
  <2>5. pc' \in [Procs -> Pcs] /\ sig' \in [Procs -> BOOLEAN]
    BY <1>8 DEF Return
  <2>6. QED
    BY <1>8, <2>2, <2>3, <2>4, <2>5 DEF Return
<1>9. ASSUME NEW p \in Procs, PollStep(p) PROVE TypeOK'
  <2>1. CASE globalfifo_poll(p)
    <3>1. CASE PollWaitR(p)
      BY <2>1, <3>1 DEF PollWaitR, Linked, mutex_lock, Edit, Interruptible
    <3>2. CASE PollWaitW(p)
      BY <2>1, <3>2 DEF PollWaitW, Linked, mutex_unlock, Mask, Blocked
    <3>3. CASE PollAgain(p)
      BY <2>1, <3>3 DEF PollAgain, Mask, Interruptible, Blocked
    <3>4. QED
      BY <2>1, <3>1, <3>2, <3>3 DEF globalfifo_poll
  <2>2. CASE PollSchedule(p)
    BY <2>2 DEF PollSchedule, Runnable
  <2>3. CASE PollFree(p)
    <3>1. edits' \in SUBSET Procs /\ task' \in [Procs -> TaskStates]
      BY <2>3 DEF PollFree, Edit, Runnable
    <3>2. wq' \in [Heads -> SUBSET Procs]
      BY <2>3 DEF PollFree, Unlinked
    <3>3. pc' \in [Procs -> Pcs]
      BY <2>3 DEF PollFree
    <3>4. QED
      BY <2>3, <3>1, <3>2, <3>3 DEF PollFree
  <2>4. QED
    BY <1>9, <2>1, <2>2, <2>3 DEF PollStep
<1>10. CASE UNCHANGED vars
  BY <1>10 DEF vars
<1>11. QED
  BY <1>1, <1>2, <1>3, <1>4, <1>5, <1>6, <1>7, <1>8, <1>9, <1>10 DEF
     Next, Step, globalfifo_read, globalfifo_write

(* The mutex has one owner: it is taken only when free, and only its       *)
(* owner leaves the locked statements.                                     *)
LEMMA MutexInvStep == IInv /\ [Next]_vars => MutexInv'
<1> SUFFICES ASSUME IInv, [Next]_vars
             PROVE  MutexInv'
  OBVIOUS
<1> USE NoProcAssumption DEF IInv, MutexInv, TypeOK, SyncType,
      LockedPcs, WalkInv, FilesInv, At, Goto, sync, device, calls, lists
<1>1. CASE globalfifo_probe \/ globalfifo_remove
  <2>1. CASE globalfifo_probe
    BY <2>1 DEF globalfifo_probe
  <2>2. CASE globalfifo_remove
    BY <2>2 DEF globalfifo_remove
  <2>3. QED
    BY <1>1, <2>1, <2>2
<1>2. ASSUME NEW p \in Procs, File(p) PROVE MutexInv'
  BY <1>2 DEF File, globalfifo_open, globalfifo_release,
       globalfifo_fasync, globalfifo_ioctl, SetFasync, Enter, Signal,
       Signalled, Runnable, InCall
<1>3. ASSUME NEW p \in Procs, Wait(p) PROVE MutexInv'
  BY <1>3 DEF Wait, Lock, mutex_lock, Linked, HeadOf, Edit, WouldBlock, Sleep,
       Interruptible, mutex_unlock, Blocked, Schedule, Runnable, Relock,
       Clip
<1>4. ASSUME NEW p \in Procs, ReadCopy(p) \/ WriteCopy(p) PROVE MutexInv'
  BY <1>4 DEF ReadCopy, Fault, WriteCopy, Stored
<1>5. ASSUME NEW p \in Procs, ReadUpdate(p) \/ WriteUpdate(p) PROVE MutexInv'
  BY <1>5 DEF ReadUpdate, Moved, Shifted, WriteUpdate
<1>6. ASSUME NEW p \in Procs, Finish(p) PROVE MutexInv'
  <2>1. CASE WakeBegin(p)
    BY <2>1 DEF WakeBegin, Woken
  <2>2. CASE WakeEnd(p)
    BY <2>2 DEF WakeEnd, Woken, Runnable
  <2>3. CASE Out(p)
    BY <2>3 DEF Out, mutex_unlock
  <2>4. CASE Out2(p)
    BY <2>4 DEF Out2, HeadOf, Edit, Unlinked, Runnable, Returned
  <2>5. CASE UnlinkBegin(p)
    BY <2>5 DEF UnlinkBegin
  <2>6. CASE UnlinkEnd(p)
    <3> DEFINE h == HeadOf(call[p].op)
    <3>1. CASE Goto(p, "return")
      BY <2>6, <3>1 DEF UnlinkEnd
    <3>2. CASE /\ walk[h] # NoProc
               /\ pc' = [pc EXCEPT ![p] = "return", ![walk[h]] = "oops"]
      <4>1. /\ walk[h] \in Procs
            /\ pc[walk[h]] \in {"walk", "oops"}
        BY <3>2 DEF HeadOf, Heads
      <4>2. QED
        BY <2>6, <3>2, <4>1 DEF UnlinkEnd
    <3>3. QED
      BY <2>6, <3>1, <3>2 DEF UnlinkEnd
  <2>7. QED
    BY <1>6, <2>1, <2>2, <2>3, <2>4, <2>5, <2>6 DEF Finish
<1>7. ASSUME NEW p \in Procs, KillFasync(p) PROVE MutexInv'
  BY <1>7 DEF KillFasync, Signalled, Runnable, InCall
<1>8. ASSUME NEW p \in Procs, Return(p) PROVE MutexInv'
  BY <1>8 DEF Return, NoCall
<1>9. ASSUME NEW p \in Procs, PollStep(p) PROVE MutexInv'
  BY <1>9 DEF PollStep, globalfifo_poll, PollWaitR,
       PollWaitW, PollAgain, Mask, Linked, mutex_lock, mutex_unlock, Edit,
       Interruptible, Blocked,
       PollSchedule, Runnable, PollFree, Edit, Unlinked
<1>10. CASE UNCHANGED vars
  BY <1>10 DEF vars
<1>11. QED
  BY <1>1, <1>2, <1>3, <1>4, <1>5, <1>6, <1>7, <1>8, <1>9, <1>10 DEF
     Next, Step, globalfifo_read, globalfifo_write

(* Calls are made on open files, and files exist on a bound device. *)
LEMMA FilesInvStep == IInv /\ [Next]_vars => FilesInv'
<1> SUFFICES ASSUME IInv, [Next]_vars
             PROVE  FilesInv'
  OBVIOUS
<1> USE DEF IInv, FilesInv, MutexInv, WalkInv, TypeOK, SyncType, At,
      Goto, sync, device, calls, lists
<1>1. CASE globalfifo_probe \/ globalfifo_remove
  BY <1>1 DEF globalfifo_probe, globalfifo_remove
<1>2. ASSUME NEW p \in Procs, File(p) PROVE FilesInv'
  BY <1>2 DEF File, globalfifo_open, globalfifo_release,
       globalfifo_fasync, globalfifo_ioctl, SetFasync, Enter, Signal,
       Signalled, Runnable, InCall
<1>3. ASSUME NEW p \in Procs, Wait(p) PROVE FilesInv'
  BY <1>3 DEF Wait, Lock, mutex_lock, Linked, HeadOf, Edit, WouldBlock, Sleep,
       Interruptible, mutex_unlock, Blocked, Schedule, Runnable, Relock,
       Clip
<1>4. ASSUME NEW p \in Procs, ReadCopy(p) \/ WriteCopy(p) PROVE FilesInv'
  BY <1>4 DEF ReadCopy, Fault, WriteCopy, Stored
<1>5. ASSUME NEW p \in Procs, ReadUpdate(p) \/ WriteUpdate(p) PROVE FilesInv'
  BY <1>5 DEF ReadUpdate, Moved, Shifted, WriteUpdate
<1>6. ASSUME NEW p \in Procs, Finish(p) PROVE FilesInv'
  <2>1. CASE WakeBegin(p)
    BY <2>1 DEF WakeBegin, Woken
  <2>2. CASE WakeEnd(p)
    BY <2>2 DEF WakeEnd, Woken, Runnable
  <2>3. CASE Out(p)
    BY <2>3 DEF Out, mutex_unlock
  <2>4. CASE Out2(p)
    BY <2>4 DEF Out2, HeadOf, Edit, Unlinked, Runnable, Returned
  <2>5. CASE UnlinkBegin(p)
    BY <2>5 DEF UnlinkBegin
  <2>6. CASE UnlinkEnd(p)
    <3> DEFINE h == HeadOf(call[p].op)
    <3>1. CASE Goto(p, "return")
      BY <2>6, <3>1 DEF UnlinkEnd
    <3>2. CASE /\ walk[h] # NoProc
               /\ pc' = [pc EXCEPT ![p] = "return", ![walk[h]] = "oops"]
      <4>1. /\ walk[h] \in Procs
            /\ pc[walk[h]] \in {"walk", "oops"}
        BY <3>2 DEF HeadOf, Heads
      <4>2. QED
        BY <2>6, <3>2, <4>1 DEF UnlinkEnd
    <3>3. QED
      BY <2>6, <3>1, <3>2 DEF UnlinkEnd
  <2>7. QED
    BY <1>6, <2>1, <2>2, <2>3, <2>4, <2>5, <2>6 DEF Finish
<1>7. ASSUME NEW p \in Procs, KillFasync(p) PROVE FilesInv'
  BY <1>7 DEF KillFasync, Signalled, Runnable, InCall
<1>8. ASSUME NEW p \in Procs, Return(p) PROVE FilesInv'
  BY <1>8 DEF Return, NoCall
<1>9. ASSUME NEW p \in Procs, PollStep(p) PROVE FilesInv'
  BY <1>9 DEF PollStep, globalfifo_poll, PollWaitR,
       PollWaitW, PollAgain, Mask, Linked, mutex_lock, mutex_unlock, Edit,
       Interruptible, Blocked,
       PollSchedule, Runnable, PollFree, Edit, Unlinked
<1>10. CASE UNCHANGED vars
  BY <1>10 DEF vars
<1>11. QED
  BY <1>1, <1>2, <1>3, <1>4, <1>5, <1>6, <1>7, <1>8, <1>9, <1>10 DEF
     Next, Step, globalfifo_read, globalfifo_write

(* Control points and operations stay matched. *)
LEMMA OpInvStep == IInv /\ [Next]_vars => OpInv'
<1> SUFFICES ASSUME IInv, [Next]_vars
             PROVE  OpInv'
  OBVIOUS
<1> USE RequestsAssumption DEF IInv, OpInv, TypeOK, SyncType,
      Transferring, Queued, LockedPcs, CallRecs, At, Goto, sync,
      device, calls, lists
<1>1. CASE globalfifo_probe \/ globalfifo_remove
  BY <1>1 DEF globalfifo_probe, globalfifo_remove
<1>2. ASSUME NEW p \in Procs, File(p) PROVE OpInv'
  <2>1. CASE globalfifo_open(p)
    BY <2>1 DEF globalfifo_open
  <2>2. CASE globalfifo_release(p)
    BY <2>2 DEF globalfifo_release, globalfifo_fasync
  <2>3. CASE globalfifo_ioctl(p)
    BY <2>3 DEF globalfifo_ioctl
  <2>4. ASSUME NEW m \in BOOLEAN, SetFasync(p, m) PROVE OpInv'
    BY <2>4 DEF SetFasync, globalfifo_fasync
  <2>5. ASSUME NEW c \in Requests[p], Enter(p, c) PROVE OpInv'
    BY <2>5 DEF Enter
  <2>6. CASE Signal(p)
    BY <2>6 DEF Signal, Signalled, Runnable, InCall
  <2>7. QED
    BY <1>2, <2>1, <2>2, <2>3, <2>4, <2>5, <2>6 DEF File
<1>3. ASSUME NEW p \in Procs, Wait(p) PROVE OpInv'
  BY <1>3 DEF Wait, Lock, mutex_lock, Linked, HeadOf, Edit, WouldBlock, Sleep,
       Interruptible, mutex_unlock, Blocked, Schedule, Runnable, Relock,
       Clip
<1>4. ASSUME NEW p \in Procs, ReadCopy(p) \/ WriteCopy(p) PROVE OpInv'
  BY <1>4 DEF ReadCopy, Fault, WriteCopy, Stored
<1>5. ASSUME NEW p \in Procs, ReadUpdate(p) \/ WriteUpdate(p) PROVE OpInv'
  BY <1>5 DEF ReadUpdate, Moved, Shifted, WriteUpdate
<1>6. ASSUME NEW p \in Procs, Finish(p) PROVE OpInv'
  <2>1. CASE WakeBegin(p)
    BY <2>1 DEF WakeBegin, Woken
  <2>2. CASE WakeEnd(p)
    BY <2>2 DEF WakeEnd, Woken, Runnable
  <2>3. CASE Out(p)
    BY <2>3 DEF Out, mutex_unlock
  <2>4. CASE Out2(p)
    BY <2>4 DEF Out2, HeadOf, Edit, Unlinked, Runnable, Returned
  <2>5. CASE UnlinkBegin(p)
    <3>1. call[p].op = "read" /\ Driver = "globalfifo"
      BY <2>5, DriverAssumption DEF UnlinkBegin, RemoveHead, HeadOf
    <3>2. QED
      BY <2>5, <3>1 DEF UnlinkBegin
  <2>6. CASE UnlinkEnd(p)
    <3>1. call' = call
      BY <2>6 DEF UnlinkEnd
    <3>2. \A q \in Procs : pc'[q] # pc[q] => pc'[q] \in {"return", "oops"}
      BY <2>6 DEF UnlinkEnd
    <3>3. QED
      BY <3>1, <3>2
  <2>7. QED
    BY <1>6, <2>1, <2>2, <2>3, <2>4, <2>5, <2>6 DEF Finish
<1>7. ASSUME NEW p \in Procs, KillFasync(p) PROVE OpInv'
  BY <1>7 DEF KillFasync, Signalled, Runnable, InCall
<1>8. ASSUME NEW p \in Procs, Return(p) PROVE OpInv'
  BY <1>8 DEF Return, NoCall
<1>9. ASSUME NEW p \in Procs, PollStep(p) PROVE OpInv'
  BY <1>9 DEF PollStep, globalfifo_poll, PollWaitR,
       PollWaitW, PollAgain, Mask, Linked, mutex_lock, mutex_unlock, Edit,
       Interruptible, Blocked,
       PollSchedule, Runnable, PollFree, Edit, Unlinked
<1>10. CASE UNCHANGED vars
  BY <1>10 DEF vars
<1>11. QED
  BY <1>1, <1>2, <1>3, <1>4, <1>5, <1>6, <1>7, <1>8, <1>9, <1>10 DEF
     Next, Step, globalfifo_read, globalfifo_write

(* A walk of a wait queue belongs to the task that holds the mutex. *)
LEMMA WalkInvStep == IInv /\ [Next]_vars => WalkInv'
<1> SUFFICES ASSUME IInv, [Next]_vars
             PROVE  WalkInv'
  OBVIOUS
<1> USE NoProcAssumption DEF IInv, WalkInv, MutexInv, FilesInv,
      TypeOK, SyncType, Woken, LockedPcs, Heads, At, Goto, sync,
      device, calls, lists
<1>1. CASE globalfifo_probe \/ globalfifo_remove
  BY <1>1 DEF globalfifo_probe, globalfifo_remove
<1>2. ASSUME NEW p \in Procs, File(p) PROVE WalkInv'
  BY <1>2 DEF File, globalfifo_open, globalfifo_release,
       globalfifo_fasync, globalfifo_ioctl, SetFasync, Enter, Signal,
       Signalled, Runnable, InCall
<1>3. ASSUME NEW p \in Procs, Wait(p) PROVE WalkInv'
  BY <1>3 DEF Wait, Lock, mutex_lock, Linked, HeadOf, Edit, WouldBlock, Sleep,
       Interruptible, mutex_unlock, Blocked, Schedule, Runnable, Relock,
       Clip
<1>4. ASSUME NEW p \in Procs, ReadCopy(p) \/ WriteCopy(p) PROVE WalkInv'
  BY <1>4 DEF ReadCopy, Fault, WriteCopy, Stored
<1>5. ASSUME NEW p \in Procs, ReadUpdate(p) \/ WriteUpdate(p) PROVE WalkInv'
  BY <1>5 DEF ReadUpdate, Moved, Shifted, WriteUpdate
<1>6. ASSUME NEW p \in Procs, Finish(p) PROVE WalkInv'
  <2>1. CASE WakeBegin(p)
    BY <2>1 DEF WakeBegin
  <2>2. CASE WakeEnd(p)
    BY <2>2 DEF WakeEnd
  <2>3. CASE Out(p) \/ Out2(p) \/ UnlinkBegin(p)
    BY <2>3 DEF Out, mutex_unlock, Out2, UnlinkBegin
  <2>4. CASE UnlinkEnd(p)
    BY <2>4 DEF UnlinkEnd
  <2>5. QED
    BY <1>6, <2>1, <2>2, <2>3, <2>4 DEF Finish
<1>7. ASSUME NEW p \in Procs, KillFasync(p) PROVE WalkInv'
  BY <1>7 DEF KillFasync, Signalled, Runnable, InCall
<1>8. ASSUME NEW p \in Procs, Return(p) PROVE WalkInv'
  BY <1>8 DEF Return, NoCall
<1>9. ASSUME NEW p \in Procs, PollStep(p) PROVE WalkInv'
  BY <1>9 DEF PollStep, globalfifo_poll, PollWaitR,
       PollWaitW, PollAgain, Mask, Linked, mutex_lock, mutex_unlock, Edit,
       Interruptible, Blocked,
       PollSchedule, Runnable, PollFree, Edit, Unlinked
<1>10. CASE UNCHANGED vars
  BY <1>10 DEF vars
<1>11. QED
  BY <1>1, <1>2, <1>3, <1>4, <1>5, <1>6, <1>7, <1>8, <1>9, <1>10 DEF
     Next, Step, globalfifo_read, globalfifo_write

(* Entries are linked on entry and unlinked on every exit. *)
LEMMA QueueInvStep == IInv /\ [Next]_vars => QueueInv'
<1> SUFFICES ASSUME IInv, [Next]_vars
             PROVE  QueueInv'
  OBVIOUS
<1> USE DEF IInv, QueueInv, QueueAt, OpInv, FilesInv, TypeOK, SyncType,
      Transferring, Queued, LockedPcs, HeadOf, Woken, Heads, At, Goto,
      sync, device, calls, lists
<1>0. ASSUME NEW p \in Procs, NEW l \in Queued, pc[p] \in Queued,
             pc' = [pc EXCEPT ![p] = l], wq' = wq, call' = call
      PROVE  QueueInv'
  BY <1>0
<1>a. ASSUME pc' = pc, wq' = wq, call' = call PROVE QueueInv'
  BY <1>a
<1>b. ASSUME NEW p \in Procs, call' = call,
             \A q \in Procs, h \in Heads :
               Sound(h) /\ q # p => (q \in wq'[h] <=> q \in wq[h]),
             \A q \in Procs : q # p => pc'[q] = pc[q] \/ pc'[q] = "oops",
             pc'[p] \in {"return", "oops"},
             \A h \in Heads : Sound(h) => p \notin wq'[h]
      PROVE  QueueInv'
  <2> SUFFICES ASSUME NEW q \in Procs, NEW h \in Heads, Sound(h)
               PROVE  QueueAt(q, h)'
    BY DEF QueueInv
  <2>1. QueueAt(q, h)
    BY DEF QueueInv
  <2>2. CASE q = p
    BY <1>b, <2>2 DEF QueueAt
  <2>3. CASE q # p
    <3>1. /\ pc'[q] = pc[q] \/ pc'[q] = "oops"
          /\ q \in wq'[h] <=> q \in wq[h]
          /\ call' = call
      BY <1>b, <2>3
    <3>2. QED
      BY <2>1, <3>1 DEF QueueAt
  <2>4. QED
    BY <2>2, <2>3
<1>1. CASE globalfifo_probe \/ globalfifo_remove
  <2>1. CASE globalfifo_probe
    <3>1. /\ pc' = pc /\ \A h \in Heads : wq'[h] = {}
          /\ \A q \in Procs : pc[q] = "idle"
      BY <2>1 DEF globalfifo_probe
    <3>2. QED
      BY <3>1
  <2>2. CASE globalfifo_remove
    BY <2>2, <1>a DEF globalfifo_remove
  <2>3. QED
    BY <1>1, <2>1, <2>2
<1>2. ASSUME NEW p \in Procs, File(p) PROVE QueueInv'
  <2>1. CASE globalfifo_open(p) \/ globalfifo_release(p)
    <3>1. pc' = pc /\ wq' = wq /\ call' = call
      BY <2>1 DEF globalfifo_open, globalfifo_release
    <3>2. QED
      BY <3>1, <1>a
  <2>2. ASSUME NEW mode \in BOOLEAN, SetFasync(p, mode) PROVE QueueInv'
    <3>1. pc' = pc /\ wq' = wq /\ call' = call
      BY <2>2 DEF SetFasync
    <3>2. QED
      BY <3>1, <1>a
  <2>3. CASE globalfifo_ioctl(p)
    <3>1. pc' = pc /\ wq' = wq /\ call' = call
      BY <2>3 DEF globalfifo_ioctl
    <3>2. QED
      BY <3>1, <1>a
  <2>4. ASSUME NEW c \in Requests[p], Enter(p, c) PROVE QueueInv'
    BY <2>4 DEF Enter
  <2>5. CASE Signal(p)
    <3>1. pc' = pc /\ wq' = wq /\ call' = call
      BY <2>5 DEF Signal
    <3>2. QED
      BY <3>1, <1>a
  <2>6. QED
    BY <1>2, <2>1, <2>2, <2>3, <2>4, <2>5 DEF File
<1>3. ASSUME NEW p \in Procs, Wait(p) PROVE QueueInv'
  <2>1. CASE Lock(p)
    <3>1. /\ pc[p] = "enter" /\ pc' = [pc EXCEPT ![p] = "test"]
          /\ wq' = Linked(HeadOf(call[p].op), p) /\ call' = call
      BY <2>1 DEF Lock
    <3>2. QED
      BY <3>1 DEF Linked
  <2>2. CASE WouldBlock(p)
    <3>1. /\ pc[p] = "test" /\ pc' = [pc EXCEPT ![p] = "out"]
          /\ wq' = wq /\ call' = call
      BY <2>2 DEF WouldBlock
    <3>2. QED
      BY <3>1, <1>0
  <2>3. CASE Sleep(p)
    <3>1. /\ pc[p] = "test" /\ pc' = [pc EXCEPT ![p] = "sched"]
          /\ wq' = wq /\ call' = call
      BY <2>3 DEF Sleep
    <3>2. QED
      BY <3>1, <1>0
  <2>4. CASE Schedule(p)
    <3>1. /\ pc[p] = "sched" /\ wq' = wq /\ call' = call
          /\ pc' = [pc EXCEPT ![p] = IF sig[p] THEN "out2" ELSE "relock"]
      BY <2>4 DEF Schedule
    <3>2. QED
      BY <3>1, <1>0
  <2>5. CASE Relock(p)
    <3>1. /\ pc[p] = "relock" /\ pc' = [pc EXCEPT ![p] = "test"]
          /\ wq' = wq /\ call' = call
      BY <2>5 DEF Relock
    <3>2. QED
      BY <3>1, <1>0
  <2>6. CASE Clip(p)
    <3>1. /\ pc[p] = "test" /\ pc' = [pc EXCEPT ![p] = "copy"]
          /\ wq' = wq /\ call' = call
      BY <2>6 DEF Clip
    <3>2. QED
      BY <3>1, <1>0
  <2>7. QED
    BY <1>3, <2>1, <2>2, <2>3, <2>4, <2>5, <2>6 DEF Wait
<1>4. ASSUME NEW p \in Procs, ReadCopy(p) \/ WriteCopy(p) PROVE QueueInv'
  <2>1. /\ pc[p] = "copy" /\ wq' = wq /\ call' = call
        /\ \E l \in {"out", "update"} : pc' = [pc EXCEPT ![p] = l]
    BY <1>4 DEF ReadCopy, WriteCopy, Fault
  <2>2. QED
    BY <2>1, <1>0
<1>5. ASSUME NEW p \in Procs, ReadUpdate(p) \/ WriteUpdate(p) PROVE QueueInv'
  <2>1. /\ pc[p] = "update" /\ pc' = [pc EXCEPT ![p] = "wake"]
        /\ wq' = wq /\ call' = call
    BY <1>5 DEF ReadUpdate, WriteUpdate, Moved
  <2>2. QED
    BY <2>1, <1>0
<1>6. ASSUME NEW p \in Procs, Finish(p) PROVE QueueInv'
  <2>1. CASE WakeBegin(p)
    <3>1. /\ pc[p] = "wake" /\ pc' = [pc EXCEPT ![p] = "walk"]
          /\ wq' = wq /\ call' = call
      BY <2>1 DEF WakeBegin
    <3>2. QED
      BY <3>1, <1>0
  <2>2. CASE WakeEnd(p)
    <3>1. /\ pc[p] = "walk" /\ wq' = wq /\ call' = call
          /\ \E l \in {"sigio", "out"} : pc' = [pc EXCEPT ![p] = l]
      BY <2>2 DEF WakeEnd
    <3>2. QED
      BY <3>1, <1>0
  <2>3. CASE Out(p)
    <3>1. /\ pc[p] = "out" /\ pc' = [pc EXCEPT ![p] = "out2"]
          /\ wq' = wq /\ call' = call
      BY <2>3 DEF Out
    <3>2. QED
      BY <3>1, <1>0
  <2>4. CASE Out2(p)
    <3> DEFINE hh == HeadOf(call[p].op)
    <3>1. /\ pc[p] = "out2" /\ pc' = [pc EXCEPT ![p] = "return"]
          /\ wq' = Unlinked({hh}, p) /\ call' = call
      BY <2>4 DEF Out2
    <3>2. \A q \in Procs, h \in Heads :
            q # p => (q \in wq'[h] <=> q \in wq[h])
      BY <3>1 DEF Unlinked
    <3>3. ASSUME NEW h \in Heads, Sound(h) PROVE p \notin wq'[h]
      <4>1. h = hh \/ h = Woken(call[p].op)
        BY <3>1
      <4>2. h = Woken(call[p].op) => p \notin wq[h]
        BY <3>1, <3>3
      <4>3. wq'[h] = IF h = hh THEN wq[h] \ {p} ELSE wq[h]
        BY <3>1 DEF Unlinked
      <4>4. QED
        BY <4>1, <4>2, <4>3
    <3>4. /\ pc'[p] = "return"
          /\ \A q \in Procs : q # p => pc'[q] = pc[q]
      BY <3>1
    <3>5. QED
      BY <3>1, <3>2, <3>3, <3>4, <1>b
  <2>5. CASE UnlinkBegin(p)
    <3>1. /\ pc[p] = "out2" /\ pc' = [pc EXCEPT ![p] = "unlink"]
          /\ wq' = wq /\ call' = call
      BY <2>5 DEF UnlinkBegin
    <3>2. QED
      BY <3>1, <1>0
  <2>6. CASE UnlinkEnd(p)
    <3>1. pc[p] = "unlink" /\ call[p].op = "read" /\ Driver = "globalfifo"
      BY <2>6 DEF UnlinkEnd
    <3>2. call' = call /\ wq'["w_wait"] = wq["w_wait"]
      BY <2>6, <3>1 DEF UnlinkEnd
    <3>3. \A q \in Procs : q # p => pc'[q] = pc[q] \/ pc'[q] = "oops"
      BY <2>6 DEF UnlinkEnd
    <3>4. pc'[p] \in {"return", "oops"}
      BY <2>6 DEF UnlinkEnd
    <3>5. \A h \in Heads : Sound(h) => h = "w_wait"
      BY <3>1 DEF Sound
    <3>6. p \notin wq["w_wait"]
      BY <3>1 DEF Sound
    <3>7. \A q \in Procs, h \in Heads :
            Sound(h) /\ q # p => (q \in wq'[h] <=> q \in wq[h])
      BY <3>2, <3>5
    <3>8. \A h \in Heads : Sound(h) => p \notin wq'[h]
      BY <3>2, <3>5, <3>6
    <3>9. QED
      BY <3>2, <3>3, <3>4, <3>7, <3>8, <1>b
  <2>7. QED
    BY <1>6, <2>1, <2>2, <2>3, <2>4, <2>5, <2>6 DEF Finish
<1>7. ASSUME NEW p \in Procs, KillFasync(p) PROVE QueueInv'
  <2>1. /\ pc[p] = "sigio" /\ pc' = [pc EXCEPT ![p] = "out"]
        /\ wq' = wq /\ call' = call
    BY <1>7 DEF KillFasync
  <2>2. QED
    BY <2>1, <1>0
<1>8. ASSUME NEW p \in Procs, Return(p) PROVE QueueInv'
  <2>1. /\ pc[p] = "return" /\ pc' = [pc EXCEPT ![p] = "idle"]
        /\ wq' = wq /\ \A q \in Procs : q # p => call'[q] = call[q]
    BY <1>8 DEF Return
  <2> SUFFICES ASSUME NEW q \in Procs, NEW h \in Heads, Sound(h)
               PROVE  QueueAt(q, h)'
    BY DEF QueueInv
  <2>2. QueueAt(q, h)
    BY DEF QueueInv
  <2>3. CASE q = p
    BY <2>1, <2>2, <2>3 DEF QueueAt
  <2>4. CASE q # p
    BY <2>1, <2>2, <2>4 DEF QueueAt
  <2>5. QED
    BY <2>3, <2>4
<1>9. ASSUME NEW p \in Procs, PollStep(p) PROVE QueueInv'
  <2>1. CASE PollWaitR(p)
    <3>1. /\ pc[p] = "poll" /\ pc' = [pc EXCEPT ![p] = "poll_w"]
          /\ wq' = Linked("r_wait", p) /\ call' = call
      BY <2>1 DEF PollWaitR
    <3>2. QED
      BY <3>1 DEF Linked
  <2>2. CASE PollWaitW(p)
    <3>1. /\ pc[p] = "poll_w" /\ wq' = Linked("w_wait", p) /\ call' = call
          /\ \E l \in {"p_sched", "p_free"} : pc' = [pc EXCEPT ![p] = l]
      BY <2>2 DEF PollWaitW, Mask
    <3>2. QED
      BY <3>1 DEF Linked
  <2>3. CASE PollAgain(p) \/ PollSchedule(p)
    <3>1. /\ pc[p] \in {"repoll", "p_sched"} /\ wq' = wq /\ call' = call
          /\ \E l \in {"p_sched", "p_free", "repoll"} :
                pc' = [pc EXCEPT ![p] = l]
      BY <2>3 DEF PollAgain, PollSchedule, Mask
    <3>2. QED
      BY <3>1
  <2>4. CASE PollFree(p)
    <3>1. PICK hh \in Heads :
                 /\ pc[p] = IF hh = "r_wait" THEN "p_free" ELSE "p_free_w"
                 /\ wq' = Unlinked({hh}, p) /\ call' = call
                 /\ pc' = [pc EXCEPT ![p] = IF hh = "r_wait"
                                          THEN "p_free_w" ELSE "return"]
      BY <2>4 DEF PollFree
    <3>2. CASE hh = "r_wait"
      BY <3>1, <3>2 DEF Unlinked
    <3>3. CASE hh = "w_wait"
      <4>1. \A q \in Procs, h \in Heads :
              q # p => (q \in wq'[h] <=> q \in wq[h])
        BY <3>1 DEF Unlinked
      <4>2. \A h \in Heads : Sound(h) => p \notin wq'[h]
        BY <3>1, <3>3 DEF Unlinked
      <4>3. /\ pc'[p] = "return"
            /\ \A q \in Procs : q # p => pc'[q] = pc[q]
        BY <3>1, <3>3
      <4>4. QED
        BY <3>1, <4>1, <4>2, <4>3, <1>b
    <3>4. QED
      BY <3>2, <3>3
  <2>5. QED
    BY <1>9, <2>1, <2>2, <2>3, <2>4 DEF PollStep, globalfifo_poll
<1>10. CASE UNCHANGED vars
  BY <1>10, <1>a DEF vars
<1>11. QED
  BY <1>1, <1>2, <1>3, <1>4, <1>5, <1>6, <1>7, <1>8, <1>9, <1>10 DEF
     Next, Step, globalfifo_read, globalfifo_write

(* From the clip to the update nobody else touches the device: the mutex   *)
(* excludes a second task there.                                           *)
LEMMA CopyInvStep == IInv /\ [Next]_vars => CopyInv'
<1> SUFFICES ASSUME IInv, [Next]_vars
             PROVE  CopyInv'
  OBVIOUS
<1> USE NoProcAssumption, SizeAssumption DEF IInv, CopyInv, MutexInv,
      FilesInv, OpInv, TypeOK, SyncType, LockedPcs, Transferring,
      Queued, Blocked, Movable, At, Goto, sync, device, calls, lists
<1>1. CASE globalfifo_probe \/ globalfifo_remove
  BY <1>1 DEF globalfifo_probe, globalfifo_remove
<1>2. ASSUME NEW p \in Procs, File(p) PROVE CopyInv'
  <2>1. CASE globalfifo_open(p)
    BY <2>1 DEF globalfifo_open
  <2>2. CASE globalfifo_release(p)
    BY <2>2 DEF globalfifo_release, globalfifo_fasync
  <2>3. CASE globalfifo_ioctl(p)
    BY <2>3 DEF globalfifo_ioctl
  <2>4. ASSUME NEW m \in BOOLEAN, SetFasync(p, m) PROVE CopyInv'
    BY <2>4 DEF SetFasync, globalfifo_fasync
  <2>5. ASSUME NEW c \in Requests[p], Enter(p, c) PROVE CopyInv'
    BY <2>5 DEF Enter
  <2>6. CASE Signal(p)
    BY <2>6 DEF Signal, Signalled, Runnable, InCall
  <2>7. QED
    BY <1>2, <2>1, <2>2, <2>3, <2>4, <2>5, <2>6 DEF File
<1>3. ASSUME NEW p \in Procs, Wait(p) PROVE CopyInv'
  <2>1. CASE Lock(p)
    BY <2>1 DEF Lock, mutex_lock, Linked, HeadOf, Edit
  <2>2. CASE WouldBlock(p)
    BY <2>2 DEF WouldBlock
  <2>3. CASE Sleep(p)
    BY <2>3 DEF Sleep, Interruptible, mutex_unlock, Blocked
  <2>4. CASE Schedule(p)
    BY <2>4 DEF Schedule, Runnable
  <2>5. CASE Relock(p)
    BY <2>5 DEF Relock, mutex_lock
  <2>6. CASE Clip(p)
    <3>1. mutex = p
      BY <2>6 DEF Clip
    <3>2. \A q \in Procs : q # p => pc[q] \notin {"copy", "update"}
      BY <3>1
    <3>3. /\ ~Blocked(call[p].op)
          /\ cnt'[p] <= Movable(call[p].op)
      BY <2>6 DEF Clip, CallRecs
    <3>4. QED
      BY <2>6, <3>2, <3>3 DEF Clip
  <2>7. QED
    BY <1>3, <2>1, <2>2, <2>3, <2>4, <2>5, <2>6 DEF Wait
<1>4. ASSUME NEW p \in Procs, ReadCopy(p) \/ WriteCopy(p) PROVE CopyInv'
  <2>1. CASE ReadCopy(p)
    <3>1. \A q \in Procs : q # p => pc[q] \notin {"copy", "update"}
      BY <2>1 DEF ReadCopy
    <3>2. CASE Fault(p)
      BY <2>1, <3>1, <3>2 DEF ReadCopy, Fault
    <3>3. CASE /\ buf' = [buf EXCEPT ![p] = [i \in 1 .. cnt[p] |-> mem[i]]]
               /\ Goto(p, "update")
      BY <2>1, <3>1, <3>3 DEF ReadCopy
    <3>4. QED
      BY <2>1, <3>2, <3>3 DEF ReadCopy
  <2>2. CASE WriteCopy(p)
    <3>1. \A q \in Procs : q # p => pc[q] \notin {"copy", "update"}
      BY <2>2 DEF WriteCopy
    <3>2. CASE Fault(p)
      BY <2>2, <3>1, <3>2 DEF WriteCopy, Fault
    <3>3. ASSUME NEW d \in [1 .. cnt[p] -> Bytes],
                 mem' = Stored(d, cnt[p]),
                 buf' = [buf EXCEPT ![p] = d],
                 Goto(p, "update")
          PROVE  CopyInv'
      <4>1. Len(d) = cnt[p] /\ cnt[p] <= Size - current_len
        BY <2>2, SeqOf DEF WriteCopy
      <4>2. ASSUME NEW i \in 1 .. cnt[p] PROVE mem'[current_len + i] = d[i]
        <5> DEFINE j == current_len + i
        <5>1. /\ j \in 1 .. Size
              /\ j \in current_len + 1 .. current_len + Len(d)
              /\ j <= current_len + cnt[p]
              /\ j - current_len = i
          BY <4>1
        <5> HIDE DEF j
        <5>2. mem' = Stored(d, cnt[p])
          BY <3>3
        <5>3. mem'[j] = d[j - current_len]
          BY ONLY <5>1, <5>2 DEF Stored
        <5>4. QED
          BY <5>1, <5>3 DEF j
      <4>3. QED
        BY <2>2, <3>1, <3>3, <4>2 DEF WriteCopy
    <3>4. QED
      BY <2>2, <3>2, <3>3 DEF WriteCopy
  <2>3. QED
    BY <1>4, <2>1, <2>2
<1>5. ASSUME NEW p \in Procs, ReadUpdate(p) \/ WriteUpdate(p) PROVE CopyInv'
  BY <1>5 DEF ReadUpdate, Moved, Shifted, WriteUpdate
<1>6. ASSUME NEW p \in Procs, Finish(p) PROVE CopyInv'
  <2>1. CASE WakeBegin(p)
    BY <2>1 DEF WakeBegin, Woken
  <2>2. CASE WakeEnd(p)
    BY <2>2 DEF WakeEnd, Woken, Runnable
  <2>3. CASE Out(p)
    BY <2>3 DEF Out, mutex_unlock
  <2>4. CASE Out2(p)
    BY <2>4 DEF Out2, HeadOf, RemoveHead, Edit, Unlinked, Runnable, Returned
  <2>5. CASE UnlinkBegin(p)
    BY <2>5 DEF UnlinkBegin
  <2>6. CASE UnlinkEnd(p)
    BY <2>6 DEF UnlinkEnd, Runnable, Returned
  <2>7. QED
    BY <1>6, <2>1, <2>2, <2>3, <2>4, <2>5, <2>6 DEF Finish
<1>7. ASSUME NEW p \in Procs, KillFasync(p) PROVE CopyInv'
  BY <1>7 DEF KillFasync, Signalled, Runnable, InCall
<1>8. ASSUME NEW p \in Procs, Return(p) PROVE CopyInv'
  BY <1>8 DEF Return, NoCall
<1>9. ASSUME NEW p \in Procs, PollStep(p) PROVE CopyInv'
  <2>1. CASE globalfifo_poll(p)
    <3>1. CASE PollWaitR(p)
      BY <2>1, <3>1 DEF PollWaitR, Linked, mutex_lock, Edit, Interruptible
    <3>2. CASE PollWaitW(p)
      BY <2>1, <3>2 DEF PollWaitW, Linked, mutex_unlock, Mask, Blocked
    <3>3. CASE PollAgain(p)
      BY <2>1, <3>3 DEF PollAgain, Mask, Interruptible, Blocked
    <3>4. QED
      BY <2>1, <3>1, <3>2, <3>3 DEF globalfifo_poll
  <2>2. CASE PollSchedule(p)
    BY <2>2 DEF PollSchedule, Runnable
  <2>3. CASE PollFree(p)
    BY <2>3 DEF PollFree, Edit, Unlinked, Runnable
  <2>4. QED
    BY <1>9, <2>1, <2>2, <2>3 DEF PollStep
<1>10. CASE UNCHANGED vars
  BY <1>10 DEF vars
<1>11. QED
  BY <1>1, <1>2, <1>3, <1>4, <1>5, <1>6, <1>7, <1>8, <1>9, <1>10 DEF
     Next, Step, globalfifo_read, globalfifo_write

(* The test and the sleep are under the mutex, and so are the commit and   *)
(* the wake-up that follows it: no reader falls asleep in between.         *)
LEMMA ReaderWakeInvStep == IInv /\ [Next]_vars => ReaderWakeInv'
<1> SUFFICES ASSUME IInv, [Next]_vars
             PROVE  ReaderWakeInv'
  OBVIOUS
<1> USE NoProcAssumption, SizeAssumption DEF IInv, ReaderWakeInv,
      Waking, Asleep, MutexInv, OpInv, WalkInv, QueueInv, QueueAt, TypeOK,
      SyncType, LockedPcs, Transferring, Queued, Heads, HeadOf, Woken,
      FilesInv, At, Goto, sync, device, calls, lists
<1>1. CASE globalfifo_probe \/ globalfifo_remove
  BY <1>1 DEF globalfifo_probe, globalfifo_remove
<1>2. ASSUME NEW p \in Procs, File(p) PROVE ReaderWakeInv'
  <2>1. CASE globalfifo_open(p) \/ globalfifo_release(p)
    BY <2>1 DEF globalfifo_open, globalfifo_release, globalfifo_fasync
  <2>2. ASSUME NEW mode \in BOOLEAN, SetFasync(p, mode) PROVE ReaderWakeInv'
    BY <2>2 DEF SetFasync, globalfifo_fasync
  <2>3. CASE globalfifo_ioctl(p)
    BY <2>3 DEF globalfifo_ioctl
  <2>4. ASSUME NEW c \in Requests[p], Enter(p, c) PROVE ReaderWakeInv'
    BY <2>4 DEF Enter
  <2>5. CASE Signal(p)
    BY <2>5 DEF Signal, Signalled, Runnable, InCall
  <2>6. QED
    BY <1>2, <2>1, <2>2, <2>3, <2>4, <2>5 DEF File
<1>3. ASSUME NEW p \in Procs, Wait(p) PROVE ReaderWakeInv'
  <2>1. CASE Lock(p)
    BY <2>1 DEF Lock, mutex_lock, Linked, HeadOf, Edit
  <2>2. CASE WouldBlock(p)
    BY <2>2 DEF WouldBlock
  <2>3. CASE Sleep(p)
    <3> SUFFICES ASSUME Driver = "plat-misc", current_len > 0, NEW q \in Procs
                 PROVE  ~Asleep(q, {"read", "pollin"})'
      BY <2>3 DEF Sleep
    <3>1. mutex = p /\ ~Waking("write")
      BY <2>3 DEF Sleep
    <3>2. ~Asleep(q, {"read", "pollin"})
      BY <3>1
    <3>3. CASE q = p
      BY <2>3, <3>3 DEF Sleep, Blocked
    <3>4. CASE q # p
      BY <2>3, <3>2, <3>4 DEF Sleep, Interruptible
    <3>5. QED
      BY <3>3, <3>4
  <2>4. CASE Schedule(p)
    BY <2>4 DEF Schedule, Runnable
  <2>5. CASE Relock(p)
    BY <2>5 DEF Relock, mutex_lock
  <2>6. CASE Clip(p)
    BY <2>6 DEF Clip
  <2>7. QED
    BY <1>3, <2>1, <2>2, <2>3, <2>4, <2>5, <2>6 DEF Wait
<1>4. ASSUME NEW p \in Procs, ReadCopy(p) \/ WriteCopy(p) PROVE ReaderWakeInv'
  <2>1. /\ pc[p] = "copy" /\ UNCHANGED <<mutex, task, current_len, call>>
        /\ \E l \in {"out", "update"} : pc' = [pc EXCEPT ![p] = l]
    BY <1>4 DEF ReadCopy, WriteCopy, Fault
  <2>2. QED
    BY <2>1
<1>5. ASSUME NEW p \in Procs, ReadUpdate(p) \/ WriteUpdate(p)
      PROVE  ReaderWakeInv'
  <2>1. CASE ReadUpdate(p)
    BY <2>1 DEF ReadUpdate, Moved, Shifted
  <2>2. CASE WriteUpdate(p)
    BY <2>2 DEF WriteUpdate, Moved
  <2>3. QED
    BY <1>5, <2>1, <2>2
<1>6. ASSUME NEW p \in Procs, Finish(p) PROVE ReaderWakeInv'
  <2>1. CASE WakeBegin(p)
    BY <2>1 DEF WakeBegin, Woken
  <2>2. CASE WakeEnd(p)
    BY <2>2 DEF WakeEnd, Woken, Runnable, Sound
  <2>3. CASE Out(p)
    BY <2>3 DEF Out, mutex_unlock
  <2>4. CASE Out2(p)
    BY <2>4 DEF Out2, HeadOf, Edit, Unlinked, Runnable, Returned
  <2>5. CASE UnlinkBegin(p)
    BY <2>5 DEF UnlinkBegin
  <2>6. CASE UnlinkEnd(p)
    <3>1. UNCHANGED <<mutex, current_len, call>>
          /\ task' = Runnable({p})
      BY <2>6 DEF UnlinkEnd
    <3>2. /\ pc[p] = "unlink" /\ pc'[p] \in {"return", "oops"}
          /\ \A q \in Procs : q # p => pc'[q] = pc[q] \/ pc'[q] = "oops"
      <4>1. /\ pc[p] = "unlink"
            /\ \/ pc' = [pc EXCEPT ![p] = "return"]
               \/ \E w \in Procs :
                    pc' = [pc EXCEPT ![p] = "return", ![w] = "oops"]
        BY <2>6 DEF UnlinkEnd
      <4>2. pc \in [Procs -> Pcs]
        OBVIOUS
      <4>3. QED
        BY ONLY <4>1, <4>2, p \in Procs
    <3>3. QED
      BY <3>1, <3>2 DEF Runnable
  <2>7. QED
    BY <1>6, <2>1, <2>2, <2>3, <2>4, <2>5, <2>6 DEF Finish
<1>7. ASSUME NEW p \in Procs, KillFasync(p) PROVE ReaderWakeInv'
  BY <1>7 DEF KillFasync, Signalled, Runnable, InCall
<1>8. ASSUME NEW p \in Procs, Return(p) PROVE ReaderWakeInv'
  BY <1>8 DEF Return, NoCall
<1>9. ASSUME NEW p \in Procs, PollStep(p) PROVE ReaderWakeInv'
  <2>1. CASE globalfifo_poll(p)
    <3>1. CASE PollWaitR(p)
      BY <2>1, <3>1 DEF PollWaitR, Linked, mutex_lock, Edit, Interruptible
    <3>2. CASE PollWaitW(p)
      <4> SUFFICES ASSUME Driver = "plat-misc", current_len > 0, NEW q \in Procs
                   PROVE  ~Asleep(q, {"read", "pollin"})'
        BY <3>2 DEF PollWaitW
      <4>1. /\ pc[p] = "poll_w" /\ mutex = p
            /\ UNCHANGED <<task, current_len, call>>
            /\ pc' = [pc EXCEPT ![p] = IF Blocked(call[p].op)
                                     THEN "p_sched" ELSE "p_free"]
        BY <3>2 DEF PollWaitW, Mask
      <4>2. ~Waking("write")
        BY <4>1
      <4>3. ~Asleep(q, {"read", "pollin"})
        BY <4>2
      <4>4. CASE q = p
        BY <4>1, <4>4 DEF Blocked
      <4>5. CASE q # p
        BY <4>1, <4>3, <4>5
      <4>6. QED
        BY <4>4, <4>5
    <3>3. CASE PollAgain(p)
      BY <2>1, <3>3 DEF PollAgain, Mask, Interruptible, Blocked
    <3>4. QED
      BY <2>1, <3>1, <3>2, <3>3 DEF globalfifo_poll
  <2>2. CASE PollSchedule(p)
    BY <2>2 DEF PollSchedule, Runnable
  <2>3. CASE PollFree(p)
    BY <2>3 DEF PollFree, Edit, Unlinked, Runnable
  <2>4. QED
    BY <1>9, <2>1, <2>2, <2>3 DEF PollStep
<1>10. CASE UNCHANGED vars
  BY <1>10 DEF vars
<1>11. QED
  BY <1>1, <1>2, <1>3, <1>4, <1>5, <1>6, <1>7, <1>8, <1>9, <1>10 DEF
     Next, Step, globalfifo_read, globalfifo_write

(* The same for writers, with nobody to clear the FIFO behind their back. *)
LEMMA WriterWakeInvStep == IInv /\ [Next]_vars => WriterWakeInv'
<1> SUFFICES ASSUME IInv, [Next]_vars
             PROVE  WriterWakeInv'
  OBVIOUS
<1> USE NoProcAssumption, SizeAssumption DEF IInv, WriterWakeInv,
      NoClear, Waking, Asleep, MutexInv, OpInv, WalkInv, QueueInv, QueueAt,
      TypeOK, SyncType, LockedPcs, Transferring, Queued, Heads,
      HeadOf, Woken, FilesInv, At, Goto, sync, device, calls, lists
<1>1. CASE globalfifo_probe \/ globalfifo_remove
  BY <1>1 DEF globalfifo_probe, globalfifo_remove
<1>2. ASSUME NEW p \in Procs, File(p) PROVE WriterWakeInv'
  <2>1. CASE globalfifo_open(p)
    BY <2>1 DEF globalfifo_open
  <2>2. CASE globalfifo_release(p)
    BY <2>2 DEF globalfifo_release, globalfifo_fasync
  <2>3. CASE globalfifo_ioctl(p)
    BY <2>3 DEF globalfifo_ioctl
  <2>4. ASSUME NEW m \in BOOLEAN, SetFasync(p, m) PROVE WriterWakeInv'
    BY <2>4 DEF SetFasync, globalfifo_fasync
  <2>5. ASSUME NEW c \in Requests[p], Enter(p, c) PROVE WriterWakeInv'
    BY <2>5 DEF Enter
  <2>6. CASE Signal(p)
    BY <2>6 DEF Signal, Signalled, Runnable, InCall
  <2>7. QED
    BY <1>2, <2>1, <2>2, <2>3, <2>4, <2>5, <2>6 DEF File
<1>3. ASSUME NEW p \in Procs, Wait(p) PROVE WriterWakeInv'
  <2>1. CASE Lock(p)
    BY <2>1 DEF Lock, mutex_lock, Linked, HeadOf, Edit
  <2>2. CASE WouldBlock(p)
    BY <2>2 DEF WouldBlock
  <2>3. CASE Sleep(p)
    <3> SUFFICES ASSUME NoClear /\ current_len < Size, NEW q \in Procs
                 PROVE  ~Asleep(q, {"write", "pollout"})'
      BY <2>3 DEF Sleep
    <3>1. mutex = p /\ ~Waking("read")
      BY <2>3 DEF Sleep
    <3>2. ~Asleep(q, {"write", "pollout"})
      BY <3>1
    <3>3. CASE q = p
      BY <2>3, <3>3 DEF Sleep, Blocked
    <3>4. CASE q # p
      BY <2>3, <3>2, <3>4 DEF Sleep, Interruptible
    <3>5. QED
      BY <3>3, <3>4
  <2>4. CASE Schedule(p)
    BY <2>4 DEF Schedule, Runnable
  <2>5. CASE Relock(p)
    BY <2>5 DEF Relock, mutex_lock
  <2>6. CASE Clip(p)
    BY <2>6 DEF Clip
  <2>7. QED
    BY <1>3, <2>1, <2>2, <2>3, <2>4, <2>5, <2>6 DEF Wait
<1>4. ASSUME NEW p \in Procs, ReadCopy(p) \/ WriteCopy(p) PROVE WriterWakeInv'
  <2>1. /\ pc[p] = "copy" /\ UNCHANGED <<mutex, task, current_len, call>>
        /\ \E l \in {"out", "update"} : pc' = [pc EXCEPT ![p] = l]
    BY <1>4 DEF ReadCopy, WriteCopy, Fault
  <2>2. QED
    BY <2>1
<1>5. ASSUME NEW p \in Procs, ReadUpdate(p) \/ WriteUpdate(p)
      PROVE  WriterWakeInv'
  <2>1. CASE ReadUpdate(p)
    BY <2>1 DEF ReadUpdate, Moved, Shifted
  <2>2. CASE WriteUpdate(p)
    BY <2>2 DEF WriteUpdate, Moved
  <2>3. QED
    BY <1>5, <2>1, <2>2
<1>6. ASSUME NEW p \in Procs, Finish(p) PROVE WriterWakeInv'
  <2>1. CASE WakeBegin(p)
    BY <2>1 DEF WakeBegin, Woken
  <2>2. CASE WakeEnd(p)
    BY <2>2 DEF WakeEnd, Woken, Runnable, Sound
  <2>3. CASE Out(p)
    BY <2>3 DEF Out, mutex_unlock
  <2>4. CASE Out2(p)
    BY <2>4 DEF Out2, HeadOf, Edit, Unlinked, Runnable, Returned
  <2>5. CASE UnlinkBegin(p)
    BY <2>5 DEF UnlinkBegin
  <2>6. CASE UnlinkEnd(p)
    <3>1. UNCHANGED <<mutex, current_len, call>>
          /\ task' = Runnable({p})
      BY <2>6 DEF UnlinkEnd
    <3>2. /\ pc[p] = "unlink" /\ pc'[p] \in {"return", "oops"}
          /\ \A q \in Procs : q # p => pc'[q] = pc[q] \/ pc'[q] = "oops"
      <4>1. /\ pc[p] = "unlink"
            /\ \/ pc' = [pc EXCEPT ![p] = "return"]
               \/ \E w \in Procs :
                    pc' = [pc EXCEPT ![p] = "return", ![w] = "oops"]
        BY <2>6 DEF UnlinkEnd
      <4>2. pc \in [Procs -> Pcs]
        OBVIOUS
      <4>3. QED
        BY ONLY <4>1, <4>2, p \in Procs
    <3>3. QED
      BY <3>1, <3>2 DEF Runnable
  <2>7. QED
    BY <1>6, <2>1, <2>2, <2>3, <2>4, <2>5, <2>6 DEF Finish
<1>7. ASSUME NEW p \in Procs, KillFasync(p) PROVE WriterWakeInv'
  BY <1>7 DEF KillFasync, Signalled, Runnable, InCall
<1>8. ASSUME NEW p \in Procs, Return(p) PROVE WriterWakeInv'
  BY <1>8 DEF Return, NoCall
<1>9. ASSUME NEW p \in Procs, PollStep(p) PROVE WriterWakeInv'
  <2>1. CASE globalfifo_poll(p)
    <3>1. CASE PollWaitR(p)
      BY <2>1, <3>1 DEF PollWaitR, Linked, mutex_lock, Edit, Interruptible
    <3>2. CASE PollWaitW(p)
      <4> SUFFICES ASSUME NoClear /\ current_len < Size, NEW q \in Procs
                   PROVE  ~Asleep(q, {"write", "pollout"})'
        BY <3>2 DEF PollWaitW
      <4>1. /\ pc[p] = "poll_w" /\ mutex = p
            /\ UNCHANGED <<task, current_len, call>>
            /\ pc' = [pc EXCEPT ![p] = IF Blocked(call[p].op)
                                     THEN "p_sched" ELSE "p_free"]
        BY <3>2 DEF PollWaitW, Mask
      <4>2. ~Waking("read")
        BY <4>1
      <4>3. ~Asleep(q, {"write", "pollout"})
        BY <4>2
      <4>4. CASE q = p
        BY <4>1, <4>4 DEF Blocked
      <4>5. CASE q # p
        BY <4>1, <4>3, <4>5
      <4>6. QED
        BY <4>4, <4>5
    <3>3. CASE PollAgain(p)
      BY <2>1, <3>3 DEF PollAgain, Mask, Interruptible, Blocked
    <3>4. QED
      BY <2>1, <3>1, <3>2, <3>3 DEF globalfifo_poll
  <2>2. CASE PollSchedule(p)
    BY <2>2 DEF PollSchedule, Runnable
  <2>3. CASE PollFree(p)
    BY <2>3 DEF PollFree, Edit, Unlinked, Runnable
  <2>4. QED
    BY <1>9, <2>1, <2>2, <2>3 DEF PollStep
<1>10. CASE UNCHANGED vars
  BY <1>10 DEF vars
<1>11. QED
  BY <1>1, <1>2, <1>3, <1>4, <1>5, <1>6, <1>7, <1>8, <1>9, <1>10 DEF
     Next, Step, globalfifo_read, globalfifo_write

(* ret and the bytes moved change together. *)
LEMMA ReturnInvStep == IInv /\ [Next]_vars => ReturnInv'
<1> SUFFICES ASSUME IInv, [Next]_vars
             PROVE  ReturnInv'
  OBVIOUS
<1> USE DriverAssumption DEF IInv, ReturnInv, CopyInv, TypeOK,
      SyncType, WalkInv, Returned, EAGAIN, EFAULT, ERESTARTSYS, At,
      Goto, sync, device, calls, lists
<1>1. CASE globalfifo_probe \/ globalfifo_remove
  BY <1>1 DEF globalfifo_probe, globalfifo_remove
<1>2. ASSUME NEW p \in Procs, File(p) PROVE ReturnInv'
  BY <1>2 DEF File, globalfifo_open, globalfifo_release,
       globalfifo_fasync, globalfifo_ioctl, SetFasync, Enter, Signal,
       Signalled, Runnable, InCall
<1>3. ASSUME NEW p \in Procs, Wait(p) PROVE ReturnInv'
  <2>1. CASE Lock(p)
    BY <2>1 DEF Lock, mutex_lock, Linked, HeadOf, Edit
  <2>2. CASE WouldBlock(p)
    BY <2>2 DEF WouldBlock
  <2>3. CASE Sleep(p)
    BY <2>3 DEF Sleep, Interruptible, mutex_unlock, Blocked
  <2>4. CASE Schedule(p)
    BY <2>4 DEF Schedule, Runnable
  <2>5. CASE Relock(p)
    BY <2>5 DEF Relock, mutex_lock
  <2>6. CASE Clip(p)
    BY <2>6 DEF Clip
  <2>7. QED
    BY <1>3, <2>1, <2>2, <2>3, <2>4, <2>5, <2>6 DEF Wait
<1>4. ASSUME NEW p \in Procs, ReadCopy(p) \/ WriteCopy(p) PROVE ReturnInv'
  <2>1. CASE ReadCopy(p)
    <3>1. CASE Fault(p)
      BY <2>1, <3>1 DEF ReadCopy, Fault
    <3>2. CASE UNCHANGED ret /\ Goto(p, "update")
      BY <2>1, <3>2 DEF ReadCopy
    <3>3. QED
      BY <2>1, <3>1, <3>2 DEF ReadCopy
  <2>2. CASE WriteCopy(p)
    <3>1. CASE Fault(p)
      BY <2>2, <3>1 DEF WriteCopy, Fault
    <3>2. CASE UNCHANGED ret /\ Goto(p, "update")
      BY <2>2, <3>2 DEF WriteCopy
    <3>3. QED
      BY <2>2, <3>1, <3>2 DEF WriteCopy
  <2>3. QED
    BY <1>4, <2>1, <2>2
<1>5. ASSUME NEW p \in Procs, ReadUpdate(p) \/ WriteUpdate(p) PROVE ReturnInv'
  <2>1. CASE ReadUpdate(p)
    BY <2>1 DEF ReadUpdate, Moved, Shifted
  <2>2. CASE WriteUpdate(p)
    BY <2>2 DEF WriteUpdate, Moved
  <2>3. QED
    BY <1>5, <2>1, <2>2
<1>6. ASSUME NEW p \in Procs, Finish(p) PROVE ReturnInv'
  <2>1. CASE WakeBegin(p)
    BY <2>1 DEF WakeBegin, Woken
  <2>2. CASE WakeEnd(p)
    BY <2>2 DEF WakeEnd, Woken, Runnable
  <2>3. CASE Out(p)
    BY <2>3 DEF Out, mutex_unlock
  <2>4. CASE Out2(p)
    BY <2>4 DEF Out2, HeadOf, RemoveHead, Edit, Unlinked, Runnable, Returned
  <2>5. CASE UnlinkBegin(p)
    BY <2>5 DEF UnlinkBegin
  <2>6. CASE UnlinkEnd(p)
    BY <2>6 DEF UnlinkEnd, Runnable, Returned
  <2>7. QED
    BY <1>6, <2>1, <2>2, <2>3, <2>4, <2>5, <2>6 DEF Finish
<1>7. ASSUME NEW p \in Procs, KillFasync(p) PROVE ReturnInv'
  BY <1>7 DEF KillFasync, Signalled, Runnable, InCall
<1>8. ASSUME NEW p \in Procs, Return(p) PROVE ReturnInv'
  BY <1>8 DEF Return, NoCall
<1>9. ASSUME NEW p \in Procs, PollStep(p) PROVE ReturnInv'
  <2>1. CASE globalfifo_poll(p)
    <3>1. CASE PollWaitR(p)
      BY <2>1, <3>1 DEF PollWaitR, Linked, mutex_lock, Edit, Interruptible
    <3>2. CASE PollWaitW(p)
      BY <2>1, <3>2 DEF PollWaitW, Linked, mutex_unlock, Mask, Blocked
    <3>3. CASE PollAgain(p)
      BY <2>1, <3>3 DEF PollAgain, Mask, Interruptible, Blocked
    <3>4. QED
      BY <2>1, <3>1, <3>2, <3>3 DEF globalfifo_poll
  <2>2. CASE PollSchedule(p)
    BY <2>2 DEF PollSchedule, Runnable
  <2>3. CASE PollFree(p)
    BY <2>3 DEF PollFree, Edit, Unlinked, Runnable
  <2>4. QED
    BY <1>9, <2>1, <2>2, <2>3 DEF PollStep
<1>10. CASE UNCHANGED vars
  BY <1>10 DEF vars
<1>11. QED
  BY <1>1, <1>2, <1>3, <1>4, <1>5, <1>6, <1>7, <1>8, <1>9, <1>10 DEF
     Next, Step, globalfifo_read, globalfifo_write

(* In plat-misc.c an entry is removed under the lock of its own list. *)
LEMMA OopsInvStep == IInv /\ [Next]_vars => OopsInv'
<1> SUFFICES ASSUME IInv, [Next]_vars
             PROVE  OopsInv'
  OBVIOUS
<1> USE DEF IInv, OopsInv, NoOops, TypeOK, SyncType, At, Goto, sync,
      device, calls, lists
<1>1. CASE globalfifo_probe \/ globalfifo_remove
  BY <1>1 DEF globalfifo_probe, globalfifo_remove
<1>2. ASSUME NEW p \in Procs, File(p) PROVE OopsInv'
  BY <1>2 DEF File, globalfifo_open, globalfifo_release,
       globalfifo_fasync, globalfifo_ioctl, SetFasync, Enter, Signal,
       Signalled, Runnable, InCall
<1>3. ASSUME NEW p \in Procs, Wait(p) PROVE OopsInv'
  BY <1>3 DEF Wait, Lock, mutex_lock, Linked, HeadOf, Edit, WouldBlock, Sleep,
       Interruptible, mutex_unlock, Blocked, Schedule, Runnable, Relock,
       Clip
<1>4. ASSUME NEW p \in Procs, ReadCopy(p) \/ WriteCopy(p) PROVE OopsInv'
  BY <1>4 DEF ReadCopy, Fault, WriteCopy, Stored
<1>5. ASSUME NEW p \in Procs, ReadUpdate(p) \/ WriteUpdate(p) PROVE OopsInv'
  BY <1>5 DEF ReadUpdate, Moved, Shifted, WriteUpdate
<1>6. ASSUME NEW p \in Procs, Finish(p) PROVE OopsInv'
  <2>1. CASE WakeBegin(p) \/ WakeEnd(p)
    BY <2>1 DEF WakeBegin, WakeEnd
  <2>2. CASE Out(p) \/ Out2(p) \/ UnlinkBegin(p)
    BY <2>2 DEF Out, Out2, UnlinkBegin
  <2>3. CASE UnlinkEnd(p)
    BY <2>3 DEF UnlinkEnd, OpInv
  <2>4. QED
    BY <1>6, <2>1, <2>2, <2>3 DEF Finish
<1>7. ASSUME NEW p \in Procs, KillFasync(p) PROVE OopsInv'
  BY <1>7 DEF KillFasync, Signalled, Runnable, InCall
<1>8. ASSUME NEW p \in Procs, Return(p) PROVE OopsInv'
  BY <1>8 DEF Return, NoCall
<1>9. ASSUME NEW p \in Procs, PollStep(p) PROVE OopsInv'
  BY <1>9 DEF PollStep, globalfifo_poll, PollWaitR,
       PollWaitW, PollAgain, Mask, Linked, mutex_lock, mutex_unlock, Edit,
       Interruptible, Blocked,
       PollSchedule, Runnable, PollFree, Edit, Unlinked
<1>10. CASE UNCHANGED vars
  BY <1>10 DEF vars
<1>11. QED
  BY <1>1, <1>2, <1>3, <1>4, <1>5, <1>6, <1>7, <1>8, <1>9, <1>10 DEF
     Next, Step, globalfifo_read, globalfifo_write

-----------------------------------------------------------------------------
(* Invariance.                                                             *)

(* The initial state satisfies every part of the invariant. *)
LEMMA InitIInv == Init => IInv
<1> SUFFICES ASSUME Init PROVE IInv
  OBVIOUS
<1> USE NoProcAssumption, SizeAssumption, BytesAssumption, DriverAssumption
<1>1. TypeOK
  <2>1. NoCall \in CallRecs /\ <<>> \in Seq(Bytes)
    BY DEF NoCall, CallRecs
  <2>2. SyncType
    BY DEF Init, SyncInit, SyncType, TaskStates
  <2>3. /\ call \in [Procs -> CallRecs]
        /\ buf \in [Procs -> Seq(Bytes)]
        /\ last \in [Procs -> Seq(Bytes)]
    BY <2>1 DEF Init
  <2>4. /\ ret \in [Procs -> {-EAGAIN, -EFAULT, -ERESTARTSYS} \cup 0 .. Size]
        /\ cnt \in [Procs -> 0 .. Size]
        /\ current_len \in 0 .. Size
    BY DEF Init
  <2>5. pc \in [Procs -> Pcs] /\ walk \in [Heads -> Procs \cup {NoProc}]
    BY DEF Init, Pcs
  <2>6. mem \in [1 .. Size -> Bytes]
    BY DEF Init
  <2>7. QED
    BY <2>2, <2>3, <2>4, <2>5, <2>6 DEF Init, TypeOK
<1>2. MutexInv /\ FilesInv /\ OpInv /\ WalkInv
  BY DEF Init, SyncInit, MutexInv, FilesInv, OpInv, WalkInv, Transferring,
         Queued, LockedPcs
<1>3. QueueInv
  BY DEF Init, SyncInit, QueueInv, QueueAt, Transferring, Queued, LockedPcs
<1>4. CopyInv /\ ReaderWakeInv /\ WriterWakeInv
  BY DEF Init, SyncInit, CopyInv, ReaderWakeInv, WriterWakeInv, Asleep
<1>5. ReturnInv /\ OopsInv
  BY DEF Init, SyncInit, ReturnInv, OopsInv, NoOops
<1>6. QED
  BY <1>1, <1>2, <1>3, <1>4, <1>5 DEF IInv

(* Every step keeps every part. *)
LEMMA NextIInv == IInv /\ [Next]_vars => IInv'
BY TypeOKStep, MutexInvStep, FilesInvStep, OpInvStep, WalkInvStep,
   QueueInvStep, CopyInvStep, ReaderWakeInvStep, WriterWakeInvStep,
   ReturnInvStep, OopsInvStep DEF IInv

(* The inductive invariant holds in every reachable state. *)
THEOREM Invariance == Spec => []IInv
<1>1. Init => IInv
  BY InitIInv
<1>2. IInv /\ [Next]_vars => IInv'
  BY NextIInv
<1>3. QED
  BY <1>1, <1>2, PTL DEF Spec

-----------------------------------------------------------------------------
(* What follows from it. *)

(* The state always has its type: current_len never leaves 0 .. Size. *)
THEOREM TypeCorrect == Spec => []TypeOK
<1>1. IInv => TypeOK
  BY DEF IInv
<1>2. QED
  BY Invariance, <1>1, PTL

(* Between the loop and the update the mutex is held and what is about to  *)
(* move is there, in read and in write.                                    *)
THEOREM CopyUnderLockHolds == Spec => []CopyUnderLock
<1>1. IInv => CopyUnderLock
  BY DEF IInv, MutexInv, CopyInv, CopyUnderLock, LockedPcs
<1>2. QED
  BY Invariance, <1>1, PTL

(* No reader and no POLLIN poller of plat-misc.c sleeps through data,      *)
(* FIFO_CLEAR and signals included.                                        *)
THEOREM NoLostReaderWakeupHolds ==
  ASSUME Driver = "plat-misc"
  PROVE  Spec => []NoLostReaderWakeup
<1>1. IInv => NoLostReaderWakeup
  BY DEF IInv, ReaderWakeInv, Waking, NoLostReaderWakeup
<1>2. QED
  BY Invariance, <1>1, PTL

(* No writer and no POLLOUT poller sleeps through space, as long as nobody *)
(* issues FIFO_CLEAR.                                                      *)
THEOREM NoLostWriterWakeupHolds ==
  ASSUME NoClear
  PROVE  Spec => []NoLostWriterWakeup
<1>1. IInv => NoLostWriterWakeup
  BY DEF IInv, WriterWakeInv, Waking, NoLostWriterWakeup
<1>2. QED
  BY Invariance, <1>1, PTL

(* In plat-misc.c the entry of a call that has returned is on no list. *)
THEOREM NoDanglingEntryHolds ==
  ASSUME Driver = "plat-misc"
  PROVE  Spec => []NoDanglingEntry
<1>1. IInv => NoDanglingEntry
  BY DEF IInv, QueueInv, QueueAt, Sound, NoDanglingEntry
<1>2. QED
  BY Invariance, <1>1, PTL

(* plat-misc.c never removes an entry under a walk. *)
THEOREM NoOopsHolds ==
  ASSUME Driver = "plat-misc"
  PROVE  Spec => []NoOops
<1>1. IInv => NoOops
  BY DEF IInv, OopsInv
<1>2. QED
  BY Invariance, <1>1, PTL

(* globalfifo.c returns the number of bytes it moved. *)
THEOREM ReturnMatchesTransferHolds ==
  ASSUME Driver = "globalfifo"
  PROVE  Spec => []ReturnMatchesTransfer
<1>1. IInv => ReturnMatchesTransfer
  <2> SUFFICES ASSUME IInv, NEW p \in Procs
               PROVE  Len(last[p]) = IF ret[p] < 0 THEN 0 ELSE ret[p]
    BY DEF ReturnMatchesTransfer
  <2>1. ret[p] \in Int
    <3>1. ret[p] \in {-EAGAIN, -EFAULT, -ERESTARTSYS} \cup 0 .. Size
      BY DEF IInv, TypeOK
    <3>2. QED
      BY <3>1, SizeAssumption DEF EAGAIN, EFAULT, ERESTARTSYS
  <2>2. CASE ret[p] < 0
    BY <2>2 DEF IInv, ReturnInv
  <2>3. CASE ret[p] >= 0
    BY <2>3 DEF IInv, ReturnInv
  <2>4. QED
    BY <2>1, <2>2, <2>3
<1>2. QED
  BY Invariance, <1>1, PTL

-----------------------------------------------------------------------------
(* The device implements a bounded FIFO.                                   *)

queue == [i \in 1 .. current_len |-> mem[i]]

(* The bytes behind the queue, once they count, are appended to it. *)
LEMMA AppendOf ==
  ASSUME TypeOK, NEW n \in Nat, NEW g \in [1 .. n -> Bytes],
         \A i \in 1 .. n : mem[current_len + i] = g[i]
  PROVE  [i \in 1 .. current_len + n |-> mem[i]]
           = [i \in 1 .. current_len |-> mem[i]] \o g
<1> DEFINE a == [i \in 1 .. current_len |-> mem[i]]
           b == [i \in 1 .. current_len + n |-> mem[i]]
<1>1. current_len \in Nat /\ \A i \in 1 .. current_len : mem[i] \in Bytes
  BY SizeAssumption DEF TypeOK
<1>2. a \in [1 .. current_len -> Bytes] /\ b \in [1 .. current_len + n -> Bytes]
  <2>1. \A i \in 1 .. current_len + n :
          \/ i \in 1 .. current_len
          \/ i - current_len \in 1 .. n /\ i = current_len + (i - current_len)
    BY <1>1
  <2>2. \A i \in 1 .. current_len + n : mem[i] \in Bytes
    BY <1>1, <2>1
  <2>3. QED
    BY <1>1, <2>2
<1>3. /\ a \in Seq(Bytes) /\ Len(a) = current_len
      /\ g \in Seq(Bytes) /\ Len(g) = n
      /\ b \in Seq(Bytes) /\ Len(b) = current_len + n
  BY <1>1, <1>2, SeqOf
<1>4. a \o g \in Seq(Bytes) /\ Len(a \o g) = current_len + n
  BY <1>1, <1>3
<1>5. \A i \in 1 .. current_len + n : (a \o g)[i] = b[i]
  <2> SUFFICES ASSUME NEW i \in 1 .. current_len + n PROVE (a \o g)[i] = b[i]
    OBVIOUS
  <2>1. CASE i <= current_len
    BY <1>1, <1>3, <2>1
  <2>2. CASE i > current_len
    <3>1. i - current_len \in 1 .. n /\ current_len + (i - current_len) = i
      BY <1>1, <2>2
    <3>2. QED
      BY <1>1, <1>3, <2>2, <3>1
  <2>3. QED
    BY <1>1, <2>1, <2>2
<1>6. QED
  BY <1>1, <1>3, <1>4, <1>5

(* The suffix of a sequence given by a function on 1 .. m. *)
LEMMA SuffixOf ==
  ASSUME NEW m \in Nat, NEW n \in 0 .. m, NEW q \in [1 .. m -> Bytes]
  PROVE  /\ SubSeq(q, n + 1, m) = [i \in 1 .. m - n |-> q[i + n]]
         /\ SubSeq(q, 1, n) = [i \in 1 .. n |-> q[i]]
<1>1. q \in Seq(Bytes) /\ Len(q) = m
  BY SeqOf
<1>2. QED
  BY <1>1

(* The device starts as an empty FIFO. *)
LEMMA InitFifo == Init => Fifo!Init
BY DEF Init, Fifo!Init

(* Every step of the device is a step of the FIFO or leaves it alone: the  *)
(* effect of a call is at its update, and only a clear, an update or a     *)
(* fresh probe changes the bytes that count.                               *)
LEMMA NextFifo ==
  IInv /\ IInv' /\ [Next]_vars => [Fifo!Next]_(Fifo!vars)
<1> SUFFICES ASSUME IInv, IInv', [Next]_vars
             PROVE  [Fifo!Next]_(Fifo!vars)
  OBVIOUS
<1> USE SizeAssumption
<1>1. /\ current_len \in 0 .. Size
      /\ mem \in [1 .. Size -> Bytes]
      /\ last \in [Procs -> Seq(Bytes)]
      /\ queue \in [1 .. current_len -> Bytes]
      /\ queue \in Seq(Bytes) /\ Len(queue) = current_len
  <2>1. /\ current_len \in 0 .. Size
        /\ mem \in [1 .. Size -> Bytes]
        /\ last \in [Procs -> Seq(Bytes)]
    BY DEF IInv, TypeOK
  <2>2. queue \in [1 .. current_len -> Bytes]
    BY <2>1 DEF queue
  <2>3. QED
    BY <2>1, <2>2, SeqOf
<1>2. ASSUME UNCHANGED <<current_len, mem, last>>
      PROVE  UNCHANGED Fifo!vars
  BY <1>2 DEF Fifo!vars
<1>3. ASSUME current_len' = 0, UNCHANGED last
      PROVE  Fifo!Clear
  BY <1>3 DEF Fifo!Clear
<1>4. ASSUME NEW p \in Procs, WriteCopy(p)
      PROVE  UNCHANGED Fifo!vars
  <2>1. PICK d \in [1 .. cnt[p] -> Bytes], k \in Int : mem' = Stored(d, k)
    <3>1. cnt[p] \in Int
      BY DEF IInv, TypeOK
    <3>2. QED
      BY <1>4, <3>1 DEF WriteCopy
  <2>2. \A i \in 1 .. current_len : mem'[i] = mem[i]
    BY <1>1, <2>1 DEF Stored
  <2>3. UNCHANGED <<current_len, last>>
    BY <1>4 DEF WriteCopy
  <2>4. QED
    BY <2>2, <2>3 DEF Fifo!vars
<1>5. ASSUME NEW p \in Procs, WriteUpdate(p)
      PROVE  Fifo!Put(p)
  <2> DEFINE n == cnt[p]
  <2>1. /\ n \in 0 .. Size - current_len
        /\ buf[p] \in [1 .. n -> Bytes]
        /\ \A i \in 1 .. n : mem[current_len + i] = buf[p][i]
    BY <1>5, UpdateFits DEF WriteUpdate, At, IInv, CopyInv
  <2>2. /\ current_len' = current_len + n
        /\ mem' = mem
        /\ last' = [last EXCEPT ![p] = buf[p]]
    BY <1>5 DEF WriteUpdate, Moved
  <2>3. buf[p] \in Seq(Bytes) /\ Len(buf[p]) = n
    <3>1. n \in Nat
      BY <1>1, <2>1
    <3>2. QED
      BY <2>1, <3>1, SeqOf
  <2>4. [i \in 1 .. current_len + n |-> mem[i]] = queue \o buf[p]
    <3>1. TypeOK /\ n \in Nat
      BY <1>1, <2>1 DEF IInv
    <3>2. QED
      BY <2>1, <3>1, AppendOf DEF queue
  <2>5. last'[p] = buf[p]
    BY <1>1, <2>2
  <2>6. queue' = queue \o last'[p]
    BY <2>2, <2>4, <2>5 DEF queue
  <2>7. Len(last'[p]) + Len(queue) <= Size
    BY <1>1, <2>1, <2>3, <2>5
  <2>8. last' = [last EXCEPT ![p] = last'[p]] /\ last'[p] \in Seq(Bytes)
    BY <2>2, <2>3, <2>5
  <2>9. QED
    BY <2>6, <2>7, <2>8 DEF Fifo!Put, queue
<1>6. ASSUME NEW p \in Procs, ReadUpdate(p)
      PROVE  Fifo!Take(p)
  <2> DEFINE n == cnt[p]
  <2>1. /\ n \in 0 .. current_len
        /\ buf[p] = [i \in 1 .. n |-> mem[i]]
    BY <1>6, UpdateFits DEF ReadUpdate, At, IInv, CopyInv
  <2>2. /\ current_len' = current_len - n
        /\ mem' = Shifted(n)
        /\ last' = [last EXCEPT ![p] = buf[p]]
    BY <1>6 DEF ReadUpdate, Moved
  <2>3. /\ SubSeq(queue, n + 1, current_len)
             = [i \in 1 .. current_len - n |-> queue[i + n]]
        /\ SubSeq(queue, 1, n) = [i \in 1 .. n |-> queue[i]]
    <3>1. current_len \in Nat
      BY <1>1
    <3>2. QED
      BY <1>1, <2>1, <3>1, SuffixOf, Zenon
  <2>4. SubSeq(queue, 1, n) = buf[p]
    BY <1>1, <2>1, <2>3 DEF queue
  <2>5. queue' = SubSeq(queue, n + 1, Len(queue))
    <3>1. queue' = [i \in 1 .. current_len - n |-> Shifted(n)[i]]
      BY <2>2 DEF queue
    <3>2. \A i \in 1 .. current_len - n : Shifted(n)[i] = queue[i + n]
      BY <1>1, <2>1 DEF queue, Shifted
    <3>3. QED
      BY <1>1, <2>3, <3>1, <3>2
  <2>6. QED
    BY <1>1, <2>1, <2>2, <2>4, <2>5 DEF Fifo!Take, queue
<1>7. ASSUME NEW p \in Procs, Return(p)
      PROVE  Fifo!Call(p)
  BY <1>7 DEF Return, device, Fifo!Call
<1>8. CASE globalfifo_probe \/ globalfifo_remove
  BY <1>8, <1>2, <1>3 DEF globalfifo_probe, globalfifo_remove, calls, Fifo!Next
<1>9. ASSUME NEW p \in Procs, File(p)
      PROVE  [Fifo!Next]_(Fifo!vars)
  BY <1>9, <1>2, <1>3 DEF File, globalfifo_open, globalfifo_release,
     globalfifo_ioctl, SetFasync, Enter, Signal, device, calls, Fifo!Next
<1>10. ASSUME NEW p \in Procs, Wait(p) \/ Finish(p) \/ PollStep(p)
                                \/ ReadCopy(p) \/ KillFasync(p)
       PROVE  UNCHANGED <<current_len, mem, last>>
  BY <1>10 DEF Wait, Lock, WouldBlock, Sleep, Schedule, Relock, Clip, Finish,
     WakeBegin, WakeEnd, Out, Out2, UnlinkBegin, UnlinkEnd, PollStep,
     globalfifo_poll, PollWaitR, PollWaitW, PollAgain, PollSchedule,
     PollFree, ReadCopy, KillFasync, device
<1>11. ASSUME NEW p \in Procs, Step(p)
       PROVE  [Fifo!Next]_(Fifo!vars)
  <2>1. CASE Wait(p) \/ Finish(p) \/ PollStep(p) \/ ReadCopy(p) \/ KillFasync(p)
    BY <2>1, <1>10, <1>2
  <2>2. CASE WriteCopy(p)
    BY <2>2, <1>4
  <2>3. CASE WriteUpdate(p) \/ ReadUpdate(p) \/ Return(p)
    BY <2>3, <1>5, <1>6, <1>7 DEF Fifo!Next
  <2>4. QED
    BY <1>11, <2>1, <2>2, <2>3 DEF Step, globalfifo_read, globalfifo_write
<1>12. CASE UNCHANGED vars
  BY <1>12, <1>2 DEF vars, device, calls
<1>13. QED
  BY <1>8, <1>9, <1>11, <1>12 DEF Next

(* For every number of tasks and every capacity, whatever is interrupted,  *)
(* refused or faulted, the device behaves as the bounded FIFO: bytes come  *)
(* out once, in the order and with the values in which they went in.       *)
THEOREM Refinement == Spec => FifoSpec
<1>1. Init => Fifo!Init
  BY InitFifo
<1>2. IInv /\ IInv' /\ [Next]_vars => [Fifo!Next]_(Fifo!vars)
  BY NextFifo
<1>3. QED
  BY Invariance, <1>1, <1>2, PTL DEF Spec, FifoSpec, Fifo!Spec

=============================================================================
