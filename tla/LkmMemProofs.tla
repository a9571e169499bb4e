---------------------------- MODULE LkmMemProofs ----------------------------
(***************************************************************************)
(* Proofs about LkmMem for any number of threads, any bytes and any        *)
(* capacity that dev->len can hold.                                        *)
(*                                                                         *)
(* That a returned call leaves no wait entry behind holds for every        *)
(* program on component/hello.c (QInv).  The rest holds only as long as no *)
(* signal ends a sleep, which sends a call to the unlocking exit path      *)
(* without the mutex: the theorems assume it (NoSignalledSleep), and       *)
(* LkmMem_signal.cfg shows that they need it.                              *)
(***************************************************************************)
EXTENDS LkmMem, TLAPS

(* component/hello.c, opened by programs that never sleep in a read or a   *)
(* write, or by programs that no signal reaches there.                     *)
NoSignalledSleep ==
  /\ Driver = "component"
  /\ \A o \in Owners : o.nonblock \/ (~o.async /\ o.signals = {})

(* The statements of read and write from the mutex to the exit path, and   *)
(* those of poll.                                                          *)
Queued == LockedPcs \cup {"sched", "relock", "exit"}
Transferring == Queued \cup {"enter"}
Polling == {"poll", "p_sched", "p_free"}

(* The control points belong to the operations. *)
OpInv ==
  \A p \in Procs :
    /\ pc[p] \in Transferring => call[p].op \in {"read", "write"}
    /\ pc[p] \in Polling => call[p].op \in {"pollin", "pollout"}

(* While the entry of a caller is linked it is on its own head only; a     *)
(* sleeping poller is on both; a thread outside the driver is on neither.  *)
QueueInv ==
  \A p \in Procs :
    /\ pc[p] \in Queued => p \in wq[HeadOf(call[p].op)]
    /\ pc[p] \in Transferring => p \notin wq[Woken(call[p].op)]
    /\ pc[p] = "enter" => p \notin wq[HeadOf(call[p].op)]
    /\ pc[p] = "p_sched" => \A h \in Heads : p \in wq[h]
    /\ pc[p] \in {"idle", "return"} => \A h \in Heads : p \notin wq[h]

QType ==
  /\ wq \in [Heads -> SUBSET Procs]
  /\ owner \in Owners
  /\ pc \in [Procs -> Pcs]
  /\ call \in [Procs -> CallRecs]

QInv == QType /\ OpInv /\ QueueInv

(* Only the owner of the mutex is between its acquisition and its release. *)
MutexInv == \A p \in Procs : pc[p] \in LockedPcs \cup {"exit"} => mutex = p

(* A thread inside a call has the file open, and FASYNC is a property of   *)
(* the open file: nothing is in flight when another program opens it.      *)
FilesInv ==
  /\ \A p \in Procs : pc[p] # "idle" => opened
  /\ fasync => opened /\ owner.async

(* Signals reach only the calls of O_NONBLOCK files, which never sleep in  *)
(* a read or a write.                                                      *)
SignalInv ==
  \A p \in Procs :
    /\ sig[p] => owner.nonblock /\ pc[p] # "idle"
    /\ pc[p] \in {"sched", "relock"} => ~owner.nonblock

(* dev->len stays within the memory.  The count stays within what the      *)
(* device holds from the clip to the update, and the buffer agrees with    *)
(* the memory at the update.                                               *)
CopyInv ==
  /\ len <= Size
  /\ \A p \in Procs :
       /\ pc[p] \in {"copy", "update"} =>
            /\ ~Blocked(call[p].op)
            /\ cnt[p] <= Movable(call[p].op)
       /\ pc[p] = "update" /\ call[p].op = "read" =>
            buf[p] = [i \in 1 .. cnt[p] |-> memory[i]]
       /\ pc[p] = "update" /\ call[p].op = "write" =>
            /\ buf[p] \in [1 .. cnt[p] -> Bytes]
            /\ \A i \in 1 .. cnt[p] : memory[len + i] = buf[p][i]

(* The owner of the mutex is about to wake the tasks of a head. *)
Waking(op) == mutex # NoProc /\ pc[mutex] = "wake" /\ call[mutex].op = op

(* A thread asleep for data that is there is about to be woken, *)
ReaderWakeInv ==
  len > 0 =>
    \A p \in Procs :
      Asleep(p) /\ call[p].op \in {"read", "pollin"} => Waking("write")

(* and so is one asleep for space that is there. *)
WriterWakeInv ==
  len < Size =>
    \A p \in Procs : Asleep(p) /\ call[p].op = "write" => Waking("read")

(* A call that has not reached its update, or failed, has moved nothing;   *)
(* one that has moved its bytes has their number in ret.                   *)
ReturnInv ==
  \A p \in Procs :
    /\ pc[p] \notin {"wake", "notify", "exit", "return"}
         => last[p] = <<>> /\ ret[p] = 0
    /\ ret[p] < 0 => last[p] = <<>>
    /\ ret[p] >= 0 => Len(last[p]) = ret[p]

IInv ==
  /\ TypeOK /\ OpInv /\ QueueInv /\ MutexInv /\ FilesInv /\ SignalInv
  /\ CopyInv /\ ReaderWakeInv /\ WriterWakeInv /\ ReturnInv

-----------------------------------------------------------------------------
(* Every step keeps the types that QInv needs. *)
LEMMA QTypeStep ==
  ASSUME QInv, [Next]_vars
  PROVE  QType'
<1> USE OwnersAssumption, DriverAssumption DEF QInv, QType, OwnerType, Pcs,
      LockedPcs, Heads, CallRecs, HeadOf, At, Goto, sync, device, calls
<1>1. CASE lkm_mem_open
  BY <1>1 DEF lkm_mem_open
<1>2. CASE lkm_mem_release
  BY <1>2 DEF lkm_mem_release, InCall
<1>3. ASSUME NEW p \in Procs, NEW m \in BOOLEAN, lkm_mem_fasync(p, m)
      PROVE  QType'
  BY <1>3 DEF lkm_mem_fasync
<1>4. ASSUME NEW p \in Procs, NEW c \in owner.requests[p], Enter(p, c)
      PROVE  QType'
  BY <1>4 DEF Enter
<1>5. ASSUME NEW p \in Procs, Signal(p)
      PROVE  QType'
  BY <1>5 DEF Signal, Signalled, Runnable, InCall
<1>6. ASSUME NEW p \in Procs, Lock(p)
      PROVE  QType'
  BY <1>6 DEF Lock, mutex_lock, Linked
<1>7. ASSUME NEW p \in Procs, NEW q \in Procs, WouldBlock(p, q)
      PROVE  QType'
  BY <1>7 DEF WouldBlock, Full, Kill, Signalled, Runnable, InCall
<1>8. ASSUME NEW p \in Procs, NEW q \in Procs, Sleep(p, q)
      PROVE  QType'
  BY <1>8 DEF Sleep, Signalled, Runnable, InCall, mutex_unlock
<1>9. ASSUME NEW p \in Procs, Schedule(p)
      PROVE  QType'
  BY <1>9 DEF Schedule, Runnable
<1>10. ASSUME NEW p \in Procs, Relock(p)
       PROVE  QType'
  BY <1>10 DEF Relock, mutex_lock
<1>11. ASSUME NEW p \in Procs, Clip(p)
       PROVE  QType'
  BY <1>11 DEF Clip
<1>12. ASSUME NEW p \in Procs, ReadCopy(p)
       PROVE  QType'
  <2>1. /\ pc[p] = "copy"
        /\ UNCHANGED <<sync, opened, owner, fasync, len, call, cnt, last>>
        /\ \E l \in {"exit", "update"} : pc' = [pc EXCEPT ![p] = l]
    BY <1>12 DEF ReadCopy, Fault, device
  <2>2. QED
    BY <2>1
<1>13. ASSUME NEW p \in Procs, WriteCopy(p)
       PROVE  QType'
  <2>1. /\ pc[p] = "copy"
        /\ UNCHANGED <<sync, opened, owner, fasync, len, call, cnt, last>>
        /\ \E l \in {"exit", "update"} : pc' = [pc EXCEPT ![p] = l]
    BY <1>13 DEF WriteCopy, Fault, device
  <2>2. QED
    BY <2>1
<1>14. ASSUME NEW p \in Procs, ReadUpdate(p)
       PROVE  QType'
  BY <1>14 DEF ReadUpdate, Moved
<1>15. ASSUME NEW p \in Procs, WriteUpdate(p)
       PROVE  QType'
  BY <1>15 DEF WriteUpdate, Moved
<1>16. ASSUME NEW p \in Procs, Wake(p)
       PROVE  QType'
  BY <1>16 DEF Wake, Runnable
<1>17. ASSUME NEW p \in Procs, NEW q \in Procs, Notify(p, q)
       PROVE  QType'
  BY <1>17 DEF Notify, Kill, Signalled, Runnable, InCall
<1>18. ASSUME NEW p \in Procs, Exit(p)
       PROVE  QType'
  BY <1>18 DEF Exit, Runnable, Unlinked, mutex_unlock
<1>19. ASSUME NEW p \in Procs, Return(p)
       PROVE  QType'
  BY <1>19 DEF Return, NoCall
<1>20. ASSUME NEW p \in Procs, lkm_mem_poll(p)
       PROVE  QType'
  BY <1>20 DEF lkm_mem_poll, Interruptible, Mask
<1>21. ASSUME NEW p \in Procs, PollSchedule(p)
       PROVE  QType'
  BY <1>21 DEF PollSchedule, Runnable
<1>22. ASSUME NEW p \in Procs, PollFree(p)
       PROVE  QType'
  BY <1>22 DEF PollFree, Unlinked, Runnable
<1>23. CASE UNCHANGED vars
  BY <1>23 DEF vars
<1>24. QED
  BY <1>1, <1>2, <1>3, <1>4, <1>5, <1>6, <1>7, <1>8, <1>9, <1>10, <1>11,
     <1>12, <1>13, <1>14, <1>15, <1>16, <1>17, <1>18, <1>19, <1>20, <1>21,
     <1>22, <1>23 DEF Next, Step, lkm_mem_read, lkm_mem_write, Shared

(* Control points and operations stay matched. *)
LEMMA OpInvStep ==
  ASSUME QInv, [Next]_vars
  PROVE  OpInv'
<1> USE OwnersAssumption, DriverAssumption DEF QInv, QType, OpInv, OwnerType,
      Transferring, Queued, LockedPcs, Polling, CallRecs, At, Goto, sync,
      device, calls
<1>1. CASE lkm_mem_open
  BY <1>1 DEF lkm_mem_open
<1>2. CASE lkm_mem_release
  BY <1>2 DEF lkm_mem_release, InCall
<1>3. ASSUME NEW p \in Procs, NEW m \in BOOLEAN, lkm_mem_fasync(p, m)
      PROVE  OpInv'
  BY <1>3 DEF lkm_mem_fasync
<1>4. ASSUME NEW p \in Procs, NEW c \in owner.requests[p], Enter(p, c)
      PROVE  OpInv'
  BY <1>4 DEF Enter
<1>5. ASSUME NEW p \in Procs, Signal(p)
      PROVE  OpInv'
  BY <1>5 DEF Signal, Signalled, Runnable, InCall
<1>6. ASSUME NEW p \in Procs, Lock(p)
      PROVE  OpInv'
  BY <1>6 DEF Lock, mutex_lock, Linked
<1>7. ASSUME NEW p \in Procs, NEW q \in Procs, WouldBlock(p, q)
      PROVE  OpInv'
  BY <1>7 DEF WouldBlock, Full, Kill, Signalled, Runnable, InCall
<1>8. ASSUME NEW p \in Procs, NEW q \in Procs, Sleep(p, q)
      PROVE  OpInv'
  BY <1>8 DEF Sleep, Signalled, Runnable, InCall, mutex_unlock
<1>9. ASSUME NEW p \in Procs, Schedule(p)
      PROVE  OpInv'
  BY <1>9 DEF Schedule, Runnable
<1>10. ASSUME NEW p \in Procs, Relock(p)
       PROVE  OpInv'
  BY <1>10 DEF Relock, mutex_lock
<1>11. ASSUME NEW p \in Procs, Clip(p)
       PROVE  OpInv'
  BY <1>11 DEF Clip
<1>12. ASSUME NEW p \in Procs, ReadCopy(p)
       PROVE  OpInv'
  <2>1. /\ pc[p] = "copy"
        /\ UNCHANGED <<sync, opened, owner, fasync, len, call, cnt, last>>
        /\ \E l \in {"exit", "update"} : pc' = [pc EXCEPT ![p] = l]
    BY <1>12 DEF ReadCopy, Fault, device
  <2>2. QED
    BY <2>1
<1>13. ASSUME NEW p \in Procs, WriteCopy(p)
       PROVE  OpInv'
  <2>1. /\ pc[p] = "copy"
        /\ UNCHANGED <<sync, opened, owner, fasync, len, call, cnt, last>>
        /\ \E l \in {"exit", "update"} : pc' = [pc EXCEPT ![p] = l]
    BY <1>13 DEF WriteCopy, Fault, device
  <2>2. QED
    BY <2>1
<1>14. ASSUME NEW p \in Procs, ReadUpdate(p)
       PROVE  OpInv'
  BY <1>14 DEF ReadUpdate, Moved
<1>15. ASSUME NEW p \in Procs, WriteUpdate(p)
       PROVE  OpInv'
  BY <1>15 DEF WriteUpdate, Moved
<1>16. ASSUME NEW p \in Procs, Wake(p)
       PROVE  OpInv'
  BY <1>16 DEF Wake, Runnable
<1>17. ASSUME NEW p \in Procs, NEW q \in Procs, Notify(p, q)
       PROVE  OpInv'
  BY <1>17 DEF Notify, Kill, Signalled, Runnable, InCall
<1>18. ASSUME NEW p \in Procs, Exit(p)
       PROVE  OpInv'
  BY <1>18 DEF Exit, Runnable, Unlinked, mutex_unlock
<1>19. ASSUME NEW p \in Procs, Return(p)
       PROVE  OpInv'
  BY <1>19 DEF Return, NoCall
<1>20. ASSUME NEW p \in Procs, lkm_mem_poll(p)
       PROVE  OpInv'
  BY <1>20 DEF lkm_mem_poll, Interruptible, Mask
<1>21. ASSUME NEW p \in Procs, PollSchedule(p)
       PROVE  OpInv'
  BY <1>21 DEF PollSchedule, Runnable
<1>22. ASSUME NEW p \in Procs, PollFree(p)
       PROVE  OpInv'
  BY <1>22 DEF PollFree, Unlinked, Runnable
<1>23. CASE UNCHANGED vars
  BY <1>23 DEF vars
<1>24. QED
  BY <1>1, <1>2, <1>3, <1>4, <1>5, <1>6, <1>7, <1>8, <1>9, <1>10, <1>11,
     <1>12, <1>13, <1>14, <1>15, <1>16, <1>17, <1>18, <1>19, <1>20, <1>21,
     <1>22, <1>23 DEF Next, Step, lkm_mem_read, lkm_mem_write, Shared

(* An entry is linked at the lock and unlinked on the one exit path. *)
LEMMA QueueInvStep ==
  ASSUME Driver = "component", QInv, [Next]_vars
  PROVE  QueueInv'
<1> USE OwnersAssumption DEF QInv, QType, OpInv, QueueInv, Transferring,
      Queued, LockedPcs, Polling, Heads, HeadOf, Woken, At, Goto, sync,
      device, calls
<1>1. CASE lkm_mem_open
  BY <1>1 DEF lkm_mem_open
<1>2. CASE lkm_mem_release
  BY <1>2 DEF lkm_mem_release, InCall
<1>3. ASSUME NEW p \in Procs, NEW m \in BOOLEAN, lkm_mem_fasync(p, m)
      PROVE  QueueInv'
  BY <1>3 DEF lkm_mem_fasync
<1>4. ASSUME NEW p \in Procs, NEW c \in owner.requests[p], Enter(p, c)
      PROVE  QueueInv'
  BY <1>4 DEF Enter
<1>5. ASSUME NEW p \in Procs, Signal(p)
      PROVE  QueueInv'
  BY <1>5 DEF Signal, Signalled, Runnable, InCall
<1>6. ASSUME NEW p \in Procs, Lock(p)
      PROVE  QueueInv'
  BY <1>6 DEF Lock, mutex_lock, Linked
<1>7. ASSUME NEW p \in Procs, NEW q \in Procs, WouldBlock(p, q)
      PROVE  QueueInv'
  BY <1>7 DEF WouldBlock, Full, Kill, Signalled, Runnable, InCall
<1>8. ASSUME NEW p \in Procs, NEW q \in Procs, Sleep(p, q)
      PROVE  QueueInv'
  BY <1>8 DEF Sleep, Signalled, Runnable, InCall, mutex_unlock
<1>9. ASSUME NEW p \in Procs, Schedule(p)
      PROVE  QueueInv'
  BY <1>9 DEF Schedule, Runnable
<1>10. ASSUME NEW p \in Procs, Relock(p)
       PROVE  QueueInv'
  BY <1>10 DEF Relock, mutex_lock
<1>11. ASSUME NEW p \in Procs, Clip(p)
       PROVE  QueueInv'
  BY <1>11 DEF Clip
<1>12. ASSUME NEW p \in Procs, ReadCopy(p)
       PROVE  QueueInv'
  <2>1. /\ pc[p] = "copy"
        /\ UNCHANGED <<sync, opened, owner, fasync, len, call, cnt, last>>
        /\ \E l \in {"exit", "update"} : pc' = [pc EXCEPT ![p] = l]
    BY <1>12 DEF ReadCopy, Fault, device
  <2>2. QED
    BY <2>1
<1>13. ASSUME NEW p \in Procs, WriteCopy(p)
       PROVE  QueueInv'
  <2>1. /\ pc[p] = "copy"
        /\ UNCHANGED <<sync, opened, owner, fasync, len, call, cnt, last>>
        /\ \E l \in {"exit", "update"} : pc' = [pc EXCEPT ![p] = l]
    BY <1>13 DEF WriteCopy, Fault, device
  <2>2. QED
    BY <2>1
<1>14. ASSUME NEW p \in Procs, ReadUpdate(p)
       PROVE  QueueInv'
  BY <1>14 DEF ReadUpdate, Moved
<1>15. ASSUME NEW p \in Procs, WriteUpdate(p)
       PROVE  QueueInv'
  BY <1>15 DEF WriteUpdate, Moved
<1>16. ASSUME NEW p \in Procs, Wake(p)
       PROVE  QueueInv'
  BY <1>16 DEF Wake, Runnable
<1>17. ASSUME NEW p \in Procs, NEW q \in Procs, Notify(p, q)
       PROVE  QueueInv'
  BY <1>17 DEF Notify, Kill, Signalled, Runnable, InCall
<1>18. ASSUME NEW p \in Procs, Exit(p)
       PROVE  QueueInv'
  BY <1>18 DEF Exit, Runnable, Unlinked, mutex_unlock
<1>19. ASSUME NEW p \in Procs, Return(p)
       PROVE  QueueInv'
  BY <1>19 DEF Return, NoCall
<1>20. ASSUME NEW p \in Procs, lkm_mem_poll(p)
       PROVE  QueueInv'
  BY <1>20 DEF lkm_mem_poll, Interruptible, Mask
<1>21. ASSUME NEW p \in Procs, PollSchedule(p)
       PROVE  QueueInv'
  BY <1>21 DEF PollSchedule, Runnable
<1>22. ASSUME NEW p \in Procs, PollFree(p)
       PROVE  QueueInv'
  BY <1>22 DEF PollFree, Unlinked, Runnable
<1>23. CASE UNCHANGED vars
  BY <1>23 DEF vars
<1>24. QED
  BY <1>1, <1>2, <1>3, <1>4, <1>5, <1>6, <1>7, <1>8, <1>9, <1>10, <1>11,
     <1>12, <1>13, <1>14, <1>15, <1>16, <1>17, <1>18, <1>19, <1>20, <1>21,
     <1>22, <1>23 DEF Next, Step, lkm_mem_read, lkm_mem_write, Shared

(* The inductive invariant follows from the initial state *)
LEMMA InitQInv == Init => QInv
<1> SUFFICES ASSUME Init PROVE QInv
  OBVIOUS
<1>1. NoCall \in CallRecs
  BY DEF NoCall, CallRecs
<1>2. QType
  BY <1>1 DEF Init, SyncInit, QType, Pcs
<1>3. OpInv /\ QueueInv
  BY DEF Init, SyncInit, OpInv, QueueInv, Transferring, Queued, LockedPcs,
         Polling
<1>4. QED
  BY <1>2, <1>3 DEF QInv

(* The wait queues of component/hello.c, whoever opens it. *)
THEOREM QueueInvariance ==
  ASSUME Driver = "component"
  PROVE  Spec => []QInv
<1>1. Init => QInv
  BY InitQInv
<1>2. QInv /\ [Next]_vars => QInv'
  BY QTypeStep, OpInvStep, QueueInvStep DEF QInv
<1>3. QED
  BY <1>1, <1>2, PTL DEF Spec

(* The entry of a call that has returned is on no list, also after a       *)
(* signal, a fault or a refusal.                                           *)
THEOREM NoDanglingEntryHolds ==
  ASSUME Driver = "component"
  PROVE  Spec => []NoDanglingEntry
<1>1. QInv => NoDanglingEntry
  BY DEF QInv, QueueInv, NoDanglingEntry
<1>2. QED
  BY QueueInvariance, <1>1, PTL

-----------------------------------------------------------------------------
(* A function on 1 .. n is a sequence of length n: the buffer a copy fills. *)
LEMMA SeqOf ==
  ASSUME NEW S, NEW n \in Nat, NEW f \in [1 .. n -> S]
  PROVE  f \in Seq(S) /\ Len(f) = n
OBVIOUS

(* The capacity is a positive number that dev->len can hold. *)
LEMMA SizeWithin ==
  /\ Size \in Nat \ {0}
  /\ UshortMax \in Nat
  /\ Size <= UshortMax
<1>1. UshortMax \in Nat
  BY DEF UshortMax
<1>2. QED
  BY <1>1, SizeAssumption

(* What fits a counter does not wrap. *)
LEMMA Unwrapped ==
  ASSUME NEW n \in Nat, NEW m \in Nat, n < m
  PROVE  n % m = n
OBVIOUS

(* A length that dev->len can hold and that is within the capacity. *)
LEMMA LenWithin == TypeOK /\ len <= Size => len \in 0 .. Size
<1>1. TypeOK => len \in 0 .. UshortMax
  BY DEF TypeOK
<1>2. QED
  BY <1>1, SizeWithin

(* The clipped count is within the capacity. *)
LEMMA ClipType ==
  ASSUME TypeOK, len <= Size, NEW p \in Procs, Clip(p)
  PROVE  cnt' \in [Procs -> 0 .. Size]
<1>1. call[p] \in CallRecs /\ len \in 0 .. Size
  BY LenWithin DEF TypeOK
<1>2. call[p].count \in Nat
  BY <1>1 DEF CallRecs
<1>3. Movable(call[p].op) \in 0 .. Size
  BY <1>1, SizeWithin DEF Movable
<1> DEFINE n == IF call[p].count > Movable(call[p].op)
                THEN Movable(call[p].op) ELSE call[p].count
<1>4. n \in 0 .. Size
  BY <1>2, <1>3, SizeWithin
<1>5. cnt' = [cnt EXCEPT ![p] = n] /\ cnt \in [Procs -> 0 .. Size]
  BY DEF Clip, TypeOK
<1>6. QED
  BY <1>4, <1>5

(* What read copies out of the memory is a sequence of bytes. *)
LEMMA CopyType ==
  ASSUME TypeOK, NEW p \in Procs
  PROVE  [i \in 1 .. cnt[p] |-> memory[i]] \in Seq(Bytes)
<1>1. cnt[p] \in 0 .. Size /\ memory \in [1 .. Size -> Bytes]
  BY DEF TypeOK
<1>2. [i \in 1 .. cnt[p] |-> memory[i]] \in [1 .. cnt[p] -> Bytes]
  BY <1>1, SizeWithin
<1>3. QED
  BY <1>1, <1>2, SeqOf, SizeWithin

(* What write stores keeps the memory an array of bytes. *)
LEMMA StoredType ==
  ASSUME TypeOK, NEW n \in 0 .. Size, NEW d \in [1 .. n -> Bytes],
         NEW k \in 0 .. n
  PROVE  Stored(d, k) \in [1 .. Size -> Bytes]
<1>1. Len(d) = n
  BY SeqOf, SizeWithin
<1>2. len \in Nat /\ memory \in [1 .. Size -> Bytes]
  BY DEF TypeOK
<1>3. QED
  BY <1>1, <1>2, BytesAssumption, SizeWithin DEF Stored

(* So does moving the bytes that stay to the front. *)
LEMMA ShiftedType ==
  ASSUME TypeOK, len <= Size, NEW n \in 0 .. len
  PROVE  Shifted(n) \in [1 .. Size -> Bytes]
<1>1. len \in 0 .. Size /\ memory \in [1 .. Size -> Bytes]
  BY LenWithin DEF TypeOK
<1>2. QED
  BY <1>1, SizeWithin DEF Shifted

(* At the update the count fits: the ushort dev->len neither wraps nor     *)
(* overflows.                                                              *)
LEMMA UpdateFits ==
  ASSUME TypeOK, CopyInv, NEW p \in Procs, pc[p] = "update"
  PROVE  /\ call[p].op = "read" =>
              /\ cnt[p] \in 0 .. len
              /\ (len - cnt[p]) % (UshortMax + 1) = len - cnt[p]
              /\ len - cnt[p] \in 0 .. Size
         /\ call[p].op = "write" =>
              /\ cnt[p] \in 0 .. Size - len
              /\ (len + cnt[p]) % (UshortMax + 1) = len + cnt[p]
              /\ len + cnt[p] \in 0 .. Size
<1>1. len \in 0 .. Size /\ cnt[p] \in 0 .. Size
  BY LenWithin DEF TypeOK, CopyInv
<1>2. cnt[p] <= Movable(call[p].op)
  BY DEF CopyInv
<1>3. ASSUME NEW n \in 0 .. Size
      PROVE  n % (UshortMax + 1) = n
  <2>1. n \in Nat /\ UshortMax + 1 \in Nat /\ n < UshortMax + 1
    BY SizeWithin
  <2>2. QED
    BY <2>1, Unwrapped
<1>4. /\ call[p].op = "read" =>
           cnt[p] \in 0 .. len /\ len - cnt[p] \in 0 .. Size
      /\ call[p].op = "write" =>
           cnt[p] \in 0 .. Size - len /\ len + cnt[p] \in 0 .. Size
  BY <1>1, <1>2, SizeWithin DEF Movable
<1>5. QED
  BY <1>3, <1>4

(* Every step keeps the types; the counts and lengths need CopyInv. *)
LEMMA TypeOKStep ==
  ASSUME IInv, [Next]_vars
  PROVE  TypeOK'
<1> USE NoProcAssumption, SizeWithin, BytesAssumption, OwnersAssumption,
      DriverAssumption DEF IInv, TypeOK, SyncType, TaskStates, Heads,
      OwnerType, Pcs, LockedPcs, At, Goto, sync, device, calls
<1>1. CASE lkm_mem_open
  BY <1>1 DEF lkm_mem_open
<1>2. CASE lkm_mem_release
  BY <1>2 DEF lkm_mem_release, InCall
<1>3. ASSUME NEW p \in Procs, NEW m \in BOOLEAN, lkm_mem_fasync(p, m)
      PROVE  TypeOK'
  BY <1>3 DEF lkm_mem_fasync
<1>4. ASSUME NEW p \in Procs, NEW c \in owner.requests[p], Enter(p, c)
      PROVE  TypeOK'
  BY <1>4 DEF Enter
<1>5. ASSUME NEW p \in Procs, Signal(p)
      PROVE  TypeOK'
  BY <1>5 DEF Signal, Signalled, Runnable, InCall
<1>6. ASSUME NEW p \in Procs, Lock(p)
      PROVE  TypeOK'
  BY <1>6 DEF Lock, mutex_lock, Linked
<1>7. ASSUME NEW p \in Procs, NEW q \in Procs, WouldBlock(p, q)
      PROVE  TypeOK'
  <2>1. sig' \in [Procs -> BOOLEAN] /\ task' \in [Procs -> TaskStates]
    <3>1. \/ sig' = Signalled({q}) /\ task' = Runnable({q})
          \/ UNCHANGED <<sig, task>>
      BY <1>7 DEF WouldBlock, Full, Kill
    <3>2. Signalled({q}) \in [Procs -> BOOLEAN]
      BY DEF Signalled
    <3>3. Runnable({q}) \in [Procs -> TaskStates]
      BY DEF Runnable
    <3>4. QED
      BY <3>1, <3>2, <3>3
  <2>2. QED
    BY <1>7, <2>1 DEF WouldBlock
<1>8. ASSUME NEW p \in Procs, NEW q \in Procs, Sleep(p, q)
      PROVE  TypeOK'
  BY <1>8 DEF Sleep, Signalled, Runnable, InCall, mutex_unlock
<1>9. ASSUME NEW p \in Procs, Schedule(p)
      PROVE  TypeOK'
  BY <1>9 DEF Schedule, Runnable
<1>10. ASSUME NEW p \in Procs, Relock(p)
       PROVE  TypeOK'
  BY <1>10 DEF Relock, mutex_lock
<1>11. ASSUME NEW p \in Procs, Clip(p)
       PROVE  TypeOK'
  <2>1. cnt' \in [Procs -> 0 .. Size]
    BY <1>11, ClipType DEF CopyInv
  <2>2. QED
    BY <1>11, <2>1 DEF Clip
<1>12. ASSUME NEW p \in Procs, ReadCopy(p)
       PROVE  TypeOK'
  <2>1. CASE Fault(p)
    BY <1>12, <2>1 DEF ReadCopy, Fault
  <2>2. CASE /\ buf' = [buf EXCEPT ![p] = [i \in 1 .. cnt[p] |-> memory[i]]]
             /\ Goto(p, "update")
             /\ UNCHANGED ret
    BY <1>12, <2>2, CopyType DEF ReadCopy
  <2>3. QED
    BY <1>12, <2>1, <2>2 DEF ReadCopy
<1>13. ASSUME NEW p \in Procs, WriteCopy(p)
       PROVE  TypeOK'
  <2>1. cnt[p] \in 0 .. Size /\ cnt[p] \in Nat
    BY SizeWithin
  <2>2. ASSUME NEW d \in [1 .. cnt[p] -> Bytes], NEW k \in 0 .. cnt[p]
        PROVE  Stored(d, k) \in [1 .. Size -> Bytes] /\ d \in Seq(Bytes)
    BY <2>1, SeqOf, StoredType
  <2>3. ASSUME NEW d \in [1 .. cnt[p] -> Bytes], NEW k \in 0 .. cnt[p] - 1,
               memory' = Stored(d, k), Fault(p)
        PROVE  TypeOK'
    <3>1. k \in 0 .. cnt[p]
      BY <2>1
    <3>2. memory' \in [1 .. Size -> Bytes]
      BY <2>2, <2>3, <3>1
    <3>3. QED
      BY <1>13, <2>3, <3>2 DEF WriteCopy, Fault
  <2>4. ASSUME NEW d \in [1 .. cnt[p] -> Bytes],
               memory' = Stored(d, cnt[p]),
               buf' = [buf EXCEPT ![p] = d],
               Goto(p, "update"),
               UNCHANGED ret
        PROVE  TypeOK'
    <3>1. cnt[p] \in 0 .. cnt[p]
      BY <2>1
    <3>2. memory' \in [1 .. Size -> Bytes] /\ d \in Seq(Bytes)
      BY <2>2, <2>4, <3>1
    <3>3. buf' \in [Procs -> Seq(Bytes)]
      BY <2>4, <3>2
    <3>4. QED
      BY <1>13, <2>4, <3>2, <3>3 DEF WriteCopy
  <2>5. QED
    BY <1>13, <2>3, <2>4 DEF WriteCopy
<1>14. ASSUME NEW p \in Procs, ReadUpdate(p)
       PROVE  TypeOK'
  <2>1. /\ Shifted(cnt[p]) \in [1 .. Size -> Bytes]
        /\ (len - cnt[p]) % (UshortMax + 1) \in 0 .. Size
    <3>1. pc[p] = "update" /\ call[p].op = "read" /\ CopyInv /\ len <= Size
      BY <1>14 DEF ReadUpdate, CopyInv
    <3>2. /\ cnt[p] \in 0 .. len
          /\ (len - cnt[p]) % (UshortMax + 1) \in 0 .. Size
      BY <3>1, UpdateFits
    <3>3. QED
      BY <3>1, <3>2, ShiftedType
  <2>2. memory' \in [1 .. Size -> Bytes] /\ len' \in 0 .. UshortMax
    BY <1>14, <2>1 DEF ReadUpdate
  <2>3. QED
    BY <1>14, <2>2 DEF ReadUpdate, Moved
<1>15. ASSUME NEW p \in Procs, WriteUpdate(p)
       PROVE  TypeOK'
  <2>1. (len + cnt[p]) % (UshortMax + 1) \in 0 .. Size
    BY <1>15, UpdateFits DEF WriteUpdate
  <2>2. len' \in 0 .. UshortMax
    BY <1>15, <2>1 DEF WriteUpdate
  <2>3. QED
    BY <1>15, <2>2 DEF WriteUpdate, Moved
<1>16. ASSUME NEW p \in Procs, Wake(p)
       PROVE  TypeOK'
  BY <1>16 DEF Wake, Runnable
<1>17. ASSUME NEW p \in Procs, NEW q \in Procs, Notify(p, q)
       PROVE  TypeOK'
  BY <1>17 DEF Notify, Kill, Signalled, Runnable, InCall
<1>18. ASSUME NEW p \in Procs, Exit(p)
       PROVE  TypeOK'
  BY <1>18 DEF Exit, Runnable, Unlinked, mutex_unlock
<1>19. ASSUME NEW p \in Procs, Return(p)
       PROVE  TypeOK'
  <2>1. NoCall \in CallRecs /\ <<>> \in Seq(Bytes)
    BY DEF NoCall, CallRecs
  <2>2. /\ call' \in [Procs -> CallRecs]
        /\ buf' \in [Procs -> Seq(Bytes)]
        /\ last' \in [Procs -> Seq(Bytes)]
    BY <1>19, <2>1 DEF Return
  <2>3. QED
    BY <1>19, <2>2 DEF Return
<1>20. ASSUME NEW p \in Procs, lkm_mem_poll(p)
       PROVE  TypeOK'
  BY <1>20 DEF lkm_mem_poll, Interruptible, Mask
<1>21. ASSUME NEW p \in Procs, PollSchedule(p)
       PROVE  TypeOK'
  BY <1>21 DEF PollSchedule, Runnable
<1>22. ASSUME NEW p \in Procs, PollFree(p)
       PROVE  TypeOK'
  BY <1>22 DEF PollFree, Unlinked, Runnable
<1>23. CASE UNCHANGED vars
  BY <1>23 DEF vars
<1> HIDE DEF TypeOK, IInv
<1>24. QED
  BY <1>1, <1>2, <1>3, <1>4, <1>5, <1>6, <1>7, <1>8, <1>9, <1>10, <1>11,
     <1>12, <1>13, <1>14, <1>15, <1>16, <1>17, <1>18, <1>19, <1>20, <1>21,
     <1>22, <1>23 DEF Next, Step, lkm_mem_read, lkm_mem_write, Shared

(* The mutex has one owner: it is taken only when free, and as no signal *)
(* ends a sleep only its owner leaves the locked statements and the exit *)
(* path.                                                                 *)
LEMMA MutexInvStep ==
  ASSUME NoSignalledSleep, IInv, [Next]_vars
  PROVE  MutexInv'
<1> USE NoProcAssumption, OwnersAssumption DEF NoSignalledSleep, IInv, TypeOK,
      SyncType, MutexInv, SignalInv, LockedPcs, At, Goto, sync, device, calls
<1>1. CASE lkm_mem_open
  BY <1>1 DEF lkm_mem_open
<1>2. CASE lkm_mem_release
  BY <1>2 DEF lkm_mem_release, InCall
<1>3. ASSUME NEW p \in Procs, NEW m \in BOOLEAN, lkm_mem_fasync(p, m)
      PROVE  MutexInv'
  BY <1>3 DEF lkm_mem_fasync
<1>4. ASSUME NEW p \in Procs, NEW c \in owner.requests[p], Enter(p, c)
      PROVE  MutexInv'
  BY <1>4 DEF Enter
<1>5. ASSUME NEW p \in Procs, Signal(p)
      PROVE  MutexInv'
  BY <1>5 DEF Signal, Signalled, Runnable, InCall
<1>6. ASSUME NEW p \in Procs, Lock(p)
      PROVE  MutexInv'
  BY <1>6 DEF Lock, mutex_lock, Linked
<1>7. ASSUME NEW p \in Procs, NEW q \in Procs, WouldBlock(p, q)
      PROVE  MutexInv'
  BY <1>7 DEF WouldBlock, Full, Kill, Signalled, Runnable, InCall
<1>8. ASSUME NEW p \in Procs, NEW q \in Procs, Sleep(p, q)
      PROVE  MutexInv'
  BY <1>8 DEF Sleep, Signalled, Runnable, InCall, mutex_unlock
<1>9. ASSUME NEW p \in Procs, Schedule(p)
      PROVE  MutexInv'
  BY <1>9 DEF Schedule, Runnable
<1>10. ASSUME NEW p \in Procs, Relock(p)
       PROVE  MutexInv'
  BY <1>10 DEF Relock, mutex_lock
<1>11. ASSUME NEW p \in Procs, Clip(p)
       PROVE  MutexInv'
  BY <1>11 DEF Clip
<1>12. ASSUME NEW p \in Procs, ReadCopy(p)
       PROVE  MutexInv'
  <2>1. /\ pc[p] = "copy"
        /\ UNCHANGED <<sync, opened, owner, fasync, len, call, cnt, last>>
        /\ \E l \in {"exit", "update"} : pc' = [pc EXCEPT ![p] = l]
    BY <1>12 DEF ReadCopy, Fault, device
  <2>2. QED
    BY <2>1
<1>13. ASSUME NEW p \in Procs, WriteCopy(p)
       PROVE  MutexInv'
  <2>1. /\ pc[p] = "copy"
        /\ UNCHANGED <<sync, opened, owner, fasync, len, call, cnt, last>>
        /\ \E l \in {"exit", "update"} : pc' = [pc EXCEPT ![p] = l]
    BY <1>13 DEF WriteCopy, Fault, device
  <2>2. QED
    BY <2>1
<1>14. ASSUME NEW p \in Procs, ReadUpdate(p)
       PROVE  MutexInv'
  BY <1>14 DEF ReadUpdate, Moved
<1>15. ASSUME NEW p \in Procs, WriteUpdate(p)
       PROVE  MutexInv'
  BY <1>15 DEF WriteUpdate, Moved
<1>16. ASSUME NEW p \in Procs, Wake(p)
       PROVE  MutexInv'
  BY <1>16 DEF Wake, Runnable
<1>17. ASSUME NEW p \in Procs, NEW q \in Procs, Notify(p, q)
       PROVE  MutexInv'
  BY <1>17 DEF Notify, Kill, Signalled, Runnable, InCall
<1>18. ASSUME NEW p \in Procs, Exit(p)
       PROVE  MutexInv'
  BY <1>18 DEF Exit, Runnable, Unlinked, mutex_unlock
<1>19. ASSUME NEW p \in Procs, Return(p)
       PROVE  MutexInv'
  BY <1>19 DEF Return, NoCall
<1>20. ASSUME NEW p \in Procs, lkm_mem_poll(p)
       PROVE  MutexInv'
  BY <1>20 DEF lkm_mem_poll, Interruptible, Mask
<1>21. ASSUME NEW p \in Procs, PollSchedule(p)
       PROVE  MutexInv'
  BY <1>21 DEF PollSchedule, Runnable
<1>22. ASSUME NEW p \in Procs, PollFree(p)
       PROVE  MutexInv'
  BY <1>22 DEF PollFree, Unlinked, Runnable
<1>23. CASE UNCHANGED vars
  BY <1>23 DEF vars
<1>24. QED
  BY <1>1, <1>2, <1>3, <1>4, <1>5, <1>6, <1>7, <1>8, <1>9, <1>10, <1>11,
     <1>12, <1>13, <1>14, <1>15, <1>16, <1>17, <1>18, <1>19, <1>20, <1>21,
     <1>22, <1>23 DEF Next, Step, lkm_mem_read, lkm_mem_write, Shared

(* Calls are made on the open file. *)
LEMMA FilesInvStep ==
  ASSUME IInv, [Next]_vars
  PROVE  FilesInv'
<1> USE DEF IInv, TypeOK, SyncType, FilesInv, At, Goto, sync, device, calls
<1>1. CASE lkm_mem_open
  BY <1>1 DEF lkm_mem_open
<1>2. CASE lkm_mem_release
  BY <1>2 DEF lkm_mem_release, InCall
<1>3. ASSUME NEW p \in Procs, NEW m \in BOOLEAN, lkm_mem_fasync(p, m)
      PROVE  FilesInv'
  BY <1>3 DEF lkm_mem_fasync
<1>4. ASSUME NEW p \in Procs, NEW c \in owner.requests[p], Enter(p, c)
      PROVE  FilesInv'
  BY <1>4 DEF Enter
<1>5. ASSUME NEW p \in Procs, Signal(p)
      PROVE  FilesInv'
  BY <1>5 DEF Signal, Signalled, Runnable, InCall
<1>6. ASSUME NEW p \in Procs, Lock(p)
      PROVE  FilesInv'
  BY <1>6 DEF Lock, mutex_lock, Linked
<1>7. ASSUME NEW p \in Procs, NEW q \in Procs, WouldBlock(p, q)
      PROVE  FilesInv'
  BY <1>7 DEF WouldBlock, Full, Kill, Signalled, Runnable, InCall
<1>8. ASSUME NEW p \in Procs, NEW q \in Procs, Sleep(p, q)
      PROVE  FilesInv'
  BY <1>8 DEF Sleep, Signalled, Runnable, InCall, mutex_unlock
<1>9. ASSUME NEW p \in Procs, Schedule(p)
      PROVE  FilesInv'
  BY <1>9 DEF Schedule, Runnable
<1>10. ASSUME NEW p \in Procs, Relock(p)
       PROVE  FilesInv'
  BY <1>10 DEF Relock, mutex_lock
<1>11. ASSUME NEW p \in Procs, Clip(p)
       PROVE  FilesInv'
  BY <1>11 DEF Clip
<1>12. ASSUME NEW p \in Procs, ReadCopy(p)
       PROVE  FilesInv'
  <2>1. /\ pc[p] = "copy"
        /\ UNCHANGED <<sync, opened, owner, fasync, len, call, cnt, last>>
        /\ \E l \in {"exit", "update"} : pc' = [pc EXCEPT ![p] = l]
    BY <1>12 DEF ReadCopy, Fault, device
  <2>2. QED
    BY <2>1
<1>13. ASSUME NEW p \in Procs, WriteCopy(p)
       PROVE  FilesInv'
  <2>1. /\ pc[p] = "copy"
        /\ UNCHANGED <<sync, opened, owner, fasync, len, call, cnt, last>>
        /\ \E l \in {"exit", "update"} : pc' = [pc EXCEPT ![p] = l]
    BY <1>13 DEF WriteCopy, Fault, device
  <2>2. QED
    BY <2>1
<1>14. ASSUME NEW p \in Procs, ReadUpdate(p)
       PROVE  FilesInv'
  BY <1>14 DEF ReadUpdate, Moved
<1>15. ASSUME NEW p \in Procs, WriteUpdate(p)
       PROVE  FilesInv'
  BY <1>15 DEF WriteUpdate, Moved
<1>16. ASSUME NEW p \in Procs, Wake(p)
       PROVE  FilesInv'
  BY <1>16 DEF Wake, Runnable
<1>17. ASSUME NEW p \in Procs, NEW q \in Procs, Notify(p, q)
       PROVE  FilesInv'
  BY <1>17 DEF Notify, Kill, Signalled, Runnable, InCall
<1>18. ASSUME NEW p \in Procs, Exit(p)
       PROVE  FilesInv'
  BY <1>18 DEF Exit, Runnable, Unlinked, mutex_unlock
<1>19. ASSUME NEW p \in Procs, Return(p)
       PROVE  FilesInv'
  BY <1>19 DEF Return, NoCall
<1>20. ASSUME NEW p \in Procs, lkm_mem_poll(p)
       PROVE  FilesInv'
  BY <1>20 DEF lkm_mem_poll, Interruptible, Mask
<1>21. ASSUME NEW p \in Procs, PollSchedule(p)
       PROVE  FilesInv'
  BY <1>21 DEF PollSchedule, Runnable
<1>22. ASSUME NEW p \in Procs, PollFree(p)
       PROVE  FilesInv'
  BY <1>22 DEF PollFree, Unlinked, Runnable
<1>23. CASE UNCHANGED vars
  BY <1>23 DEF vars
<1>24. QED
  BY <1>1, <1>2, <1>3, <1>4, <1>5, <1>6, <1>7, <1>8, <1>9, <1>10, <1>11,
     <1>12, <1>13, <1>14, <1>15, <1>16, <1>17, <1>18, <1>19, <1>20, <1>21,
     <1>22, <1>23 DEF Next, Step, lkm_mem_read, lkm_mem_write, Shared

(* A program that signals can reach does not sleep in a read or write. *)
LEMMA SignalInvStep ==
  ASSUME NoSignalledSleep, IInv, [Next]_vars
  PROVE  SignalInv'
<1> USE OwnersAssumption DEF NoSignalledSleep, IInv, TypeOK, SyncType,
      FilesInv, SignalInv, OwnerType, At, Goto, sync, device, calls
<1>1. CASE lkm_mem_open
  BY <1>1 DEF lkm_mem_open
<1>2. CASE lkm_mem_release
  BY <1>2 DEF lkm_mem_release, InCall
<1>3. ASSUME NEW p \in Procs, NEW m \in BOOLEAN, lkm_mem_fasync(p, m)
      PROVE  SignalInv'
  BY <1>3 DEF lkm_mem_fasync
<1>4. ASSUME NEW p \in Procs, NEW c \in owner.requests[p], Enter(p, c)
      PROVE  SignalInv'
  BY <1>4 DEF Enter
<1>5. ASSUME NEW p \in Procs, Signal(p)
      PROVE  SignalInv'
  BY <1>5 DEF Signal, Signalled, Runnable, InCall
<1>6. ASSUME NEW p \in Procs, Lock(p)
      PROVE  SignalInv'
  BY <1>6 DEF Lock, mutex_lock, Linked
<1>7. ASSUME NEW p \in Procs, NEW q \in Procs, WouldBlock(p, q)
      PROVE  SignalInv'
  BY <1>7 DEF WouldBlock, Full, Kill, Signalled, Runnable, InCall
<1>8. ASSUME NEW p \in Procs, NEW q \in Procs, Sleep(p, q)
      PROVE  SignalInv'
  BY <1>8 DEF Sleep, Signalled, Runnable, InCall, mutex_unlock
<1>9. ASSUME NEW p \in Procs, Schedule(p)
      PROVE  SignalInv'
  BY <1>9 DEF Schedule, Runnable
<1>10. ASSUME NEW p \in Procs, Relock(p)
       PROVE  SignalInv'
  BY <1>10 DEF Relock, mutex_lock
<1>11. ASSUME NEW p \in Procs, Clip(p)
       PROVE  SignalInv'
  BY <1>11 DEF Clip
<1>12. ASSUME NEW p \in Procs, ReadCopy(p)
       PROVE  SignalInv'
  <2>1. /\ pc[p] = "copy"
        /\ UNCHANGED <<sync, opened, owner, fasync, len, call, cnt, last>>
        /\ \E l \in {"exit", "update"} : pc' = [pc EXCEPT ![p] = l]
    BY <1>12 DEF ReadCopy, Fault, device
  <2>2. QED
    BY <2>1
<1>13. ASSUME NEW p \in Procs, WriteCopy(p)
       PROVE  SignalInv'
  <2>1. /\ pc[p] = "copy"
        /\ UNCHANGED <<sync, opened, owner, fasync, len, call, cnt, last>>
        /\ \E l \in {"exit", "update"} : pc' = [pc EXCEPT ![p] = l]
    BY <1>13 DEF WriteCopy, Fault, device
  <2>2. QED
    BY <2>1
<1>14. ASSUME NEW p \in Procs, ReadUpdate(p)
       PROVE  SignalInv'
  BY <1>14 DEF ReadUpdate, Moved
<1>15. ASSUME NEW p \in Procs, WriteUpdate(p)
       PROVE  SignalInv'
  BY <1>15 DEF WriteUpdate, Moved
<1>16. ASSUME NEW p \in Procs, Wake(p)
       PROVE  SignalInv'
  BY <1>16 DEF Wake, Runnable
<1>17. ASSUME NEW p \in Procs, NEW q \in Procs, Notify(p, q)
       PROVE  SignalInv'
  BY <1>17 DEF Notify, Kill, Signalled, Runnable, InCall
<1>18. ASSUME NEW p \in Procs, Exit(p)
       PROVE  SignalInv'
  BY <1>18 DEF Exit, Runnable, Unlinked, mutex_unlock
<1>19. ASSUME NEW p \in Procs, Return(p)
       PROVE  SignalInv'
  BY <1>19 DEF Return, NoCall
<1>20. ASSUME NEW p \in Procs, lkm_mem_poll(p)
       PROVE  SignalInv'
  BY <1>20 DEF lkm_mem_poll, Interruptible, Mask
<1>21. ASSUME NEW p \in Procs, PollSchedule(p)
       PROVE  SignalInv'
  BY <1>21 DEF PollSchedule, Runnable
<1>22. ASSUME NEW p \in Procs, PollFree(p)
       PROVE  SignalInv'
  BY <1>22 DEF PollFree, Unlinked, Runnable
<1>23. CASE UNCHANGED vars
  BY <1>23 DEF vars
<1>24. QED
  BY <1>1, <1>2, <1>3, <1>4, <1>5, <1>6, <1>7, <1>8, <1>9, <1>10, <1>11,
     <1>12, <1>13, <1>14, <1>15, <1>16, <1>17, <1>18, <1>19, <1>20, <1>21,
     <1>22, <1>23 DEF Next, Step, lkm_mem_read, lkm_mem_write, Shared

(* From the clip to the update nobody else touches the device: the mutex *)
(* excludes a second thread there.                                       *)
LEMMA CopyInvStep ==
  ASSUME IInv, [Next]_vars
  PROVE  CopyInv'
<1> USE NoProcAssumption, SizeWithin DEF IInv, CopyInv, MutexInv, OpInv,
      TypeOK, SyncType, LockedPcs, Transferring, Queued, Blocked, Movable, At,
      Goto, sync, device, calls
<1>1. CASE lkm_mem_open
  BY <1>1 DEF lkm_mem_open
<1>2. CASE lkm_mem_release
  BY <1>2 DEF lkm_mem_release, InCall
<1>3. ASSUME NEW p \in Procs, NEW m \in BOOLEAN, lkm_mem_fasync(p, m)
      PROVE  CopyInv'
  BY <1>3 DEF lkm_mem_fasync
<1>4. ASSUME NEW p \in Procs, NEW c \in owner.requests[p], Enter(p, c)
      PROVE  CopyInv'
  BY <1>4 DEF Enter
<1>5. ASSUME NEW p \in Procs, Signal(p)
      PROVE  CopyInv'
  BY <1>5 DEF Signal, Signalled, Runnable, InCall
<1>6. ASSUME NEW p \in Procs, Lock(p)
      PROVE  CopyInv'
  BY <1>6 DEF Lock, mutex_lock, Linked
<1>7. ASSUME NEW p \in Procs, NEW q \in Procs, WouldBlock(p, q)
      PROVE  CopyInv'
  BY <1>7 DEF WouldBlock, Full, Kill, Signalled, Runnable, InCall
<1>8. ASSUME NEW p \in Procs, NEW q \in Procs, Sleep(p, q)
      PROVE  CopyInv'
  BY <1>8 DEF Sleep, Signalled, Runnable, InCall, mutex_unlock
<1>9. ASSUME NEW p \in Procs, Schedule(p)
      PROVE  CopyInv'
  BY <1>9 DEF Schedule, Runnable
<1>10. ASSUME NEW p \in Procs, Relock(p)
       PROVE  CopyInv'
  BY <1>10 DEF Relock, mutex_lock
<1>11. ASSUME NEW p \in Procs, Clip(p)
       PROVE  CopyInv'
  <2>1. \A q \in Procs : q # p => pc[q] \notin {"copy", "update"}
    BY <1>11 DEF Clip
  <2>2. /\ ~Blocked(call[p].op)
        /\ cnt'[p] <= Movable(call[p].op)
    BY <1>11 DEF Clip, CallRecs
  <2>3. QED
    BY <1>11, <2>1, <2>2 DEF Clip
<1>12. ASSUME NEW p \in Procs, ReadCopy(p)
       PROVE  CopyInv'
  <2>1. \A q \in Procs : q # p => pc[q] \notin {"copy", "update"}
    BY <1>12 DEF ReadCopy
  <2>2. CASE Fault(p)
    BY <1>12, <2>1, <2>2 DEF ReadCopy, Fault
  <2>3. CASE /\ buf' = [buf EXCEPT ![p] = [i \in 1 .. cnt[p] |-> memory[i]]]
             /\ Goto(p, "update")
    BY <1>12, <2>1, <2>3 DEF ReadCopy
  <2>4. QED
    BY <1>12, <2>2, <2>3 DEF ReadCopy
<1>13. ASSUME NEW p \in Procs, WriteCopy(p)
       PROVE  CopyInv'
  <2>1. \A q \in Procs : q # p => pc[q] \notin {"copy", "update"}
    BY <1>13 DEF WriteCopy
  <2>2. CASE Fault(p)
    BY <1>13, <2>1, <2>2 DEF WriteCopy, Fault
  <2>3. ASSUME NEW d \in [1 .. cnt[p] -> Bytes],
               memory' = Stored(d, cnt[p]),
               buf' = [buf EXCEPT ![p] = d],
               Goto(p, "update")
        PROVE  CopyInv'
    <3>1. Len(d) = cnt[p] /\ cnt[p] <= Size - len
      BY <1>13, SeqOf DEF WriteCopy
    <3>2. ASSUME NEW i \in 1 .. cnt[p] PROVE memory'[len + i] = d[i]
      <4> DEFINE j == len + i
      <4>1. /\ j \in 1 .. Size
            /\ j \in len + 1 .. len + Len(d)
            /\ j <= len + cnt[p]
            /\ j - len = i
        BY <3>1
      <4> HIDE DEF j
      <4>2. memory' = Stored(d, cnt[p])
        BY <2>3
      <4>3. memory'[j] = d[j - len]
        BY ONLY <4>1, <4>2 DEF Stored
      <4>4. QED
        BY <4>1, <4>3 DEF j
    <3>3. QED
      BY <1>13, <2>1, <2>3, <3>2 DEF WriteCopy
  <2>4. QED
    BY <1>13, <2>2, <2>3 DEF WriteCopy
<1>14. ASSUME NEW p \in Procs, ReadUpdate(p)
       PROVE  CopyInv'
  <2>1. \A q \in Procs : q # p => pc[q] \notin {"copy", "update"}
    BY <1>14 DEF ReadUpdate
  <2>2. len' \in 0 .. Size
    BY <1>14, UpdateFits DEF ReadUpdate
  <2>3. QED
    BY <1>14, <2>1, <2>2 DEF ReadUpdate, Moved
<1>15. ASSUME NEW p \in Procs, WriteUpdate(p)
       PROVE  CopyInv'
  <2>1. \A q \in Procs : q # p => pc[q] \notin {"copy", "update"}
    BY <1>15 DEF WriteUpdate
  <2>2. len' \in 0 .. Size
    BY <1>15, UpdateFits DEF WriteUpdate
  <2>3. QED
    BY <1>15, <2>1, <2>2 DEF WriteUpdate, Moved
<1>16. ASSUME NEW p \in Procs, Wake(p)
       PROVE  CopyInv'
  BY <1>16 DEF Wake, Runnable
<1>17. ASSUME NEW p \in Procs, NEW q \in Procs, Notify(p, q)
       PROVE  CopyInv'
  BY <1>17 DEF Notify, Kill, Signalled, Runnable, InCall
<1>18. ASSUME NEW p \in Procs, Exit(p)
       PROVE  CopyInv'
  BY <1>18 DEF Exit, Runnable, Unlinked, mutex_unlock
<1>19. ASSUME NEW p \in Procs, Return(p)
       PROVE  CopyInv'
  BY <1>19 DEF Return, NoCall
<1>20. ASSUME NEW p \in Procs, lkm_mem_poll(p)
       PROVE  CopyInv'
  BY <1>20 DEF lkm_mem_poll, Interruptible, Mask
<1>21. ASSUME NEW p \in Procs, PollSchedule(p)
       PROVE  CopyInv'
  BY <1>21 DEF PollSchedule, Runnable
<1>22. ASSUME NEW p \in Procs, PollFree(p)
       PROVE  CopyInv'
  BY <1>22 DEF PollFree, Unlinked, Runnable
<1>23. CASE UNCHANGED vars
  BY <1>23 DEF vars
<1> HIDE DEF IInv, CopyInv, TypeOK
<1>24. QED
  BY <1>1, <1>2, <1>3, <1>4, <1>5, <1>6, <1>7, <1>8, <1>9, <1>10, <1>11,
     <1>12, <1>13, <1>14, <1>15, <1>16, <1>17, <1>18, <1>19, <1>20, <1>21,
     <1>22, <1>23 DEF Next, Step, lkm_mem_read, lkm_mem_write, Shared

(* The test and the sleep are under the mutex, and so are the update and *)
(* the wake-up that follows it: no reader falls asleep in between.       *)
LEMMA ReaderWakeInvStep ==
  ASSUME IInv, [Next]_vars
  PROVE  ReaderWakeInv'
<1> USE NoProcAssumption, SizeWithin DEF IInv, ReaderWakeInv, Waking, Asleep,
      MutexInv, OpInv, QueueInv, CopyInv, TypeOK, SyncType, LockedPcs,
      Transferring, Polling, Queued, Heads, HeadOf, Woken, At, Goto, sync,
      device, calls
<1>1. CASE lkm_mem_open
  BY <1>1 DEF lkm_mem_open
<1>2. CASE lkm_mem_release
  BY <1>2 DEF lkm_mem_release, InCall
<1>3. ASSUME NEW p \in Procs, NEW m \in BOOLEAN, lkm_mem_fasync(p, m)
      PROVE  ReaderWakeInv'
  BY <1>3 DEF lkm_mem_fasync
<1>4. ASSUME NEW p \in Procs, NEW c \in owner.requests[p], Enter(p, c)
      PROVE  ReaderWakeInv'
  BY <1>4 DEF Enter
<1>5. ASSUME NEW p \in Procs, Signal(p)
      PROVE  ReaderWakeInv'
  BY <1>5 DEF Signal, Signalled, Runnable, InCall
<1>6. ASSUME NEW p \in Procs, Lock(p)
      PROVE  ReaderWakeInv'
  BY <1>6 DEF Lock, mutex_lock, Linked
<1>7. ASSUME NEW p \in Procs, NEW q \in Procs, WouldBlock(p, q)
      PROVE  ReaderWakeInv'
  BY <1>7 DEF WouldBlock, Full, Kill, Signalled, Runnable, InCall
<1>8. ASSUME NEW p \in Procs, NEW q \in Procs, Sleep(p, q)
      PROVE  ReaderWakeInv'
  <2>1. mutex = p /\ ~Waking("write")
    BY <1>8 DEF Sleep
  <2>2. SUFFICES ASSUME len > 0, NEW r \in Procs
                 PROVE  ~(Asleep(r) /\ call[r].op \in {"read", "pollin"})'
    BY <1>8 DEF Sleep
  <2>3. ~(Asleep(r) /\ call[r].op \in {"read", "pollin"})
    BY <2>1, <2>2
  <2>4. CASE r = p
    BY <1>8, <2>2, <2>4 DEF Sleep, Blocked
  <2>5. CASE r # p
    BY <1>8, <2>3, <2>5 DEF Sleep, Runnable
  <2>6. QED
    BY <2>4, <2>5
<1>9. ASSUME NEW p \in Procs, Schedule(p)
      PROVE  ReaderWakeInv'
  BY <1>9 DEF Schedule, Runnable
<1>10. ASSUME NEW p \in Procs, Relock(p)
       PROVE  ReaderWakeInv'
  BY <1>10 DEF Relock, mutex_lock
<1>11. ASSUME NEW p \in Procs, Clip(p)
       PROVE  ReaderWakeInv'
  BY <1>11 DEF Clip
<1>12. ASSUME NEW p \in Procs, ReadCopy(p)
       PROVE  ReaderWakeInv'
  <2>1. /\ pc[p] = "copy"
        /\ UNCHANGED <<sync, opened, owner, fasync, len, call, cnt, last>>
        /\ \E l \in {"exit", "update"} : pc' = [pc EXCEPT ![p] = l]
    BY <1>12 DEF ReadCopy, Fault, device
  <2>2. QED
    BY <2>1
<1>13. ASSUME NEW p \in Procs, WriteCopy(p)
       PROVE  ReaderWakeInv'
  <2>1. /\ pc[p] = "copy"
        /\ UNCHANGED <<sync, opened, owner, fasync, len, call, cnt, last>>
        /\ \E l \in {"exit", "update"} : pc' = [pc EXCEPT ![p] = l]
    BY <1>13 DEF WriteCopy, Fault, device
  <2>2. QED
    BY <2>1
<1>14. ASSUME NEW p \in Procs, ReadUpdate(p)
       PROVE  ReaderWakeInv'
  <2>1. /\ mutex = p /\ pc[p] = "update" /\ cnt[p] \in 0 .. Size
        /\ len' = len - cnt[p]
        /\ UNCHANGED <<sync, call>>
        /\ pc' = [pc EXCEPT ![p] = "wake"]
    BY <1>14, UpdateFits DEF ReadUpdate, Moved
  <2>2. len' > 0 => len > 0
    BY <2>1
  <2>3. len > 0 =>
          \A r \in Procs : ~(Asleep(r) /\ call[r].op \in {"read", "pollin"})
    BY <2>1
  <2>4. \A r \in Procs : (Asleep(r) /\ call[r].op \in {"read", "pollin"})'
                           => Asleep(r) /\ call[r].op \in {"read", "pollin"}
    BY <2>1
  <2>5. QED
    BY <2>2, <2>3, <2>4
<1>15. ASSUME NEW p \in Procs, WriteUpdate(p)
       PROVE  ReaderWakeInv'
  <2>1. /\ mutex = p /\ pc[p] = "update" /\ cnt[p] \in 0 .. Size
        /\ len' = len + cnt[p]
        /\ UNCHANGED <<sync, call>>
        /\ pc' = [pc EXCEPT ![p] = "wake"]
    BY <1>15, UpdateFits DEF WriteUpdate, Moved
  <2>2. QED
    BY <1>15, <2>1 DEF WriteUpdate
<1>16. ASSUME NEW p \in Procs, Wake(p)
       PROVE  ReaderWakeInv'
  BY <1>16 DEF Wake, Runnable
<1>17. ASSUME NEW p \in Procs, NEW q \in Procs, Notify(p, q)
       PROVE  ReaderWakeInv'
  BY <1>17 DEF Notify, Kill, Signalled, Runnable, InCall
<1>18. ASSUME NEW p \in Procs, Exit(p)
       PROVE  ReaderWakeInv'
  BY <1>18 DEF Exit, Runnable, Unlinked, mutex_unlock
<1>19. ASSUME NEW p \in Procs, Return(p)
       PROVE  ReaderWakeInv'
  BY <1>19 DEF Return, NoCall
<1>20. ASSUME NEW p \in Procs, lkm_mem_poll(p)
       PROVE  ReaderWakeInv'
  BY <1>20 DEF lkm_mem_poll, Interruptible, Mask
<1>21. ASSUME NEW p \in Procs, PollSchedule(p)
       PROVE  ReaderWakeInv'
  BY <1>21 DEF PollSchedule, Runnable
<1>22. ASSUME NEW p \in Procs, PollFree(p)
       PROVE  ReaderWakeInv'
  BY <1>22 DEF PollFree, Unlinked, Runnable
<1>23. CASE UNCHANGED vars
  BY <1>23 DEF vars
<1> HIDE DEF IInv, TypeOK, ReaderWakeInv
<1>24. QED
  BY <1>1, <1>2, <1>3, <1>4, <1>5, <1>6, <1>7, <1>8, <1>9, <1>10, <1>11,
     <1>12, <1>13, <1>14, <1>15, <1>16, <1>17, <1>18, <1>19, <1>20, <1>21,
     <1>22, <1>23 DEF Next, Step, lkm_mem_read, lkm_mem_write, Shared

(* The same for writers. *)
LEMMA WriterWakeInvStep ==
  ASSUME IInv, [Next]_vars
  PROVE  WriterWakeInv'
<1> USE NoProcAssumption, SizeWithin DEF IInv, WriterWakeInv, Waking, Asleep,
      MutexInv, OpInv, QueueInv, CopyInv, TypeOK, SyncType, LockedPcs,
      Transferring, Polling, Queued, Heads, HeadOf, Woken, At, Goto, sync,
      device, calls
<1>1. CASE lkm_mem_open
  BY <1>1 DEF lkm_mem_open
<1>2. CASE lkm_mem_release
  BY <1>2 DEF lkm_mem_release, InCall
<1>3. ASSUME NEW p \in Procs, NEW m \in BOOLEAN, lkm_mem_fasync(p, m)
      PROVE  WriterWakeInv'
  BY <1>3 DEF lkm_mem_fasync
<1>4. ASSUME NEW p \in Procs, NEW c \in owner.requests[p], Enter(p, c)
      PROVE  WriterWakeInv'
  BY <1>4 DEF Enter
<1>5. ASSUME NEW p \in Procs, Signal(p)
      PROVE  WriterWakeInv'
  BY <1>5 DEF Signal, Signalled, Runnable, InCall
<1>6. ASSUME NEW p \in Procs, Lock(p)
      PROVE  WriterWakeInv'
  BY <1>6 DEF Lock, mutex_lock, Linked
<1>7. ASSUME NEW p \in Procs, NEW q \in Procs, WouldBlock(p, q)
      PROVE  WriterWakeInv'
  BY <1>7 DEF WouldBlock, Full, Kill, Signalled, Runnable, InCall
<1>8. ASSUME NEW p \in Procs, NEW q \in Procs, Sleep(p, q)
      PROVE  WriterWakeInv'
  <2>1. mutex = p /\ ~Waking("read")
    BY <1>8 DEF Sleep
  <2>2. SUFFICES ASSUME len < Size, NEW r \in Procs
                 PROVE  ~(Asleep(r) /\ call[r].op = "write")'
    BY <1>8 DEF Sleep
  <2>3. ~(Asleep(r) /\ call[r].op = "write")
    BY <2>1, <2>2
  <2>4. CASE r = p
    BY <1>8, <2>2, <2>4 DEF Sleep, Blocked
  <2>5. CASE r # p
    BY <1>8, <2>3, <2>5 DEF Sleep, Runnable
  <2>6. QED
    BY <2>4, <2>5
<1>9. ASSUME NEW p \in Procs, Schedule(p)
      PROVE  WriterWakeInv'
  BY <1>9 DEF Schedule, Runnable
<1>10. ASSUME NEW p \in Procs, Relock(p)
       PROVE  WriterWakeInv'
  BY <1>10 DEF Relock, mutex_lock
<1>11. ASSUME NEW p \in Procs, Clip(p)
       PROVE  WriterWakeInv'
  BY <1>11 DEF Clip
<1>12. ASSUME NEW p \in Procs, ReadCopy(p)
       PROVE  WriterWakeInv'
  <2>1. /\ pc[p] = "copy"
        /\ UNCHANGED <<sync, opened, owner, fasync, len, call, cnt, last>>
        /\ \E l \in {"exit", "update"} : pc' = [pc EXCEPT ![p] = l]
    BY <1>12 DEF ReadCopy, Fault, device
  <2>2. QED
    BY <2>1
<1>13. ASSUME NEW p \in Procs, WriteCopy(p)
       PROVE  WriterWakeInv'
  <2>1. /\ pc[p] = "copy"
        /\ UNCHANGED <<sync, opened, owner, fasync, len, call, cnt, last>>
        /\ \E l \in {"exit", "update"} : pc' = [pc EXCEPT ![p] = l]
    BY <1>13 DEF WriteCopy, Fault, device
  <2>2. QED
    BY <2>1
<1>14. ASSUME NEW p \in Procs, ReadUpdate(p)
       PROVE  WriterWakeInv'
  <2>1. /\ mutex = p /\ pc[p] = "update" /\ cnt[p] \in 0 .. Size
        /\ len' = len - cnt[p]
        /\ UNCHANGED <<sync, call>>
        /\ pc' = [pc EXCEPT ![p] = "wake"]
    BY <1>14, UpdateFits DEF ReadUpdate, Moved
  <2>2. QED
    BY <1>14, <2>1 DEF ReadUpdate
<1>15. ASSUME NEW p \in Procs, WriteUpdate(p)
       PROVE  WriterWakeInv'
  <2>1. /\ mutex = p /\ pc[p] = "update" /\ cnt[p] \in 0 .. Size
        /\ len' = len + cnt[p]
        /\ UNCHANGED <<sync, call>>
        /\ pc' = [pc EXCEPT ![p] = "wake"]
    BY <1>15, UpdateFits DEF WriteUpdate, Moved
  <2>2. len' < Size => len < Size
    BY <2>1
  <2>3. len < Size => \A r \in Procs : ~(Asleep(r) /\ call[r].op = "write")
    BY <2>1
  <2>4. \A r \in Procs : (Asleep(r) /\ call[r].op = "write")'
                           => Asleep(r) /\ call[r].op = "write"
    BY <2>1
  <2>5. QED
    BY <2>2, <2>3, <2>4
<1>16. ASSUME NEW p \in Procs, Wake(p)
       PROVE  WriterWakeInv'
  BY <1>16 DEF Wake, Runnable
<1>17. ASSUME NEW p \in Procs, NEW q \in Procs, Notify(p, q)
       PROVE  WriterWakeInv'
  BY <1>17 DEF Notify, Kill, Signalled, Runnable, InCall
<1>18. ASSUME NEW p \in Procs, Exit(p)
       PROVE  WriterWakeInv'
  BY <1>18 DEF Exit, Runnable, Unlinked, mutex_unlock
<1>19. ASSUME NEW p \in Procs, Return(p)
       PROVE  WriterWakeInv'
  BY <1>19 DEF Return, NoCall
<1>20. ASSUME NEW p \in Procs, lkm_mem_poll(p)
       PROVE  WriterWakeInv'
  BY <1>20 DEF lkm_mem_poll, Interruptible, Mask
<1>21. ASSUME NEW p \in Procs, PollSchedule(p)
       PROVE  WriterWakeInv'
  BY <1>21 DEF PollSchedule, Runnable
<1>22. ASSUME NEW p \in Procs, PollFree(p)
       PROVE  WriterWakeInv'
  BY <1>22 DEF PollFree, Unlinked, Runnable
<1>23. CASE UNCHANGED vars
  BY <1>23 DEF vars
<1> HIDE DEF IInv, TypeOK, WriterWakeInv
<1>24. QED
  BY <1>1, <1>2, <1>3, <1>4, <1>5, <1>6, <1>7, <1>8, <1>9, <1>10, <1>11,
     <1>12, <1>13, <1>14, <1>15, <1>16, <1>17, <1>18, <1>19, <1>20, <1>21,
     <1>22, <1>23 DEF Next, Step, lkm_mem_read, lkm_mem_write, Shared

(* ret and the bytes moved change together. *)
LEMMA ReturnInvStep ==
  ASSUME IInv, [Next]_vars
  PROVE  ReturnInv'
<1> USE SizeWithin, DriverAssumption DEF IInv, ReturnInv, CopyInv, TypeOK,
      SyncType, EAGAIN, EFAULT, ERESTARTSYS, At, Goto, sync, device, calls
<1>1. CASE lkm_mem_open
  BY <1>1 DEF lkm_mem_open
<1>2. CASE lkm_mem_release
  BY <1>2 DEF lkm_mem_release, InCall
<1>3. ASSUME NEW p \in Procs, NEW m \in BOOLEAN, lkm_mem_fasync(p, m)
      PROVE  ReturnInv'
  BY <1>3 DEF lkm_mem_fasync
<1>4. ASSUME NEW p \in Procs, NEW c \in owner.requests[p], Enter(p, c)
      PROVE  ReturnInv'
  BY <1>4 DEF Enter
<1>5. ASSUME NEW p \in Procs, Signal(p)
      PROVE  ReturnInv'
  BY <1>5 DEF Signal, Signalled, Runnable, InCall
<1>6. ASSUME NEW p \in Procs, Lock(p)
      PROVE  ReturnInv'
  BY <1>6 DEF Lock, mutex_lock, Linked
<1>7. ASSUME NEW p \in Procs, NEW q \in Procs, WouldBlock(p, q)
      PROVE  ReturnInv'
  BY <1>7 DEF WouldBlock, Full, Kill, Signalled, Runnable, InCall
<1>8. ASSUME NEW p \in Procs, NEW q \in Procs, Sleep(p, q)
      PROVE  ReturnInv'
  BY <1>8 DEF Sleep, Signalled, Runnable, InCall, mutex_unlock
<1>9. ASSUME NEW p \in Procs, Schedule(p)
      PROVE  ReturnInv'
  BY <1>9 DEF Schedule, Runnable
<1>10. ASSUME NEW p \in Procs, Relock(p)
       PROVE  ReturnInv'
  BY <1>10 DEF Relock, mutex_lock
<1>11. ASSUME NEW p \in Procs, Clip(p)
       PROVE  ReturnInv'
  BY <1>11 DEF Clip
<1>12. ASSUME NEW p \in Procs, ReadCopy(p)
       PROVE  ReturnInv'
  <2>1. CASE Fault(p)
    BY <1>12, <2>1 DEF ReadCopy, Fault
  <2>2. CASE UNCHANGED ret /\ Goto(p, "update")
    BY <1>12, <2>2 DEF ReadCopy
  <2>3. QED
    BY <1>12, <2>1, <2>2 DEF ReadCopy
<1>13. ASSUME NEW p \in Procs, WriteCopy(p)
       PROVE  ReturnInv'
  <2>1. CASE Fault(p)
    BY <1>13, <2>1 DEF WriteCopy, Fault
  <2>2. CASE UNCHANGED ret /\ Goto(p, "update")
    BY <1>13, <2>2 DEF WriteCopy
  <2>3. QED
    BY <1>13, <2>1, <2>2 DEF WriteCopy
<1>14. ASSUME NEW p \in Procs, ReadUpdate(p)
       PROVE  ReturnInv'
  <2>1. Len(buf[p]) = cnt[p] /\ cnt[p] >= 0 /\ cnt[p] <= Size
    <3>1. cnt[p] \in Nat /\ cnt[p] <= Size
      OBVIOUS
    <3>2. buf[p] = [i \in 1 .. cnt[p] |-> memory[i]]
      BY <1>14 DEF ReadUpdate
    <3>3. \A i \in 1 .. cnt[p] : memory[i] \in Bytes
      BY <3>1
    <3>4. buf[p] \in [1 .. cnt[p] -> Bytes]
      BY <3>2, <3>3
    <3>5. QED
      BY <3>1, <3>4, SeqOf
  <2>2. /\ pc' = [pc EXCEPT ![p] = "wake"]
        /\ ret' = [ret EXCEPT ![p] = cnt[p]]
        /\ last' = [last EXCEPT ![p] = buf[p]]
    BY <1>14 DEF ReadUpdate, Moved
  <2>3. QED
    BY <2>1, <2>2
<1>15. ASSUME NEW p \in Procs, WriteUpdate(p)
       PROVE  ReturnInv'
  BY <1>15 DEF WriteUpdate, Moved
<1>16. ASSUME NEW p \in Procs, Wake(p)
       PROVE  ReturnInv'
  BY <1>16 DEF Wake, Runnable
<1>17. ASSUME NEW p \in Procs, NEW q \in Procs, Notify(p, q)
       PROVE  ReturnInv'
  BY <1>17 DEF Notify, Kill, Signalled, Runnable, InCall
<1>18. ASSUME NEW p \in Procs, Exit(p)
       PROVE  ReturnInv'
  BY <1>18 DEF Exit, Runnable, Unlinked, mutex_unlock
<1>19. ASSUME NEW p \in Procs, Return(p)
       PROVE  ReturnInv'
  BY <1>19 DEF Return, NoCall
<1>20. ASSUME NEW p \in Procs, lkm_mem_poll(p)
       PROVE  ReturnInv'
  BY <1>20 DEF lkm_mem_poll, Interruptible, Mask
<1>21. ASSUME NEW p \in Procs, PollSchedule(p)
       PROVE  ReturnInv'
  BY <1>21 DEF PollSchedule, Runnable
<1>22. ASSUME NEW p \in Procs, PollFree(p)
       PROVE  ReturnInv'
  BY <1>22 DEF PollFree, Unlinked, Runnable
<1>23. CASE UNCHANGED vars
  BY <1>23 DEF vars
<1> HIDE DEF IInv, TypeOK, ReturnInv
<1>24. QED
  BY <1>1, <1>2, <1>3, <1>4, <1>5, <1>6, <1>7, <1>8, <1>9, <1>10, <1>11,
     <1>12, <1>13, <1>14, <1>15, <1>16, <1>17, <1>18, <1>19, <1>20, <1>21,
     <1>22, <1>23 DEF Next, Step, lkm_mem_read, lkm_mem_write, Shared

-----------------------------------------------------------------------------
(* Invariance.                                                             *)

(* The initial state satisfies every part of the invariant. *)
LEMMA InitIInv == Init => IInv
<1> SUFFICES ASSUME Init PROVE IInv
  OBVIOUS
<1> USE NoProcAssumption, SizeWithin, BytesAssumption
<1>1. TypeOK
  <2>1. NoCall \in CallRecs /\ <<>> \in Seq(Bytes)
    BY DEF NoCall, CallRecs
  <2>2. SyncType
    BY DEF Init, SyncInit, SyncType, TaskStates
  <2>3. /\ call \in [Procs -> CallRecs]
        /\ buf \in [Procs -> Seq(Bytes)]
        /\ last \in [Procs -> Seq(Bytes)]
    BY <2>1 DEF Init
  <2>4. /\ ret \in [Procs -> {-EAGAIN, -EFAULT, -ERESTARTSYS} \cup 0 .. Size]
        /\ cnt \in [Procs -> 0 .. Size]
        /\ len \in 0 .. UshortMax
    BY DEF Init
  <2>5. pc \in [Procs -> Pcs]
    BY DEF Init, Pcs
  <2>6. memory \in [1 .. Size -> Bytes]
    BY DEF Init
  <2>7. QED
    BY <2>2, <2>3, <2>4, <2>5, <2>6 DEF Init, TypeOK
<1>2. OpInv /\ QueueInv
  BY InitQInv DEF QInv
<1>3. MutexInv /\ FilesInv /\ SignalInv
  BY DEF Init, SyncInit, MutexInv, FilesInv, SignalInv, LockedPcs
<1>4. CopyInv /\ ReaderWakeInv /\ WriterWakeInv
  BY DEF Init, SyncInit, CopyInv, ReaderWakeInv, WriterWakeInv, Asleep
<1>5. ReturnInv
  BY DEF Init, ReturnInv
<1>6. QED
  BY <1>1, <1>2, <1>3, <1>4, <1>5 DEF IInv

(* Every step keeps every part. *)
LEMMA NextIInv ==
  ASSUME NoSignalledSleep, IInv, [Next]_vars
  PROVE  IInv'
<1>1. QInv /\ Driver = "component"
  BY DEF IInv, TypeOK, SyncType, QInv, QType, NoSignalledSleep
<1>2. OpInv' /\ QueueInv'
  BY <1>1, OpInvStep, QueueInvStep
<1>3. TypeOK' /\ MutexInv' /\ FilesInv' /\ SignalInv'
  BY TypeOKStep, MutexInvStep, FilesInvStep, SignalInvStep
<1>4. CopyInv' /\ ReaderWakeInv' /\ WriterWakeInv' /\ ReturnInv'
  BY CopyInvStep, ReaderWakeInvStep, WriterWakeInvStep, ReturnInvStep
<1>5. QED
  BY <1>2, <1>3, <1>4 DEF IInv

(* The inductive invariant holds in every reachable state. *)
THEOREM Invariance ==
  ASSUME NoSignalledSleep
  PROVE  Spec => []IInv
<1>1. Init => IInv
  BY InitIInv
<1>2. IInv /\ [Next]_vars => IInv'
  BY NextIInv
<1>3. QED
  BY <1>1, <1>2, PTL DEF Spec

-----------------------------------------------------------------------------
(* What follows from it. *)

(* The state always has its type. *)
THEOREM TypeCorrect ==
  ASSUME NoSignalledSleep
  PROVE  Spec => []TypeOK
<1>1. IInv => TypeOK
  BY DEF IInv
<1>2. QED
  BY Invariance, <1>1, PTL

(* Between the loop and the update the mutex is held and what is about to  *)
(* move is there: the ushort dev->len never wraps.                         *)
THEOREM CopyUnderLockHolds ==
  ASSUME NoSignalledSleep
  PROVE  Spec => []CopyUnderLock
<1>1. IInv => CopyUnderLock
  BY DEF IInv, MutexInv, CopyInv, CopyUnderLock, LockedPcs
<1>2. QED
  BY Invariance, <1>1, PTL

(* No reader and no POLLIN poller sleeps through data, and no writer       *)
(* through space.                                                          *)
THEOREM NoLostWakeupHolds ==
  ASSUME NoSignalledSleep
  PROVE  Spec => []NoLostWakeup
<1>1. IInv => NoLostWakeup
  <2> SUFFICES ASSUME IInv, mutex = NoProc, NEW p \in Procs, Asleep(p)
               PROVE  /\ call[p].op \in {"read", "pollin"} => len = 0
                      /\ call[p].op = "write" => len = Size
    BY DEF NoLostWakeup
  <2>1. len \in 0 .. Size
    BY LenWithin DEF IInv, CopyInv
  <2>2. call[p].op \in {"read", "pollin"} => ~(len > 0)
    BY DEF IInv, ReaderWakeInv, Waking
  <2>3. call[p].op = "write" => ~(len < Size)
    BY DEF IInv, WriterWakeInv, Waking
  <2>4. QED
    BY <2>1, <2>2, <2>3, SizeWithin
<1>2. QED
  BY Invariance, <1>1, PTL

(* A call returns the number of bytes it moved, or an error and has moved  *)
(* none.                                                                   *)
THEOREM ReturnMatchesTransferHolds ==
  ASSUME NoSignalledSleep
  PROVE  Spec => []ReturnMatchesTransfer
<1>1. IInv => ReturnMatchesTransfer
  <2> SUFFICES ASSUME IInv, NEW p \in Procs
               PROVE  Len(last[p]) = IF ret[p] < 0 THEN 0 ELSE ret[p]
    BY DEF ReturnMatchesTransfer
  <2>1. ret[p] \in Int
    <3>1. ret[p] \in {-EAGAIN, -EFAULT, -ERESTARTSYS} \cup 0 .. Size
      BY DEF IInv, TypeOK
    <3>2. QED
      BY <3>1, SizeWithin DEF EAGAIN, EFAULT, ERESTARTSYS
  <2>2. CASE ret[p] < 0
    BY <2>2 DEF IInv, ReturnInv
  <2>3. CASE ret[p] >= 0
    BY <2>3 DEF IInv, ReturnInv
  <2>4. QED
    BY <2>1, <2>2, <2>3
<1>2. QED
  BY Invariance, <1>1, PTL

-----------------------------------------------------------------------------
(* The device implements a bounded FIFO.                                   *)

queue == [i \in 1 .. len |-> memory[i]]

(* The bytes behind the queue, once they count, are appended to it. *)
LEMMA AppendOf ==
  ASSUME TypeOK, len <= Size, NEW n \in Nat, NEW g \in [1 .. n -> Bytes],
         \A i \in 1 .. n : memory[len + i] = g[i]
  PROVE  [i \in 1 .. len + n |-> memory[i]]
           = [i \in 1 .. len |-> memory[i]] \o g
<1> DEFINE a == [i \in 1 .. len |-> memory[i]]
           b == [i \in 1 .. len + n |-> memory[i]]
<1>1. len \in Nat /\ \A i \in 1 .. len : memory[i] \in Bytes
  BY LenWithin, SizeWithin DEF TypeOK
<1>2. a \in [1 .. len -> Bytes] /\ b \in [1 .. len + n -> Bytes]
  <2>1. \A i \in 1 .. len + n :
          \/ i \in 1 .. len
          \/ i - len \in 1 .. n /\ i = len + (i - len)
    BY <1>1
  <2>2. \A i \in 1 .. len + n : memory[i] \in Bytes
    BY <1>1, <2>1
  <2>3. QED
    BY <1>1, <2>2
<1>3. /\ a \in Seq(Bytes) /\ Len(a) = len
      /\ g \in Seq(Bytes) /\ Len(g) = n
      /\ b \in Seq(Bytes) /\ Len(b) = len + n
  BY <1>1, <1>2, SeqOf
<1>4. a \o g \in Seq(Bytes) /\ Len(a \o g) = len + n
  BY <1>1, <1>3
<1>5. \A i \in 1 .. len + n : (a \o g)[i] = b[i]
  <2> SUFFICES ASSUME NEW i \in 1 .. len + n PROVE (a \o g)[i] = b[i]
    OBVIOUS
  <2>1. CASE i <= len
    BY <1>1, <1>3, <2>1
  <2>2. CASE i > len
    <3>1. i - len \in 1 .. n /\ len + (i - len) = i
      BY <1>1, <2>2
    <3>2. QED
      BY <1>1, <1>3, <2>2, <3>1
  <2>3. QED
    BY <1>1, <2>1, <2>2
<1>6. QED
  BY <1>1, <1>3, <1>4, <1>5

(* The suffix of a sequence given by a function on 1 .. m. *)
LEMMA SuffixOf ==
  ASSUME NEW m \in Nat, NEW n \in 0 .. m, NEW q \in [1 .. m -> Bytes]
  PROVE  /\ SubSeq(q, n + 1, m) = [i \in 1 .. m - n |-> q[i + n]]
         /\ SubSeq(q, 1, n) = [i \in 1 .. n |-> q[i]]
<1>1. q \in Seq(Bytes) /\ Len(q) = m
  BY SeqOf
<1>2. QED
  BY <1>1

(* The device starts as an empty FIFO. *)
LEMMA InitFifo == Init => Fifo!Init
BY DEF Init, Fifo!Init

(* A write puts its bytes behind the queue, where they do not count yet. *)
LEMMA WriteCopyFifo ==
  ASSUME IInv, NEW p \in Procs, WriteCopy(p)
  PROVE  UNCHANGED Fifo!vars
<1>1. cnt[p] \in Int /\ len \in 0 .. Size /\ memory \in [1 .. Size -> Bytes]
  BY LenWithin, SizeWithin DEF IInv, TypeOK, CopyInv
<1>2. PICK d \in [1 .. cnt[p] -> Bytes], k \in Int : memory' = Stored(d, k)
  BY <1>1 DEF WriteCopy
<1>3. \A i \in 1 .. len : memory'[i] = memory[i]
  BY <1>1, <1>2, SizeWithin DEF Stored
<1>4. UNCHANGED <<len, last>>
  BY DEF WriteCopy
<1>5. QED
  BY <1>3, <1>4 DEF Fifo!vars

(* A write's update appends what it copied. *)
LEMMA WriteUpdateFifo ==
  ASSUME IInv, NEW p \in Procs, WriteUpdate(p)
  PROVE  Fifo!Put(p)
<1> DEFINE n == cnt[p]
<1>1. /\ TypeOK /\ CopyInv /\ len <= Size /\ len \in 0 .. Size
      /\ last \in [Procs -> Seq(Bytes)] /\ queue \in [1 .. len -> Bytes]
  <2>1. /\ TypeOK /\ CopyInv /\ len <= Size /\ len \in 0 .. Size
        /\ last \in [Procs -> Seq(Bytes)] /\ memory \in [1 .. Size -> Bytes]
    BY LenWithin DEF IInv, TypeOK, CopyInv
  <2>2. QED
    BY <2>1, SizeWithin DEF queue
<1>2. queue \in Seq(Bytes) /\ Len(queue) = len
  BY <1>1, SeqOf, SizeWithin
<1>3. /\ n \in 0 .. Size - len
      /\ (len + n) % (UshortMax + 1) = len + n
      /\ buf[p] \in [1 .. n -> Bytes]
      /\ \A i \in 1 .. n : memory[len + i] = buf[p][i]
  BY <1>1, UpdateFits DEF WriteUpdate, At, CopyInv
<1>4. /\ len' = len + n
      /\ memory' = memory
      /\ last' = [last EXCEPT ![p] = buf[p]]
  BY <1>3 DEF WriteUpdate, Moved
<1>5. n \in Nat
  BY <1>1, <1>3, SizeWithin
<1>6. buf[p] \in Seq(Bytes) /\ Len(buf[p]) = n
  BY <1>3, <1>5, SeqOf
<1>7. [i \in 1 .. len + n |-> memory[i]] = queue \o buf[p]
  BY <1>1, <1>3, <1>5, AppendOf DEF queue
<1>8. last'[p] = buf[p]
  BY <1>1, <1>4
<1>9. queue' = queue \o last'[p]
  BY <1>4, <1>7, <1>8 DEF queue
<1>10. Len(last'[p]) + Len(queue) <= Size
  BY <1>1, <1>2, <1>3, <1>6, <1>8, SizeWithin
<1>11. last' = [last EXCEPT ![p] = last'[p]] /\ last'[p] \in Seq(Bytes)
  BY <1>4, <1>6, <1>8
<1>12. QED
  BY <1>9, <1>10, <1>11 DEF Fifo!Put, queue

(* A read's update removes from the front what it handed out. *)
LEMMA ReadUpdateFifo ==
  ASSUME IInv, NEW p \in Procs, ReadUpdate(p)
  PROVE  Fifo!Take(p)
<1> DEFINE n == cnt[p]
<1>1. /\ TypeOK /\ CopyInv /\ len \in 0 .. Size /\ len \in Nat
      /\ memory \in [1 .. Size -> Bytes] /\ queue \in [1 .. len -> Bytes]
  <2>1. /\ TypeOK /\ CopyInv /\ len \in 0 .. Size
        /\ memory \in [1 .. Size -> Bytes]
    BY LenWithin DEF IInv, TypeOK, CopyInv
  <2>2. QED
    BY <2>1, SizeWithin DEF queue
<1>2. Len(queue) = len
  BY <1>1, SeqOf
<1>3. /\ n \in 0 .. len
      /\ (len - n) % (UshortMax + 1) = len - n
      /\ buf[p] = [i \in 1 .. n |-> memory[i]]
  BY <1>1, UpdateFits DEF ReadUpdate, At, CopyInv
<1>4. /\ len' = len - n
      /\ memory' = Shifted(n)
      /\ last' = [last EXCEPT ![p] = buf[p]]
  BY <1>3 DEF ReadUpdate, Moved
<1>5. /\ SubSeq(queue, n + 1, len) = [i \in 1 .. len - n |-> queue[i + n]]
      /\ SubSeq(queue, 1, n) = [i \in 1 .. n |-> queue[i]]
  BY <1>1, <1>3, SuffixOf, Zenon
<1>6. SubSeq(queue, 1, n) = buf[p]
  BY <1>1, <1>3, <1>5 DEF queue
<1>7. queue' = SubSeq(queue, n + 1, Len(queue))
  <2>1. queue' = [i \in 1 .. len - n |-> Shifted(n)[i]]
    BY <1>4 DEF queue
  <2>2. \A i \in 1 .. len - n : Shifted(n)[i] = queue[i + n]
    BY <1>1, <1>3, SizeWithin DEF queue, Shifted
  <2>3. QED
    BY <1>2, <1>5, <2>1, <2>2
<1>8. QED
  BY <1>2, <1>3, <1>4, <1>6, <1>7 DEF Fifo!Take, queue

(* Every step of the device is a step of the FIFO or leaves it alone: the  *)
(* effect of a call is at its update.                                      *)
LEMMA NextFifo == IInv /\ [Next]_vars => [Fifo!Next]_(Fifo!vars)
<1> SUFFICES ASSUME IInv, [Next]_vars
             PROVE  [Fifo!Next]_(Fifo!vars)
  OBVIOUS
<1>1. CASE UNCHANGED <<len, memory, last>>
  BY <1>1 DEF Fifo!vars
<1>2. ASSUME NEW p \in Procs, WriteCopy(p) PROVE UNCHANGED Fifo!vars
  BY <1>2, WriteCopyFifo
<1>3. ASSUME NEW p \in Procs, WriteUpdate(p) \/ ReadUpdate(p) PROVE Fifo!Next
  BY <1>3, WriteUpdateFifo, ReadUpdateFifo DEF Fifo!Next
<1>4. ASSUME NEW p \in Procs, Return(p) PROVE Fifo!Next
  BY <1>4 DEF Return, device, Fifo!Call, Fifo!Next
<1>5. ASSUME NEW p \in Procs, Shared(p) \/ ReadCopy(p)
      PROVE  UNCHANGED <<len, memory, last>>
  BY <1>5 DEF Shared, Lock, WouldBlock, Sleep, Schedule, Relock, Clip, Wake,
     Notify, Exit, ReadCopy, device
<1>6. ASSUME NEW p \in Procs, Step(p)
      PROVE  [Fifo!Next]_(Fifo!vars)
  <2>1. CASE lkm_mem_poll(p) \/ PollSchedule(p) \/ PollFree(p)
    BY <2>1, <1>1 DEF lkm_mem_poll, PollSchedule, PollFree, device
  <2>2. CASE lkm_mem_read(p)
    BY <2>2, <1>1, <1>3, <1>5 DEF lkm_mem_read
  <2>3. CASE lkm_mem_write(p)
    BY <2>3, <1>1, <1>2, <1>3, <1>5 DEF lkm_mem_write
  <2>4. QED
    BY <1>6, <1>4, <2>1, <2>2, <2>3 DEF Step
<1>7. CASE UNCHANGED vars
  BY <1>7, <1>1 DEF vars, device, calls
<1>8. QED
  BY <1>1, <1>6, <1>7 DEF Next, device, calls, lkm_mem_open,
     lkm_mem_release, lkm_mem_fasync, Enter, Signal

(* For every number of threads and every capacity the device behaves as    *)
(* the bounded FIFO: bytes come out once, in the order and with the values *)
(* in which they went in.                                                  *)
THEOREM Refinement ==
  ASSUME NoSignalledSleep
  PROVE  Spec => FifoSpec
<1>1. Init => Fifo!Init
  BY InitFifo
<1>2. IInv /\ [Next]_vars => [Fifo!Next]_(Fifo!vars)
  BY NextFifo
<1>3. QED
  BY Invariance, <1>1, <1>2, PTL DEF Spec, FifoSpec, Fifo!Spec

=============================================================================
