----------------------------- MODULE GlobalFifo -----------------------------
(***************************************************************************)
(* The globalfifo character device: a byte FIFO of GLOBALFIFO_SIZE bytes   *)
(* behind a mutex, with blocking and O_NONBLOCK read and write, poll,      *)
(* SIGIO notification and the FIFO_CLEAR ioctl.  The repository has two    *)
(* builds of it: rasp-driver/globalfifo/globalfifo.c and                   *)
(* rasp-driver/misc/plat-misc.c.  They differ in the wait-queue head a     *)
(* reader's entry is removed through, and in what write returns.           *)
(*                                                                         *)
(* A step is what a task does between two points where another task can    *)
(* observe it: taking and releasing the mutex, the sleep, each half of a   *)
(* copy, the two ends of a wake-up's walk over a wait queue, and the two   *)
(* ends of a removal that is not under the list's own lock.  A list that   *)
(* such a removal has torn is not followed into freed memory: an entry it  *)
(* has lost or left behind is what the properties are about.               *)
(*                                                                         *)
(* The definitions named Bad... are plausible slips in the definition that *)
(* follows them; no specification uses them.  They test the properties.    *)
(***************************************************************************)
EXTENDS KernelSync, Integers, Sequences

CONSTANTS Bytes,      \* the values of a byte
          Size,       \* GLOBALFIFO_SIZE
          Driver,     \* "globalfifo" or "plat-misc"
          Requests,   \* Requests[p]: the read, write and poll calls p makes
          Other       \* Other[p]: what else happens to p: "clear" (ioctl),
                      \* "fasync" (fcntl), "signal"

ASSUME SizeAssumption == Size \in Nat \ {0}
ASSUME BytesAssumption == 0 \in Bytes
ASSUME DriverAssumption == Driver \in {"globalfifo", "plat-misc"}

(* A call: the operation, its count and the file's O_NONBLOCK flag. *)
CallRecs ==
  [op : {"read", "write", "pollin", "pollout"}, count : Nat, nonblock : BOOLEAN]
NoCall == [op |-> "read", count |-> 0, nonblock |-> FALSE]

ASSUME RequestsAssumption == Requests \in [Procs -> SUBSET CallRecs]

VARIABLES bound,       \* the platform device is bound: probe has succeeded
          current_len, \* dev->current_len
          mem,         \* dev->mem
          async_queue, \* the tasks registered for SIGIO
          files,       \* the tasks that hold the device open
          pc,          \* pc[p]: the statement task p is at
          call,        \* call[p]: its operation, count and O_NONBLOCK flag
          cnt,         \* cnt[p]: count, once clipped to what can be moved
          buf,         \* buf[p]: the bytes copied between user space and mem
          last,        \* last[p]: the bytes its current call has moved
          ret,         \* ret[p]: the local variable ret
          walk,        \* walk[h]: the task that walks list h under its lock
          edits        \* the tasks whose entries came onto or left r_wait
                       \* since a removal under the wrong lock began

sync == <<mutex, wq, task, sig>>
device == <<bound, current_len, mem, async_queue>>
lists == <<walk, edits>>
calls == <<files, pc, call, cnt, buf, last, ret, lists>>
vars == <<sync, device, calls>>

EAGAIN == 11
EFAULT == 14
ERESTARTSYS == 512

(* The statements at which a task holds dev->mutex. *)
LockedPcs ==
  {"test", "copy", "update", "wake", "walk", "sigio", "out", "poll_w"}
Pcs == LockedPcs \cup {"idle", "enter", "sched", "relock", "out2", "unlink",
                       "return", "poll", "repoll", "p_sched", "p_free",
                       "p_free_w", "oops"}

TypeOK ==
  /\ SyncType
  /\ bound \in BOOLEAN
  /\ current_len \in 0 .. Size
  /\ mem \in [1 .. Size -> Bytes]
  /\ async_queue \in SUBSET Procs
  /\ files \in SUBSET Procs
  /\ pc \in [Procs -> Pcs]
  /\ call \in [Procs -> CallRecs]
  /\ cnt \in [Procs -> 0 .. Size]
  /\ buf \in [Procs -> Seq(Bytes)]
  /\ last \in [Procs -> Seq(Bytes)]
  /\ ret \in [Procs -> {-EAGAIN, -EFAULT, -ERESTARTSYS} \cup 0 .. Size]
  /\ walk \in [Heads -> Procs \cup {NoProc}]
  /\ edits \in SUBSET Procs

Init ==
  /\ SyncInit
  /\ bound = FALSE
  /\ current_len = 0
  /\ mem = [i \in 1 .. Size |-> 0]
  /\ async_queue = {}
  /\ files = {}
  /\ pc = [p \in Procs |-> "idle"]
  /\ call = [p \in Procs |-> NoCall]
  /\ cnt = [p \in Procs |-> 0]
  /\ buf = [p \in Procs |-> <<>>]
  /\ last = [p \in Procs |-> <<>>]
  /\ ret = [p \in Procs |-> 0]
  /\ walk = [h \in Heads |-> NoProc]
  /\ edits = {}

At(p, l) == pc[p] = l
Goto(p, l) == pc' = [pc EXCEPT ![p] = l]

(* What read waits for is data, what write waits for is space; poll takes  *)
(* the same two conditions for POLLIN and POLLOUT.                         *)
Blocked(op) ==
  IF op \in {"read", "pollin"} THEN current_len = 0 ELSE current_len = Size

(* The head a caller's wait entry is added to, and the one it wakes.       *)
HeadOf(op) == IF op = "read" THEN "r_wait" ELSE "w_wait"
Woken(op) == IF op = "read" THEN "w_wait" ELSE "r_wait"

(* The head whose lock remove_wait_queue() takes: globalfifo.c names       *)
(* w_wait in both functions.                                               *)
BadRemoveHead(op) == "w_wait"
RemoveHead(op) ==
  IF Driver = "globalfifo" THEN "w_wait" ELSE HeadOf(op)

(* A reader of globalfifo.c removes its entry from r_wait under the lock   *)
(* of w_wait, so the removal overlaps whatever is done under r_wait's own  *)
(* lock meanwhile.                                                         *)
Unlinking == \E q \in Procs : pc[q] = "unlink"

(* The spinlock of head h is free. *)
HeadFree(h) == walk[h] = NoProc /\ (h = "w_wait" => ~Unlinking)

(* p adds its entry to list h, or removes it: a removal under way takes    *)
(* note.                                                                   *)
Edit(h, p) ==
  edits' = IF h = "r_wait" /\ Unlinking THEN edits \cup {p} ELSE edits

(* The value write hands back: plat-misc.c ends in "return 0".             *)
Returned(p) ==
  IF Driver = "plat-misc" /\ call[p].op = "write" THEN 0 ELSE ret[p]

-----------------------------------------------------------------------------
(* Binding, opening and closing the device.                                *)

(* A successful probe: kzalloc'ed memory, a fresh mutex and fresh queues,  *)
(* published by misc_register.  (A probe that fails leaves nothing: the    *)
(* memory is devm-managed.)                                                *)
globalfifo_probe ==
  /\ ~bound
  /\ bound' = TRUE
  /\ current_len' = 0
  /\ mem' = [i \in 1 .. Size |-> 0]
  /\ async_queue' = {}
  /\ mutex' = NoProc
  /\ wq' = [h \in Heads |-> {}]
  /\ UNCHANGED <<task, sig, calls>>

(* remove on module unload, which the module count delays until the last   *)
(* file is closed.                                                         *)
globalfifo_remove ==
  /\ bound
  /\ files = {}
  /\ bound' = FALSE
  /\ UNCHANGED <<sync, current_len, mem, async_queue, calls>>

globalfifo_open(p) ==
  /\ bound
  /\ p \notin files
  /\ files' = files \cup {p}
  /\ UNCHANGED <<sync, device, pc, call, cnt, buf, last, ret, lists>>

globalfifo_fasync(p, mode) ==
  async_queue' = IF mode THEN async_queue \cup {p} ELSE async_queue \ {p}

globalfifo_release(p) ==
  /\ p \in files
  /\ At(p, "idle")
  /\ globalfifo_fasync(p, FALSE)
  /\ files' = files \ {p}
  /\ UNCHANGED <<sync, bound, current_len, mem,
                 pc, call, cnt, buf, last, ret, lists>>

(* fcntl(F_SETFL) with or without FASYNC. *)
SetFasync(p, mode) ==
  /\ p \in files
  /\ At(p, "idle")
  /\ "fasync" \in Other[p]
  /\ globalfifo_fasync(p, mode)
  /\ UNCHANGED <<sync, bound, current_len, mem, calls>>

-----------------------------------------------------------------------------
(* ioctl and poll: one critical section each.                              *)

globalfifo_ioctl(p) ==
  /\ p \in files
  /\ At(p, "idle")
  /\ "clear" \in Other[p]
  /\ mutex = NoProc
  /\ current_len' = 0
  /\ mem' = [i \in 1 .. Size |-> 0]
  /\ UNCHANGED <<sync, bound, async_queue, calls>>

(* ->poll() as poll(2) calls it first: the entry is put on r_wait, then   *)
(* on w_wait, each under the list's lock, and the mask is read.            *)
BadPollWaitR(p) ==
  /\ At(p, "poll")
  /\ mutex_lock(p)
  /\ task' = Interruptible(p)
  /\ Goto(p, "poll_w")
  /\ UNCHANGED <<wq, sig, device, files, call, cnt, buf, last, ret, lists>>

PollWaitR(p) ==
  /\ At(p, "poll")
  /\ mutex_lock(p)
  /\ HeadFree("r_wait")
  /\ wq' = Linked("r_wait", p)
  /\ Edit("r_wait", p)
  /\ task' = Interruptible(p)
  /\ Goto(p, "poll_w")
  /\ UNCHANGED <<sig, device, files, call, cnt, buf, last, ret, walk>>

Mask(p) == Goto(p, IF Blocked(call[p].op) THEN "p_sched" ELSE "p_free")

PollWaitW(p) ==
  /\ At(p, "poll_w")
  /\ HeadFree("w_wait")
  /\ wq' = Linked("w_wait", p)
  /\ mutex_unlock
  /\ Mask(p)
  /\ UNCHANGED <<task, sig, device, files, call, cnt, buf, last, ret, lists>>

(* Called again after a wake-up, poll_wait() adds nothing. *)
PollAgain(p) ==
  /\ At(p, "repoll")
  /\ mutex = NoProc
  /\ task' = Interruptible(p)
  /\ Mask(p)
  /\ UNCHANGED <<mutex, wq, sig, device,
                 files, call, cnt, buf, last, ret, lists>>

globalfifo_poll(p) == PollWaitR(p) \/ PollWaitW(p) \/ PollAgain(p)

(* poll(2) sleeps until a wake-up or a signal; a wake-up polls again. *)
PollSchedule(p) ==
  /\ At(p, "p_sched")
  /\ task[p] = "RUNNING" \/ sig[p]
  /\ task' = Runnable({p})
  /\ Goto(p, IF sig[p] THEN "p_free" ELSE "repoll")
  /\ UNCHANGED <<mutex, wq, sig, device,
                 files, call, cnt, buf, last, ret, lists>>

(* poll(2) unlinks its entries from the two heads and returns. *)
PollFree(p) ==
  /\ \E h \in Heads :
       /\ At(p, IF h = "r_wait" THEN "p_free" ELSE "p_free_w")
       /\ HeadFree(h)
       /\ wq' = Unlinked({h}, p)
       /\ Edit(h, p)
       /\ Goto(p, IF h = "r_wait" THEN "p_free_w" ELSE "return")
  /\ task' = Runnable({p})
  /\ UNCHANGED <<mutex, sig, device, files, call, cnt, buf, last, ret, walk>>

-----------------------------------------------------------------------------
(* read and write.                                                         *)

(* A task enters the kernel with one of its calls. *)
Enter(p, c) ==
  /\ p \in files
  /\ At(p, "idle")
  /\ c \in Requests[p]
  /\ call' = [call EXCEPT ![p] = c]
  /\ Goto(p, IF c.op \in {"read", "write"} THEN "enter" ELSE "poll")
  /\ UNCHANGED <<sync, device, files, cnt, buf, last, ret, lists>>

(* mutex_lock(); add_wait_queue() *)
Lock(p) ==
  LET h == HeadOf(call[p].op) IN
  /\ At(p, "enter")
  /\ mutex_lock(p)
  /\ HeadFree(h)
  /\ wq' = Linked(h, p)
  /\ Edit(h, p)
  /\ Goto(p, "test")
  /\ UNCHANGED <<task, sig, device, files, call, cnt, buf, last, ret, walk>>

(* The while condition holds and the file is O_NONBLOCK. *)
WouldBlock(p) ==
  /\ At(p, "test")
  /\ Blocked(call[p].op)
  /\ call[p].nonblock
  /\ ret' = [ret EXCEPT ![p] = -EAGAIN]
  /\ Goto(p, "out")
  /\ UNCHANGED <<sync, device, files, call, cnt, buf, last, lists>>

(* The while condition holds: mark the task asleep, then drop the mutex. *)
BadSleep(p) ==
  /\ At(p, "test")
  /\ Blocked(call[p].op)
  /\ task' = Interruptible(p)
  /\ mutex_unlock
  /\ Goto(p, "sched")
  /\ UNCHANGED <<wq, sig, device, files, call, cnt, buf, last, ret, lists>>

Sleep(p) ==
  /\ At(p, "test")
  /\ Blocked(call[p].op)
  /\ ~call[p].nonblock
  /\ task' = Interruptible(p)
  /\ mutex_unlock
  /\ Goto(p, "sched")
  /\ UNCHANGED <<wq, sig, device, files, call, cnt, buf, last, ret, lists>>

(* schedule() returns when the task is runnable, and does not sleep on a   *)
(* pending signal; a signal ends the call without taking the mutex.        *)
Schedule(p) ==
  /\ At(p, "sched")
  /\ task[p] = "RUNNING" \/ sig[p]
  /\ task' = Runnable({p})
  /\ ret' = IF sig[p] THEN [ret EXCEPT ![p] = -ERESTARTSYS] ELSE ret
  /\ Goto(p, IF sig[p] THEN "out2" ELSE "relock")
  /\ UNCHANGED <<mutex, wq, sig, device, files, call, cnt, buf, last, lists>>

BadRelock(p) ==
  /\ At(p, "relock")
  /\ Goto(p, "test")
  /\ UNCHANGED <<sync, device, files, call, cnt, buf, last, ret, lists>>

Relock(p) ==
  /\ At(p, "relock")
  /\ mutex_lock(p)
  /\ Goto(p, "test")
  /\ UNCHANGED <<wq, task, sig, device,
                 files, call, cnt, buf, last, ret, lists>>

(* The loop is left: count is clipped to the data, or to the space. *)
Movable(op) == IF op = "read" THEN current_len ELSE Size - current_len

BadClip(p) ==
  /\ At(p, "test")
  /\ ~Blocked(call[p].op)
  /\ cnt' = [cnt EXCEPT ![p] = call[p].count]
  /\ Goto(p, "copy")
  /\ UNCHANGED <<sync, device, files, call, buf, last, ret, lists>>

Clip(p) ==
  /\ At(p, "test")
  /\ ~Blocked(call[p].op)
  /\ cnt' = [cnt EXCEPT ![p] = IF call[p].count > Movable(call[p].op)
                               THEN Movable(call[p].op) ELSE call[p].count]
  /\ Goto(p, "copy")
  /\ UNCHANGED <<sync, device, files, call, buf, last, ret, lists>>

(* copy_to_user() and copy_from_user() fault, or copy every byte.  Where   *)
(* copy_from_user() faults after k bytes it zeroes the rest.               *)
BadFault(p) ==
  /\ ret' = [ret EXCEPT ![p] = -EFAULT]
  /\ Goto(p, "update")
  /\ UNCHANGED buf

Fault(p) ==
  /\ ret' = [ret EXCEPT ![p] = -EFAULT]
  /\ Goto(p, "out")
  /\ UNCHANGED buf

ReadCopy(p) ==
  /\ At(p, "copy")
  /\ call[p].op = "read"
  /\ \/ Fault(p)
     \/ /\ buf' = [buf EXCEPT ![p] = [i \in 1 .. cnt[p] |-> mem[i]]]
        /\ Goto(p, "update")
        /\ UNCHANGED ret
  /\ UNCHANGED <<sync, device, files, call, cnt, last, lists>>

(* mem with the bytes d stored behind the current_len bytes it holds, as   *)
(* far as the first k, zeroes from there on.                               *)
BadStored(d, k) ==
  [i \in 1 .. Size |-> IF i \in 1 .. Len(d)
                      THEN IF i <= k THEN d[i] ELSE 0 ELSE mem[i]]

Stored(d, k) ==
  [i \in 1 .. Size |->
    IF i \in current_len + 1 .. current_len + Len(d)
    THEN IF i <= current_len + k THEN d[i - current_len] ELSE 0
    ELSE mem[i]]

WriteCopy(p) ==
  /\ At(p, "copy")
  /\ call[p].op = "write"
  /\ \E d \in [1 .. cnt[p] -> Bytes] :
       \/ /\ \E k \in 0 .. cnt[p] - 1 : mem' = Stored(d, k)
          /\ Fault(p)
       \/ /\ mem' = Stored(d, cnt[p])
          /\ buf' = [buf EXCEPT ![p] = d]
          /\ Goto(p, "update")
          /\ UNCHANGED ret
  /\ UNCHANGED <<sync, bound, current_len, async_queue,
                 files, call, cnt, last, lists>>

(* The bytes that stay move to the front; those behind them keep stale     *)
(* values.                                                                 *)
Shifted(n) ==
  [i \in 1 .. Size |->
    IF i \in 1 .. current_len - n THEN mem[i + n] ELSE mem[i]]

Moved(p) ==
  /\ last' = [last EXCEPT ![p] = buf[p]]
  /\ ret' = [ret EXCEPT ![p] = cnt[p]]
  /\ Goto(p, "wake")

BadReadUpdate(p) ==
  /\ At(p, "update")
  /\ call[p].op = "read"
  /\ mem' = Shifted(cnt[p])
  /\ current_len' = current_len - cnt[p]
  /\ last' = [last EXCEPT ![p] = buf[p]]
  /\ ret' = [ret EXCEPT ![p] = cnt[p]]
  /\ Goto(p, "out")
  /\ UNCHANGED <<sync, bound, async_queue, files, call, cnt, buf, lists>>

ReadUpdate(p) ==
  /\ At(p, "update")
  /\ call[p].op = "read"
  /\ mem' = Shifted(cnt[p])
  /\ current_len' = current_len - cnt[p]
  /\ Moved(p)
  /\ UNCHANGED <<sync, bound, async_queue, files, call, cnt, buf, lists>>

WriteUpdate(p) ==
  /\ At(p, "update")
  /\ call[p].op = "write"
  /\ current_len' = current_len + cnt[p]
  /\ Moved(p)
  /\ UNCHANGED <<sync, bound, mem, async_queue, files, call, cnt, buf, lists>>

(* wake_up_interruptible() walks the list under the head's lock. *)
WakeBegin(p) ==
  LET h == Woken(call[p].op) IN
  /\ At(p, "wake")
  /\ HeadFree(h)
  /\ walk' = [walk EXCEPT ![h] = p]
  /\ Goto(p, "walk")
  /\ UNCHANGED <<sync, device, files, call, cnt, buf, last, ret, edits>>

WakeEnd(p) ==
  LET h == Woken(call[p].op) IN
  /\ At(p, "walk")
  /\ task' = Runnable(wq[h])
  /\ walk' = [walk EXCEPT ![h] = NoProc]
  /\ Goto(p, IF call[p].op = "write" THEN "sigio" ELSE "out")
  /\ UNCHANGED <<mutex, wq, sig, device,
                 files, call, cnt, buf, last, ret, edits>>

(* A task outside the kernel takes its signal at once. *)
InCall == {p \in Procs : pc[p] # "idle"}

(* kill_fasync(&dev->async_queue, SIGIO, POLL_IN) *)
KillFasync(p) ==
  /\ At(p, "sigio")
  /\ sig' = Signalled(async_queue \cap InCall)
  /\ task' = Runnable(async_queue \cap InCall)
  /\ Goto(p, "out")
  /\ UNCHANGED <<mutex, wq, device, files, call, cnt, buf, last, ret, lists>>

(* out: mutex_unlock() *)
Out(p) ==
  /\ At(p, "out")
  /\ mutex_unlock
  /\ Goto(p, "out2")
  /\ UNCHANGED <<wq, task, sig, device,
                 files, call, cnt, buf, last, ret, lists>>

(* out2: the entry leaves the list it is on, under the list's lock. *)
BadOut2(p) ==
  /\ At(p, "out2")
  /\ task' = Runnable({p})
  /\ ret' = [ret EXCEPT ![p] = Returned(p)]
  /\ Goto(p, "return")
  /\ UNCHANGED <<mutex, wq, sig, device, files, call, cnt, buf, last, lists>>

Out2(p) ==
  LET h == HeadOf(call[p].op) IN
  /\ At(p, "out2")
  /\ RemoveHead(call[p].op) = h
  /\ HeadFree(h)
  /\ wq' = Unlinked({h}, p)
  /\ Edit(h, p)
  /\ task' = Runnable({p})
  /\ ret' = [ret EXCEPT ![p] = Returned(p)]
  /\ Goto(p, "return")
  /\ UNCHANGED <<mutex, sig, device, files, call, cnt, buf, last, walk>>

(* The same under the lock of the other head, with a beginning and an end. *)
UnlinkBegin(p) ==
  /\ At(p, "out2")
  /\ RemoveHead(call[p].op) # HeadOf(call[p].op)
  /\ HeadFree(RemoveHead(call[p].op))
  /\ Goto(p, "unlink")
  /\ UNCHANGED <<sync, device, files, call, cnt, buf, last, ret, lists>>

(* What the list may hold after the removal of p: if it met other edits,   *)
(* either some of them are lost (an entry added is not on the list, one    *)
(* removed still is), or the removal is.                                   *)
Outcomes(h, p) ==
  {((wq[h] \ S) \cup (S \ wq[h])) \ {p} : S \in SUBSET edits}
    \cup IF edits = {} THEN {} ELSE {wq[h]}

(* A walk of the list that is under way follows the poisoned entry or      *)
(* misses it.                                                              *)
UnlinkEnd(p) ==
  LET h == HeadOf(call[p].op) IN
  /\ At(p, "unlink")
  /\ \E L \in Outcomes(h, p) : wq' = [wq EXCEPT ![h] = L]
  /\ edits' = {}
  /\ task' = Runnable({p})
  /\ ret' = [ret EXCEPT ![p] = Returned(p)]
  /\ \/ Goto(p, "return")
     \/ /\ walk[h] # NoProc
        /\ pc' = [pc EXCEPT ![p] = "return", ![walk[h]] = "oops"]
  /\ UNCHANGED <<mutex, sig, device, files, call, cnt, buf, last, walk>>

(* Back to user mode, where a pending signal is delivered. *)
Return(p) ==
  /\ At(p, "return")
  /\ sig' = [sig EXCEPT ![p] = FALSE]
  /\ Goto(p, "idle")
  /\ call' = [call EXCEPT ![p] = NoCall]
  /\ cnt' = [cnt EXCEPT ![p] = 0]
  /\ buf' = [buf EXCEPT ![p] = <<>>]
  /\ last' = [last EXCEPT ![p] = <<>>]
  /\ ret' = [ret EXCEPT ![p] = 0]
  /\ UNCHANGED <<mutex, wq, task, device, files, lists>>

(* Any other signal: ^C, a timer, kill(2). *)
Signal(p) ==
  /\ "signal" \in Other[p]
  /\ p \in InCall
  /\ ~sig[p]
  /\ sig' = Signalled({p})
  /\ task' = Runnable({p})
  /\ UNCHANGED <<mutex, wq, device, calls>>

-----------------------------------------------------------------------------
(* The statements the two functions share: up to the copy, and after it. *)
Wait(p) ==
  \/ Lock(p) \/ WouldBlock(p) \/ Sleep(p) \/ Schedule(p) \/ Relock(p)
  \/ Clip(p)

Finish(p) ==
  \/ WakeBegin(p) \/ WakeEnd(p) \/ Out(p) \/ Out2(p)
  \/ UnlinkBegin(p) \/ UnlinkEnd(p)

globalfifo_read(p) ==
  /\ call[p].op = "read"
  /\ Wait(p) \/ Finish(p) \/ ReadCopy(p) \/ ReadUpdate(p)

globalfifo_write(p) ==
  /\ call[p].op = "write"
  /\ Wait(p) \/ Finish(p) \/ WriteCopy(p) \/ WriteUpdate(p) \/ KillFasync(p)

PollStep(p) == globalfifo_poll(p) \/ PollSchedule(p) \/ PollFree(p)

Step(p) ==
  globalfifo_read(p) \/ globalfifo_write(p) \/ PollStep(p) \/ Return(p)

File(p) ==
  \/ globalfifo_open(p) \/ globalfifo_release(p) \/ globalfifo_ioctl(p)
  \/ \E mode \in BOOLEAN : SetFasync(p, mode)
  \/ \E c \in Requests[p] : Enter(p, c)
  \/ Signal(p)

Next ==
  \/ globalfifo_probe
  \/ globalfifo_remove
  \/ \E p \in Procs : Step(p) \/ File(p)

Spec == Init /\ [][Next]_vars

(* Every task inside a call keeps running.  The kernel's mutex hands over  *)
(* to its waiters in order and its spinlocks queue theirs, so a task that  *)
(* waits for a lock that is free again and again gets it: strong fairness. *)
(* A task that sleeps for data has no step, so nothing is assumed of it.   *)
Fairness == \A p \in Procs : SF_vars(Step(p))

FairSpec == Spec /\ Fairness

-----------------------------------------------------------------------------
(* Properties.                                                             *)

(* "When the code gets here there must be data to read and the lock must   *)
(* be held" (plat-misc.c, before the copy): whoever is between the loop    *)
(* and the update owns the mutex, and what it is about to move is there,   *)
(* although count was clipped several statements earlier.                  *)
CopyUnderLock ==
  \A p \in Procs : pc[p] \in {"copy", "update"} =>
    /\ mutex = p
    /\ ~Blocked(call[p].op)
    /\ cnt[p] <= Movable(call[p].op)

(* A task that sleeps until there is data (read), or until poll reports it *)
(* (POLLIN), is never still asleep once the mutex is free with data in the *)
(* FIFO: no wake-up is lost between the test and schedule(), and no entry  *)
(* is lost from r_wait.  (Not so in globalfifo.c.)                         *)
Asleep(p, ops) ==
  /\ call[p].op \in ops
  /\ pc[p] \in {"sched", "p_sched"}
  /\ task[p] = "INTERRUPTIBLE"

NoLostReaderWakeup ==
  mutex = NoProc /\ current_len > 0 =>
    \A p \in Procs : ~Asleep(p, {"read", "pollin"})

(* The same for the tasks that wait for space. *)
NoLostWriterWakeup ==
  mutex = NoProc /\ current_len < Size =>
    \A p \in Procs : ~Asleep(p, {"write", "pollout"})

(* The wait entry is a local variable of the caller: on every path out of  *)
(* the driver, the error and signal paths included, it has left the list,  *)
(* whatever others link and unlink there.  (Not so in globalfifo.c.)       *)
NoDanglingEntry ==
  \A p \in Procs, h \in Heads :
    pc[p] \in {"idle", "return"} => p \notin wq[h]

(* No entry is removed from a wait queue that another task is walking:     *)
(* nobody dies inside wake_up_interruptible().  (Not so in globalfifo.c.)  *)
NoOops == \A p \in Procs : pc[p] # "oops"

(* What read and write report is what they did: the number of bytes moved, *)
(* and a call that fails has moved none.                                   *)
ReturnMatchesTransfer ==
  \A p \in Procs :
    pc[p] = "return" => Len(last[p]) = IF ret[p] < 0 THEN 0 ELSE ret[p]

(* The device is a bounded FIFO of bytes: each call that succeeds takes    *)
(* effect at one instant, whatever the others do.                          *)
Fifo == INSTANCE BoundedFifo
          WITH queue <- [i \in 1 .. current_len |-> mem[i]]
FifoSpec == Fifo!Spec

(* A call on an O_NONBLOCK file always comes back. *)
NonblockReturns ==
  \A p \in Procs : (pc[p] = "enter" /\ call[p].nonblock) ~> pc[p] = "idle"
=============================================================================
