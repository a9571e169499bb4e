------------------------------- MODULE LkmMem -------------------------------
(***************************************************************************)
(* The lkm_memory device, the repository's own FIFO: rasp-driver/          *)
(* component/hello.c and the earlier build poll/hello.c.  open() admits    *)
(* one file (OpenCount), so the tasks here are the threads that share it,  *)
(* and O_NONBLOCK is a property of that file.                              *)
(*                                                                         *)
(* What sets this device apart from globalfifo is how a call ends.  There  *)
(* is one exit path, which always unlocks: a call that a signal ends comes *)
(* there without the mutex.  In poll/hello.c a write that succeeds returns *)
(* in front of it and keeps the mutex and its wait entry.                  *)
(*                                                                         *)
(* Definitions named Bad... are slips that test the properties.            *)
(***************************************************************************)
EXTENDS KernelSync, Integers, Sequences

CONSTANTS Bytes,      \* the values of a byte
          Size,       \* LKM_MEM_SIZE
          Driver,     \* "component" or "poll"
          Owners      \* the programs that open the file

UshortMax == 65535

(* dev->len is a ushort: LKM_MEM_SIZE is a length it can hold. *)
ASSUME SizeAssumption == Size \in 1 .. UshortMax
ASSUME BytesAssumption == 0 \in Bytes
ASSUME DriverAssumption == Driver \in {"component", "poll"}

CallRecs == [op : {"read", "write", "pollin", "pollout"}, count : Nat]
NoCall == [op |-> "read", count |-> 0]

(* requests[p] are the calls thread p makes, nonblock is O_NONBLOCK, async *)
(* says that the program uses FASYNC, signals are the threads other        *)
(* signals are sent to.                                                    *)
OwnerType ==
  [requests : [Procs -> SUBSET CallRecs], nonblock : BOOLEAN, async : BOOLEAN,
   signals : SUBSET Procs]

ASSUME OwnersAssumption == Owners # {} /\ Owners \subseteq OwnerType

VARIABLES opened,      \* the one file exists
          owner,       \* the program that opened it last
          fasync,      \* the file is on dev->fasync
          len,         \* dev->len
          memory,      \* dev->memory
          pc, call, cnt, buf, last, ret

sync == <<mutex, wq, task, sig>>
device == <<opened, owner, fasync, len, memory>>
calls == <<pc, call, cnt, buf, last, ret>>
vars == <<sync, device, calls>>

EAGAIN == 11
EFAULT == 14
ERESTARTSYS == 512

LockedPcs == {"test", "copy", "update", "wake", "notify"}
Pcs == LockedPcs \cup {"idle", "enter", "sched", "relock", "exit", "return",
                       "poll", "p_sched", "p_free"}

TypeOK ==
  /\ SyncType
  /\ opened \in BOOLEAN /\ owner \in Owners /\ fasync \in BOOLEAN
  /\ len \in 0 .. UshortMax
  /\ memory \in [1 .. Size -> Bytes]
  /\ pc \in [Procs -> Pcs]
  /\ call \in [Procs -> CallRecs]
  /\ cnt \in [Procs -> 0 .. Size]
  /\ buf \in [Procs -> Seq(Bytes)]
  /\ last \in [Procs -> Seq(Bytes)]
  /\ ret \in [Procs -> {-EAGAIN, -EFAULT, -ERESTARTSYS} \cup 0 .. Size]

(* setup_dev() *)
Init ==
  /\ SyncInit
  /\ opened = FALSE /\ owner \in Owners /\ fasync = FALSE
  /\ len = 0
  /\ memory = [i \in 1 .. Size |-> 0]
  /\ pc = [p \in Procs |-> "idle"]
  /\ call = [p \in Procs |-> NoCall]
  /\ cnt = [p \in Procs |-> 0]
  /\ buf = [p \in Procs |-> <<>>]
  /\ last = [p \in Procs |-> <<>>]
  /\ ret = [p \in Procs |-> 0]

At(p, l) == pc[p] = l
Goto(p, l) == pc' = [pc EXCEPT ![p] = l]

Blocked(op) == IF op = "read" THEN len = 0 ELSE len = Size

HeadOf(op) == IF op = "read" THEN "r_wait" ELSE "w_wait"
BadWoken(op) == HeadOf(op)
Woken(op) == IF op = "read" THEN "w_wait" ELSE "r_wait"

InCall == {p \in Procs : pc[p] # "idle"}

(* kill_fasync() signals the process that owns the file: one of its        *)
(* threads takes the signal, at once if it is in user mode.                *)
Kill(q) ==
  IF fasync /\ q \in InCall
  THEN sig' = Signalled({q}) /\ task' = Runnable({q})
  ELSE UNCHANGED <<sig, task>>

-----------------------------------------------------------------------------
(* open(), release() and fcntl(F_SETFL).                                   *)

lkm_mem_open ==
  /\ ~opened
  /\ opened' = TRUE
  /\ owner' \in Owners
  /\ UNCHANGED <<sync, fasync, len, memory, calls>>

(* The last close.  The file system takes a FASYNC file off the list       *)
(* before it calls release().                                              *)
lkm_mem_release ==
  /\ opened
  /\ InCall = {}
  /\ opened' = FALSE
  /\ fasync' = FALSE
  /\ UNCHANGED <<sync, owner, len, memory, calls>>

lkm_mem_fasync(p, mode) ==
  /\ opened
  /\ At(p, "idle")
  /\ Driver # "poll" /\ owner.async
  /\ fasync' = mode
  /\ UNCHANGED <<sync, opened, owner, len, memory, calls>>

-----------------------------------------------------------------------------
(* poll().                                                                 *)

(* Both tests are inside the braces of the first: POLLOUT is reported only *)
(* when there is data as well.                                             *)
Mask ==
  IF len # 0
  THEN {"pollin"} \cup (IF len # Size THEN {"pollout"} ELSE {})
  ELSE {}

lkm_mem_poll(p) ==
  /\ At(p, "poll")
  /\ mutex = NoProc
  /\ wq' = [h \in Heads |-> wq[h] \cup {p}]
  /\ task' = Interruptible(p)
  /\ Goto(p, IF call[p].op \in Mask THEN "p_free" ELSE "p_sched")
  /\ UNCHANGED <<mutex, sig, device, call, cnt, buf, last, ret>>

PollSchedule(p) ==
  /\ At(p, "p_sched")
  /\ task[p] = "RUNNING" \/ sig[p]
  /\ task' = Runnable({p})
  /\ Goto(p, IF sig[p] THEN "p_free" ELSE "poll")
  /\ UNCHANGED <<mutex, wq, sig, device, call, cnt, buf, last, ret>>

PollFree(p) ==
  /\ At(p, "p_free")
  /\ wq' = Unlinked(Heads, p)
  /\ task' = Runnable({p})
  /\ Goto(p, "return")
  /\ UNCHANGED <<mutex, sig, device, call, cnt, buf, last, ret>>

-----------------------------------------------------------------------------
(* read() and write().                                                     *)

Enter(p, c) ==
  /\ opened
  /\ At(p, "idle")
  /\ c \in owner.requests[p]
  /\ call' = [call EXCEPT ![p] = c]
  /\ Goto(p, IF c.op \in {"read", "write"} THEN "enter" ELSE "poll")
  /\ UNCHANGED <<sync, device, cnt, buf, last, ret>>

Lock(p) ==
  /\ At(p, "enter")
  /\ mutex_lock(p)
  /\ wq' = Linked(HeadOf(call[p].op), p)
  /\ Goto(p, "test")
  /\ UNCHANGED <<task, sig, device, call, cnt, buf, last, ret>>

(* The loop condition holds.  write() first tells the owner, once for each *)
(* time around the loop, that the FIFO is full (SIGUSR1).                  *)
Full(p, q) == IF call[p].op = "write" THEN Kill(q) ELSE UNCHANGED <<sig, task>>

WouldBlock(p, q) ==
  /\ At(p, "test")
  /\ Blocked(call[p].op)
  /\ owner.nonblock
  /\ Full(p, q)
  /\ ret' = [ret EXCEPT ![p] = -EAGAIN]
  /\ Goto(p, "exit")
  /\ UNCHANGED <<mutex, wq, device, call, cnt, buf, last>>

BadSleep(p, q) ==
  /\ At(p, "test")
  /\ Blocked(call[p].op)
  /\ task' = Interruptible(p)
  /\ mutex_unlock
  /\ Goto(p, "sched")
  /\ UNCHANGED <<wq, sig, device, call, cnt, buf, last, ret>>

Sleep(p, q) ==
  /\ At(p, "test")
  /\ Blocked(call[p].op)
  /\ ~owner.nonblock
  /\ LET told == call[p].op = "write" /\ fasync /\ q \in InCall IN
       /\ sig' = IF told THEN Signalled({q}) ELSE sig
       /\ task' = [(IF told THEN Runnable({q}) ELSE task)
                     EXCEPT ![p] = "INTERRUPTIBLE"]
  /\ mutex_unlock
  /\ Goto(p, "sched")
  /\ UNCHANGED <<wq, device, call, cnt, buf, last, ret>>

(* A signal leads to exit_2, without the mutex. *)
Schedule(p) ==
  /\ At(p, "sched")
  /\ task[p] = "RUNNING" \/ sig[p]
  /\ task' = Runnable({p})
  /\ ret' = IF sig[p] THEN [ret EXCEPT ![p] = -ERESTARTSYS] ELSE ret
  /\ Goto(p, IF sig[p] THEN "exit" ELSE "relock")
  /\ UNCHANGED <<mutex, wq, sig, device, call, cnt, buf, last>>

BadRelock(p) ==
  /\ At(p, "relock")
  /\ Goto(p, "test")
  /\ UNCHANGED <<sync, device, call, cnt, buf, last, ret>>

Relock(p) ==
  /\ At(p, "relock")
  /\ mutex_lock(p)
  /\ Goto(p, "test")
  /\ UNCHANGED <<wq, task, sig, device, call, cnt, buf, last, ret>>

Movable(op) == IF op = "read" THEN len ELSE Size - len

Clip(p) ==
  /\ At(p, "test")
  /\ ~Blocked(call[p].op)
  /\ cnt' = [cnt EXCEPT ![p] = IF call[p].count > Movable(call[p].op)
                               THEN Movable(call[p].op) ELSE call[p].count]
  /\ Goto(p, "copy")
  /\ UNCHANGED <<sync, device, call, buf, last, ret>>

BadFault(p) ==
  /\ ret' = [ret EXCEPT ![p] = -EFAULT]
  /\ Goto(p, "update")
  /\ UNCHANGED buf

Fault(p) ==
  /\ ret' = [ret EXCEPT ![p] = -EFAULT]
  /\ Goto(p, "exit")
  /\ UNCHANGED buf

ReadCopy(p) ==
  /\ At(p, "copy")
  /\ call[p].op = "read"
  /\ \/ Fault(p)
     \/ /\ buf' = [buf EXCEPT ![p] = [i \in 1 .. cnt[p] |-> memory[i]]]
        /\ Goto(p, "update")
        /\ UNCHANGED ret
  /\ UNCHANGED <<sync, device, call, cnt, last>>

(* The bytes d stored behind the data as far as the first k, then zeroes. *)
Stored(d, k) ==
  [i \in 1 .. Size |->
    IF i \in len + 1 .. len + Len(d)
    THEN IF i <= len + k THEN d[i - len] ELSE 0
    ELSE memory[i]]

WriteCopy(p) ==
  /\ At(p, "copy")
  /\ call[p].op = "write"
  /\ \E d \in [1 .. cnt[p] -> Bytes] :
       \/ /\ \E k \in 0 .. cnt[p] - 1 : memory' = Stored(d, k)
          /\ Fault(p)
       \/ /\ memory' = Stored(d, cnt[p])
          /\ buf' = [buf EXCEPT ![p] = d]
          /\ Goto(p, "update")
          /\ UNCHANGED ret
  /\ UNCHANGED <<sync, opened, owner, fasync, len, call, cnt, last>>

BadShifted(n) == memory
Shifted(n) ==
  [i \in 1 .. Size |-> IF i \in 1 .. len - n THEN memory[i + n] ELSE memory[i]]

Moved(p) ==
  /\ last' = [last EXCEPT ![p] = buf[p]]
  /\ ret' = [ret EXCEPT ![p] = cnt[p]]
  /\ Goto(p, "wake")

(* len is a ushort: it wraps if another thread took the data meanwhile. *)
ReadUpdate(p) ==
  /\ At(p, "update")
  /\ call[p].op = "read"
  /\ memory' = Shifted(cnt[p])
  /\ len' = (len - cnt[p]) % (UshortMax + 1)
  /\ Moved(p)
  /\ UNCHANGED <<sync, opened, owner, fasync, call, cnt, buf>>

WriteUpdate(p) ==
  /\ At(p, "update")
  /\ call[p].op = "write"
  /\ len' = (len + cnt[p]) % (UshortMax + 1)
  /\ Moved(p)
  /\ UNCHANGED <<sync, opened, owner, fasync, memory, call, cnt, buf>>

Wake(p) ==
  /\ At(p, "wake")
  /\ task' = Runnable(wq[Woken(call[p].op)])
  /\ Goto(p, "notify")
  /\ UNCHANGED <<mutex, wq, sig, device, call, cnt, buf, last, ret>>

(* SIGUSR2 after a read, SIGIO after a write; then to the exit path, which *)
(* poll/hello.c's write returns in front of.                               *)
Notify(p, q) ==
  /\ At(p, "notify")
  /\ Kill(q)
  /\ Goto(p, IF Driver = "poll" /\ call[p].op = "write" THEN "return" ELSE "exit")
  /\ UNCHANGED <<mutex, wq, device, call, cnt, buf, last, ret>>

(* exit_2 and exit: the entry is removed and the mutex released. *)
BadExit(p) ==
  /\ At(p, "exit")
  /\ task' = Runnable({p})
  /\ mutex_unlock
  /\ Goto(p, "return")
  /\ UNCHANGED <<wq, sig, device, call, cnt, buf, last, ret>>

Exit(p) ==
  /\ At(p, "exit")
  /\ task' = Runnable({p})
  /\ wq' = Unlinked({HeadOf(call[p].op)}, p)
  /\ mutex_unlock
  /\ Goto(p, "return")
  /\ UNCHANGED <<sig, device, call, cnt, buf, last, ret>>

Return(p) ==
  /\ At(p, "return")
  /\ sig' = [sig EXCEPT ![p] = FALSE]
  /\ Goto(p, "idle")
  /\ call' = [call EXCEPT ![p] = NoCall]
  /\ cnt' = [cnt EXCEPT ![p] = 0]
  /\ buf' = [buf EXCEPT ![p] = <<>>]
  /\ last' = [last EXCEPT ![p] = <<>>]
  /\ ret' = [ret EXCEPT ![p] = 0]
  /\ UNCHANGED <<mutex, wq, task, device>>

Signal(p) ==
  /\ p \in owner.signals \cap InCall
  /\ ~sig[p]
  /\ sig' = Signalled({p})
  /\ task' = Runnable({p})
  /\ UNCHANGED <<mutex, wq, device, calls>>

-----------------------------------------------------------------------------
Shared(p) ==
  \/ Lock(p) \/ Schedule(p) \/ Relock(p) \/ Clip(p) \/ Wake(p) \/ Exit(p)
  \/ \E q \in Procs : WouldBlock(p, q) \/ Sleep(p, q) \/ Notify(p, q)

lkm_mem_read(p) ==
  /\ call[p].op = "read"
  /\ Shared(p) \/ ReadCopy(p) \/ ReadUpdate(p)

lkm_mem_write(p) ==
  /\ call[p].op = "write"
  /\ Shared(p) \/ WriteCopy(p) \/ WriteUpdate(p)

Step(p) ==
  \/ lkm_mem_read(p) \/ lkm_mem_write(p)
  \/ lkm_mem_poll(p) \/ PollSchedule(p) \/ PollFree(p)
  \/ Return(p)

Next ==
  \/ lkm_mem_open \/ lkm_mem_release
  \/ \E p \in Procs :
       \/ Step(p)
       \/ \E mode \in BOOLEAN : lkm_mem_fasync(p, mode)
       \/ \E c \in owner.requests[p] : Enter(p, c)
       \/ Signal(p)

Spec == Init /\ [][Next]_vars

(* A thread inside the driver keeps running and gets a mutex that is free  *)
(* again and again, as in GlobalFifo.                                      *)
FairSpec == Spec /\ \A p \in Procs : SF_vars(Step(p))

-----------------------------------------------------------------------------
(* "Lock before operating" (the comment at each mutex_lock): whoever       *)
(* copies or updates owns the mutex, alone, and finds what it clipped its  *)
(* count to.                                                               *)
CopyUnderLock ==
  \A p \in Procs : pc[p] \in {"copy", "update"} =>
    /\ mutex = p
    /\ ~Blocked(call[p].op)
    /\ cnt[p] <= Movable(call[p].op)

(* No reader, poller or writer sleeps through what it waits for.  A poller *)
(* for POLLOUT is left out: on an empty FIFO lkm_mem_poll never reports it.*)
Asleep(p) ==
  pc[p] \in {"sched", "p_sched"} /\ task[p] = "INTERRUPTIBLE"

NoLostWakeup ==
  mutex = NoProc =>
    \A p \in Procs : Asleep(p) =>
      /\ call[p].op \in {"read", "pollin"} => len = 0
      /\ call[p].op = "write" => len = Size

(* A call that has returned has left no wait entry of its stack behind. *)
NoDanglingEntry ==
  \A p \in Procs, h \in Heads :
    pc[p] \in {"idle", "return"} => p \notin wq[h]

(* What a call returns is what it moved. *)
ReturnMatchesTransfer ==
  \A p \in Procs :
    pc[p] = "return" => Len(last[p]) = IF ret[p] < 0 THEN 0 ELSE ret[p]

(* A call on an O_NONBLOCK file "returns at once": it comes back. *)
NonblockReturns ==
  \A p \in Procs : pc[p] = "enter" /\ owner.nonblock ~> pc[p] = "idle"

(* The device is a bounded FIFO of bytes. *)
Fifo == INSTANCE BoundedFifo WITH queue <- [i \in 1 .. len |-> memory[i]]
FifoSpec == Fifo!Spec
=============================================================================
