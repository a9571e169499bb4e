----------------------------- MODULE KernelSync -----------------------------
(***************************************************************************)
(* The kernel services the blocking drivers are written against: one       *)
(* struct mutex, the read and the write wait queue of a device, the run    *)
(* state of each task and its pending signal.  The kernel is not part of   *)
(* the repository; it is modelled from how the drivers use it.             *)
(***************************************************************************)
CONSTANTS Procs,      \* the tasks that call into the driver
          NoProc      \* "nobody": the mutex is free

ASSUME NoProcAssumption == NoProc \notin Procs

VARIABLES mutex,      \* the owner of dev->mutex, or NoProc
          wq,         \* wq[h]: the tasks whose wait entry is linked on head h
          task,       \* task[p]: TASK_RUNNING or TASK_INTERRUPTIBLE
          sig         \* sig[p]: signal_pending(p)

Heads == {"r_wait", "w_wait"}
TaskStates == {"RUNNING", "INTERRUPTIBLE"}

SyncType ==
  /\ mutex \in Procs \cup {NoProc}
  /\ wq \in [Heads -> SUBSET Procs]
  /\ task \in [Procs -> TaskStates]
  /\ sig \in [Procs -> BOOLEAN]

SyncInit ==
  /\ mutex = NoProc
  /\ wq = [h \in Heads |-> {}]
  /\ task = [p \in Procs |-> "RUNNING"]
  /\ sig = [p \in Procs |-> FALSE]

(* mutex_lock() returns once the mutex is free. *)
mutex_lock(p) ==
  /\ mutex = NoProc
  /\ mutex' = p

(* mutex_unlock() frees the mutex whoever owns it: the kernel's unlock slow *)
(* path clears the owner without comparing it to the caller.                *)
mutex_unlock == mutex' = NoProc

Linked(h, p) == [wq EXCEPT ![h] = @ \cup {p}]
Unlinked(hs, p) == [h \in Heads |-> IF h \in hs THEN wq[h] \ {p} ELSE wq[h]]

(* The tasks of S made runnable, by a wake-up or by a signal. *)
Runnable(S) == [p \in Procs |-> IF p \in S THEN "RUNNING" ELSE task[p]]

(* set_current_state(TASK_INTERRUPTIBLE) *)
Interruptible(p) == [task EXCEPT ![p] = "INTERRUPTIBLE"]

(* A signal is queued for every task of S; a sleeping one becomes runnable. *)
Signalled(S) == [p \in Procs |-> p \in S \/ sig[p]]
=============================================================================
