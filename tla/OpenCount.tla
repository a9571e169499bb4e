----------------------------- MODULE OpenCount ------------------------------
(***************************************************************************)
(* The open_count of the lkm_memory drivers: open() decrements it and goes *)
(* on if that made it zero, else it increments it again and refuses.  The  *)
(* decrement and the repair are two atomic operations with other tasks in  *)
(* between, and the count goes below zero meanwhile.                       *)
(*                                                                         *)
(* Two builds differ in when the count is first set to 1:                  *)
(*   component  rasp-driver/component/hello.c (poll, async and lkm-block   *)
(*              alike): in setup_dev(), before the device node exists      *)
(*   spinlock   rasp-driver/spinlock/hello.c: after device_create()        *)
(*                                                                         *)
(* Definitions named Bad... are slips that test the properties.            *)
(***************************************************************************)
EXTENDS Integers, FiniteSets

CONSTANTS Procs, Driver

ASSUME ProcsAssumption == IsFiniteSet(Procs)
ASSUME DriverAssumption == Driver \in {"component", "spinlock"}

VARIABLES open_count,
          module,      \* how far lkm_mem_init() has come
          pc           \* pc[p]: "idle", "refuse" (after the decrement) or "open"

vars == <<open_count, module, pc>>

Holders == {p \in Procs : pc[p] = "open"}
Takers == {p \in Procs : pc[p] # "idle"}

TypeOK ==
  /\ open_count \in - Cardinality(Procs) .. 1 + Cardinality(Procs)
  /\ module \in {"out", "setup", "node", "live"}
  /\ pc \in [Procs -> {"idle", "refuse", "open"}]

Init ==
  /\ open_count = 0
  /\ module = "out"
  /\ pc = [p \in Procs |-> "idle"]

-----------------------------------------------------------------------------
(* Loading and unloading.                                                  *)

(* What setup_dev() leaves in the zeroed count. *)
SetupCount == IF Driver = "spinlock" THEN 0 ELSE 1

(* kzalloc() to setup_dev(): nobody can open the device yet. *)
setup_dev ==
  /\ module = "out"
  /\ open_count' = SetupCount
  /\ module' = "setup"
  /\ UNCHANGED pc

(* class_create() fails: everything is taken back. *)
InitFails ==
  /\ module = "setup"
  /\ open_count' = 0
  /\ module' = "out"
  /\ UNCHANGED pc

(* device_create(): the node is there, before lkm_mem_init() returns. *)
device_create ==
  /\ module = "setup"
  /\ module' = "node"
  /\ UNCHANGED <<open_count, pc>>

(* The end of lkm_mem_init(). *)
InitReturns ==
  /\ module = "node"
  /\ open_count' = IF Driver = "spinlock" THEN 1 ELSE open_count
  /\ module' = "live"
  /\ UNCHANGED pc

(* rmmod is refused while a file of the module exists or is being opened. *)
lkm_mem_exit ==
  /\ module = "live"
  /\ Takers = {}
  /\ open_count' = 0
  /\ module' = "out"
  /\ UNCHANGED pc

-----------------------------------------------------------------------------
(* open() and release().                                                   *)

lkm_mem_open(p) ==
  /\ module \in {"node", "live"}
  /\ pc[p] = "idle"
  /\ open_count' = open_count - 1
  /\ pc' = [pc EXCEPT ![p] = IF open_count' = 0
                             THEN "open" ELSE "refuse"]
  /\ UNCHANGED module

BadRefuse(p) ==
  /\ pc[p] = "refuse"
  /\ pc' = [pc EXCEPT ![p] = "idle"]
  /\ UNCHANGED <<open_count, module>>

(* The rest of an open() that returns -EBUSY. *)
Refuse(p) ==
  /\ pc[p] = "refuse"
  /\ open_count' = open_count + 1
  /\ pc' = [pc EXCEPT ![p] = "idle"]
  /\ UNCHANGED module

BadRelease(p) ==
  /\ pc[p] = "open"
  /\ open_count' = 1
  /\ pc' = [pc EXCEPT ![p] = "idle"]
  /\ UNCHANGED module

lkm_mem_release(p) ==
  /\ pc[p] = "open"
  /\ open_count' = open_count + 1
  /\ pc' = [pc EXCEPT ![p] = "idle"]
  /\ UNCHANGED module

Next ==
  \/ setup_dev \/ InitFails \/ device_create \/ InitReturns \/ lkm_mem_exit
  \/ \E p \in Procs : lkm_mem_open(p) \/ Refuse(p) \/ lkm_mem_release(p)

Spec == Init /\ [][Next]_vars

-----------------------------------------------------------------------------
(* "It can be opened once at a time" (the comment at atomic_set): never    *)
(* two files, also while other openers have the count below zero.          *)
SingleHolder == \A p, q \in Holders : p = q

(* The device does not get stuck: when no file exists and no open() is     *)
(* under way, a loaded driver is as free as it was after loading.          *)
Reopenable == module = "live" /\ Takers = {} => open_count = 1
=============================================================================
