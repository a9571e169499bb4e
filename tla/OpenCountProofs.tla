-------------------------- MODULE OpenCountProofs ---------------------------
(***************************************************************************)
(* For any finite set of tasks: the drivers that set open_count before     *)
(* they create the device node admit one file at a time and never get      *)
(* stuck.                                                                  *)
(*                                                                         *)
(* The inductive invariant says what the count counts: 1, less one for     *)
(* every task that holds the device or has been refused and has not yet    *)
(* repaired its decrement.  SingleHolder alone is not inductive: it takes  *)
(* the sum over all the tasks to know that a count of 1 means nobody.      *)
(***************************************************************************)
EXTENDS OpenCount, FiniteSetTheorems, TLAPS

PcType == pc \in [Procs -> {"idle", "refuse", "open"}]

(* Files exist, and opens are under way, only once the node does. *)
TakersInv == module \in {"out", "setup"} => Takers = {}

CountInv ==
  module # "out" => open_count = 1 - Cardinality(Takers)

IInv ==
  /\ PcType /\ open_count \in Int
  /\ module \in {"out", "setup", "node", "live"}
  /\ module = "out" => open_count = 0
  /\ TakersInv /\ CountInv /\ SingleHolder

-----------------------------------------------------------------------------
(* The tasks that have decremented the count are finitely many. *)
LEMMA TakersFinite ==
  IsFiniteSet(Takers) /\ Cardinality(Takers) \in 0 .. Cardinality(Procs)
<1>1. Takers \subseteq Procs
  BY DEF Takers
<1>2. IsFiniteSet(Takers) /\ Cardinality(Takers) <= Cardinality(Procs)
  BY <1>1, ProcsAssumption, FS_Subset
<1>3. Cardinality(Takers) \in Nat /\ Cardinality(Procs) \in Nat
  BY <1>2, ProcsAssumption, FS_CardinalityType
<1>4. QED
  BY <1>2, <1>3

(* A task that decrements joins them, one that increments leaves. *)
LEMMA TakersAdd ==
  ASSUME NEW p \in Procs, p \notin Takers, Takers' = Takers \cup {p}
  PROVE  Cardinality(Takers') = Cardinality(Takers) + 1
BY TakersFinite, FS_AddElement

LEMMA TakersRemove ==
  ASSUME NEW p \in Procs, p \in Takers, Takers' = Takers \ {p}
  PROVE  Cardinality(Takers') = Cardinality(Takers) - 1
BY TakersFinite, FS_RemoveElement

LEMMA TakersEmpty == Cardinality(Takers) = 0 <=> Takers = {}
BY TakersFinite, FS_EmptySet

(* The invariant bounds the count, so it implies the type. *)
LEMMA IInvType == IInv => TypeOK
<1> SUFFICES ASSUME IInv PROVE TypeOK
  OBVIOUS
<1>1. open_count = 0 \/ open_count = 1 - Cardinality(Takers)
  BY DEF IInv, CountInv
<1>2. Cardinality(Procs) \in Nat
  BY ProcsAssumption, FS_CardinalityType
<1>3. open_count \in - Cardinality(Procs) .. 1 + Cardinality(Procs)
  BY <1>1, <1>2, TakersFinite
<1>4. QED
  BY <1>3 DEF IInv, PcType, TypeOK

-----------------------------------------------------------------------------
LEMMA InitIInv == Init => IInv
BY DEF Init, IInv, PcType, TakersInv, CountInv, SingleHolder, Holders, Takers

(* Every step of a driver like component/hello.c keeps the invariant. *)
LEMMA NextIInv ==
  ASSUME Driver = "component", IInv, [Next]_vars
  PROVE  IInv'
<1> USE DEF IInv, PcType, TakersInv, CountInv
<1>1. CASE setup_dev \/ InitFails \/ device_create \/ InitReturns \/ lkm_mem_exit
  <2>1. Takers' = Takers /\ Holders' = Holders /\ PcType'
    BY <1>1 DEF setup_dev, InitFails, device_create, InitReturns,
                lkm_mem_exit, Takers, Holders
  <2>2. SingleHolder'
    BY <2>1 DEF SingleHolder
  <2>3. QED
    BY <1>1, <2>1, <2>2, TakersEmpty, TakersFinite DEF setup_dev, InitFails,
       device_create, InitReturns, lkm_mem_exit, SetupCount
<1>2. ASSUME NEW p \in Procs, lkm_mem_open(p) PROVE IInv'
  <2>1. p \notin Takers /\ Takers' = Takers \cup {p}
    BY <1>2 DEF lkm_mem_open, Takers
  <2>2. Cardinality(Takers') = Cardinality(Takers) + 1
    BY <2>1, TakersAdd
  <2>3. CountInv' /\ open_count' \in Int
    BY <1>2, <2>2, TakersFinite DEF lkm_mem_open
  <2>4. SingleHolder'
    <3>1. CASE open_count' = 0
      <4>1. Takers = {}
        BY <1>2, <3>1, TakersEmpty, TakersFinite DEF lkm_mem_open
      <4>2. Holders' \subseteq {p}
        BY <1>2, <4>1 DEF lkm_mem_open, Takers, Holders
      <4>3. QED
        BY <4>2 DEF SingleHolder
    <3>2. CASE open_count' # 0
      <4>1. Holders' = Holders
        BY <1>2, <3>2 DEF lkm_mem_open, Holders
      <4>2. QED
        BY <4>1 DEF SingleHolder
    <3>3. QED
      BY <3>1, <3>2
  <2>5. QED
    BY <1>2, <2>3, <2>4 DEF lkm_mem_open
<1>3. ASSUME NEW p \in Procs, Refuse(p) \/ lkm_mem_release(p) PROVE IInv'
  <2>1. p \in Takers /\ Takers' = Takers \ {p} /\ Holders' \subseteq Holders
    BY <1>3 DEF Refuse, lkm_mem_release, Takers, Holders
  <2>2. Cardinality(Takers') = Cardinality(Takers) - 1
    BY <2>1, TakersRemove
  <2>3. module # "out" /\ module' = module /\ PcType'
        /\ open_count' = open_count + 1
    BY <1>3, <2>1 DEF Refuse, lkm_mem_release
  <2>4. SingleHolder'
    BY <2>1 DEF SingleHolder
  <2>5. QED
    BY <2>1, <2>2, <2>3, <2>4, TakersFinite
<1>4. CASE UNCHANGED vars
  <2>1. Takers' = Takers /\ Holders' = Holders
    BY <1>4 DEF vars, Takers, Holders
  <2>2. QED
    BY <1>4, <2>1 DEF vars, SingleHolder
<1>5. QED
  BY <1>1, <1>2, <1>3, <1>4 DEF Next

-----------------------------------------------------------------------------
(* The invariant holds throughout, for component, poll, async, lkm-block.  *)
THEOREM Invariance == ASSUME Driver = "component" PROVE Spec => []IInv
BY InitIInv, NextIInv, PTL DEF Spec

(* The count stays within what the tasks can make of it. *)
THEOREM TypeCorrect == ASSUME Driver = "component" PROVE Spec => []TypeOK
BY Invariance, IInvType, PTL

(* lkm_mem_open() admits at most one file, whatever order the decrements   *)
(* and the repairs of refused openers come in.                             *)
THEOREM SingleHolderHolds ==
  ASSUME Driver = "component" PROVE Spec => []SingleHolder
<1>1. IInv => SingleHolder
  BY DEF IInv
<1>2. QED
  BY Invariance, <1>1, PTL

(* When the last file is closed and the last refused open() has returned,  *)
(* the device can be opened again.                                         *)
THEOREM ReopenableHolds ==
  ASSUME Driver = "component" PROVE Spec => []Reopenable
<1>1. IInv => Reopenable
  BY TakersEmpty, TakersFinite DEF IInv, CountInv, Reopenable
<1>2. QED
  BY Invariance, <1>1, PTL

=============================================================================
