---------------------------- MODULE MmcBlkProofs ----------------------------
(***************************************************************************)
(* Proofs about MmcBlk for any number of tags, requests, retries and       *)
(* rounds of the other task, on hosts of both modes.                       *)
(*                                                                         *)
(* The argument counts.  A request that was issued is in exactly one place *)
(* (PlaceInv): with the dispatcher, at the host, done and waiting for      *)
(* somebody to post it, waiting for the recovery, or with the context that *)
(* posts it.  mq->in_flight is the number of places that are taken         *)
(* (CountInv), and the claim is held once for all of them, once more by    *)
(* the recovery and by each context on its way to give it up (ClaimInv).   *)
(***************************************************************************)
EXTENDS MmcBlk, FiniteSetTheorems, TLAPS

(* The names of the states, whatever they are. *)
ReqStates == {"free", "queued", "issued", "completing"}
ReqErrors == {"none", "cmd", "data"}
Outcomes == {"none", "busy", "start", "finished"}
Holders == {None, "mq", "other"}
OtherPcs == {"idle", "quiesce", "claim", "claimed", "suspended"}

(* The shape of the state: what EXCEPT needs to know. *)
QueueRec ==
  [in_flight : [{"SYNC", "ASYNC"} -> Int],
   busy : BOOLEAN, recovery_needed : BOOLEAN, in_recovery : BOOLEAN,
   rw_wait : BOOLEAN, waiting : BOOLEAN,
   complete_req : Reqs \cup {None}, recovery_req : Reqs \cup {None},
   complete_lock : Actors \cup {None},
   complete_work : BOOLEAN, recovery_work : BOOLEAN, quiesced : BOOLEAN]

ReqRec == [st : ReqStates, op : RwOps \cup SyncOps, left : Int, retries : Int,
           err : ReqErrors, xfer : Int, bad : BOOLEAN]

ActRec == [pc : Pcs, req : Reqs \cup {None}, rw : BOOLEAN,
           tgt : Reqs \cup {None}, err : Outcomes, retries : Int,
           error : BOOLEAN]

CardRec == [removed : BOOLEAN, reset_done : SUBSET (RwOps \cup SyncOps),
            lied : SUBSET {"transfer", "single", "secdiscard"}]

Shape ==
  /\ setup \in Setups
  /\ mq \in QueueRec
  /\ rq \in [Reqs -> ReqRec]
  /\ at \in Reqs \cup {None}
  /\ act \in [Actors -> ActRec]
  /\ claim \in [by : Holders, cnt : Int, warn : BOOLEAN]
  /\ other \in [pc : OtherPcs, suspend : BOOLEAN, rounds : Int]
  /\ card \in CardRec
  /\ submits \in Int

-----------------------------------------------------------------------------
(* The statements of the contexts. *)
Polling == {"poll", "recover", "single"}
Posting == {"complete", "dec", "put"}

PcInv ==
  /\ act["disp"].pc \in {"idle", "claim", "wait", "asleep", "lock", "go",
                         "running", "leave", "undo"}
                          \cup Polling \cup Posting
  /\ act["late"].pc \in {"idle", "undoput"}
  /\ act["irq"].pc \in {"idle"} \cup Posting
  /\ act["cw"].pc \in {"idle", "lock"} \cup Polling \cup Posting
  /\ act["rec"].pc \in {"idle", "claim", "begin", "recover", "single", "end",
                        "endput"} \cup Posting

(* A host is polled for completion, or completes by itself and needs the   *)
(* recovery.                                                               *)
ModeInv ==
  /\ setup.mode = "poll" =>
       /\ act["irq"].pc = "idle" /\ act["rec"].pc = "idle"
       /\ ~mq.recovery_needed /\ mq.recovery_req = None /\ ~mq.recovery_work
       /\ act["disp"].err # "busy"
  /\ setup.mode = "done" =>
       /\ act["cw"].pc = "idle" /\ ~mq.complete_work
       /\ mq.complete_req = None /\ mq.complete_lock = None
       /\ act["disp"].pc \notin Polling \cup Posting
       /\ act["disp"].tgt = None

(* What a context posts is a request; the dispatcher of a transfer keeps   *)
(* it while it starts its own.                                             *)
TargetInv ==
  /\ \A a \in Actors :
       act[a].pc \in Polling \cup {"complete", "dec"} => act[a].tgt \in Reqs
  /\ act["disp"].pc = "go" /\ act["disp"].tgt # None => act["disp"].rw
  /\ act["disp"].pc \in {"claim", "wait", "asleep", "lock", "running"} =>
       act["disp"].tgt = None
  /\ act["disp"].pc # "idle" => act["disp"].req \in Reqs
  /\ act["disp"].pc \in {"claim", "wait", "asleep", "lock", "go", "running"}
                          \cup Polling => act["disp"].err \in {"none", "busy"}
  /\ act["disp"].pc \in Posting /\ ~act["disp"].rw => act["disp"].err = "none"
  /\ act["disp"].pc = "undo" => act["disp"].err \in {"busy", "start", "finished"}
  /\ act["late"].pc = "undoput" =>
       /\ act["late"].req \in Reqs
       /\ act["late"].err \in {"busy", "start", "finished"}

(* complete_lock belongs to the context that has the request which is done *)
(* in its hands.                                                           *)
Locking(a) ==
  \/ act[a].pc \in Polling
  \/ act[a].pc \in Posting /\ ~Rw(a)

LockInv ==
  /\ \A a \in {"disp", "cw"} : Locking(a) =>
       mq.complete_lock = a /\ mq.complete_req # None
         /\ mq.complete_req = act[a].tgt
  /\ mq.complete_lock # None =>
       mq.complete_lock \in {"disp", "cw"} /\ Locking(mq.complete_lock)

(* The dispatcher has waited for the transfer before its own. *)
Ready ==
  /\ act["disp"].err # "busy"
  /\ \/ act["disp"].pc \in {"lock", "go", "running"} \cup Polling
     \/ act["disp"].pc \in Posting /\ ~act["disp"].rw

AtHost == at # None /\ rq[at].op \in RwOps

(* One transfer at a time, none beside a synchronous operation, and none   *)
(* while the transfer before it is polled or recovered.                    *)
HostInv ==
  /\ Ready => ~mq.rw_wait /\ ~mq.recovery_needed
  /\ act["disp"].pc \in {"go", "running"} =>
       mq.complete_req = None /\ mq.complete_lock = None
  /\ AtHost => /\ mq.rw_wait /\ ~mq.recovery_needed
               /\ mq.complete_req = None /\ mq.complete_lock = None
  /\ at # None /\ ~AtHost => act["disp"].pc = "running"
  /\ act["disp"].pc = "running" =>
       /\ at = act["disp"].req /\ ~AtHost
       /\ ~act["disp"].rw /\ act["disp"].err # "busy"
  /\ act["disp"].err = "start" => at = None

(* The recovery works while it is needed. *)
RecoveryInv ==
  /\ mq.recovery_work \/ act["rec"].pc \in {"claim", "begin"} =>
       mq.recovery_req # None
  /\ mq.recovery_req # None => mq.recovery_needed
  /\ act["rec"].pc \notin {"idle", "endput"} =>
       mq.recovery_needed /\ ~mq.recovery_work
  /\ act["rec"].pc \notin {"idle", "claim", "begin", "endput"} =>
       mq.recovery_req = None

-----------------------------------------------------------------------------
(* The places where a request can be. *)

B(x) == IF x THEN 1 ELSE 0

(* The dispatcher's own request counts until it is started or taken back. *)
OwnCounted ==
  \/ act["disp"].pc \in {"claim", "wait", "asleep", "lock", "go", "running",
                         "undo"} \cup Polling
  \/ act["disp"].pc \in Posting /\ (~act["disp"].rw \/ act["disp"].err = "start")

OwnReq ==
  IF act["disp"].err # "finished" /\ OwnCounted THEN act["disp"].req ELSE None

(* A request is not given back before the claim is put. *)
LateReq ==
  IF act["late"].err # "finished" /\ act["late"].pc = "undoput"
  THEN act["late"].req ELSE None

HostReq == IF AtHost THEN at ELSE None

DoneReq == IF mq.complete_lock = None THEN mq.complete_req ELSE None

PostReq(a) ==
  IF act[a].pc \in Polling \cup {"complete", "go"} THEN act[a].tgt ELSE None

Places(r) ==
  B(OwnReq = r) + B(LateReq = r)
    + B(HostReq = r) + B(DoneReq = r) + B(mq.recovery_req = r)
    + B(PostReq("disp") = r) + B(PostReq("irq") = r) + B(PostReq("cw") = r)
    + B(PostReq("rec") = r)

PlaceInv == \A r \in Reqs : Places(r) = B(rq[r].st = "issued")

(* The transfers' direction is known to who issues them. *)
OwnInv == OwnReq # None => (act["disp"].rw <=> rq[OwnReq].op \in RwOps)

(* in_flight is the number of places taken; a request that is being        *)
(* posted counts until it is counted down.                                 *)
Counted(a) ==
  \/ act[a].pc \in Polling \cup {"complete", "dec"}
  \/ act[a].pc = "go" /\ act[a].tgt # None

InFlight ==
  B(OwnCounted) + B(AtHost) + B(DoneReq # None) + B(mq.recovery_req # None)
    + B(Counted("disp")) + B(Counted("irq")) + B(Counted("cw"))
    + B(Counted("rec"))

Total == mmc_tot_in_flight(mq)

CountInv == Total = InFlight

(* The claims of the queue. *)
Claims ==
  B(Total > 0 /\ act["disp"].pc # "claim")
    + B(act["disp"].pc = "put") + B(act["irq"].pc = "put")
    + B(act["cw"].pc = "put") + B(act["rec"].pc = "put")
    + B(act["late"].pc = "undoput")
    + B(act["rec"].pc \notin {"idle", "claim"})

(* A dispatcher that still has to claim is the only one with a request. *)
ClaimInv ==
  /\ ~claim.warn
  /\ claim.by = "mq" => claim.cnt = Claims /\ Claims > 0
  /\ claim.by # "mq" => Claims = 0
  /\ claim.by = None => claim.cnt = 0
  /\ act["disp"].pc = "claim" => Total = 1
  /\ claim.by = "other" <=> other.pc = "claimed"

(* The other task has stopped the queue. *)
Stopping == other.pc = "suspended" \/ (other.pc = "claimed" /\ other.suspend)

OtherInv ==
  /\ other.pc = "quiesce" \/ Stopping => mq.quiesced
  /\ other.pc = "claim" => ~other.suspend
  /\ Stopping =>
       act["disp"].pc = "idle" /\ act["late"].pc = "idle" /\ Total = 0

(* An error that no answer of the host shows is one of a write on a host   *)
(* that is polled, and it is found before the request is posted.           *)
XferInv ==
  /\ \A r \in Reqs :
       /\ rq[r].err = "none" /\ rq[r].bad =>
            rq[r].op = "write" /\ setup.mode = "poll"
       /\ rq[r].st = "completing" => ~(rq[r].xfer > 0 /\ rq[r].bad)
  /\ \A a \in Actors :
       act[a].pc \in {"complete", "go"} /\ act[a].tgt # None =>
         ~(rq[act[a].tgt].xfer > 0 /\ rq[act[a].tgt].bad)
  /\ "transfer" \notin card.lied

IInv ==
  /\ Shape /\ PcInv /\ ModeInv /\ TargetInv /\ LockInv /\ HostInv
  /\ RecoveryInv /\ PlaceInv /\ OwnInv /\ CountInv /\ ClaimInv /\ OtherInv
  /\ XferInv

-----------------------------------------------------------------------------
(* The names are what they are. *)
LEMMA Names ==
  /\ "idle" \in Pcs /\ "claim" \in Pcs /\ "wait" \in Pcs /\ "asleep" \in Pcs
  /\ "lock" \in Pcs /\ "poll" \in Pcs /\ "recover" \in Pcs
  /\ "single" \in Pcs /\ "complete" \in Pcs /\ "dec" \in Pcs
  /\ "put" \in Pcs /\ "go" \in Pcs /\ "running" \in Pcs /\ "leave" \in Pcs
  /\ "undo" \in Pcs /\ "undoput" \in Pcs /\ "begin" \in Pcs /\ "end" \in Pcs
  /\ "endput" \in Pcs
  /\ "free" \in ReqStates /\ "queued" \in ReqStates
  /\ "issued" \in ReqStates /\ "completing" \in ReqStates
  /\ "none" \in ReqErrors /\ "cmd" \in ReqErrors /\ "data" \in ReqErrors
  /\ "none" \in Outcomes /\ "busy" \in Outcomes /\ "start" \in Outcomes
  /\ "finished" \in Outcomes
  /\ "none" \in Holders /\ "mq" \in Holders /\ "other" \in Holders
  /\ "idle" \in OtherPcs /\ "quiesce" \in OtherPcs /\ "claim" \in OtherPcs
  /\ "claimed" \in OtherPcs /\ "suspended" \in OtherPcs
  /\ "disp" \in Actors /\ "late" \in Actors /\ "irq" \in Actors
  /\ "cw" \in Actors /\ "rec" \in Actors
BY DEF Pcs, ReqStates, ReqErrors, Outcomes, Holders, OtherPcs, Actors, None

(* A step of a context to another statement leaves the rest of it alone. *)
LEMMA StepEffect ==
  ASSUME Shape, NEW a \in Actors, NEW pc \in Pcs, Step(a, pc)
  PROVE  /\ act' \in [Actors -> ActRec]
         /\ act'[a].pc = pc /\ act'[a].req = act[a].req
         /\ act'[a].rw = act[a].rw /\ act'[a].tgt = act[a].tgt
         /\ act'[a].err = act[a].err
         /\ \A b \in Actors : b # a => act'[b] = act[b]
BY DEF Shape, Step, ActRec

(* The record of the claim. *)
LEMMA ClaimSet ==
  ASSUME Shape, NEW b \in Holders, NEW n \in Int
  PROVE  /\ [claim EXCEPT !.by = b, !.cnt = n]
              \in [by : Holders, cnt : Int, warn : BOOLEAN]
         /\ [claim EXCEPT !.cnt = n, !.by = b]
              = [claim EXCEPT !.by = b, !.cnt = n]
         /\ [claim EXCEPT !.by = b, !.cnt = n].by = b
         /\ [claim EXCEPT !.by = b, !.cnt = n].cnt = n
         /\ [claim EXCEPT !.by = b, !.cnt = n].warn = claim.warn
BY DEF Shape

(* mmc_put_card() with the claim held, and a claim that is got. *)
LEMMA PutEffect ==
  ASSUME Shape, claim.by = "mq", mmc_put_card
  PROVE  /\ claim' \in [by : Holders, cnt : Int, warn : BOOLEAN]
         /\ claim'.warn = claim.warn
         /\ claim'.cnt = claim.cnt - 1
         /\ claim'.by = IF claim.cnt = 1 THEN None ELSE "mq"
<1> DEFINE n == claim.cnt - 1
           b == IF claim.cnt = 1 THEN None ELSE claim.by
<1>1. n \in Int /\ b \in Holders
  BY Names DEF Shape, None
<1>2. claim' = [claim EXCEPT !.cnt = n, !.by = b]
  BY DEF mmc_put_card
<1>3. claim' = [claim EXCEPT !.by = b, !.cnt = n]
  <2> HIDE DEF n, b
  <2> QED BY <1>1, <1>2, ClaimSet
<1>4. /\ claim' \in [by : Holders, cnt : Int, warn : BOOLEAN]
      /\ claim'.warn = claim.warn /\ claim'.cnt = n /\ claim'.by = b
  <2> HIDE DEF n, b
  <2> QED BY <1>1, <1>3, ClaimSet
<1> QED BY <1>4

(* mmc_get_card() claims the host, or nests in the queue's own claim. *)
LEMMA GetEffect ==
  ASSUME Shape, mmc_get_card
  PROVE  /\ claim' \in [by : Holders, cnt : Int, warn : BOOLEAN]
         /\ claim'.warn = claim.warn
         /\ claim.by # "other"
         /\ claim'.cnt = claim.cnt + 1
         /\ claim'.by = "mq"
<1> DEFINE n == claim.cnt + 1
<1>1. n \in Int /\ claim.by # "other"
  BY DEF Shape, mmc_get_card, None
<1>2. claim' = [claim EXCEPT !.by = "mq", !.cnt = n]
  BY DEF mmc_get_card
<1>3. /\ claim' \in [by : Holders, cnt : Int, warn : BOOLEAN]
      /\ claim'.warn = claim.warn /\ claim'.cnt = n /\ claim'.by = "mq"
  <2> HIDE DEF n
  <2> QED BY <1>1, <1>2, ClaimSet, Names
<1> QED BY <1>1, <1>3

(* Who is nowhere was not issued, and the reverse. *)
LEMMA NotPlaced ==
  ASSUME IInv, NEW r \in Reqs, rq[r].st # "issued"
  PROVE  /\ OwnReq # r /\ LateReq # r /\ HostReq # r /\ DoneReq # r
         /\ mq.recovery_req # r
         /\ PostReq("disp") # r /\ PostReq("irq") # r /\ PostReq("cw") # r
         /\ PostReq("rec") # r
         /\ at # r
<1>1. Places(r) = 0
  BY DEF IInv, PlaceInv, B
<1>2. /\ OwnReq # r /\ LateReq # r /\ HostReq # r /\ DoneReq # r
      /\ mq.recovery_req # r
      /\ PostReq("disp") # r /\ PostReq("irq") # r /\ PostReq("cw") # r
      /\ PostReq("rec") # r
  BY <1>1 DEF Places, B
<1>3. at # r
  <2>1. SUFFICES ASSUME at = r PROVE FALSE
    OBVIOUS
  <2>2. at # None
    BY <2>1, ReqsAssumption
  <2>3. CASE AtHost
    BY <1>2, <2>1, <2>3 DEF HostReq
  <2>4. CASE ~AtHost
    BY <1>2, <2>1, <2>2, <2>4 DEF IInv, HostInv, OwnReq, OwnCounted, TargetInv
  <2> QED BY <2>3, <2>4
<1> QED BY <1>2, <1>3

(* The dispatcher that only has to put the claim posts nothing. *)
LEMMA PosterNames ==
  ASSUME IInv, NEW a \in Actors, act[a].pc \notin {"idle", "undoput"}
  PROVE  a \in {"disp", "irq", "cw", "rec"}
BY DEF IInv, PcInv, Actors

(* A context that has nothing to do. *)
LEMMA IdleRec ==
  /\ Idle \in ActRec /\ Idle.pc = "idle" /\ Idle.req = None /\ Idle.rw = FALSE
  /\ Idle.tgt = None /\ Idle.err = "none"
BY Names DEF Idle, ActRec

(* One context is given another record. *)
LEMMA ActSet ==
  ASSUME Shape, NEW a \in Actors, NEW x \in ActRec,
         act' = [act EXCEPT ![a] = x]
  PROVE  /\ act' \in [Actors -> ActRec] /\ act'[a] = x
         /\ \A b \in Actors : b # a => act'[b] = act[b]
BY DEF Shape

(* The dispatcher goes on with a result, or is done. *)
LEMMA DispEffect ==
  ASSUME Shape, NEW p \in Pcs, NEW e \in Outcomes,
         \/ act' = [act EXCEPT !.disp.err = e, !.disp.pc = p]
         \/ act' = [act EXCEPT !.disp.pc = p, !.disp.err = e]
  PROVE  /\ act' \in [Actors -> ActRec]
         /\ act'["disp"].pc = p /\ act'["disp"].err = e
         /\ act'["disp"].req = act["disp"].req
         /\ act'["disp"].rw = act["disp"].rw
         /\ act'["disp"].tgt = act["disp"].tgt
         /\ act'["irq"] = act["irq"] /\ act'["cw"] = act["cw"]
         /\ act'["rec"] = act["rec"]
         /\ act'["late"] = act["late"]
<1> DEFINE x == [act["disp"] EXCEPT !.err = e, !.pc = p]
<1>1. act' = [act EXCEPT !["disp"] = x] /\ act["disp"] \in ActRec
  <2>1. act["disp"] \in ActRec
    BY Names DEF Shape
  <2>2. [act["disp"] EXCEPT !.pc = p, !.err = e] = x
    BY <2>1 DEF ActRec
  <2> QED BY <2>1, <2>2, Zenon
<1>2. x \in ActRec
  BY <1>1 DEF ActRec
<1>3. /\ x.pc = p /\ x.err = e /\ x.req = act["disp"].req
      /\ x.rw = act["disp"].rw /\ x.tgt = act["disp"].tgt
  BY <1>1 DEF ActRec
<1> HIDE DEF x
<1>4. /\ act' \in [Actors -> ActRec] /\ act'["disp"] = x
      /\ \A b \in Actors : b # "disp" => act'[b] = act[b]
  BY <1>1, <1>2, ActSet, Names, Zenon
<1>5. /\ act'["irq"] = act["irq"] /\ act'["cw"] = act["cw"]
      /\ act'["rec"] = act["rec"] /\ act'["late"] = act["late"]
  BY <1>4, Names
<1> QED BY <1>3, <1>4, <1>5

(* The dispatcher returns to the block layer. *)
LEMMA DispIdle ==
  ASSUME Shape, act' = [act EXCEPT !.disp = Idle]
  PROVE  /\ act' \in [Actors -> ActRec]
         /\ act'["disp"].pc = "idle" /\ act'["disp"].err = "none"
         /\ act'["disp"].req = None /\ act'["disp"].rw = FALSE
         /\ act'["disp"].tgt = None
         /\ act'["irq"] = act["irq"] /\ act'["cw"] = act["cw"]
         /\ act'["rec"] = act["rec"]
         /\ act'["late"] = act["late"]
BY Names, IdleRec DEF Shape

(* The host is of one mode or the other. *)
LEMMA Modes ==
  ASSUME Shape
  PROVE  setup.mode \in {"poll", "done"}
BY SetupsAssumption DEF Shape, SetupType

(* None names no context. *)
LEMMA NoneNames == None # "disp" /\ None # "cw"
BY DEF None

(* recovery_work starts to run. *)
LEMMA RecoveryWorkStep ==
  ASSUME IInv, RecoveryWork
  PROVE  IInv'
<1>1. /\ act' \in [Actors -> ActRec]
      /\ act'["rec"].pc = "claim"
      /\ act'["rec"].req = act["rec"].req
      /\ act'["rec"].rw = act["rec"].rw
      /\ act'["rec"].tgt = act["rec"].tgt
      /\ act'["rec"].err = act["rec"].err
      /\ act'["disp"] = act["disp"]
      /\ act'["irq"] = act["irq"]
      /\ act'["cw"] = act["cw"]
      /\ act'["late"] = act["late"]
  BY StepEffect, Names DEF RecoveryWork, IInv
<1>2. /\ mq' \in QueueRec
      /\ Total' = Total
      /\ mq'.recovery_needed = mq.recovery_needed
      /\ mq'.rw_wait = mq.rw_wait
      /\ mq'.complete_req = mq.complete_req
      /\ mq'.complete_lock = mq.complete_lock
      /\ mq'.recovery_req = mq.recovery_req
      /\ mq'.quiesced = mq.quiesced
      /\ mq'.complete_work = mq.complete_work
      /\ mq'.recovery_work = FALSE
  BY DEF RecoveryWork, IInv, Shape, QueueRec, Total, mmc_tot_in_flight
<1>3. /\ UNCHANGED <<setup, rq, at, claim, other, card, submits>>
      /\ mq.recovery_work
      /\ act["rec"].pc = "idle"
  BY DEF RecoveryWork, IInv, Shape, QueueRec, Actors
<1>4. Shape'
  BY <1>1, <1>2, <1>3 DEF IInv, Shape, ActRec
<1>5. PcInv' /\ ModeInv' /\ TargetInv'
  BY <1>1, <1>2, <1>3
     DEF IInv, PcInv, Polling, Posting, ModeInv, TargetInv, Actors
<1>6. LockInv' /\ HostInv' /\ RecoveryInv'
  BY <1>1, <1>2, <1>3
     DEF IInv, LockInv, Locking, Rw, Actors, Polling, Posting, HostInv, Ready,
         AtHost, RecoveryInv
<1>7. PlaceInv'
  BY <1>1, <1>2, <1>3
     DEF IInv, PlaceInv, Places, B, OwnReq, OwnCounted, HostReq, AtHost,
         DoneReq, LateReq, PostReq, Polling, Posting
<1>8. OwnInv'
  BY <1>1, <1>2, <1>3 DEF IInv, OwnInv, OwnReq, OwnCounted, Polling, Posting
<1>9. CountInv'
  BY <1>1, <1>2, <1>3
     DEF IInv, CountInv, InFlight, B, OwnCounted, AtHost, DoneReq, Counted,
         Polling, Posting
<1>10. ClaimInv' /\ OtherInv' /\ XferInv'
  BY <1>1, <1>2, <1>3
     DEF IInv, ClaimInv, Claims, B, OtherInv, Stopping, XferInv,
         Actors
<1> QED
  BY <1>4, <1>5, <1>6, <1>7, <1>8, <1>9, <1>10 DEF IInv

(* complete_work starts to run. *)
LEMMA CompleteWorkStep ==
  ASSUME IInv, CompleteWork
  PROVE  IInv'
<1>1. /\ act' \in [Actors -> ActRec]
      /\ act'["cw"].pc = "lock"
      /\ act'["cw"].req = act["cw"].req
      /\ act'["cw"].rw = act["cw"].rw
      /\ act'["cw"].tgt = act["cw"].tgt
      /\ act'["cw"].err = act["cw"].err
      /\ act'["disp"] = act["disp"]
      /\ act'["irq"] = act["irq"]
      /\ act'["rec"] = act["rec"]
      /\ act'["late"] = act["late"]
  BY StepEffect, Names DEF CompleteWork, IInv
<1>2. /\ mq' \in QueueRec
      /\ Total' = Total
      /\ mq'.recovery_needed = mq.recovery_needed
      /\ mq'.rw_wait = mq.rw_wait
      /\ mq'.complete_req = mq.complete_req
      /\ mq'.complete_lock = mq.complete_lock
      /\ mq'.recovery_req = mq.recovery_req
      /\ mq'.quiesced = mq.quiesced
      /\ mq'.complete_work = FALSE
      /\ mq'.recovery_work = mq.recovery_work
  BY DEF CompleteWork, IInv, Shape, QueueRec, Total, mmc_tot_in_flight
<1>3. /\ UNCHANGED <<setup, rq, at, claim, other, card, submits>>
      /\ mq.complete_work
      /\ act["cw"].pc = "idle"
  BY DEF CompleteWork, IInv, Shape, QueueRec, Actors
<1>4. Shape'
  BY <1>1, <1>2, <1>3 DEF IInv, Shape, ActRec
<1>5. PcInv' /\ ModeInv' /\ TargetInv'
  BY <1>1, <1>2, <1>3
     DEF IInv, PcInv, Polling, Posting, ModeInv, TargetInv, Actors
<1>6. LockInv' /\ HostInv' /\ RecoveryInv'
  BY <1>1, <1>2, <1>3
     DEF IInv, LockInv, Locking, Rw, Actors, Polling, Posting, HostInv, Ready,
         AtHost, RecoveryInv
<1>7. PlaceInv'
  BY <1>1, <1>2, <1>3
     DEF IInv, PlaceInv, Places, B, OwnReq, OwnCounted, HostReq, AtHost,
         DoneReq, LateReq, PostReq, Polling, Posting
<1>8. OwnInv'
  BY <1>1, <1>2, <1>3 DEF IInv, OwnInv, OwnReq, OwnCounted, Polling, Posting
<1>9. CountInv'
  BY <1>1, <1>2, <1>3
     DEF IInv, CountInv, InFlight, B, OwnCounted, AtHost, DoneReq, Counted,
         Polling, Posting
<1>10. ClaimInv' /\ OtherInv' /\ XferInv'
  BY <1>1, <1>2, <1>3
     DEF IInv, ClaimInv, Claims, B, OtherInv, Stopping, XferInv,
         Actors
<1> QED
  BY <1>4, <1>5, <1>6, <1>7, <1>8, <1>9, <1>10 DEF IInv

(* The recovery is over. *)
LEMMA RecoveryEndStep ==
  ASSUME IInv, RecoveryEnd
  PROVE  IInv'
<1>1. /\ act' \in [Actors -> ActRec]
      /\ act'["rec"].pc = "endput"
      /\ act'["rec"].req = act["rec"].req
      /\ act'["rec"].rw = act["rec"].rw
      /\ act'["rec"].tgt = act["rec"].tgt
      /\ act'["rec"].err = act["rec"].err
      /\ act'["disp"] = act["disp"]
      /\ act'["irq"] = act["irq"]
      /\ act'["cw"] = act["cw"]
      /\ act'["late"] = act["late"]
  BY StepEffect, Names DEF RecoveryEnd, IInv
<1>2. /\ mq' \in QueueRec
      /\ Total' = Total
      /\ mq'.recovery_needed = FALSE
      /\ mq'.rw_wait = mq.rw_wait
      /\ mq'.complete_req = mq.complete_req
      /\ mq'.complete_lock = mq.complete_lock
      /\ mq'.recovery_req = mq.recovery_req
      /\ mq'.quiesced = mq.quiesced
      /\ mq'.complete_work = mq.complete_work
      /\ mq'.recovery_work = mq.recovery_work
  BY DEF RecoveryEnd, IInv, Shape, QueueRec, Total, mmc_tot_in_flight
<1>3. /\ UNCHANGED <<setup, rq, at, claim, other, card, submits>>
      /\ act["rec"].pc = "end"
  BY DEF RecoveryEnd, IInv, Shape, QueueRec, Actors
<1>4. Shape'
  BY <1>1, <1>2, <1>3 DEF IInv, Shape, ActRec
<1>5. PcInv' /\ ModeInv' /\ TargetInv'
  BY <1>1, <1>2, <1>3
     DEF IInv, PcInv, Polling, Posting, ModeInv, TargetInv, Actors
<1>6. LockInv' /\ HostInv' /\ RecoveryInv'
  BY <1>1, <1>2, <1>3
     DEF IInv, LockInv, Locking, Rw, Actors, Polling, Posting, HostInv, Ready,
         AtHost, RecoveryInv
<1>7. PlaceInv'
  BY <1>1, <1>2, <1>3
     DEF IInv, PlaceInv, Places, B, OwnReq, OwnCounted, HostReq, AtHost,
         DoneReq, LateReq, PostReq, Polling, Posting
<1>8. OwnInv'
  BY <1>1, <1>2, <1>3 DEF IInv, OwnInv, OwnReq, OwnCounted, Polling, Posting
<1>9. CountInv'
  BY <1>1, <1>2, <1>3
     DEF IInv, CountInv, InFlight, B, OwnCounted, AtHost, DoneReq, Counted,
         Polling, Posting
<1>10. ClaimInv' /\ OtherInv' /\ XferInv'
  BY <1>1, <1>2, <1>3
     DEF IInv, ClaimInv, Claims, B, OtherInv, Stopping, XferInv,
         Actors
<1> QED
  BY <1>4, <1>5, <1>6, <1>7, <1>8, <1>9, <1>10 DEF IInv

(* The recovery gives up its claim. *)
LEMMA RecoveryPutStep ==
  ASSUME IInv, RecoveryPut
  PROVE  IInv'
<1>1. /\ act' \in [Actors -> ActRec]
      /\ act'["rec"].pc = "idle"
      /\ act'["rec"].req = act["rec"].req
      /\ act'["rec"].rw = act["rec"].rw
      /\ act'["rec"].tgt = act["rec"].tgt
      /\ act'["rec"].err = act["rec"].err
      /\ act'["disp"] = act["disp"]
      /\ act'["irq"] = act["irq"]
      /\ act'["cw"] = act["cw"]
      /\ act'["late"] = act["late"]
  BY StepEffect, Names DEF RecoveryPut, IInv
<1>2. Total \in Nat
  BY DEF IInv, CountInv, InFlight, B
<1>3. /\ mq' = mq
      /\ Total' = Total
  BY DEF RecoveryPut, Total
<1>4. /\ UNCHANGED <<setup, rq, at, other, card, submits>>
      /\ act["rec"].pc = "endput"
  BY DEF RecoveryPut, IInv, Shape, QueueRec, Actors
<1>5. claim.by = "mq"
  BY <1>2, <1>4 DEF IInv, ClaimInv, Claims, B
<1>6. /\ claim' \in [by : Holders, cnt : Int, warn : BOOLEAN]
      /\ claim'.warn = claim.warn
      /\ claim'.cnt = claim.cnt - 1
      /\ claim'.by = IF claim.cnt = 1 THEN None ELSE "mq"
  BY <1>5, PutEffect DEF RecoveryPut, IInv
<1>7. Shape'
  BY <1>1, <1>2, <1>3, <1>4, <1>5, <1>6 DEF IInv, Shape, ActRec
<1>8. PcInv' /\ ModeInv' /\ TargetInv'
  BY <1>1, <1>2, <1>3, <1>4, <1>5, <1>6
     DEF IInv, PcInv, Polling, Posting, ModeInv, TargetInv, Actors
<1>9. LockInv' /\ HostInv' /\ RecoveryInv'
  BY <1>1, <1>2, <1>3, <1>4, <1>5, <1>6
     DEF IInv, LockInv, Locking, Rw, Actors, Polling, Posting, HostInv, Ready,
         AtHost, RecoveryInv
<1>10. PlaceInv'
  BY <1>1, <1>2, <1>3, <1>4, <1>5, <1>6
     DEF IInv, PlaceInv, Places, B, OwnReq, OwnCounted, HostReq, AtHost,
         DoneReq, LateReq, PostReq, Polling, Posting
<1>11. OwnInv'
  BY <1>1, <1>2, <1>3, <1>4, <1>5, <1>6
     DEF IInv, OwnInv, OwnReq, OwnCounted, Polling, Posting
<1>12. CountInv'
  BY <1>1, <1>2, <1>3, <1>4, <1>5, <1>6
     DEF IInv, CountInv, InFlight, B, OwnCounted, AtHost, DoneReq, Counted,
         Polling, Posting
<1>13. ClaimInv' /\ OtherInv' /\ XferInv'
  BY <1>1, <1>2, <1>3, <1>4, <1>5, <1>6
     DEF IInv, ClaimInv, Claims, B, Shape, Holders, None, OtherInv, Stopping,
         XferInv, Actors
<1> QED
  BY <1>7, <1>8, <1>9, <1>10, <1>11, <1>12, <1>13 DEF IInv

(* The dispatcher claims the host. *)
LEMMA Claim_disp ==
  ASSUME IInv, Claim("disp")
  PROVE  IInv'
<1>1. /\ act' \in [Actors -> ActRec]
      /\ act'["disp"].pc = "wait"
      /\ act'["disp"].req = act["disp"].req
      /\ act'["disp"].rw = act["disp"].rw
      /\ act'["disp"].tgt = act["disp"].tgt
      /\ act'["disp"].err = act["disp"].err
      /\ act'["irq"] = act["irq"]
      /\ act'["cw"] = act["cw"]
      /\ act'["rec"] = act["rec"]
      /\ act'["late"] = act["late"]
  BY StepEffect, Names DEF Claim, IInv
<1>2. Total \in Nat
  BY DEF IInv, CountInv, InFlight, B
<1>3. /\ mq' = mq
      /\ Total' = Total
  BY DEF Claim, Total
<1>4. /\ UNCHANGED <<setup, rq, at, other, card, submits>>
      /\ act["disp"].pc = "claim"
  BY DEF Claim, IInv, Shape, QueueRec, Actors
<1>5. /\ claim' \in [by : Holders, cnt : Int, warn : BOOLEAN]
      /\ claim'.warn = claim.warn
      /\ claim.by # "other"
      /\ claim'.cnt = claim.cnt + 1
      /\ claim'.by = "mq"
  BY GetEffect DEF Claim, IInv
<1>6. Shape'
  BY <1>1, <1>2, <1>3, <1>4, <1>5 DEF IInv, Shape, ActRec
<1>7. PcInv' /\ ModeInv' /\ TargetInv'
  BY <1>1, <1>2, <1>3, <1>4, <1>5
     DEF IInv, PcInv, Polling, Posting, ModeInv, TargetInv, Actors
<1>8. LockInv' /\ HostInv' /\ RecoveryInv'
  BY <1>1, <1>2, <1>3, <1>4, <1>5
     DEF IInv, LockInv, Locking, Rw, Actors, Polling, Posting, HostInv, Ready,
         AtHost, RecoveryInv
<1>9. PlaceInv'
  BY <1>1, <1>2, <1>3, <1>4, <1>5
     DEF IInv, PlaceInv, Places, B, OwnReq, OwnCounted, HostReq, AtHost,
         DoneReq, LateReq, PostReq, Polling, Posting
<1>10. OwnInv'
  BY <1>1, <1>2, <1>3, <1>4, <1>5
     DEF IInv, OwnInv, OwnReq, OwnCounted, Polling, Posting
<1>11. CountInv'
  BY <1>1, <1>2, <1>3, <1>4, <1>5
     DEF IInv, CountInv, InFlight, B, OwnCounted, AtHost, DoneReq, Counted,
         Polling, Posting
<1>12. ClaimInv' /\ OtherInv' /\ XferInv'
  BY <1>1, <1>2, <1>3, <1>4, <1>5
     DEF IInv, ClaimInv, Claims, B, Shape, Holders, None, OtherInv, Stopping,
         XferInv, Actors
<1> QED
  BY <1>6, <1>7, <1>8, <1>9, <1>10, <1>11, <1>12 DEF IInv

(* The recovery claims the host. *)
LEMMA Claim_rec ==
  ASSUME IInv, Claim("rec")
  PROVE  IInv'
<1>1. /\ act' \in [Actors -> ActRec]
      /\ act'["rec"].pc = "begin"
      /\ act'["rec"].req = act["rec"].req
      /\ act'["rec"].rw = act["rec"].rw
      /\ act'["rec"].tgt = act["rec"].tgt
      /\ act'["rec"].err = act["rec"].err
      /\ act'["disp"] = act["disp"]
      /\ act'["irq"] = act["irq"]
      /\ act'["cw"] = act["cw"]
      /\ act'["late"] = act["late"]
  BY StepEffect, Names DEF Claim, IInv
<1>2. Total \in Nat
  BY DEF IInv, CountInv, InFlight, B
<1>3. /\ mq' = mq
      /\ Total' = Total
  BY DEF Claim, Total
<1>4. /\ UNCHANGED <<setup, rq, at, other, card, submits>>
      /\ act["rec"].pc = "claim"
  BY DEF Claim, IInv, Shape, QueueRec, Actors
<1>5. /\ claim' \in [by : Holders, cnt : Int, warn : BOOLEAN]
      /\ claim'.warn = claim.warn
      /\ claim.by # "other"
      /\ claim'.cnt = claim.cnt + 1
      /\ claim'.by = "mq"
  BY GetEffect DEF Claim, IInv
<1>6. Shape'
  BY <1>1, <1>2, <1>3, <1>4, <1>5 DEF IInv, Shape, ActRec
<1>7. PcInv' /\ ModeInv' /\ TargetInv'
  BY <1>1, <1>2, <1>3, <1>4, <1>5
     DEF IInv, PcInv, Polling, Posting, ModeInv, TargetInv, Actors
<1>8. LockInv' /\ HostInv' /\ RecoveryInv'
  BY <1>1, <1>2, <1>3, <1>4, <1>5
     DEF IInv, LockInv, Locking, Rw, Actors, Polling, Posting, HostInv, Ready,
         AtHost, RecoveryInv
<1>9. PlaceInv'
  BY <1>1, <1>2, <1>3, <1>4, <1>5
     DEF IInv, PlaceInv, Places, B, OwnReq, OwnCounted, HostReq, AtHost,
         DoneReq, LateReq, PostReq, Polling, Posting
<1>10. OwnInv'
  BY <1>1, <1>2, <1>3, <1>4, <1>5
     DEF IInv, OwnInv, OwnReq, OwnCounted, Polling, Posting
<1>11. CountInv'
  BY <1>1, <1>2, <1>3, <1>4, <1>5
     DEF IInv, CountInv, InFlight, B, OwnCounted, AtHost, DoneReq, Counted,
         Polling, Posting
<1>12. ClaimInv' /\ OtherInv' /\ XferInv'
  BY <1>1, <1>2, <1>3, <1>4, <1>5
     DEF IInv, ClaimInv, Claims, B, Shape, Holders, None, OtherInv, Stopping,
         XferInv, Actors
<1> QED
  BY <1>6, <1>7, <1>8, <1>9, <1>10, <1>11, <1>12 DEF IInv

(* A request that is not under way changes hands outside the queue. *)
LEMMA FreeStep ==
  ASSUME IInv, NEW r \in Reqs, rq[r].st # "issued",
         rq' \in [Reqs -> ReqRec], submits' \in Int,
         rq'[r].st \in {"free", "queued"}, ~rq'[r].bad,
         \A s \in Reqs : s # r => rq'[s] = rq[s],
         UNCHANGED <<setup, mq, at, act, claim, other, card>>
  PROVE  IInv'
<1>1. /\ OwnReq # r
      /\ HostReq # r
      /\ LateReq # r
      /\ DoneReq # r
      /\ mq.recovery_req # r
      /\ PostReq("disp") # r
      /\ PostReq("irq") # r
      /\ PostReq("cw") # r
      /\ PostReq("rec") # r
      /\ at # r
  BY NotPlaced
<1>2. /\ Total' = Total
      /\ AtHost' <=> AtHost
      /\ OwnCounted' <=> OwnCounted
      /\ OwnReq' = OwnReq
      /\ HostReq' = HostReq
      /\ LateReq' = LateReq
      /\ DoneReq' = DoneReq
      /\ PostReq("disp")' = PostReq("disp")
      /\ PostReq("irq")' = PostReq("irq")
      /\ PostReq("cw")' = PostReq("cw")
      /\ PostReq("rec")' = PostReq("rec")
      /\ Counted("disp")' <=> Counted("disp")
      /\ Counted("irq")' <=> Counted("irq")
      /\ Counted("cw")' <=> Counted("cw")
      /\ Counted("rec")' <=> Counted("rec")
  BY <1>1
     DEF IInv, Shape, Total, AtHost, OwnCounted, OwnReq, HostReq, LateReq,
         DoneReq, PostReq, Counted
<1>3. Shape'
  BY <1>1, <1>2 DEF IInv, Shape, ActRec
<1>4. PcInv' /\ ModeInv' /\ TargetInv'
  BY <1>1, <1>2 DEF IInv, PcInv, Polling, Posting, ModeInv, TargetInv, Actors
<1>5. LockInv'
  BY <1>1, <1>2 DEF IInv, LockInv, Locking, Rw, Actors, Polling, Posting
<1>6. HostInv'
  BY <1>2 DEF IInv, HostInv, Ready
<1>7. RecoveryInv'
  BY <1>1, <1>2 DEF IInv, RecoveryInv
<1>8. PlaceInv'
  <2> SUFFICES ASSUME NEW s \in Reqs PROVE (Places(s) = B(rq[s].st = "issued"))'
    BY DEF PlaceInv
  <2>1. Places(s)' = Places(s)
    BY <1>2 DEF Places, B
  <2>2. (rq'[s].st = "issued") <=> (rq[s].st = "issued")
    OBVIOUS
  <2> QED BY <2>1, <2>2 DEF IInv, PlaceInv, B
<1>9. OwnInv'
  <2>1. OwnReq # None => OwnReq \in Reqs
    BY DEF IInv, Shape, OwnReq, ActRec, Actors
  <2> QED BY <1>1, <1>2, <2>1 DEF IInv, OwnInv
<1>10. CountInv'
  BY <1>2 DEF IInv, CountInv, InFlight, B
<1>11. ClaimInv' /\ OtherInv'
  BY <1>1, <1>2 DEF IInv, ClaimInv, Claims, B, OtherInv, Stopping
<1>12. XferInv'
  <2>1. \A s \in Reqs :
          /\ rq'[s].err = "none" /\ rq'[s].bad =>
               rq'[s].op = "write" /\ setup'.mode = "poll"
          /\ rq'[s].st = "completing" => ~(rq'[s].xfer > 0 /\ rq'[s].bad)
    BY DEF IInv, XferInv
  <2>2. \A a \in Actors : act[a].pc \in {"complete", "go"}
          /\ act[a].tgt # None => act[a].tgt \in Reqs /\ act[a].tgt # r
    BY <1>1, PosterNames DEF IInv, Shape, ActRec, PostReq
  <2> QED BY <2>1, <2>2 DEF IInv, XferInv
<1> QED
  BY <1>3, <1>4, <1>5, <1>6, <1>7, <1>8, <1>9, <1>10, <1>11, <1>12 DEF IInv

(* The other task begins a round. *)
LEMMA OtherStartsStep ==
  ASSUME IInv, OtherStarts
  PROVE  IInv'
<1>1. /\ mq' \in QueueRec
      /\ Total' = Total
      /\ mq'.recovery_needed = mq.recovery_needed
      /\ mq'.rw_wait = mq.rw_wait
      /\ mq'.complete_req = mq.complete_req
      /\ mq'.complete_lock = mq.complete_lock
      /\ mq'.recovery_req = mq.recovery_req
      /\ mq'.complete_work = mq.complete_work
      /\ mq'.recovery_work = mq.recovery_work
  BY DEF OtherStarts, IInv, Shape, QueueRec, Total, mmc_tot_in_flight
<1>2. /\ other' \in [pc : OtherPcs, suspend : BOOLEAN, rounds : Int]
      /\ other.pc = "idle"
      /\ \/ other'.pc = "quiesce" /\ mq'.quiesced
         \/ other'.pc = "claim" /\ ~other'.suspend
  <2>1. PICK s \in BOOLEAN :
          /\ other' = [pc |-> IF s THEN "quiesce" ELSE "claim", suspend |-> s,
                       rounds |-> other.rounds + 1]
          /\ mq' = [mq EXCEPT !.quiesced = s]
    BY DEF OtherStarts
  <2>2. CASE s = TRUE
    BY <2>1, <2>2, Names DEF OtherStarts, IInv, Shape, QueueRec
  <2>3. CASE s = FALSE
    BY <2>1, <2>3, Names DEF OtherStarts, IInv, Shape, QueueRec
  <2> QED BY <2>2, <2>3
<1>3. /\ UNCHANGED <<setup, rq, at, act, claim, card, submits>>
  BY DEF OtherStarts
<1>4. Shape'
  BY <1>1, <1>2, <1>3 DEF IInv, Shape, ActRec
<1>5. PcInv' /\ ModeInv' /\ TargetInv'
  BY <1>1, <1>2, <1>3
     DEF IInv, PcInv, Polling, Posting, ModeInv, TargetInv, Actors
<1>6. LockInv' /\ HostInv' /\ RecoveryInv'
  BY <1>1, <1>2, <1>3
     DEF IInv, LockInv, Locking, Rw, Actors, Polling, Posting, HostInv, Ready,
         AtHost, RecoveryInv
<1>7. PlaceInv'
  BY <1>1, <1>2, <1>3
     DEF IInv, PlaceInv, Places, B, OwnReq, OwnCounted, HostReq, AtHost,
         DoneReq, LateReq, PostReq, Polling, Posting
<1>8. OwnInv'
  BY <1>1, <1>2, <1>3 DEF IInv, OwnInv, OwnReq, OwnCounted, Polling, Posting
<1>9. CountInv'
  BY <1>1, <1>2, <1>3
     DEF IInv, CountInv, InFlight, B, OwnCounted, AtHost, DoneReq, Counted,
         Polling, Posting
<1>10. ClaimInv' /\ OtherInv' /\ XferInv'
  BY <1>1, <1>2, <1>3
     DEF IInv, ClaimInv, Claims, B, OtherInv, Stopping, XferInv,
         Actors
<1> QED
  BY <1>4, <1>5, <1>6, <1>7, <1>8, <1>9, <1>10 DEF IInv

(* The other task gets the host. *)
LEMMA OtherClaimsStep ==
  ASSUME IInv, OtherClaims
  PROVE  IInv'
<1>1. Total \in Nat
  BY DEF IInv, CountInv, InFlight, B
<1>2. /\ mq' = mq
      /\ Total' = Total
  BY DEF OtherClaims, Total
<1>3. /\ other' \in [pc : OtherPcs, suspend : BOOLEAN, rounds : Int]
      /\ other'.pc = "claimed"
      /\ other'.suspend = other.suspend
  BY Names DEF OtherClaims, IInv, Shape
<1>4. /\ claim' \in [by : Holders, cnt : Int, warn : BOOLEAN]
      /\ claim'.warn = claim.warn
      /\ claim'.by = "other"
      /\ claim'.cnt = 1
      /\ claim.by = None
  <2>1. Shape /\ "other" \in Holders /\ 1 \in Int
    BY Names DEF IInv, None
  <2>2. claim' = [claim EXCEPT !.by = "other", !.cnt = 1]
    BY DEF OtherClaims
  <2> QED BY <2>1, <2>2, ClaimSet DEF OtherClaims
<1>5. /\ UNCHANGED <<setup, rq, at, act, card, submits>>
      /\ \/ /\ other.pc = "quiesce" /\ act["disp"].pc = "idle"
            /\ act["late"].pc = "idle"
         \/ other.pc = "claim"
  BY DEF OtherClaims, IInv, Shape, Actors
<1>6. Shape'
  BY <1>1, <1>2, <1>3, <1>4, <1>5 DEF IInv, Shape, ActRec
<1>7. PcInv' /\ ModeInv' /\ TargetInv'
  BY <1>1, <1>2, <1>3, <1>4, <1>5
     DEF IInv, PcInv, Polling, Posting, ModeInv, TargetInv, Actors
<1>8. LockInv' /\ HostInv' /\ RecoveryInv'
  BY <1>1, <1>2, <1>3, <1>4, <1>5
     DEF IInv, LockInv, Locking, Rw, Actors, Polling, Posting, HostInv, Ready,
         AtHost, RecoveryInv
<1>9. PlaceInv'
  BY <1>1, <1>2, <1>3, <1>4, <1>5
     DEF IInv, PlaceInv, Places, B, OwnReq, OwnCounted, HostReq, AtHost,
         DoneReq, LateReq, PostReq, Polling, Posting
<1>10. OwnInv'
  BY <1>1, <1>2, <1>3, <1>4, <1>5
     DEF IInv, OwnInv, OwnReq, OwnCounted, Polling, Posting
<1>11. CountInv'
  BY <1>1, <1>2, <1>3, <1>4, <1>5
     DEF IInv, CountInv, InFlight, B, OwnCounted, AtHost, DoneReq, Counted,
         Polling, Posting
<1>12. ClaimInv' /\ OtherInv' /\ XferInv'
  BY <1>1, <1>2, <1>3, <1>4, <1>5
     DEF IInv, ClaimInv, Claims, B, None, OtherInv, Stopping, XferInv, Actors
<1> QED
  BY <1>6, <1>7, <1>8, <1>9, <1>10, <1>11, <1>12 DEF IInv

(* The other task lets the host go. *)
LEMMA OtherReleasesStep ==
  ASSUME IInv, OtherReleases
  PROVE  IInv'
<1>1. Total \in Nat
  BY DEF IInv, CountInv, InFlight, B
<1>2. /\ mq' = mq
      /\ Total' = Total
  BY DEF OtherReleases, Total
<1>3. /\ other' \in [pc : OtherPcs, suspend : BOOLEAN, rounds : Int]
      /\ other'.pc = IF other.suspend THEN "suspended" ELSE "idle"
      /\ other'.suspend = other.suspend
  BY Names DEF OtherReleases, IInv, Shape
<1>4. /\ claim' \in [by : Holders, cnt : Int, warn : BOOLEAN]
      /\ claim'.warn = claim.warn
      /\ claim'.by = None
      /\ claim'.cnt = 0
  <2>1. Shape /\ None \in Holders /\ 0 \in Int
    BY Names DEF IInv, None
  <2>2. claim' = [claim EXCEPT !.by = None, !.cnt = 0]
    BY DEF OtherReleases
  <2> QED BY <2>1, <2>2, ClaimSet DEF OtherReleases
<1>5. /\ card' \in CardRec
      /\ "transfer" \in card'.lied => "transfer" \in card.lied
  BY DEF OtherReleases, IInv, Shape, CardRec
<1>6. /\ UNCHANGED <<setup, rq, at, act, submits>>
      /\ other.pc = "claimed"
  BY DEF OtherReleases
<1>7. Shape'
  BY <1>1, <1>2, <1>3, <1>4, <1>5, <1>6 DEF IInv, Shape, ActRec
<1>8. PcInv' /\ ModeInv' /\ TargetInv'
  BY <1>1, <1>2, <1>3, <1>4, <1>5, <1>6
     DEF IInv, PcInv, Polling, Posting, ModeInv, TargetInv, Actors
<1>9. LockInv' /\ HostInv' /\ RecoveryInv'
  BY <1>1, <1>2, <1>3, <1>4, <1>5, <1>6
     DEF IInv, LockInv, Locking, Rw, Actors, Polling, Posting, HostInv, Ready,
         AtHost, RecoveryInv
<1>10. PlaceInv'
  BY <1>1, <1>2, <1>3, <1>4, <1>5, <1>6
     DEF IInv, PlaceInv, Places, B, OwnReq, OwnCounted, HostReq, AtHost,
         DoneReq, LateReq, PostReq, Polling, Posting
<1>11. OwnInv'
  BY <1>1, <1>2, <1>3, <1>4, <1>5, <1>6
     DEF IInv, OwnInv, OwnReq, OwnCounted, Polling, Posting
<1>12. CountInv'
  BY <1>1, <1>2, <1>3, <1>4, <1>5, <1>6
     DEF IInv, CountInv, InFlight, B, OwnCounted, AtHost, DoneReq, Counted,
         Polling, Posting
<1>13. ClaimInv' /\ OtherInv' /\ XferInv'
  BY <1>1, <1>2, <1>3, <1>4, <1>5, <1>6
     DEF IInv, ClaimInv, Claims, B, None, OtherInv, Stopping, XferInv, Actors
<1> QED
  BY <1>7, <1>8, <1>9, <1>10, <1>11, <1>12, <1>13 DEF IInv

(* The queue is resumed. *)
LEMMA ResumeStep ==
  ASSUME IInv, mmc_queue_resume
  PROVE  IInv'
<1>1. /\ mq' \in QueueRec
      /\ Total' = Total
      /\ mq'.recovery_needed = mq.recovery_needed
      /\ mq'.rw_wait = mq.rw_wait
      /\ mq'.complete_req = mq.complete_req
      /\ mq'.complete_lock = mq.complete_lock
      /\ mq'.recovery_req = mq.recovery_req
      /\ mq'.quiesced = FALSE
      /\ mq'.complete_work = mq.complete_work
      /\ mq'.recovery_work = mq.recovery_work
  BY DEF mmc_queue_resume, IInv, Shape, QueueRec, Total, mmc_tot_in_flight
<1>2. /\ other' \in [pc : OtherPcs, suspend : BOOLEAN, rounds : Int]
      /\ other'.pc = "idle"
  BY Names DEF mmc_queue_resume, IInv, Shape
<1>3. /\ UNCHANGED <<setup, rq, at, act, claim, card, submits>>
      /\ other.pc = "suspended"
  BY DEF mmc_queue_resume
<1>4. Shape'
  BY <1>1, <1>2, <1>3 DEF IInv, Shape, ActRec
<1>5. PcInv' /\ ModeInv' /\ TargetInv'
  BY <1>1, <1>2, <1>3
     DEF IInv, PcInv, Polling, Posting, ModeInv, TargetInv, Actors
<1>6. LockInv' /\ HostInv' /\ RecoveryInv'
  BY <1>1, <1>2, <1>3
     DEF IInv, LockInv, Locking, Rw, Actors, Polling, Posting, HostInv, Ready,
         AtHost, RecoveryInv
<1>7. PlaceInv'
  BY <1>1, <1>2, <1>3
     DEF IInv, PlaceInv, Places, B, OwnReq, OwnCounted, HostReq, AtHost,
         DoneReq, LateReq, PostReq, Polling, Posting
<1>8. OwnInv'
  BY <1>1, <1>2, <1>3 DEF IInv, OwnInv, OwnReq, OwnCounted, Polling, Posting
<1>9. CountInv'
  BY <1>1, <1>2, <1>3
     DEF IInv, CountInv, InFlight, B, OwnCounted, AtHost, DoneReq, Counted,
         Polling, Posting
<1>10. ClaimInv' /\ OtherInv' /\ XferInv'
  BY <1>1, <1>2, <1>3
     DEF IInv, ClaimInv, Claims, B, OtherInv, Stopping, XferInv,
         Actors
<1> QED
  BY <1>4, <1>5, <1>6, <1>7, <1>8, <1>9, <1>10 DEF IInv

(* End() and Requeue() leave nothing of a transfer behind. *)
LEMMA CompletedReq ==
  ASSUME NEW q \in ReqRec
  PROVE  /\ End(q) \in ReqRec /\ End(q).st = "free" /\ End(q).op = q.op
         /\ End(q).bad = FALSE /\ End(q).err = "none" /\ End(q).xfer = 0
         /\ mmc_blk_mq_complete_rq(q) \in ReqRec
         /\ mmc_blk_mq_complete_rq(q).st \in {"free", "queued"}
         /\ mmc_blk_mq_complete_rq(q).op = q.op
         /\ mmc_blk_mq_complete_rq(q).bad = FALSE
<1>1. \A p \in ReqRec : /\ Requeue(p) \in ReqRec /\ Requeue(p).st = "queued"
                        /\ Requeue(p).op = p.op /\ Requeue(p).bad = FALSE
                        /\ End(p) \in ReqRec /\ End(p).st = "free"
                        /\ End(p).op = p.op /\ End(p).bad = FALSE
                        /\ End(p).err = "none" /\ End(p).xfer = 0
  <2> TAKE p \in ReqRec
  <2>1. /\ Requeue(p).st = "queued" /\ Requeue(p).op = p.op
        /\ Requeue(p).bad = FALSE
        /\ End(p).st = "free" /\ End(p).op = p.op /\ End(p).bad = FALSE
        /\ End(p).err = "none" /\ End(p).xfer = 0
    BY DEF Requeue, End, ReqRec
  <2> DEFINE s == "queued"  f == "free"  e == "none"  z == 0  b == FALSE
  <2>2. /\ s \in ReqStates /\ f \in ReqStates /\ e \in ReqErrors /\ z \in Int
        /\ b \in BOOLEAN
    BY Names
  <2>3. Requeue(p) = [p EXCEPT !.st = s, !.err = e, !.xfer = z, !.bad = b]
    BY DEF Requeue
  <2>4. End(p) = [p EXCEPT !.st = f, !.left = z, !.retries = z, !.err = e,
                           !.xfer = z, !.bad = b]
    BY DEF End
  <2> HIDE DEF s, f, e, z, b
  <2>5. Requeue(p) \in ReqRec /\ End(p) \in ReqRec
    BY <2>2, <2>3, <2>4 DEF ReqRec
  <2> QED BY <2>1, <2>5
<1>2. /\ [q EXCEPT !.left = @ - q.xfer] \in ReqRec
      /\ [q EXCEPT !.left = @ - q.xfer].op = q.op
      /\ [q EXCEPT !.retries = @ + 1] \in ReqRec
      /\ [q EXCEPT !.retries = @ + 1].op = q.op
  BY DEF ReqRec
<1> QED
  BY <1>1, <1>2 DEF mmc_blk_mq_complete_rq

(* The block layer fills a free tag. *)
LEMMA SubmitStep ==
  ASSUME IInv, NEW r \in Reqs, NEW op \in setup.ops, Submit(r, op)
  PROVE  IInv'
<1>1. op \in RwOps \cup SyncOps
  BY SetupsAssumption DEF IInv, Shape, SetupType
<1> DEFINE n == IF op \in RwOps THEN Blocks ELSE 0
           q == [st |-> "queued", op |-> op, retries |-> 0, left |-> n,
                 err |-> "none", xfer |-> 0, bad |-> FALSE]
<1>2. n \in Int
  BY BlocksAssumption
<1>3. q \in ReqRec /\ q.st = "queued" /\ ~q.bad
  <2> HIDE DEF n
  <2> QED BY <1>1, <1>2, Names DEF ReqRec
<1>4. /\ rq' = [rq EXCEPT ![r] = q] /\ rq[r].st = "free"
      /\ submits' = submits + 1
      /\ UNCHANGED <<setup, mq, at, act, claim, other, card>>
  BY DEF Submit
<1> HIDE DEF q
<1> QED
  BY <1>3, <1>4, FreeStep DEF IInv, Shape

(* The softirq ends a request that was posted. *)
LEMMA CompleteRqStep ==
  ASSUME IInv, NEW r \in Reqs, mmc_blk_mq_complete(r)
  PROVE  IInv'
<1>1. rq[r] \in ReqRec /\ rq[r].st = "completing" /\ ~(rq[r].xfer > 0 /\ rq[r].bad)
  BY DEF mmc_blk_mq_complete, IInv, Shape, XferInv
<1>2. card' = card
  BY <1>1 DEF mmc_blk_mq_complete, Reported
<1>3. /\ rq' = [rq EXCEPT ![r] = mmc_blk_mq_complete_rq(rq[r])]
      /\ UNCHANGED <<setup, mq, at, act, claim, other, submits>>
  BY DEF mmc_blk_mq_complete
<1> QED
  BY <1>1, <1>2, <1>3, CompletedReq, FreeStep DEF IInv, Shape

(* A request is refused when the card is gone. *)
LEMMA RefuseStep ==
  ASSUME IInv, NEW r \in Reqs, mmc_mq_queue_rq(r), card.removed
  PROVE  IInv'
<1>1. /\ rq' = [rq EXCEPT ![r] = End(rq[r])] /\ rq[r] \in ReqRec
      /\ rq[r].st = "queued"
      /\ UNCHANGED <<setup, mq, at, act, claim, other, card, submits>>
  BY DEF mmc_mq_queue_rq, IInv, Shape
<1> QED
  BY <1>1, CompletedReq, FreeStep DEF IInv, Shape

(* A request is dispatched. *)
LEMMA IssueStep ==
  ASSUME IInv, NEW r \in Reqs, mmc_mq_queue_rq(r), ~card.removed
  PROVE  IInv'
<1>1. /\ OwnReq # r
      /\ HostReq # r
      /\ LateReq # r
      /\ DoneReq # r
      /\ mq.recovery_req # r
      /\ PostReq("disp") # r
      /\ PostReq("irq") # r
      /\ PostReq("cw") # r
      /\ PostReq("rec") # r
      /\ at # r
      /\ rq[r].st = "queued"
      /\ ~mq.quiesced
      /\ act["disp"].pc = "idle"
      /\ ~mq.recovery_needed
      /\ UNCHANGED <<setup, at, claim, other, card, submits>>
  BY NotPlaced DEF mmc_mq_queue_rq, IInv, Shape, Actors
<1>2. Total \in Nat
  BY DEF IInv, CountInv, InFlight, B
<1>3. /\ mq' \in QueueRec
      /\ Total' = Total + 1
      /\ mq'.recovery_needed = mq.recovery_needed
      /\ mq'.rw_wait = mq.rw_wait
      /\ mq'.complete_req = mq.complete_req
      /\ mq'.complete_lock = mq.complete_lock
      /\ mq'.recovery_req = mq.recovery_req
      /\ mq'.quiesced = mq.quiesced
      /\ mq'.complete_work = mq.complete_work
      /\ mq'.recovery_work = mq.recovery_work
  <2> DEFINE t == mmc_issue_type(rq[r].op)
             f == [mq.in_flight EXCEPT ![t] = @ + 1]
  <2>1. t \in {"SYNC", "ASYNC"}
    BY DEF mmc_issue_type
  <2>2. mq' = [mq EXCEPT !.busy = TRUE, !.in_flight = f]
    BY DEF mmc_mq_queue_rq
  <2> HIDE DEF t
  <2>3. /\ f \in [{"SYNC", "ASYNC"} -> Int]
        /\ f["SYNC"] + f["ASYNC"] = Total + 1
    BY <2>1 DEF IInv, Shape, QueueRec, Total, mmc_tot_in_flight
  <2> HIDE DEF f
  <2> QED BY <2>2, <2>3 DEF IInv, Shape, QueueRec, Total, mmc_tot_in_flight
<1>4. /\ rq' \in [Reqs -> ReqRec]
      /\ rq' = [rq EXCEPT ![r].st = "issued"]
      /\ rq'[r].st = "issued"
      /\ rq'[r].op = rq[r].op
      /\ rq'[r].err = rq[r].err
      /\ rq'[r].bad = rq[r].bad
      /\ \A s \in Reqs : s # r => rq'[s] = rq[s]
  BY Names DEF mmc_mq_queue_rq, IInv, Shape, ReqRec
<1>5. /\ act' \in [Actors -> ActRec]
      /\ act'["disp"].pc = IF Total' = 1 THEN "claim" ELSE "wait"
      /\ act'["disp"].req = r
      /\ act'["disp"].rw <=> rq[r].op \in RwOps
      /\ act'["disp"].tgt = None
      /\ act'["disp"].err = "none"
      /\ act'["irq"] = act["irq"]
      /\ act'["cw"] = act["cw"]
      /\ act'["rec"] = act["rec"]
      /\ act'["late"] = act["late"]
  <2> DEFINE p == IF Total' = 1 THEN "claim" ELSE "wait"
             w == rq[r].op \in RwOps
             x == [Idle EXCEPT !.pc = p, !.req = r, !.rw = w]
  <2>1. act' = [act EXCEPT !["disp"] = x]
    BY DEF mmc_mq_queue_rq, Total, Actors, IInv, Shape
  <2>2. p \in Pcs /\ w \in BOOLEAN
    BY Names
  <2> HIDE DEF p, w
  <2>3. /\ x \in ActRec /\ x.pc = p /\ x.req = r /\ x.rw = w /\ x.tgt = None
        /\ x.err = "none"
    BY <2>2, IdleRec DEF ActRec
  <2> HIDE DEF x
  <2>4. act' \in [Actors -> ActRec] /\ act'["disp"] = x
    BY <2>1, <2>3, Names DEF IInv, Shape
  <2>5. act'["irq"] = act["irq"] /\ act'["cw"] = act["cw"]
          /\ act'["rec"] = act["rec"]
          /\ act'["late"] = act["late"]
    BY <2>1, Names DEF IInv, Shape
  <2> QED BY <2>3, <2>4, <2>5 DEF p, w
<1>6. Shape'
  BY <1>1, <1>2, <1>3, <1>4, <1>5 DEF IInv, Shape, ActRec
<1>7. PcInv' /\ ModeInv' /\ TargetInv'
  BY <1>1, <1>2, <1>3, <1>4, <1>5
     DEF IInv, PcInv, Polling, Posting, ModeInv, TargetInv, Actors
<1>8. LockInv' /\ HostInv' /\ RecoveryInv'
  BY <1>1, <1>2, <1>3, <1>4, <1>5
     DEF IInv, LockInv, Locking, Rw, Actors, Polling, Posting, HostInv, Ready,
         AtHost, RecoveryInv
<1>9. PlaceInv'
  BY <1>1, <1>2, <1>3, <1>4, <1>5
     DEF IInv, PlaceInv, Places, B, OwnReq, OwnCounted, HostReq, AtHost,
         DoneReq, LateReq, PostReq, Polling, Posting
<1>10. OwnInv'
  BY <1>1, <1>2, <1>3, <1>4, <1>5
     DEF IInv, OwnInv, OwnReq, OwnCounted, Polling, Posting
<1>11. CountInv'
  BY <1>1, <1>2, <1>3, <1>4, <1>5
     DEF IInv, CountInv, InFlight, B, OwnCounted, AtHost, DoneReq, Counted,
         Polling, Posting
<1>12. ClaimInv' /\ OtherInv' /\ XferInv'
  BY <1>1, <1>2, <1>3, <1>4, <1>5
     DEF IInv, ClaimInv, Claims, B, OtherInv, Stopping, XferInv,
         Actors
<1> QED
  BY <1>6, <1>7, <1>8, <1>9, <1>10, <1>11, <1>12 DEF IInv

(* mmc_blk_rw_wait() is refused, the recovery is needed. *)
LEMMA WaitBusy ==
  ASSUME IInv, mmc_blk_rw_wait, mq.recovery_needed
  PROVE  IInv'
<1>1. /\ act' \in [Actors -> ActRec]
      /\ act'["disp"].pc = "lock"
      /\ act'["disp"].req = act["disp"].req
      /\ act'["disp"].rw = act["disp"].rw
      /\ act'["disp"].tgt = act["disp"].tgt
      /\ act'["disp"].err = "busy"
      /\ act'["irq"] = act["irq"]
      /\ act'["cw"] = act["cw"]
      /\ act'["rec"] = act["rec"]
      /\ act'["late"] = act["late"]
  <2>1. act' = [act EXCEPT !.disp.err = "busy", !.disp.pc = "lock"]
    BY DEF mmc_blk_rw_wait
  <2> QED BY <2>1, DispEffect, Names DEF IInv
<1>2. /\ mq' \in QueueRec
      /\ Total' = Total
      /\ mq'.recovery_needed = mq.recovery_needed
      /\ mq'.rw_wait = mq.rw_wait
      /\ mq'.complete_req = mq.complete_req
      /\ mq'.complete_lock = mq.complete_lock
      /\ mq'.recovery_req = mq.recovery_req
      /\ mq'.quiesced = mq.quiesced
      /\ mq'.complete_work = mq.complete_work
      /\ mq'.recovery_work = mq.recovery_work
  BY DEF mmc_blk_rw_wait, IInv, Shape, QueueRec, Total, mmc_tot_in_flight
<1>3. /\ UNCHANGED <<setup, rq, at, claim, other, card, submits>>
      /\ act["disp"].pc = "wait"
  BY DEF mmc_blk_rw_wait, IInv, Shape, Actors
<1>4. /\ act["disp"].err # "finished"
  BY <1>3 DEF IInv, TargetInv
<1>5. Shape'
  BY <1>1, <1>2, <1>3, <1>4 DEF IInv, Shape, ActRec
<1>6. PcInv' /\ ModeInv' /\ TargetInv'
  BY <1>1, <1>2, <1>3, <1>4
     DEF IInv, PcInv, Polling, Posting, ModeInv, TargetInv, Actors
<1>7. LockInv' /\ HostInv' /\ RecoveryInv'
  BY <1>1, <1>2, <1>3, <1>4
     DEF IInv, LockInv, Locking, Rw, Actors, Polling, Posting, HostInv, Ready,
         AtHost, RecoveryInv
<1>8. PlaceInv'
  BY <1>1, <1>2, <1>3, <1>4
     DEF IInv, PlaceInv, Places, B, OwnReq, OwnCounted, HostReq, AtHost,
         DoneReq, LateReq, PostReq, Polling, Posting
<1>9. OwnInv'
  BY <1>1, <1>2, <1>3, <1>4
     DEF IInv, OwnInv, OwnReq, OwnCounted, Polling, Posting
<1>10. CountInv'
  BY <1>1, <1>2, <1>3, <1>4
     DEF IInv, CountInv, InFlight, B, OwnCounted, AtHost, DoneReq, Counted,
         Polling, Posting
<1>11. ClaimInv' /\ OtherInv' /\ XferInv'
  BY <1>1, <1>2, <1>3, <1>4
     DEF IInv, ClaimInv, Claims, B, OtherInv, Stopping, XferInv,
         Actors
<1> QED
  BY <1>5, <1>6, <1>7, <1>8, <1>9, <1>10, <1>11 DEF IInv

(* No transfer is in progress. *)
LEMMA WaitOver ==
  ASSUME IInv, mmc_blk_rw_wait, ~mq.recovery_needed, ~mq.rw_wait
  PROVE  IInv'
<1>1. /\ act' \in [Actors -> ActRec]
      /\ act'["disp"].pc = "lock"
      /\ act'["disp"].req = act["disp"].req
      /\ act'["disp"].rw = act["disp"].rw
      /\ act'["disp"].tgt = act["disp"].tgt
      /\ act'["disp"].err = act["disp"].err
      /\ act'["irq"] = act["irq"]
      /\ act'["cw"] = act["cw"]
      /\ act'["rec"] = act["rec"]
      /\ act'["late"] = act["late"]
  BY StepEffect, Names DEF mmc_blk_rw_wait, IInv
<1>2. /\ mq' \in QueueRec
      /\ Total' = Total
      /\ mq'.recovery_needed = mq.recovery_needed
      /\ mq'.rw_wait = mq.rw_wait
      /\ mq'.complete_req = mq.complete_req
      /\ mq'.complete_lock = mq.complete_lock
      /\ mq'.recovery_req = mq.recovery_req
      /\ mq'.quiesced = mq.quiesced
      /\ mq'.complete_work = mq.complete_work
      /\ mq'.recovery_work = mq.recovery_work
  BY DEF mmc_blk_rw_wait, IInv, Shape, QueueRec, Total, mmc_tot_in_flight
<1>3. /\ UNCHANGED <<setup, rq, at, claim, other, card, submits>>
      /\ act["disp"].pc = "wait"
  BY DEF mmc_blk_rw_wait, IInv, Shape, Actors
<1>4. /\ act["disp"].err # "finished"
  BY <1>3 DEF IInv, TargetInv
<1>5. Shape'
  BY <1>1, <1>2, <1>3, <1>4 DEF IInv, Shape, ActRec
<1>6. PcInv' /\ ModeInv' /\ TargetInv'
  BY <1>1, <1>2, <1>3, <1>4
     DEF IInv, PcInv, Polling, Posting, ModeInv, TargetInv, Actors
<1>7. LockInv' /\ HostInv' /\ RecoveryInv'
  BY <1>1, <1>2, <1>3, <1>4
     DEF IInv, LockInv, Locking, Rw, Actors, Polling, Posting, HostInv, Ready,
         AtHost, RecoveryInv
<1>8. PlaceInv'
  BY <1>1, <1>2, <1>3, <1>4
     DEF IInv, PlaceInv, Places, B, OwnReq, OwnCounted, HostReq, AtHost,
         DoneReq, LateReq, PostReq, Polling, Posting
<1>9. OwnInv'
  BY <1>1, <1>2, <1>3, <1>4
     DEF IInv, OwnInv, OwnReq, OwnCounted, Polling, Posting
<1>10. CountInv'
  BY <1>1, <1>2, <1>3, <1>4
     DEF IInv, CountInv, InFlight, B, OwnCounted, AtHost, DoneReq, Counted,
         Polling, Posting
<1>11. ClaimInv' /\ OtherInv' /\ XferInv'
  BY <1>1, <1>2, <1>3, <1>4
     DEF IInv, ClaimInv, Claims, B, OtherInv, Stopping, XferInv,
         Actors
<1> QED
  BY <1>5, <1>6, <1>7, <1>8, <1>9, <1>10, <1>11 DEF IInv

(* The dispatcher goes to sleep. *)
LEMMA WaitMore ==
  ASSUME IInv, mmc_blk_rw_wait, ~mq.recovery_needed, mq.rw_wait
  PROVE  IInv'
<1>1. /\ act' \in [Actors -> ActRec]
      /\ act'["disp"].pc = "asleep"
      /\ act'["disp"].req = act["disp"].req
      /\ act'["disp"].rw = act["disp"].rw
      /\ act'["disp"].tgt = act["disp"].tgt
      /\ act'["disp"].err = act["disp"].err
      /\ act'["irq"] = act["irq"]
      /\ act'["cw"] = act["cw"]
      /\ act'["rec"] = act["rec"]
      /\ act'["late"] = act["late"]
  BY StepEffect, Names DEF mmc_blk_rw_wait, IInv
<1>2. /\ mq' \in QueueRec
      /\ Total' = Total
      /\ mq'.recovery_needed = mq.recovery_needed
      /\ mq'.rw_wait = mq.rw_wait
      /\ mq'.complete_req = mq.complete_req
      /\ mq'.complete_lock = mq.complete_lock
      /\ mq'.recovery_req = mq.recovery_req
      /\ mq'.quiesced = mq.quiesced
      /\ mq'.complete_work = mq.complete_work
      /\ mq'.recovery_work = mq.recovery_work
  BY DEF mmc_blk_rw_wait, IInv, Shape, QueueRec, Total, mmc_tot_in_flight
<1>3. /\ UNCHANGED <<setup, rq, at, claim, other, card, submits>>
      /\ act["disp"].pc = "wait"
  BY DEF mmc_blk_rw_wait, IInv, Shape, Actors
<1>4. /\ act["disp"].err # "finished"
  BY <1>3 DEF IInv, TargetInv
<1>5. Shape'
  BY <1>1, <1>2, <1>3, <1>4 DEF IInv, Shape, ActRec
<1>6. PcInv' /\ ModeInv' /\ TargetInv'
  BY <1>1, <1>2, <1>3, <1>4
     DEF IInv, PcInv, Polling, Posting, ModeInv, TargetInv, Actors
<1>7. LockInv' /\ HostInv' /\ RecoveryInv'
  BY <1>1, <1>2, <1>3, <1>4
     DEF IInv, LockInv, Locking, Rw, Actors, Polling, Posting, HostInv, Ready,
         AtHost, RecoveryInv
<1>8. PlaceInv'
  BY <1>1, <1>2, <1>3, <1>4
     DEF IInv, PlaceInv, Places, B, OwnReq, OwnCounted, HostReq, AtHost,
         DoneReq, LateReq, PostReq, Polling, Posting
<1>9. OwnInv'
  BY <1>1, <1>2, <1>3, <1>4
     DEF IInv, OwnInv, OwnReq, OwnCounted, Polling, Posting
<1>10. CountInv'
  BY <1>1, <1>2, <1>3, <1>4
     DEF IInv, CountInv, InFlight, B, OwnCounted, AtHost, DoneReq, Counted,
         Polling, Posting
<1>11. ClaimInv' /\ OtherInv' /\ XferInv'
  BY <1>1, <1>2, <1>3, <1>4
     DEF IInv, ClaimInv, Claims, B, OtherInv, Stopping, XferInv,
         Actors
<1> QED
  BY <1>5, <1>6, <1>7, <1>8, <1>9, <1>10, <1>11 DEF IInv

(* The dispatcher was refused. *)
LEMMA GoBusy ==
  ASSUME IInv, Go, act["disp"].err = "busy"
  PROVE  IInv'
<1>1. /\ act' \in [Actors -> ActRec]
      /\ act'["disp"].pc = "undo"
      /\ act'["disp"].req = act["disp"].req
      /\ act'["disp"].rw = act["disp"].rw
      /\ act'["disp"].tgt = act["disp"].tgt
      /\ act'["disp"].err = act["disp"].err
      /\ act'["irq"] = act["irq"]
      /\ act'["cw"] = act["cw"]
      /\ act'["rec"] = act["rec"]
      /\ act'["late"] = act["late"]
  BY StepEffect, Names DEF Go, IInv, Shape, Actors
<1>2. /\ mq' = mq
      /\ at' = at
      /\ Total' = Total
  BY DEF Go, Total, IInv, Shape, Actors
<1>3. /\ UNCHANGED <<setup, rq, claim, other, card, submits>>
      /\ act["disp"].pc = "go"
  BY DEF Go, Rw, IInv, Shape, Actors, ActRec
<1>4. act["disp"].tgt = None
  BY Modes DEF IInv, ModeInv
<1>5. Shape'
  BY <1>1, <1>2, <1>3, <1>4 DEF IInv, Shape, ActRec
<1>6. PcInv' /\ ModeInv' /\ TargetInv'
  BY <1>1, <1>2, <1>3, <1>4
     DEF IInv, PcInv, Polling, Posting, ModeInv, TargetInv, Actors
<1>7. LockInv' /\ HostInv' /\ RecoveryInv'
  BY <1>1, <1>2, <1>3, <1>4
     DEF IInv, LockInv, Locking, Rw, Actors, Polling, Posting, HostInv, Ready,
         AtHost, RecoveryInv
<1>8. PlaceInv'
  BY <1>1, <1>2, <1>3, <1>4
     DEF IInv, PlaceInv, Places, B, OwnReq, OwnCounted, HostReq, AtHost,
         DoneReq, LateReq, PostReq, Polling, Posting
<1>9. OwnInv'
  BY <1>1, <1>2, <1>3, <1>4
     DEF IInv, OwnInv, OwnReq, OwnCounted, Polling, Posting
<1>10. CountInv'
  BY <1>1, <1>2, <1>3, <1>4
     DEF IInv, CountInv, InFlight, B, OwnCounted, AtHost, DoneReq, Counted,
         Polling, Posting
<1>11. ClaimInv' /\ OtherInv' /\ XferInv'
  BY <1>1, <1>2, <1>3, <1>4
     DEF IInv, ClaimInv, Claims, B, OtherInv, Stopping, XferInv,
         Actors
<1> QED
  BY <1>5, <1>6, <1>7, <1>8, <1>9, <1>10, <1>11 DEF IInv

(* A synchronous operation is started. *)
LEMMA GoSync ==
  ASSUME IInv, Go, act["disp"].err # "busy", ~act["disp"].rw
  PROVE  IInv'
<1>1. /\ act' \in [Actors -> ActRec]
      /\ act'["disp"].pc = "running"
      /\ act'["disp"].req = act["disp"].req
      /\ act'["disp"].rw = act["disp"].rw
      /\ act'["disp"].tgt = act["disp"].tgt
      /\ act'["disp"].err = act["disp"].err
      /\ act'["irq"] = act["irq"]
      /\ act'["cw"] = act["cw"]
      /\ act'["rec"] = act["rec"]
      /\ act'["late"] = act["late"]
  BY StepEffect, Names DEF Go, Rw, IInv, Shape, Actors
<1>2. /\ mq' = mq
      /\ at' = act["disp"].req
      /\ Total' = Total
  BY DEF Go, Total, Rw, IInv, Shape, Actors
<1>3. /\ UNCHANGED <<setup, rq, claim, other, card, submits>>
      /\ act["disp"].pc = "go"
  BY DEF Go, Rw, IInv, Shape, Actors, ActRec
<1>4. /\ at = None
      /\ act["disp"].req \in Reqs
      /\ act["disp"].req # None
      /\ rq[act["disp"].req].op \notin RwOps
      /\ act["disp"].tgt = None
  <2>1. act["disp"].req \in Reqs /\ act["disp"].req # None
    BY <1>3, ReqsAssumption DEF IInv, TargetInv
  <2>2. OwnReq = act["disp"].req
    BY <1>3 DEF OwnReq, OwnCounted, IInv, TargetInv, Polling
  <2>3. at = None
    BY <1>3 DEF IInv, HostInv, Ready
  <2> QED BY <1>3, <2>1, <2>2, <2>3 DEF IInv, OwnInv, TargetInv
<1>5. Shape'
  BY <1>1, <1>2, <1>3, <1>4 DEF IInv, Shape, ActRec
<1>6. PcInv' /\ ModeInv' /\ TargetInv'
  BY <1>1, <1>2, <1>3, <1>4
     DEF IInv, PcInv, Polling, Posting, ModeInv, TargetInv, Actors
<1>7. LockInv' /\ HostInv' /\ RecoveryInv'
  BY <1>1, <1>2, <1>3, <1>4
     DEF IInv, LockInv, Locking, Rw, Actors, Polling, Posting, HostInv, Ready,
         AtHost, TargetInv, RecoveryInv
<1>8. PlaceInv'
  BY <1>1, <1>2, <1>3, <1>4
     DEF IInv, PlaceInv, Places, B, OwnReq, OwnCounted, HostReq, AtHost,
         DoneReq, LateReq, PostReq, Polling, Posting
<1>9. OwnInv'
  BY <1>1, <1>2, <1>3, <1>4
     DEF IInv, OwnInv, OwnReq, OwnCounted, Polling, Posting
<1>10. CountInv'
  BY <1>1, <1>2, <1>3, <1>4
     DEF IInv, CountInv, InFlight, B, OwnCounted, AtHost, DoneReq, Counted,
         Polling, Posting
<1>11. ClaimInv' /\ OtherInv' /\ XferInv'
  BY <1>1, <1>2, <1>3, <1>4
     DEF IInv, ClaimInv, Claims, B, OtherInv, Stopping, XferInv,
         Actors
<1> QED
  BY <1>5, <1>6, <1>7, <1>8, <1>9, <1>10, <1>11 DEF IInv

(* A transfer is not started, the card is gone. *)
LEMMA GoRemoved ==
  ASSUME IInv, Go, act["disp"].err # "busy", act["disp"].rw, card.removed
  PROVE  IInv'
<1>1. /\ act' \in [Actors -> ActRec]
      /\ act'["disp"].pc = IF act["disp"].tgt # None THEN "complete" ELSE "undo"
      /\ act'["disp"].req = act["disp"].req
      /\ act'["disp"].rw = act["disp"].rw
      /\ act'["disp"].tgt = act["disp"].tgt
      /\ act'["disp"].err = "start"
      /\ act'["irq"] = act["irq"]
      /\ act'["cw"] = act["cw"]
      /\ act'["rec"] = act["rec"]
      /\ act'["late"] = act["late"]
  <2> DEFINE p == IF act["disp"].tgt # None THEN "complete" ELSE "undo"
  <2>1. act' = [act EXCEPT !.disp.err = "start", !.disp.pc = p]
    BY DEF Go, Rw, IInv, Shape, Actors
  <2>2. p \in Pcs /\ "start" \in Outcomes
    BY Names
  <2> HIDE DEF p
  <2>3. /\ act' \in [Actors -> ActRec]
        /\ act'["disp"].pc = p
        /\ act'["disp"].req = act["disp"].req
        /\ act'["disp"].rw = act["disp"].rw
        /\ act'["disp"].tgt = act["disp"].tgt
        /\ act'["disp"].err = "start"
        /\ act'["irq"] = act["irq"]
        /\ act'["cw"] = act["cw"]
        /\ act'["rec"] = act["rec"]
        /\ act'["late"] = act["late"]
    BY <2>1, <2>2, DispEffect DEF IInv
  <2> QED BY <2>3 DEF p
<1>2. /\ mq' \in QueueRec
      /\ Total' = Total
      /\ mq'.recovery_needed = mq.recovery_needed
      /\ mq'.rw_wait = TRUE
      /\ mq'.complete_req = mq.complete_req
      /\ mq'.complete_lock = mq.complete_lock
      /\ mq'.recovery_req = mq.recovery_req
      /\ mq'.quiesced = mq.quiesced
      /\ mq'.complete_work = mq.complete_work
      /\ mq'.recovery_work = mq.recovery_work
  <2>1. mq' = [mq EXCEPT !.rw_wait = TRUE]
    BY DEF Go, Rw, IInv, Shape, Actors
  <2> QED BY <2>1 DEF IInv, Shape, QueueRec, Total, mmc_tot_in_flight
<1>3. /\ UNCHANGED <<setup, rq, claim, other, card, submits>>
      /\ act["disp"].pc = "go"
      /\ at' = at
  BY DEF Go, Rw, IInv, Shape, Actors, ActRec
<1>4. /\ mq.complete_lock = None
      /\ mq.complete_req = None
      /\ act["disp"].tgt \in Reqs \cup {None}
      /\ at = None
      /\ act["disp"].req \in Reqs
      /\ act["disp"].req # None
      /\ rq[act["disp"].req].op \in RwOps
      /\ OwnReq = act["disp"].req
  <2>1. act["disp"].req \in Reqs /\ act["disp"].req # None
    BY <1>3, ReqsAssumption DEF IInv, TargetInv
  <2>2. OwnReq = act["disp"].req
    BY <1>3 DEF OwnReq, OwnCounted, IInv, TargetInv, Polling
  <2>3. at = None
    BY <1>3 DEF IInv, HostInv, Ready
  <2>4. act["disp"].tgt \in Reqs \cup {None}
    BY Names DEF IInv, Shape, ActRec
  <2> QED BY <1>3, <2>1, <2>2, <2>3, <2>4 DEF IInv, OwnInv, HostInv
<1>5. Shape'
  BY <1>1, <1>2, <1>3, <1>4 DEF IInv, Shape, ActRec
<1>6. PcInv' /\ ModeInv' /\ TargetInv'
  BY <1>1, <1>2, <1>3, <1>4
     DEF IInv, PcInv, Polling, Posting, ModeInv, TargetInv, Actors
<1>7. LockInv' /\ HostInv' /\ RecoveryInv'
  BY <1>1, <1>2, <1>3, <1>4
     DEF IInv, LockInv, Locking, Rw, Actors, Polling, Posting, HostInv, Ready,
         AtHost, RecoveryInv
<1>8. PlaceInv'
  BY <1>1, <1>2, <1>3, <1>4
     DEF IInv, PlaceInv, Places, B, OwnReq, OwnCounted, HostReq, AtHost,
         DoneReq, LateReq, PostReq, Polling, Posting
<1>9. OwnInv'
  BY <1>1, <1>2, <1>3, <1>4
     DEF IInv, OwnInv, OwnReq, OwnCounted, Polling, Posting
<1>10. CountInv'
  BY <1>1, <1>2, <1>3, <1>4
     DEF IInv, CountInv, InFlight, B, OwnCounted, AtHost, DoneReq, Counted,
         Polling, Posting
<1>11. ClaimInv' /\ OtherInv' /\ XferInv'
  BY <1>1, <1>2, <1>3, <1>4
     DEF IInv, ClaimInv, Claims, B, OtherInv, Stopping, XferInv,
         Actors
<1> QED
  BY <1>5, <1>6, <1>7, <1>8, <1>9, <1>10, <1>11 DEF IInv

(* A transfer is started. *)
LEMMA GoStart ==
  ASSUME IInv, Go, act["disp"].err # "busy", act["disp"].rw, ~card.removed
  PROVE  IInv'
<1>1. /\ act' \in [Actors -> ActRec]
      /\ act'["disp"].pc = IF act["disp"].tgt # None THEN "complete" ELSE "leave"
      /\ act'["disp"].req = act["disp"].req
      /\ act'["disp"].rw = act["disp"].rw
      /\ act'["disp"].tgt = act["disp"].tgt
      /\ act'["disp"].err = "none"
      /\ act'["irq"] = act["irq"]
      /\ act'["cw"] = act["cw"]
      /\ act'["rec"] = act["rec"]
      /\ act'["late"] = act["late"]
  <2> DEFINE p == IF act["disp"].tgt # None THEN "complete" ELSE "leave"
  <2>1. act' = [act EXCEPT !.disp.err = "none", !.disp.pc = p]
    BY DEF Go, Rw, IInv, Shape, Actors
  <2>2. p \in Pcs /\ "none" \in Outcomes
    BY Names
  <2> HIDE DEF p
  <2>3. /\ act' \in [Actors -> ActRec]
        /\ act'["disp"].pc = p
        /\ act'["disp"].req = act["disp"].req
        /\ act'["disp"].rw = act["disp"].rw
        /\ act'["disp"].tgt = act["disp"].tgt
        /\ act'["disp"].err = "none"
        /\ act'["irq"] = act["irq"]
        /\ act'["cw"] = act["cw"]
        /\ act'["rec"] = act["rec"]
        /\ act'["late"] = act["late"]
    BY <2>1, <2>2, DispEffect DEF IInv
  <2> QED BY <2>3 DEF p
<1>2. /\ mq' \in QueueRec
      /\ Total' = Total
      /\ mq'.recovery_needed = mq.recovery_needed
      /\ mq'.rw_wait = TRUE
      /\ mq'.complete_req = mq.complete_req
      /\ mq'.complete_lock = mq.complete_lock
      /\ mq'.recovery_req = mq.recovery_req
      /\ mq'.quiesced = mq.quiesced
      /\ mq'.complete_work = mq.complete_work
      /\ mq'.recovery_work = mq.recovery_work
  <2>1. mq' = [mq EXCEPT !.rw_wait = TRUE]
    BY DEF Go, Rw, IInv, Shape, Actors
  <2> QED BY <2>1 DEF IInv, Shape, QueueRec, Total, mmc_tot_in_flight
<1>3. /\ UNCHANGED <<setup, rq, claim, other, card, submits>>
      /\ act["disp"].pc = "go"
      /\ at' = act["disp"].req
  BY DEF Go, Rw, IInv, Shape, Actors, ActRec
<1>4. /\ mq.complete_lock = None
      /\ mq.complete_req = None
      /\ act["disp"].tgt \in Reqs \cup {None}
      /\ at = None
      /\ act["disp"].req \in Reqs
      /\ act["disp"].req # None
      /\ rq[act["disp"].req].op \in RwOps
      /\ OwnReq = act["disp"].req
  <2>1. act["disp"].req \in Reqs /\ act["disp"].req # None
    BY <1>3, ReqsAssumption DEF IInv, TargetInv
  <2>2. OwnReq = act["disp"].req
    BY <1>3 DEF OwnReq, OwnCounted, IInv, TargetInv, Polling
  <2>3. at = None
    BY <1>3 DEF IInv, HostInv, Ready
  <2>4. act["disp"].tgt \in Reqs \cup {None}
    BY Names DEF IInv, Shape, ActRec
  <2> QED BY <1>3, <2>1, <2>2, <2>3, <2>4 DEF IInv, OwnInv, HostInv
<1>5. Shape'
  BY <1>1, <1>2, <1>3, <1>4 DEF IInv, Shape, ActRec
<1>6. PcInv' /\ ModeInv' /\ TargetInv'
  BY <1>1, <1>2, <1>3, <1>4
     DEF IInv, PcInv, Polling, Posting, ModeInv, TargetInv, Actors
<1>7. LockInv' /\ HostInv' /\ RecoveryInv'
  BY <1>1, <1>2, <1>3, <1>4
     DEF IInv, LockInv, Locking, Rw, Actors, Polling, Posting, HostInv, Ready,
         AtHost, RecoveryInv
<1>8. PlaceInv'
  BY <1>1, <1>2, <1>3, <1>4
     DEF IInv, PlaceInv, Places, B, OwnReq, OwnCounted, HostReq, AtHost,
         DoneReq, LateReq, PostReq, Polling, Posting
<1>9. OwnInv'
  BY <1>1, <1>2, <1>3, <1>4
     DEF IInv, OwnInv, OwnReq, OwnCounted, Polling, Posting
<1>10. CountInv'
  BY <1>1, <1>2, <1>3, <1>4
     DEF IInv, CountInv, InFlight, B, OwnCounted, AtHost, DoneReq, Counted,
         Polling, Posting
<1>11. ClaimInv' /\ OtherInv' /\ XferInv'
  BY <1>1, <1>2, <1>3, <1>4
     DEF IInv, ClaimInv, Claims, B, OtherInv, Stopping, XferInv,
         Actors
<1> QED
  BY <1>5, <1>6, <1>7, <1>8, <1>9, <1>10, <1>11 DEF IInv

(* The dispatcher leaves the request with the host. *)
LEMMA LeaveStep ==
  ASSUME IInv, Leave
  PROVE  IInv'
<1>1. /\ act' \in [Actors -> ActRec]
      /\ act'["disp"].pc = "idle"
      /\ act'["disp"].req = None
      /\ act'["disp"].rw = FALSE
      /\ act'["disp"].tgt = None
      /\ act'["disp"].err = "none"
      /\ act'["irq"] = act["irq"]
      /\ act'["cw"] = act["cw"]
      /\ act'["rec"] = act["rec"]
      /\ act'["late"] = act["late"]
  BY DispIdle DEF Leave, IInv
<1>2. /\ mq' \in QueueRec
      /\ Total' = Total
      /\ mq'.recovery_needed = mq.recovery_needed
      /\ mq'.rw_wait = mq.rw_wait
      /\ mq'.complete_req = mq.complete_req
      /\ mq'.complete_lock = mq.complete_lock
      /\ mq'.recovery_req = mq.recovery_req
      /\ mq'.quiesced = mq.quiesced
      /\ mq'.complete_work = mq.complete_work
      /\ mq'.recovery_work = mq.recovery_work
  BY DEF Leave, IInv, Shape, QueueRec, Total, mmc_tot_in_flight
<1>3. /\ UNCHANGED <<setup, rq, at, claim, other, card, submits>>
      /\ act["disp"].pc = "leave"
  BY DEF Leave, IInv, Shape, Actors
<1>4. Shape'
  BY <1>1, <1>2, <1>3 DEF IInv, Shape, ActRec
<1>5. PcInv' /\ ModeInv' /\ TargetInv'
  BY <1>1, <1>2, <1>3
     DEF IInv, PcInv, Polling, Posting, ModeInv, TargetInv, Actors
<1>6. LockInv' /\ HostInv' /\ RecoveryInv'
  BY <1>1, <1>2, <1>3
     DEF IInv, LockInv, Locking, Rw, Actors, Polling, Posting, HostInv, Ready,
         AtHost, RecoveryInv
<1>7. PlaceInv'
  BY <1>1, <1>2, <1>3
     DEF IInv, PlaceInv, Places, B, OwnReq, OwnCounted, HostReq, AtHost,
         DoneReq, LateReq, PostReq, Polling, Posting
<1>8. OwnInv'
  BY <1>1, <1>2, <1>3 DEF IInv, OwnInv, OwnReq, OwnCounted, Polling, Posting
<1>9. CountInv'
  BY <1>1, <1>2, <1>3
     DEF IInv, CountInv, InFlight, B, OwnCounted, AtHost, DoneReq, Counted,
         Polling, Posting
<1>10. ClaimInv' /\ OtherInv' /\ XferInv'
  BY <1>1, <1>2, <1>3
     DEF IInv, ClaimInv, Claims, B, OtherInv, Stopping, XferInv,
         Actors
<1> QED
  BY <1>4, <1>5, <1>6, <1>7, <1>8, <1>9, <1>10 DEF IInv

(* The dispatcher returns a request it could not start to the block layer. *)
LEMMA ReturnEffect ==
  ASSUME IInv, NEW a \in {"disp", "late"},
         act[a].req \in Reqs, act[a].err \in {"busy", "start", "finished"},
         Return(act[a])
  PROVE  LET d == act[a].req IN
         /\ rq' \in [Reqs -> ReqRec]
         /\ \A s \in Reqs : s # d => rq'[s] = rq[s]
         /\ act[a].err = "finished" => rq' = rq
         /\ act[a].err # "finished" =>
              /\ rq'[d].st \in {"free", "queued"} /\ rq'[d].op = rq[d].op
              /\ rq'[d].err = "none" /\ rq'[d].bad =>
                   rq[d].err = "none" /\ rq[d].bad
<1> DEFINE d == act[a].req
<1>1. d \in Reqs /\ rq[d] \in ReqRec
  BY DEF IInv, Shape
<1>2. CASE act[a].err = "busy"
  <2>1. rq' = [rq EXCEPT ![d].st = "queued"]
    BY <1>2 DEF Return
  <2>2. /\ rq' \in [Reqs -> ReqRec] /\ rq'[d].st = "queued"
        /\ rq'[d].op = rq[d].op /\ rq'[d].err = rq[d].err
        /\ rq'[d].bad = rq[d].bad
        /\ \A s \in Reqs : s # d => rq'[s] = rq[s]
    BY <1>1, <2>1, Names DEF IInv, Shape, ReqRec
  <2> QED BY <1>1, <1>2, <2>2
<1>3. CASE act[a].err = "start"
  <2>1. rq' = [rq EXCEPT ![d] = End(rq[d])]
    BY <1>3 DEF Return
  <2>2. End(rq[d]) \in ReqRec /\ End(rq[d]).st = "free"
          /\ End(rq[d]).op = rq[d].op /\ End(rq[d]).bad = FALSE
    BY <1>1, CompletedReq
  <2>3. /\ rq' \in [Reqs -> ReqRec] /\ rq'[d] = End(rq[d])
        /\ \A s \in Reqs : s # d => rq'[s] = rq[s]
    BY <1>1, <2>1, <2>2 DEF IInv, Shape
  <2> QED BY <1>1, <1>3, <2>2, <2>3
<1>4. CASE act[a].err = "finished"
  <2>1. rq' = rq
    BY <1>4 DEF Return
  <2> QED BY <1>1, <1>4, <2>1 DEF IInv, Shape
<1> QED BY <1>2, <1>3, <1>4

(* in_flight is counted down, whatever the type. *)
LEMMA CountDown ==
  ASSUME Shape, NEW t \in {"SYNC", "ASYNC"}
  PROVE  /\ [mq.in_flight EXCEPT ![t] = @ - 1] \in [{"SYNC", "ASYNC"} -> Int]
         /\ [mq.in_flight EXCEPT ![t] = @ - 1]["SYNC"]
              + [mq.in_flight EXCEPT ![t] = @ - 1]["ASYNC"] = Total - 1
BY DEF Shape, QueueRec, Total, mmc_tot_in_flight

(* The last request is taken back. *)
LEMMA UndoLast ==
  ASSUME IInv, Undo, Total' = 0
  PROVE  IInv'
<1>1. /\ mq' \in QueueRec
      /\ Total' = Total - 1
      /\ mq'.recovery_needed = mq.recovery_needed
      /\ mq'.rw_wait = (mq.rw_wait /\ act["disp"].err # "start")
      /\ mq'.complete_req = mq.complete_req
      /\ mq'.complete_lock = mq.complete_lock
      /\ mq'.recovery_req = mq.recovery_req
      /\ mq'.quiesced = mq.quiesced
      /\ mq'.complete_work = mq.complete_work
      /\ mq'.recovery_work = mq.recovery_work
  <2> DEFINE t == IF act["disp"].rw THEN "ASYNC" ELSE "SYNC"
             f == [mq.in_flight EXCEPT ![t] = @ - 1]
             w == mq.rw_wait /\ act["disp"].err # "start"
  <2>1. t \in {"SYNC", "ASYNC"} /\ w \in BOOLEAN
    OBVIOUS
  <2>2. mq' = [mq EXCEPT !.busy = FALSE, !.in_flight = f, !.rw_wait = w]
    BY DEF Undo, IInv, Shape, QueueRec
  <2> HIDE DEF t, w
  <2>3. /\ f \in [{"SYNC", "ASYNC"} -> Int]
        /\ f["SYNC"] + f["ASYNC"] = Total - 1
    BY <2>1, CountDown DEF IInv
  <2> HIDE DEF f
  <2>4. /\ mq' \in QueueRec
        /\ Total' = Total - 1
        /\ mq'.recovery_needed = mq.recovery_needed
        /\ mq'.rw_wait = w
        /\ mq'.complete_req = mq.complete_req
        /\ mq'.complete_lock = mq.complete_lock
        /\ mq'.recovery_req = mq.recovery_req
        /\ mq'.quiesced = mq.quiesced
        /\ mq'.complete_work = mq.complete_work
        /\ mq'.recovery_work = mq.recovery_work
    BY <2>1, <2>2, <2>3 DEF IInv, Shape, QueueRec, Total, mmc_tot_in_flight
  <2> QED BY <2>4 DEF w
<1>2. /\ UNCHANGED <<setup, at, claim, other, card, submits>>
      /\ act["disp"].pc = "undo"
      /\ act.disp = act["disp"]
  BY DEF Undo
<1>3. /\ act' \in [Actors -> ActRec]
      /\ act'["disp"].pc = "idle"
      /\ act'["disp"].req = None
      /\ act'["disp"].rw = FALSE
      /\ act'["disp"].tgt = None
      /\ act'["disp"].err = "none"
      /\ act["late"].pc = "idle"
      /\ act'["late"].pc = "undoput"
      /\ act'["late"].req = act["disp"].req
      /\ act'["late"].err = act["disp"].err
      /\ act'["irq"] = act["irq"]
      /\ act'["cw"] = act["cw"]
      /\ act'["rec"] = act["rec"]
  <2> DEFINE x == [act["disp"] EXCEPT !.pc = "undoput"]
  <2>1. /\ act.late.pc = "idle"
        /\ act' = [act EXCEPT !["disp"] = Idle, !["late"] = x]
    BY <1>1 DEF Undo, IInv, Total
  <2>2. /\ act["disp"] \in ActRec /\ act \in [Actors -> ActRec]
    BY Names DEF IInv, Shape
  <2>3. /\ x \in ActRec /\ x.pc = "undoput" /\ x.req = act["disp"].req
        /\ x.err = act["disp"].err
    BY <2>2, Names DEF ActRec
  <2> HIDE DEF x
  <2>4. /\ act' \in [Actors -> ActRec]
        /\ act'["disp"] = Idle /\ act'["late"] = x
        /\ act'["irq"] = act["irq"] /\ act'["cw"] = act["cw"]
        /\ act'["rec"] = act["rec"]
    BY <2>1, <2>2, <2>3, IdleRec, Names
  <2> QED BY <2>1, <2>3, <2>4, IdleRec
<1>4. UNCHANGED rq
  BY <1>1 DEF Undo, Total
<1>5. Total \in Nat
  BY DEF IInv, CountInv, InFlight, B
<1>6. /\ act["disp"].err \in {"busy", "start", "finished"}
  BY <1>2 DEF IInv, TargetInv
<1>7. Shape'
  BY <1>1, <1>2, <1>3, <1>4, <1>5, <1>6 DEF IInv, Shape, ActRec
<1>8. PcInv' /\ ModeInv' /\ TargetInv'
  BY <1>1, <1>2, <1>3, <1>4, <1>5, <1>6
     DEF IInv, PcInv, Polling, Posting, ModeInv, TargetInv, Actors
<1>9. LockInv'
  BY <1>1, <1>2, <1>3, <1>4, <1>5, <1>6
     DEF IInv, LockInv, Locking, Rw, Actors, Polling, Posting
<1>10. HostInv'
  BY <1>1, <1>2, <1>3, <1>4, <1>5, <1>6
     DEF IInv, HostInv, Ready, AtHost, Polling, Posting
<1>11. RecoveryInv'
  BY <1>1, <1>2, <1>3, <1>4, <1>5, <1>6 DEF IInv, RecoveryInv
<1>12. PlaceInv'
  BY <1>1, <1>2, <1>3, <1>4, <1>5, <1>6
     DEF IInv, PlaceInv, Places, B, OwnReq, OwnCounted, HostReq, AtHost,
         DoneReq, LateReq, PostReq, Polling, Posting
<1>13. OwnInv'
  BY <1>1, <1>2, <1>3, <1>4, <1>5, <1>6
     DEF IInv, OwnInv, OwnReq, OwnCounted, Polling, Posting
<1>14. CountInv'
  BY <1>1, <1>2, <1>3, <1>4, <1>5, <1>6
     DEF IInv, CountInv, InFlight, B, OwnCounted, AtHost, DoneReq, Counted,
         Polling, Posting
<1>15. ClaimInv' /\ OtherInv' /\ XferInv'
  BY <1>1, <1>2, <1>3, <1>4, <1>5, <1>6
     DEF IInv, ClaimInv, Claims, B, OtherInv, Stopping, XferInv,
         Actors
<1> QED
  BY <1>7, <1>8, <1>9, <1>10, <1>11, <1>12, <1>13, <1>14, <1>15 DEF IInv

(* A request is taken back, others are in flight. *)
LEMMA UndoMore ==
  ASSUME IInv, Undo, Total' # 0
  PROVE  IInv'
<1>1. /\ mq' \in QueueRec
      /\ Total' = Total - 1
      /\ mq'.recovery_needed = mq.recovery_needed
      /\ mq'.rw_wait = (mq.rw_wait /\ act["disp"].err # "start")
      /\ mq'.complete_req = mq.complete_req
      /\ mq'.complete_lock = mq.complete_lock
      /\ mq'.recovery_req = mq.recovery_req
      /\ mq'.quiesced = mq.quiesced
      /\ mq'.complete_work = mq.complete_work
      /\ mq'.recovery_work = mq.recovery_work
  <2> DEFINE t == IF act["disp"].rw THEN "ASYNC" ELSE "SYNC"
             f == [mq.in_flight EXCEPT ![t] = @ - 1]
             w == mq.rw_wait /\ act["disp"].err # "start"
  <2>1. t \in {"SYNC", "ASYNC"} /\ w \in BOOLEAN
    OBVIOUS
  <2>2. mq' = [mq EXCEPT !.busy = FALSE, !.in_flight = f, !.rw_wait = w]
    BY DEF Undo, IInv, Shape, QueueRec
  <2> HIDE DEF t, w
  <2>3. /\ f \in [{"SYNC", "ASYNC"} -> Int]
        /\ f["SYNC"] + f["ASYNC"] = Total - 1
    BY <2>1, CountDown DEF IInv
  <2> HIDE DEF f
  <2>4. /\ mq' \in QueueRec
        /\ Total' = Total - 1
        /\ mq'.recovery_needed = mq.recovery_needed
        /\ mq'.rw_wait = w
        /\ mq'.complete_req = mq.complete_req
        /\ mq'.complete_lock = mq.complete_lock
        /\ mq'.recovery_req = mq.recovery_req
        /\ mq'.quiesced = mq.quiesced
        /\ mq'.complete_work = mq.complete_work
        /\ mq'.recovery_work = mq.recovery_work
    BY <2>1, <2>2, <2>3 DEF IInv, Shape, QueueRec, Total, mmc_tot_in_flight
  <2> QED BY <2>4 DEF w
<1>2. /\ UNCHANGED <<setup, at, claim, other, card, submits>>
      /\ act["disp"].pc = "undo"
      /\ act.disp = act["disp"]
  BY DEF Undo
<1>3. /\ act' \in [Actors -> ActRec]
      /\ act'["disp"].pc = "idle"
      /\ act'["disp"].req = None
      /\ act'["disp"].rw = FALSE
      /\ act'["disp"].tgt = None
      /\ act'["disp"].err = "none"
      /\ act'["irq"] = act["irq"]
      /\ act'["cw"] = act["cw"]
      /\ act'["rec"] = act["rec"]
      /\ act'["late"] = act["late"]
      /\ act["disp"].req \in Reqs
      /\ rq' \in [Reqs -> ReqRec]
      /\ \A s \in Reqs : s # act["disp"].req => rq'[s] = rq[s]
      /\ act["disp"].err = "finished" => rq' = rq
      /\ act["disp"].err # "finished" =>
           /\ rq'[act["disp"].req].st \in {"free", "queued"}
           /\ rq'[act["disp"].req].op = rq[act["disp"].req].op
           /\ rq'[act["disp"].req].err = "none" /\ rq'[act["disp"].req].bad =>
                rq[act["disp"].req].err = "none" /\ rq[act["disp"].req].bad
  <2>1. Return(act["disp"]) /\ act' = [act EXCEPT !.disp = Idle]
    BY <1>1, <1>2 DEF Undo, Total
  <2>2. /\ act["disp"].req \in Reqs
        /\ act["disp"].err \in {"busy", "start", "finished"}
    BY <1>2 DEF IInv, TargetInv
  <2> QED BY <2>1, <2>2, ReturnEffect, DispIdle DEF IInv
<1>4. Total \in Nat
  BY DEF IInv, CountInv, InFlight, B
<1>5. /\ act["disp"].err \in {"busy", "start", "finished"}
  BY <1>2 DEF IInv, TargetInv
<1>6. /\ OwnReq = IF act["disp"].err = "finished" THEN None ELSE act["disp"].req
  BY <1>2, Names DEF OwnReq, OwnCounted, IInv, Shape, ActRec
<1>7. at # None => rq'[at].op = rq[at].op
  BY <1>3 DEF IInv, Shape
<1>8. Shape'
  BY <1>1, <1>2, <1>3, <1>4, <1>5, <1>6, <1>7 DEF IInv, Shape, ActRec
<1>9. PcInv' /\ ModeInv' /\ TargetInv'
  BY <1>1, <1>2, <1>3, <1>4, <1>5, <1>6, <1>7
     DEF IInv, PcInv, Polling, Posting, ModeInv, TargetInv, Actors
<1>10. LockInv'
  BY <1>1, <1>2, <1>3, <1>4, <1>5, <1>6, <1>7
     DEF IInv, LockInv, Locking, Rw, Actors, Polling, Posting
<1>11. HostInv'
  BY <1>1, <1>2, <1>3, <1>4, <1>5, <1>6, <1>7
     DEF IInv, HostInv, Ready, AtHost, Polling, Posting
<1>12. RecoveryInv'
  BY <1>1, <1>2, <1>3, <1>4, <1>5, <1>6, <1>7 DEF IInv, RecoveryInv
<1>13. PlaceInv'
  <2> SUFFICES ASSUME NEW r \in Reqs PROVE (Places(r) = B(rq[r].st = "issued"))'
    BY DEF PlaceInv
  <2>1. Places(r) = B(rq[r].st = "issued")
    BY DEF IInv, PlaceInv
  <2>2. /\ OwnReq' = None /\ r # None /\ LateReq' = LateReq
        /\ DoneReq' = DoneReq /\ mq'.recovery_req = mq.recovery_req
        /\ PostReq("disp")' = PostReq("disp") /\ PostReq("irq")' = PostReq("irq")
        /\ PostReq("cw")' = PostReq("cw") /\ PostReq("rec")' = PostReq("rec")
    BY <1>1, <1>2, <1>3, <1>4, <1>5, <1>6, <1>7, ReqsAssumption
       DEF OwnReq, OwnCounted, DoneReq, LateReq, PostReq, Polling, Posting
  <2>3. HostReq' = HostReq
    BY <1>1, <1>2, <1>3, <1>4, <1>5, <1>6, <1>7 DEF HostReq, AtHost
  <2>4. CASE OwnReq = r
    BY <1>1, <1>2, <1>3, <1>4, <1>5, <1>6, <1>7, <2>1, <2>2, <2>3, <2>4
       DEF Places, B
  <2>5. CASE OwnReq # r
    <3>1. rq'[r] = rq[r]
      BY <1>1, <1>2, <1>3, <1>4, <1>5, <1>6, <1>7, <2>5
    <3> QED BY <2>1, <2>2, <2>3, <2>5, <3>1 DEF Places, B
  <2> QED BY <2>4, <2>5
<1>14. OwnInv'
  BY <1>1, <1>2, <1>3, <1>4, <1>5, <1>6, <1>7
     DEF IInv, OwnInv, OwnReq, OwnCounted, Polling, Posting
<1>15. CountInv'
  BY <1>1, <1>2, <1>3, <1>4, <1>5, <1>6, <1>7
     DEF IInv, CountInv, InFlight, B, OwnCounted, AtHost, DoneReq, Counted,
         Polling, Posting
<1>16. ClaimInv' /\ OtherInv'
  BY <1>1, <1>2, <1>3, <1>4, <1>5, <1>6, <1>7
     DEF IInv, ClaimInv, Claims, B, OtherInv, Stopping
<1>17. XferInv'
  <2>1. \A a \in Actors : act[a].pc \in {"complete", "go"} /\ act[a].tgt # None =>
          act[a].tgt \in Reqs /\ (a # "disp" => act[a].tgt # OwnReq)
    <3> SUFFICES ASSUME NEW a \in Actors, act[a].pc \in {"complete", "go"},
                        act[a].tgt # None
                 PROVE  act[a].tgt \in Reqs /\ (a # "disp" => act[a].tgt # OwnReq)
      OBVIOUS
    <3>1. act[a].tgt \in Reqs
      BY DEF IInv, Shape, ActRec
    <3>2. a # "disp" => PostReq(a) = act[a].tgt
      BY DEF PostReq
    <3> QED BY <3>1, <3>2, PosterNames DEF IInv, PlaceInv, Places, B
  <2> QED
    BY <1>1, <1>2, <1>3, <1>4, <1>5, <1>6, <1>7, <2>1
       DEF IInv, XferInv, Actors
<1> QED
  BY <1>8, <1>9, <1>10, <1>11, <1>12, <1>13, <1>14, <1>15, <1>16, <1>17
     DEF IInv

(* The last request gone, the claim is given up. *)
LEMMA UndoPutStep ==
  ASSUME IInv, UndoPut
  PROVE  IInv'
<1>1. /\ mq' = mq
      /\ Total' = Total
  BY DEF UndoPut, Total
<1>2. /\ UNCHANGED <<setup, at, other, card, submits>>
      /\ act["late"].pc = "undoput"
      /\ act.late = act["late"]
  BY DEF UndoPut
<1>3. /\ act' \in [Actors -> ActRec]
      /\ act'["late"].pc = "idle"
      /\ act'["late"].req = None
      /\ act'["late"].rw = FALSE
      /\ act'["late"].tgt = None
      /\ act'["late"].err = "none"
      /\ act'["irq"] = act["irq"]
      /\ act'["cw"] = act["cw"]
      /\ act'["rec"] = act["rec"]
      /\ act'["disp"] = act["disp"]
      /\ act["late"].req \in Reqs
      /\ rq' \in [Reqs -> ReqRec]
      /\ \A s \in Reqs : s # act["late"].req => rq'[s] = rq[s]
      /\ act["late"].err = "finished" => rq' = rq
      /\ act["late"].err # "finished" =>
           /\ rq'[act["late"].req].st \in {"free", "queued"}
           /\ rq'[act["late"].req].op = rq[act["late"].req].op
           /\ rq'[act["late"].req].err = "none" /\ rq'[act["late"].req].bad =>
                rq[act["late"].req].err = "none" /\ rq[act["late"].req].bad
  <2>1. Return(act["late"]) /\ act' = [act EXCEPT !["late"] = Idle]
    BY <1>2 DEF UndoPut
  <2>2. /\ act["late"].req \in Reqs
        /\ act["late"].err \in {"busy", "start", "finished"}
    BY <1>2 DEF IInv, TargetInv
  <2>3. /\ act' \in [Actors -> ActRec] /\ act'["late"] = Idle
        /\ \A b \in Actors : b # "late" => act'[b] = act[b]
    BY <2>1, ActSet, IdleRec, Names DEF IInv
  <2> QED BY <2>1, <2>2, <2>3, ReturnEffect, IdleRec, Names
<1>4. Total \in Nat
  BY DEF IInv, CountInv, InFlight, B
<1>5. /\ act["late"].err \in {"busy", "start", "finished"}
  BY <1>2 DEF IInv, TargetInv
<1>6. /\ LateReq = IF act["late"].err = "finished" THEN None ELSE act["late"].req
  BY <1>2, Names DEF LateReq, OwnCounted, IInv, Shape, ActRec
<1>7. at # None => rq'[at].op = rq[at].op
  BY <1>3 DEF IInv, Shape
<1>8. claim.by = "mq"
  BY <1>2, <1>4 DEF IInv, ClaimInv, Claims, B
<1>9. /\ claim' \in [by : Holders, cnt : Int, warn : BOOLEAN]
      /\ claim'.warn = claim.warn
      /\ claim'.cnt = claim.cnt - 1
      /\ claim'.by = IF claim.cnt = 1 THEN None ELSE "mq"
  BY <1>8, PutEffect DEF UndoPut, IInv
<1>10. Shape'
  BY <1>1, <1>2, <1>3, <1>4, <1>5, <1>6, <1>7, <1>8, <1>9
     DEF IInv, Shape, ActRec
<1>11. PcInv' /\ ModeInv' /\ TargetInv'
  BY <1>1, <1>2, <1>3, <1>4, <1>5, <1>6, <1>7, <1>8, <1>9
     DEF IInv, PcInv, Polling, Posting, ModeInv, TargetInv, Actors
<1>12. LockInv'
  BY <1>1, <1>2, <1>3, <1>4, <1>5, <1>6, <1>7, <1>8, <1>9
     DEF IInv, LockInv, Locking, Rw, Actors, Polling, Posting
<1>13. HostInv'
  BY <1>1, <1>2, <1>3, <1>4, <1>5, <1>6, <1>7, <1>8, <1>9
     DEF IInv, HostInv, Ready, AtHost, Polling, Posting
<1>14. RecoveryInv'
  BY <1>1, <1>2, <1>3, <1>4, <1>5, <1>6, <1>7, <1>8, <1>9 DEF IInv, RecoveryInv
<1>15. PlaceInv'
  <2> SUFFICES ASSUME NEW r \in Reqs PROVE (Places(r) = B(rq[r].st = "issued"))'
    BY DEF PlaceInv
  <2>1. Places(r) = B(rq[r].st = "issued")
    BY DEF IInv, PlaceInv
  <2>2. /\ LateReq' = None /\ r # None /\ OwnReq' = OwnReq
        /\ DoneReq' = DoneReq /\ mq'.recovery_req = mq.recovery_req
        /\ PostReq("disp")' = PostReq("disp") /\ PostReq("irq")' = PostReq("irq")
        /\ PostReq("cw")' = PostReq("cw") /\ PostReq("rec")' = PostReq("rec")
    BY <1>1, <1>2, <1>3, <1>4, <1>5, <1>6, <1>7, <1>8, <1>9, ReqsAssumption
       DEF LateReq, OwnCounted, DoneReq, OwnReq, PostReq, Polling, Posting
  <2>3. HostReq' = HostReq
    BY <1>1, <1>2, <1>3, <1>4, <1>5, <1>6, <1>7, <1>8, <1>9 DEF HostReq, AtHost
  <2>4. CASE LateReq = r
    BY <1>1, <1>2, <1>3, <1>4, <1>5, <1>6, <1>7, <1>8, <1>9, <2>1, <2>2, <2>3,
       <2>4
       DEF Places, B
  <2>5. CASE LateReq # r
    <3>1. rq'[r] = rq[r]
      BY <1>1, <1>2, <1>3, <1>4, <1>5, <1>6, <1>7, <1>8, <1>9, <2>5
    <3> QED BY <2>1, <2>2, <2>3, <2>5, <3>1 DEF Places, B
  <2> QED BY <2>4, <2>5
<1>16. OwnInv'
  <2>1. /\ OwnReq' = OwnReq /\ act'["disp"] = act["disp"]
        /\ OwnReq # None => OwnReq \in Reqs
    BY <1>3, Names DEF IInv, Shape, OwnReq, OwnCounted, ActRec
  <2>2. \A s \in Reqs : rq'[s].op = rq[s].op
    BY <1>3, <1>5
  <2> QED BY <2>1, <2>2 DEF IInv, OwnInv
<1>17. CountInv'
  BY <1>1, <1>2, <1>3, <1>4, <1>5, <1>6, <1>7, <1>8, <1>9
     DEF IInv, CountInv, InFlight, B, OwnCounted, AtHost, DoneReq, Counted,
         Polling, Posting
<1>18. ClaimInv' /\ OtherInv'
  BY <1>1, <1>2, <1>3, <1>4, <1>5, <1>6, <1>7, <1>8, <1>9
     DEF IInv, ClaimInv, Claims, B, Shape, Holders, None, OtherInv, Stopping
<1>19. XferInv'
  <2>1. \A a \in Actors : act[a].pc \in {"complete", "go"} /\ act[a].tgt # None =>
          act[a].tgt \in Reqs /\ (a # "late" => act[a].tgt # LateReq)
    <3> SUFFICES ASSUME NEW a \in Actors, act[a].pc \in {"complete", "go"},
                        act[a].tgt # None
                 PROVE  act[a].tgt \in Reqs /\ (a # "late" => act[a].tgt # LateReq)
      OBVIOUS
    <3>1. act[a].tgt \in Reqs
      BY DEF IInv, Shape, ActRec
    <3>2. a # "late" => PostReq(a) = act[a].tgt
      BY DEF PostReq
    <3> QED BY <3>1, <3>2, PosterNames DEF IInv, PlaceInv, Places, B
  <2> QED
    BY <1>1, <1>2, <1>3, <1>4, <1>5, <1>6, <1>7, <1>8, <1>9, <2>1
       DEF IInv, XferInv, Actors
<1> QED
  BY <1>10, <1>11, <1>12, <1>13, <1>14, <1>15, <1>16, <1>17, <1>18, <1>19
     DEF IInv

(* wake_up(&mq->wait) *)
LEMMA WakeEffect ==
  ASSUME Shape
  PROVE  /\ Wake(act) \in [Actors -> ActRec]
         /\ \/ Wake(act)["disp"].pc = act["disp"].pc
            \/ act["disp"].pc = "asleep" /\ Wake(act)["disp"].pc = "wait"
         /\ Wake(act)["disp"].req = act["disp"].req
         /\ Wake(act)["disp"].rw = act["disp"].rw
         /\ Wake(act)["disp"].tgt = act["disp"].tgt
         /\ Wake(act)["disp"].err = act["disp"].err
         /\ Wake(act)["irq"] = act["irq"] /\ Wake(act)["cw"] = act["cw"]
         /\ Wake(act)["rec"] = act["rec"] /\ Wake(act)["late"] = act["late"]
BY Names DEF Shape, Wake, ActRec

(* A synchronous operation ends its request. *)
LEMMA SyncDone ==
  ASSUME IInv, act["disp"].pc = "running", at' = None,
         act' = [act EXCEPT !.disp.pc = "undo", !.disp.err = "finished"],
         rq' = [rq EXCEPT ![act["disp"].req] = End(rq[act["disp"].req])],
         card' \in CardRec, "transfer" \in card'.lied => "transfer" \in card.lied,
         UNCHANGED <<setup, mq, claim, other, submits>>
  PROVE  IInv'
<1>1. /\ act' \in [Actors -> ActRec]
      /\ act'["disp"].pc = "undo"
      /\ act'["disp"].req = act["disp"].req
      /\ act'["disp"].rw = act["disp"].rw
      /\ act'["disp"].tgt = act["disp"].tgt
      /\ act'["disp"].err = "finished"
      /\ act'["irq"] = act["irq"]
      /\ act'["cw"] = act["cw"]
      /\ act'["rec"] = act["rec"]
      /\ act'["late"] = act["late"]
  BY DispEffect, Names DEF IInv
<1>2. /\ act["disp"].req \in Reqs
      /\ ~AtHost
      /\ OwnReq = act["disp"].req
  BY DEF IInv, TargetInv, HostInv, OwnReq, OwnCounted
<1>3. /\ rq' \in [Reqs -> ReqRec]
      /\ \A s \in Reqs : s # act["disp"].req => rq'[s] = rq[s]
      /\ rq'[act["disp"].req].st = "free"
      /\ ~rq'[act["disp"].req].bad
  BY <1>2, CompletedReq DEF IInv, Shape
<1>4. Total' = Total
  BY DEF Total
<1>5. Shape'
  BY <1>1, <1>2, <1>3, <1>4 DEF IInv, Shape, ActRec
<1>6. PcInv' /\ ModeInv' /\ TargetInv'
  BY <1>1, <1>2, <1>3, <1>4
     DEF IInv, PcInv, Polling, Posting, ModeInv, TargetInv, Actors
<1>7. LockInv' /\ HostInv' /\ RecoveryInv'
  BY <1>1, <1>2, <1>3, <1>4
     DEF IInv, LockInv, Locking, Rw, Actors, Polling, Posting, HostInv, Ready,
         AtHost, RecoveryInv
<1>8. PlaceInv'
  <2> SUFFICES ASSUME NEW r \in Reqs PROVE (Places(r) = B(rq[r].st = "issued"))'
    BY DEF PlaceInv
  <2>1. Places(r) = B(rq[r].st = "issued")
    BY DEF IInv, PlaceInv
  <2>2. /\ OwnReq' = None /\ r # None /\ LateReq' = LateReq
        /\ DoneReq' = DoneReq /\ mq'.recovery_req = mq.recovery_req
        /\ PostReq("disp")' = PostReq("disp") /\ PostReq("irq")' = PostReq("irq")
        /\ PostReq("cw")' = PostReq("cw") /\ PostReq("rec")' = PostReq("rec")
    BY <1>1, <1>2, <1>3, <1>4, ReqsAssumption
       DEF OwnReq, OwnCounted, DoneReq, LateReq, PostReq, Polling, Posting
  <2>3. HostReq' = HostReq
    BY <1>1, <1>2, <1>3, <1>4 DEF HostReq, AtHost
  <2>4. CASE OwnReq = r
    BY <1>1, <1>2, <1>3, <1>4, <2>1, <2>2, <2>3, <2>4 DEF Places, B
  <2>5. CASE OwnReq # r
    <3>1. rq'[r] = rq[r]
      BY <1>1, <1>2, <1>3, <1>4, <2>5
    <3> QED BY <2>1, <2>2, <2>3, <2>5, <3>1 DEF Places, B
  <2> QED BY <2>4, <2>5
<1>9. OwnInv'
  BY <1>1, <1>2, <1>3, <1>4
     DEF IInv, OwnInv, OwnReq, OwnCounted, Polling, Posting
<1>10. CountInv'
  BY <1>1, <1>2, <1>3, <1>4
     DEF IInv, CountInv, InFlight, B, OwnCounted, AtHost, DoneReq, Counted,
         Polling, Posting
<1>11. ClaimInv' /\ OtherInv'
  BY <1>1, <1>2, <1>3, <1>4 DEF IInv, ClaimInv, Claims, B, OtherInv, Stopping
<1>12. XferInv'
  <2>1. \A a \in Actors : act[a].pc \in {"complete", "go"} /\ act[a].tgt # None =>
          act[a].tgt \in Reqs /\ (a # "disp" => act[a].tgt # OwnReq)
    <3> SUFFICES ASSUME NEW a \in Actors, act[a].pc \in {"complete", "go"},
                        act[a].tgt # None
                 PROVE  act[a].tgt \in Reqs /\ (a # "disp" => act[a].tgt # OwnReq)
      OBVIOUS
    <3>1. act[a].tgt \in Reqs
      BY DEF IInv, Shape, ActRec
    <3>2. a # "disp" => PostReq(a) = act[a].tgt
      BY DEF PostReq
    <3> QED BY <3>1, <3>2, PosterNames DEF IInv, PlaceInv, Places, B
  <2> QED
    BY <1>1, <1>2, <1>3, <1>4, <2>1 DEF IInv, XferInv, Actors
<1> QED
  BY <1>5, <1>6, <1>7, <1>8, <1>9, <1>10, <1>11, <1>12 DEF IInv

(* A synchronous operation is tried again after a reset. *)
LEMMA SyncAgain ==
  ASSUME IInv, card' \in CardRec,
         "transfer" \in card'.lied => "transfer" \in card.lied,
         UNCHANGED <<setup, mq, rq, at, act, claim, other, submits>>
  PROVE  IInv'
<1>1. Total' = Total
  BY DEF Total
<1>2. Shape'
  BY <1>1 DEF IInv, Shape, ActRec
<1>3. PcInv' /\ ModeInv' /\ TargetInv'
  BY <1>1 DEF IInv, PcInv, Polling, Posting, ModeInv, TargetInv, Actors
<1>4. LockInv' /\ HostInv' /\ RecoveryInv'
  BY <1>1
     DEF IInv, LockInv, Locking, Rw, Actors, Polling, Posting, HostInv, Ready,
         AtHost, RecoveryInv
<1>5. PlaceInv'
  BY <1>1
     DEF IInv, PlaceInv, Places, B, OwnReq, OwnCounted, HostReq, AtHost,
         DoneReq, LateReq, PostReq, Polling, Posting
<1>6. OwnInv'
  BY <1>1 DEF IInv, OwnInv, OwnReq, OwnCounted, Polling, Posting
<1>7. CountInv'
  BY <1>1
     DEF IInv, CountInv, InFlight, B, OwnCounted, AtHost, DoneReq, Counted,
         Polling, Posting
<1>8. ClaimInv' /\ OtherInv' /\ XferInv'
  BY <1>1
     DEF IInv, ClaimInv, Claims, B, OtherInv, Stopping, XferInv,
         Actors
<1> QED
  BY <1>2, <1>3, <1>4, <1>5, <1>6, <1>7, <1>8 DEF IInv

(* The synchronous operations. *)
LEMMA SyncOpStep ==
  ASSUME IInv, SyncOp
  PROVE  IInv'
<1> DEFINE op == rq[act["disp"].req].op
<1>1. act["disp"].pc = "running" /\ act.disp = act["disp"]
  BY DEF SyncOp
<1>2. act["disp"].req \in Reqs /\ op \in RwOps \cup SyncOps
  BY <1>1 DEF IInv, TargetInv, Shape, ReqRec
<1>3. CASE /\ act' = [act EXCEPT !.disp.pc = "undo", !.disp.err = "finished"]
           /\ at' = None
           /\ rq' = [rq EXCEPT ![act.disp.req] = End(@)]
           /\ \/ card' = [card EXCEPT !.reset_done = @ \ {op}]
              \/ UNCHANGED card
              \/ /\ op # "flush"
                 /\ card' = [card EXCEPT !.reset_done = @ \cup {op},
                                         !.lied = @ \cup ({op} \cap {"secdiscard"})]
  <2>1. card' \in CardRec /\ ("transfer" \in card'.lied => "transfer" \in card.lied)
    <3> HIDE DEF op
    <3>1. CASE card' = [card EXCEPT !.reset_done = @ \ {op}] \/ UNCHANGED card
      BY <3>1 DEF IInv, Shape, CardRec
    <3>2. CASE card' = [card EXCEPT !.reset_done = @ \cup {op},
                                    !.lied = @ \cup ({op} \cap {"secdiscard"})]
      <4> DEFINE D == card.reset_done \cup {op}
                 L == card.lied \cup ({op} \cap {"secdiscard"})
      <4>1. card' = [card EXCEPT !.reset_done = D, !.lied = L]
        BY <3>2
      <4>2. /\ D \in SUBSET (RwOps \cup SyncOps)
            /\ L \in SUBSET {"transfer", "single", "secdiscard"}
            /\ "transfer" \in L => "transfer" \in card.lied
        BY <1>2 DEF IInv, Shape, CardRec
      <4> HIDE DEF D, L
      <4> QED BY <4>1, <4>2 DEF IInv, Shape, CardRec
    <3> QED BY <1>3, <3>1, <3>2
  <2>2. UNCHANGED <<setup, mq, claim, other, submits>>
    BY DEF SyncOp
  <2> QED BY <1>1, <1>3, <2>1, <2>2, SyncDone
<1>4. CASE /\ op # "flush" /\ op \notin card.reset_done
           /\ card' = [card EXCEPT !.reset_done = @ \cup {op}]
           /\ UNCHANGED <<act, at, rq>>
  <2>1. card' \in CardRec /\ ("transfer" \in card'.lied => "transfer" \in card.lied)
    <3> HIDE DEF op
    <3> QED BY <1>2, <1>4 DEF IInv, Shape, CardRec
  <2> QED BY <1>4, <2>1, SyncAgain DEF SyncOp
<1> QED BY <1>1, <1>3, <1>4 DEF SyncOp

(* Nothing is done for the dispatcher to take. *)
LEMMA LockNone_disp ==
  ASSUME IInv, Lock("disp"), setup.mode = "done" \/ mq.complete_req = None
  PROVE  IInv'
<1>1. /\ act' \in [Actors -> ActRec]
      /\ act'["disp"].pc = "go"
      /\ act'["disp"].req = act["disp"].req
      /\ act'["disp"].rw = act["disp"].rw
      /\ act'["disp"].tgt = act["disp"].tgt
      /\ act'["disp"].err = act["disp"].err
      /\ act'["irq"] = act["irq"]
      /\ act'["cw"] = act["cw"]
      /\ act'["rec"] = act["rec"]
      /\ act'["late"] = act["late"]
  BY StepEffect, Names DEF Lock, IInv
<1>2. /\ mq' = mq
      /\ Total' = Total
  BY DEF Lock, Total
<1>3. /\ UNCHANGED <<setup, rq, at, claim, other, card, submits>>
      /\ act["disp"].pc = "lock"
      /\ mq.complete_req = None
      /\ mq.complete_lock = None
  BY Modes DEF Lock, IInv, ModeInv
<1>4. act["disp"].tgt = None
  BY <1>3 DEF IInv, TargetInv
<1>5. Shape'
  BY <1>1, <1>2, <1>3, <1>4 DEF IInv, Shape, ActRec
<1>6. PcInv' /\ ModeInv' /\ TargetInv'
  BY <1>1, <1>2, <1>3, <1>4
     DEF IInv, PcInv, Polling, Posting, ModeInv, TargetInv, Actors
<1>7. LockInv' /\ HostInv' /\ RecoveryInv'
  BY <1>1, <1>2, <1>3, <1>4
     DEF IInv, LockInv, Locking, Rw, Actors, Polling, Posting, HostInv, Ready,
         AtHost, RecoveryInv
<1>8. PlaceInv'
  BY <1>1, <1>2, <1>3, <1>4
     DEF IInv, PlaceInv, Places, B, OwnReq, OwnCounted, HostReq, AtHost,
         DoneReq, LateReq, PostReq, Polling, Posting
<1>9. OwnInv'
  BY <1>1, <1>2, <1>3, <1>4
     DEF IInv, OwnInv, OwnReq, OwnCounted, Polling, Posting
<1>10. CountInv'
  BY <1>1, <1>2, <1>3, <1>4
     DEF IInv, CountInv, InFlight, B, OwnCounted, AtHost, DoneReq, Counted,
         Polling, Posting
<1>11. ClaimInv' /\ OtherInv' /\ XferInv'
  BY <1>1, <1>2, <1>3, <1>4
     DEF IInv, ClaimInv, Claims, B, OtherInv, Stopping, XferInv,
         Actors
<1> QED
  BY <1>5, <1>6, <1>7, <1>8, <1>9, <1>10, <1>11 DEF IInv

(* The dispatcher takes the transfer that is done. *)
LEMMA LockTake_disp ==
  ASSUME IInv, Lock("disp"), setup.mode = "poll", mq.complete_req # None
  PROVE  IInv'
<1>1. /\ act' \in [Actors -> ActRec]
      /\ act'["disp"].pc = "poll"
      /\ act'["disp"].req = act["disp"].req
      /\ act'["disp"].rw = act["disp"].rw
      /\ act'["disp"].tgt = mq.complete_req
      /\ act'["disp"].err = act["disp"].err
      /\ act'["irq"] = act["irq"]
      /\ act'["cw"] = act["cw"]
      /\ act'["rec"] = act["rec"]
      /\ act'["late"] = act["late"]
  <2> DEFINE t == mq.complete_req
             x == [act["disp"] EXCEPT !.pc = "poll", !.tgt = t]
  <2>1. act["disp"] \in ActRec /\ t \in Reqs \cup {None}
    BY Names DEF IInv, Shape, QueueRec
  <2>2. act' = [act EXCEPT !["disp"].pc = "poll", !["disp"].tgt = t]
    BY DEF Lock
  <2> HIDE DEF t
  <2>3. act' = [act EXCEPT !["disp"] = x]
    BY <2>2
  <2>4. x \in ActRec
    BY <2>1, Names DEF ActRec
  <2>5. /\ x.pc = "poll" /\ x.tgt = t /\ x.req = act["disp"].req
        /\ x.rw = act["disp"].rw /\ x.err = act["disp"].err
    BY <2>1 DEF ActRec
  <2> HIDE DEF x
  <2> QED BY <2>3, <2>4, <2>5, ActSet, Names DEF IInv, t
<1>2. /\ mq' \in QueueRec
      /\ Total' = Total
      /\ mq'.recovery_needed = mq.recovery_needed
      /\ mq'.rw_wait = mq.rw_wait
      /\ mq'.complete_req = mq.complete_req
      /\ mq'.complete_lock = "disp"
      /\ mq'.recovery_req = mq.recovery_req
      /\ mq'.quiesced = mq.quiesced
      /\ mq'.complete_work = mq.complete_work
      /\ mq'.recovery_work = mq.recovery_work
  BY Names DEF Lock, IInv, Shape, QueueRec, Total, mmc_tot_in_flight
<1>3. /\ UNCHANGED <<setup, rq, at, claim, other, card, submits>>
      /\ act["disp"].pc = "lock"
      /\ mq.complete_lock = None
      /\ mq.complete_req \in Reqs
  BY DEF Lock, IInv, Shape, QueueRec
<1>4. None # "disp" /\ None # "cw"
  BY NoneNames
<1>5. act["disp"].tgt = None
  BY <1>3 DEF IInv, TargetInv
<1>6. Shape'
  BY <1>1, <1>2, <1>3, <1>4, <1>5 DEF IInv, Shape, ActRec
<1>7. PcInv' /\ ModeInv' /\ TargetInv'
  BY <1>1, <1>2, <1>3, <1>4, <1>5
     DEF IInv, PcInv, Polling, Posting, ModeInv, TargetInv, Actors, Shape
<1>8. LockInv' /\ HostInv' /\ RecoveryInv'
  BY <1>1, <1>2, <1>3, <1>4, <1>5
     DEF IInv, LockInv, Locking, Rw, Actors, Polling, Posting, HostInv, Ready,
         AtHost, RecoveryInv
<1>9. PlaceInv'
  BY <1>1, <1>2, <1>3, <1>4, <1>5
     DEF IInv, PlaceInv, Places, B, OwnReq, OwnCounted, HostReq, AtHost,
         DoneReq, LateReq, PostReq, Polling, Posting
<1>10. OwnInv'
  BY <1>1, <1>2, <1>3, <1>4, <1>5
     DEF IInv, OwnInv, OwnReq, OwnCounted, Polling, Posting
<1>11. CountInv'
  BY <1>1, <1>2, <1>3, <1>4, <1>5
     DEF IInv, CountInv, InFlight, B, OwnCounted, AtHost, DoneReq, Counted,
         Polling, Posting
<1>12. ClaimInv' /\ OtherInv' /\ XferInv'
  BY <1>1, <1>2, <1>3, <1>4, <1>5
     DEF IInv, ClaimInv, Claims, B, OtherInv, Stopping, XferInv,
         Actors
<1> QED
  BY <1>6, <1>7, <1>8, <1>9, <1>10, <1>11, <1>12 DEF IInv

(* Nothing is done for complete_work to take. *)
LEMMA LockNone_cw ==
  ASSUME IInv, Lock("cw"), setup.mode = "done" \/ mq.complete_req = None
  PROVE  IInv'
<1>1. /\ act' \in [Actors -> ActRec]
      /\ act'["cw"].pc = "idle"
      /\ act'["cw"].req = act["cw"].req
      /\ act'["cw"].rw = act["cw"].rw
      /\ act'["cw"].tgt = act["cw"].tgt
      /\ act'["cw"].err = act["cw"].err
      /\ act'["disp"] = act["disp"]
      /\ act'["irq"] = act["irq"]
      /\ act'["rec"] = act["rec"]
      /\ act'["late"] = act["late"]
  BY StepEffect, Names DEF Lock, IInv
<1>2. /\ mq' = mq
      /\ Total' = Total
  BY DEF Lock, Total
<1>3. /\ UNCHANGED <<setup, rq, at, claim, other, card, submits>>
      /\ act["cw"].pc = "lock"
      /\ mq.complete_req = None
      /\ mq.complete_lock = None
  BY Modes DEF Lock, IInv, ModeInv
<1>4. Shape'
  BY <1>1, <1>2, <1>3 DEF IInv, Shape, ActRec
<1>5. PcInv' /\ ModeInv' /\ TargetInv'
  BY <1>1, <1>2, <1>3
     DEF IInv, PcInv, Polling, Posting, ModeInv, TargetInv, Actors
<1>6. LockInv' /\ HostInv' /\ RecoveryInv'
  BY <1>1, <1>2, <1>3
     DEF IInv, LockInv, Locking, Rw, Actors, Polling, Posting, HostInv, Ready,
         AtHost, RecoveryInv
<1>7. PlaceInv'
  BY <1>1, <1>2, <1>3
     DEF IInv, PlaceInv, Places, B, OwnReq, OwnCounted, HostReq, AtHost,
         DoneReq, LateReq, PostReq, Polling, Posting
<1>8. OwnInv'
  BY <1>1, <1>2, <1>3 DEF IInv, OwnInv, OwnReq, OwnCounted, Polling, Posting
<1>9. CountInv'
  BY <1>1, <1>2, <1>3
     DEF IInv, CountInv, InFlight, B, OwnCounted, AtHost, DoneReq, Counted,
         Polling, Posting
<1>10. ClaimInv' /\ OtherInv' /\ XferInv'
  BY <1>1, <1>2, <1>3
     DEF IInv, ClaimInv, Claims, B, OtherInv, Stopping, XferInv,
         Actors
<1> QED
  BY <1>4, <1>5, <1>6, <1>7, <1>8, <1>9, <1>10 DEF IInv

(* complete_work takes the transfer that is done. *)
LEMMA LockTake_cw ==
  ASSUME IInv, Lock("cw"), setup.mode = "poll", mq.complete_req # None
  PROVE  IInv'
<1>1. /\ act' \in [Actors -> ActRec]
      /\ act'["cw"].pc = "poll"
      /\ act'["cw"].req = act["cw"].req
      /\ act'["cw"].rw = act["cw"].rw
      /\ act'["cw"].tgt = mq.complete_req
      /\ act'["cw"].err = act["cw"].err
      /\ act'["disp"] = act["disp"]
      /\ act'["irq"] = act["irq"]
      /\ act'["rec"] = act["rec"]
      /\ act'["late"] = act["late"]
  <2> DEFINE t == mq.complete_req
             x == [act["cw"] EXCEPT !.pc = "poll", !.tgt = t]
  <2>1. act["cw"] \in ActRec /\ t \in Reqs \cup {None}
    BY Names DEF IInv, Shape, QueueRec
  <2>2. act' = [act EXCEPT !["cw"].pc = "poll", !["cw"].tgt = t]
    BY DEF Lock
  <2> HIDE DEF t
  <2>3. act' = [act EXCEPT !["cw"] = x]
    BY <2>2
  <2>4. x \in ActRec
    BY <2>1, Names DEF ActRec
  <2>5. /\ x.pc = "poll" /\ x.tgt = t /\ x.req = act["cw"].req
        /\ x.rw = act["cw"].rw /\ x.err = act["cw"].err
    BY <2>1 DEF ActRec
  <2> HIDE DEF x
  <2> QED BY <2>3, <2>4, <2>5, ActSet, Names DEF IInv, t
<1>2. /\ mq' \in QueueRec
      /\ Total' = Total
      /\ mq'.recovery_needed = mq.recovery_needed
      /\ mq'.rw_wait = mq.rw_wait
      /\ mq'.complete_req = mq.complete_req
      /\ mq'.complete_lock = "cw"
      /\ mq'.recovery_req = mq.recovery_req
      /\ mq'.quiesced = mq.quiesced
      /\ mq'.complete_work = mq.complete_work
      /\ mq'.recovery_work = mq.recovery_work
  BY Names DEF Lock, IInv, Shape, QueueRec, Total, mmc_tot_in_flight
<1>3. /\ UNCHANGED <<setup, rq, at, claim, other, card, submits>>
      /\ act["cw"].pc = "lock"
      /\ mq.complete_lock = None
      /\ mq.complete_req \in Reqs
  BY DEF Lock, IInv, Shape, QueueRec
<1>4. None # "disp" /\ None # "cw"
  BY NoneNames
<1>5. Shape'
  BY <1>1, <1>2, <1>3, <1>4 DEF IInv, Shape, ActRec
<1>6. PcInv' /\ ModeInv' /\ TargetInv'
  BY <1>1, <1>2, <1>3, <1>4
     DEF IInv, PcInv, Polling, Posting, ModeInv, TargetInv, Actors, Shape
<1>7. LockInv' /\ HostInv' /\ RecoveryInv'
  BY <1>1, <1>2, <1>3, <1>4
     DEF IInv, LockInv, Locking, Rw, Actors, Polling, Posting, HostInv, Ready,
         AtHost, RecoveryInv
<1>8. PlaceInv'
  BY <1>1, <1>2, <1>3, <1>4
     DEF IInv, PlaceInv, Places, B, OwnReq, OwnCounted, HostReq, AtHost,
         DoneReq, LateReq, PostReq, Polling, Posting
<1>9. OwnInv'
  BY <1>1, <1>2, <1>3, <1>4
     DEF IInv, OwnInv, OwnReq, OwnCounted, Polling, Posting
<1>10. CountInv'
  BY <1>1, <1>2, <1>3, <1>4
     DEF IInv, CountInv, InFlight, B, OwnCounted, AtHost, DoneReq, Counted,
         Polling, Posting
<1>11. ClaimInv' /\ OtherInv' /\ XferInv'
  BY <1>1, <1>2, <1>3, <1>4
     DEF IInv, ClaimInv, Claims, B, OtherInv, Stopping, XferInv,
         Actors
<1> QED
  BY <1>5, <1>6, <1>7, <1>8, <1>9, <1>10, <1>11 DEF IInv

(* The recovery takes the request that failed. *)
LEMMA RecoveryBeginStep ==
  ASSUME IInv, RecoveryBegin
  PROVE  IInv'
<1>1. /\ UNCHANGED <<setup, rq, at, claim, other, card, submits>>
      /\ act["rec"].pc = "begin"
      /\ mq.recovery_req \in Reqs
      /\ mq.recovery_req # None
      /\ mq.recovery_needed
  BY Names DEF RecoveryBegin, IInv, Shape, QueueRec, RecoveryInv
<1>2. setup.mode # "poll"
  BY <1>1 DEF IInv, ModeInv
<1>3. /\ mq' \in QueueRec
      /\ Total' = Total
      /\ mq'.recovery_needed = mq.recovery_needed
      /\ mq'.rw_wait = FALSE
      /\ mq'.complete_req = mq.complete_req
      /\ mq'.complete_lock = mq.complete_lock
      /\ mq'.recovery_req = None
      /\ mq'.quiesced = mq.quiesced
      /\ mq'.complete_work = mq.complete_work
      /\ mq'.recovery_work = mq.recovery_work
  BY DEF RecoveryBegin, IInv, Shape, QueueRec, Total, mmc_tot_in_flight
<1>4. /\ act' \in [Actors -> ActRec]
      /\ act'["rec"].pc = IF rq[mq.recovery_req].err # "none" THEN "recover" ELSE "complete"
      /\ act'["rec"].req = act["rec"].req
      /\ act'["rec"].rw = act["rec"].rw
      /\ act'["rec"].tgt = mq.recovery_req
      /\ act'["rec"].err = act["rec"].err
      /\ act'["disp"] = act["disp"]
      /\ act'["irq"] = act["irq"]
      /\ act'["cw"] = act["cw"]
      /\ act'["late"] = act["late"]
  <2> DEFINE t == mq.recovery_req
             p == IF rq[t].err # "none" THEN "recover" ELSE "complete"
             x == [act["rec"] EXCEPT !.tgt = t, !.pc = p]
  <2>1. act["rec"] \in ActRec /\ t \in Reqs \cup {None} /\ p \in Pcs
    BY Names DEF IInv, Shape, QueueRec
  <2>2. act' = [act EXCEPT !.rec.tgt = t, !.rec.pc = p]
    BY DEF RecoveryBegin
  <2> HIDE DEF t, p
  <2>3. act' = [act EXCEPT !["rec"] = x]
    BY <2>2
  <2>4. x \in ActRec
    BY <2>1 DEF ActRec
  <2>5. /\ x.pc = p /\ x.tgt = t /\ x.req = act["rec"].req
        /\ x.rw = act["rec"].rw /\ x.err = act["rec"].err
    BY <2>1 DEF ActRec
  <2> HIDE DEF x
  <2>6. /\ act' \in [Actors -> ActRec] /\ act'["rec"] = x
        /\ act'["disp"] = act["disp"] /\ act'["irq"] = act["irq"]
             /\ act'["cw"] = act["cw"]
             /\ act'["late"] = act["late"]
    BY <2>3, <2>4, ActSet, Names DEF IInv
  <2> QED BY <2>5, <2>6 DEF t, p
<1>5. Shape'
  BY <1>1, <1>2, <1>3, <1>4 DEF IInv, Shape, ActRec
<1>6. PcInv' /\ ModeInv' /\ TargetInv'
  BY <1>1, <1>2, <1>3, <1>4
     DEF IInv, PcInv, Polling, Posting, ModeInv, TargetInv, Actors
<1>7. LockInv' /\ HostInv' /\ RecoveryInv'
  BY <1>1, <1>2, <1>3, <1>4
     DEF IInv, LockInv, Locking, Rw, Actors, Polling, Posting, HostInv, Ready,
         AtHost, RecoveryInv
<1>8. PlaceInv'
  BY <1>1, <1>2, <1>3, <1>4
     DEF IInv, PlaceInv, Places, B, OwnReq, OwnCounted, HostReq, AtHost,
         DoneReq, LateReq, PostReq, Polling, Posting
<1>9. OwnInv'
  BY <1>1, <1>2, <1>3, <1>4
     DEF IInv, OwnInv, OwnReq, OwnCounted, Polling, Posting
<1>10. CountInv'
  BY <1>1, <1>2, <1>3, <1>4
     DEF IInv, CountInv, InFlight, B, OwnCounted, AtHost, DoneReq, Counted,
         Polling, Posting
<1>11. ClaimInv' /\ OtherInv' /\ XferInv'
  BY <1>1, <1>2, <1>3, <1>4
     DEF IInv, ClaimInv, Claims, B, OtherInv, Stopping, XferInv,
         Actors
<1> QED
  BY <1>5, <1>6, <1>7, <1>8, <1>9, <1>10, <1>11 DEF IInv

(* What the host driver leaves in the request it gives back. *)
LEMMA DoneEffect ==
  ASSUME IInv, at # None, NEW res \in Results(at),
         rq' = [rq EXCEPT ![at].err = res.err, ![at].xfer = res.xfer,
                          ![at].bad = res.bad]
  PROVE  /\ at \in Reqs
         /\ rq' \in [Reqs -> ReqRec]
         /\ \A s \in Reqs : s # at => rq'[s] = rq[s]
         /\ rq'[at].st = rq[at].st /\ rq'[at].op = rq[at].op
         /\ rq'[at].bad = res.bad
         /\ rq'[at].err = "none" /\ rq'[at].bad =>
              rq[at].op = "write" /\ setup.mode = "poll"
         /\ res.err = "none" /\ res.bad => setup.mode = "poll"
<1> DEFINE q == [rq[at] EXCEPT !.err = res.err, !.xfer = res.xfer, !.bad = res.bad]
<1>1. at \in Reqs /\ rq[at] \in ReqRec
  BY DEF IInv, Shape
<1>2. /\ res.err \in ReqErrors /\ res.xfer \in Int /\ res.bad \in BOOLEAN
      /\ res.err = "none" /\ res.bad => rq[at].op = "write" /\ setup.mode = "poll"
  BY <1>1 DEF Results, ReqErrors, ReqRec
<1>3. rq' = [rq EXCEPT ![at] = q]
  BY <1>1
<1>4. q \in ReqRec
  BY <1>1, <1>2 DEF ReqRec
<1>5. /\ q.st = rq[at].st /\ q.op = rq[at].op /\ q.err = res.err
      /\ q.bad = res.bad
  BY <1>1 DEF ReqRec
<1> HIDE DEF q
<1>6. /\ rq' \in [Reqs -> ReqRec] /\ rq'[at] = q
      /\ \A s \in Reqs : s # at => rq'[s] = rq[s]
  <2> rq \in [Reqs -> ReqRec]
    BY DEF IInv, Shape
  <2> QED BY <1>1, <1>3, <1>4
<1> QED BY <1>1, <1>2, <1>5, <1>6

(* The transfer is left to the dispatcher or complete_work. *)
LEMMA DoneLaterStep ==
  ASSUME IInv, at # None, act["irq"].pc = "idle", rq[at].op \in RwOps,
         NEW res \in Results(at), DoneLater, at' = None,
         rq' = [rq EXCEPT ![at].err = res.err, ![at].xfer = res.xfer,
                          ![at].bad = res.bad],
         UNCHANGED <<setup, claim, other, submits>>
  PROVE  IInv'
<1>1. /\ at \in Reqs
      /\ rq' \in [Reqs -> ReqRec]
      /\ \A s \in Reqs : s # at => rq'[s] = rq[s]
      /\ rq'[at].st = rq[at].st
      /\ rq'[at].op = rq[at].op
      /\ rq'[at].bad = res.bad
      /\ rq'[at].err = "none" /\ rq'[at].bad =>
           rq[at].op = "write" /\ setup.mode = "poll"
      /\ res.err = "none" /\ res.bad => setup.mode = "poll"
  BY DoneEffect
<1>2. /\ AtHost
      /\ HostReq = at
      /\ mq.rw_wait
      /\ ~mq.recovery_needed
      /\ mq.complete_req = None
      /\ mq.complete_lock = None
      /\ mq.recovery_req = None
      /\ act["rec"].pc \in {"idle", "endput"}
      /\ ~mq.recovery_work
  BY DEF AtHost, HostReq, IInv, HostInv, RecoveryInv
<1>3. /\ mq' \in QueueRec
      /\ Total' = Total
      /\ mq'.recovery_needed = mq.recovery_needed
      /\ mq'.rw_wait = FALSE
      /\ mq'.complete_req = at
      /\ mq'.complete_lock = mq.complete_lock
      /\ mq'.recovery_req = mq.recovery_req
      /\ mq'.quiesced = mq.quiesced
      /\ mq'.complete_work = (mq.complete_work \/ ~mq.waiting)
      /\ mq'.recovery_work = mq.recovery_work
  <2> DEFINE w == mq.complete_work \/ ~mq.waiting
  <2>1. mq' = [mq EXCEPT !.complete_req = at, !.rw_wait = FALSE,
          !.complete_work = w]
    BY DEF DoneLater, IInv, Shape, QueueRec
  <2>2. w \in BOOLEAN
    OBVIOUS
  <2> HIDE DEF w
  <2>3. /\ mq' \in QueueRec
        /\ Total' = Total
        /\ mq'.recovery_needed = mq.recovery_needed
        /\ mq'.rw_wait = FALSE
        /\ mq'.complete_req = at
        /\ mq'.complete_lock = mq.complete_lock
        /\ mq'.recovery_req = mq.recovery_req
        /\ mq'.quiesced = mq.quiesced
        /\ mq'.complete_work = w
        /\ mq'.recovery_work = mq.recovery_work
    BY <1>1, <2>1, <2>2 DEF IInv, Shape, QueueRec, Total, mmc_tot_in_flight
  <2> QED BY <2>3 DEF w
<1>4. /\ act' \in [Actors -> ActRec]
      /\ \/ act'["disp"].pc = act["disp"].pc
         \/ act["disp"].pc = "asleep" /\ act'["disp"].pc = "wait"
      /\ act'["disp"].req = act["disp"].req
      /\ act'["disp"].rw = act["disp"].rw
      /\ act'["disp"].tgt = act["disp"].tgt
      /\ act'["disp"].err = act["disp"].err
      /\ act'["irq"] = act["irq"]
      /\ act'["cw"] = act["cw"]
      /\ act'["rec"] = act["rec"]
      /\ act'["late"] = act["late"]
  BY WakeEffect DEF DoneLater, IInv, Shape
<1>5. card' = card /\ setup.mode = "poll"
  BY DEF DoneLater
<1>6. /\ ~AtHost'
      /\ OwnCounted' <=> OwnCounted
      /\ OwnReq' = OwnReq
      /\ Counted("disp")' <=> Counted("disp")
  BY <1>4 DEF AtHost, OwnCounted, OwnReq, Counted, Polling, Posting
<1>7. at # None /\ act["disp"].pc \notin {"go", "running"}
  BY <1>2, <1>5 DEF IInv, ModeInv, HostInv, Ready
<1>8. Shape'
  BY <1>1, <1>2, <1>3, <1>4, <1>5, <1>6, <1>7 DEF IInv, Shape, ActRec
<1>9. PcInv' /\ ModeInv' /\ TargetInv'
  BY <1>1, <1>2, <1>3, <1>4, <1>5, <1>6, <1>7
     DEF IInv, PcInv, Polling, Posting, ModeInv, TargetInv, Actors
<1>10. LockInv' /\ HostInv' /\ RecoveryInv'
  BY <1>1, <1>2, <1>3, <1>4, <1>5, <1>6, <1>7
     DEF IInv, LockInv, Locking, Rw, Actors, Polling, Posting, HostInv, Ready,
         AtHost, RecoveryInv
<1>11. PlaceInv'
  BY <1>1, <1>2, <1>3, <1>4, <1>5, <1>6, <1>7
     DEF IInv, PlaceInv, Places, B, OwnReq, OwnCounted, HostReq, AtHost,
         DoneReq, LateReq, PostReq, Polling, Posting
<1>12. OwnInv'
  <2>1. OwnReq # None => OwnReq \in Reqs
    BY Names DEF IInv, Shape, OwnReq, ActRec
  <2> QED BY <1>1, <1>2, <1>3, <1>4, <1>5, <1>6, <1>7, <2>1 DEF IInv, OwnInv
<1>13. CountInv'
  BY <1>1, <1>2, <1>3, <1>4, <1>5, <1>6, <1>7
     DEF IInv, CountInv, InFlight, B, DoneReq, Counted, Polling
<1>14. ClaimInv' /\ OtherInv'
  BY <1>1, <1>2, <1>3, <1>4, <1>5, <1>6, <1>7
     DEF IInv, ClaimInv, Claims, B, OtherInv, Stopping
<1>15. XferInv'
  <2>1. rq[at].st # "completing"
    BY <1>1, <1>2 DEF IInv, PlaceInv, Places, B
  <2>2. \A a \in Actors : act[a].pc \in {"complete", "go"} /\ act[a].tgt # None =>
          act[a].tgt \in Reqs /\ act[a].tgt # at
    <3> SUFFICES ASSUME NEW a \in Actors, act[a].pc \in {"complete", "go"},
                        act[a].tgt # None
                 PROVE  act[a].tgt \in Reqs /\ act[a].tgt # at
      OBVIOUS
    <3>1. act[a].tgt \in Reqs
      BY DEF IInv, Shape, ActRec
    <3>2. PostReq(a) = act[a].tgt
      BY DEF PostReq
    <3> QED BY <1>1, <1>2, <3>1, <3>2, PosterNames DEF IInv, PlaceInv, Places, B
  <2> QED
    BY <1>1, <1>2, <1>3, <1>4, <1>5, <1>6, <1>7, <2>1, <2>2
       DEF IInv, XferInv, Actors
<1> QED
  BY <1>8, <1>9, <1>10, <1>11, <1>12, <1>13, <1>14, <1>15 DEF IInv

(* The transfer is left to the recovery. *)
LEMMA DoneRecoveryStep ==
  ASSUME IInv, at # None, act["irq"].pc = "idle", rq[at].op \in RwOps,
         NEW res \in Results(at), DoneRecovery(res), at' = None,
         rq' = [rq EXCEPT ![at].err = res.err, ![at].xfer = res.xfer,
                          ![at].bad = res.bad],
         UNCHANGED <<setup, claim, other, submits>>
  PROVE  IInv'
<1>1. /\ at \in Reqs
      /\ rq' \in [Reqs -> ReqRec]
      /\ \A s \in Reqs : s # at => rq'[s] = rq[s]
      /\ rq'[at].st = rq[at].st
      /\ rq'[at].op = rq[at].op
      /\ rq'[at].bad = res.bad
      /\ rq'[at].err = "none" /\ rq'[at].bad =>
           rq[at].op = "write" /\ setup.mode = "poll"
      /\ res.err = "none" /\ res.bad => setup.mode = "poll"
  BY DoneEffect
<1>2. /\ AtHost
      /\ HostReq = at
      /\ mq.rw_wait
      /\ ~mq.recovery_needed
      /\ mq.complete_req = None
      /\ mq.complete_lock = None
      /\ mq.recovery_req = None
      /\ act["rec"].pc \in {"idle", "endput"}
      /\ ~mq.recovery_work
  BY DEF AtHost, HostReq, IInv, HostInv, RecoveryInv
<1>3. /\ mq' \in QueueRec
      /\ Total' = Total
      /\ mq'.recovery_needed = TRUE
      /\ mq'.rw_wait = mq.rw_wait
      /\ mq'.complete_req = mq.complete_req
      /\ mq'.complete_lock = mq.complete_lock
      /\ mq'.recovery_req = at
      /\ mq'.quiesced = mq.quiesced
      /\ mq'.complete_work = mq.complete_work
      /\ mq'.recovery_work = TRUE
  BY <1>1 DEF DoneRecovery, IInv, Shape, QueueRec, Total, mmc_tot_in_flight
<1>4. /\ act' \in [Actors -> ActRec]
      /\ \/ act'["disp"].pc = act["disp"].pc
         \/ act["disp"].pc = "asleep" /\ act'["disp"].pc = "wait"
      /\ act'["disp"].req = act["disp"].req
      /\ act'["disp"].rw = act["disp"].rw
      /\ act'["disp"].tgt = act["disp"].tgt
      /\ act'["disp"].err = act["disp"].err
      /\ act'["irq"] = act["irq"]
      /\ act'["cw"] = act["cw"]
      /\ act'["rec"] = act["rec"]
      /\ act'["late"] = act["late"]
  BY WakeEffect DEF DoneRecovery, IInv
<1>5. card' = card /\ setup.mode = "done"
  BY DEF DoneRecovery
<1>6. /\ ~AtHost'
      /\ OwnCounted' <=> OwnCounted
      /\ OwnReq' = OwnReq
      /\ Counted("disp")' <=> Counted("disp")
  BY <1>4 DEF AtHost, OwnCounted, OwnReq, Counted, Polling, Posting
<1>7. at # None
  OBVIOUS
<1>8. Shape'
  BY <1>1, <1>2, <1>3, <1>4, <1>5, <1>6, <1>7 DEF IInv, Shape, ActRec
<1>9. PcInv' /\ ModeInv' /\ TargetInv'
  BY <1>1, <1>2, <1>3, <1>4, <1>5, <1>6, <1>7
     DEF IInv, PcInv, Polling, Posting, ModeInv, TargetInv, Actors
<1>10. LockInv' /\ HostInv' /\ RecoveryInv'
  BY <1>1, <1>2, <1>3, <1>4, <1>5, <1>6, <1>7
     DEF IInv, LockInv, Locking, Rw, Actors, Polling, Posting, HostInv, Ready,
         AtHost, RecoveryInv
<1>11. PlaceInv'
  BY <1>1, <1>2, <1>3, <1>4, <1>5, <1>6, <1>7
     DEF IInv, PlaceInv, Places, B, OwnReq, OwnCounted, HostReq, AtHost,
         DoneReq, LateReq, PostReq, Polling, Posting
<1>12. OwnInv'
  <2>1. OwnReq # None => OwnReq \in Reqs
    BY Names DEF IInv, Shape, OwnReq, ActRec
  <2> QED BY <1>1, <1>2, <1>3, <1>4, <1>5, <1>6, <1>7, <2>1 DEF IInv, OwnInv
<1>13. CountInv'
  BY <1>1, <1>2, <1>3, <1>4, <1>5, <1>6, <1>7
     DEF IInv, CountInv, InFlight, B, DoneReq, Counted, Polling
<1>14. ClaimInv' /\ OtherInv'
  BY <1>1, <1>2, <1>3, <1>4, <1>5, <1>6, <1>7
     DEF IInv, ClaimInv, Claims, B, OtherInv, Stopping
<1>15. XferInv'
  <2>1. rq[at].st # "completing"
    BY <1>1, <1>2 DEF IInv, PlaceInv, Places, B
  <2>2. \A a \in Actors : act[a].pc \in {"complete", "go"} /\ act[a].tgt # None =>
          act[a].tgt \in Reqs /\ act[a].tgt # at
    <3> SUFFICES ASSUME NEW a \in Actors, act[a].pc \in {"complete", "go"},
                        act[a].tgt # None
                 PROVE  act[a].tgt \in Reqs /\ act[a].tgt # at
      OBVIOUS
    <3>1. act[a].tgt \in Reqs
      BY DEF IInv, Shape, ActRec
    <3>2. PostReq(a) = act[a].tgt
      BY DEF PostReq
    <3> QED BY <1>1, <1>2, <3>1, <3>2, PosterNames DEF IInv, PlaceInv, Places, B
  <2> QED
    BY <1>1, <1>2, <1>3, <1>4, <1>5, <1>6, <1>7, <2>1, <2>2
       DEF IInv, XferInv, Actors
<1> QED
  BY <1>8, <1>9, <1>10, <1>11, <1>12, <1>13, <1>14, <1>15 DEF IInv

(* The transfer is completed by the host driver's call. *)
LEMMA DoneNowStep ==
  ASSUME IInv, at # None, act["irq"].pc = "idle", rq[at].op \in RwOps,
         NEW res \in Results(at), DoneNow(res), at' = None,
         rq' = [rq EXCEPT ![at].err = res.err, ![at].xfer = res.xfer,
                          ![at].bad = res.bad],
         UNCHANGED <<setup, claim, other, submits>>
  PROVE  IInv'
<1>1. /\ at \in Reqs
      /\ rq' \in [Reqs -> ReqRec]
      /\ \A s \in Reqs : s # at => rq'[s] = rq[s]
      /\ rq'[at].st = rq[at].st
      /\ rq'[at].op = rq[at].op
      /\ rq'[at].bad = res.bad
      /\ rq'[at].err = "none" /\ rq'[at].bad =>
           rq[at].op = "write" /\ setup.mode = "poll"
      /\ res.err = "none" /\ res.bad => setup.mode = "poll"
  BY DoneEffect
<1>2. /\ AtHost
      /\ HostReq = at
      /\ mq.rw_wait
      /\ ~mq.recovery_needed
      /\ mq.complete_req = None
      /\ mq.complete_lock = None
      /\ mq.recovery_req = None
      /\ act["rec"].pc \in {"idle", "endput"}
      /\ ~mq.recovery_work
  BY DEF AtHost, HostReq, IInv, HostInv, RecoveryInv
<1>3. /\ mq' \in QueueRec
      /\ Total' = Total
      /\ mq'.recovery_needed = mq.recovery_needed
      /\ mq'.rw_wait = FALSE
      /\ mq'.complete_req = mq.complete_req
      /\ mq'.complete_lock = mq.complete_lock
      /\ mq'.recovery_req = mq.recovery_req
      /\ mq'.quiesced = mq.quiesced
      /\ mq'.complete_work = mq.complete_work
      /\ mq'.recovery_work = mq.recovery_work
  BY DEF DoneNow, IInv, Shape, QueueRec, Total, mmc_tot_in_flight
<1>4. /\ act' \in [Actors -> ActRec]
      /\ \/ act'["disp"].pc = act["disp"].pc
         \/ act["disp"].pc = "asleep" /\ act'["disp"].pc = "wait"
      /\ act'["disp"].req = act["disp"].req
      /\ act'["disp"].rw = act["disp"].rw
      /\ act'["disp"].tgt = act["disp"].tgt
      /\ act'["disp"].err = act["disp"].err
      /\ act'["irq"].pc = "complete"
      /\ act'["irq"].tgt = at
      /\ act'["cw"] = act["cw"]
      /\ act'["rec"] = act["rec"]
      /\ act'["late"] = act["late"]
  <2> DEFINE c == Wake(act)
             x == [c["irq"] EXCEPT !.pc = "complete", !.tgt = at]
  <2>1. act' = [c EXCEPT !.irq.pc = "complete", !.irq.tgt = at]
    BY DEF DoneNow
  <2>2. /\ c \in [Actors -> ActRec]
        /\ \/ c["disp"].pc = act["disp"].pc
           \/ act["disp"].pc = "asleep" /\ c["disp"].pc = "wait"
        /\ c["disp"].req = act["disp"].req /\ c["disp"].rw = act["disp"].rw
        /\ c["disp"].tgt = act["disp"].tgt /\ c["disp"].err = act["disp"].err
        /\ c["cw"] = act["cw"] /\ c["rec"] = act["rec"]
        /\ c["late"] = act["late"]
    BY WakeEffect DEF IInv
  <2> HIDE DEF c
  <2>3. act' = [c EXCEPT !["irq"] = x] /\ c["irq"] \in ActRec
    BY <2>1, <2>2, Names
  <2>4. x \in ActRec
    BY <1>1, <2>3, Names DEF ActRec
  <2>5. x.pc = "complete" /\ x.tgt = at
    BY <2>3 DEF ActRec
  <2> HIDE DEF x
  <2>6. /\ act' \in [Actors -> ActRec] /\ act'["irq"] = x
          /\ act'["disp"] = c["disp"]
        /\ act'["cw"] = c["cw"] /\ act'["rec"] = c["rec"]
        /\ act'["late"] = c["late"]
    BY <2>2, <2>3, <2>4, Names
  <2> QED BY <2>2, <2>5, <2>6
<1>5. /\ card' \in CardRec
      /\ "transfer" \in card'.lied => "transfer" \in card.lied
      /\ setup.mode = "done"
      /\ ~rq'[at].bad
  BY <1>1 DEF DoneNow, IInv, Shape, CardRec
<1>6. /\ ~AtHost'
      /\ OwnCounted' <=> OwnCounted
      /\ OwnReq' = OwnReq
      /\ Counted("disp")' <=> Counted("disp")
  BY <1>4 DEF AtHost, OwnCounted, OwnReq, Counted, Polling, Posting
<1>7. at # None
  OBVIOUS
<1>8. Shape'
  BY <1>1, <1>2, <1>3, <1>4, <1>5, <1>6, <1>7 DEF IInv, Shape, ActRec
<1>9. PcInv' /\ ModeInv' /\ TargetInv'
  BY <1>1, <1>2, <1>3, <1>4, <1>5, <1>6, <1>7
     DEF IInv, PcInv, Polling, Posting, ModeInv, TargetInv, Actors
<1>10. LockInv' /\ HostInv' /\ RecoveryInv'
  BY <1>1, <1>2, <1>3, <1>4, <1>5, <1>6, <1>7
     DEF IInv, LockInv, Locking, Rw, Actors, Polling, Posting, HostInv, Ready,
         AtHost, RecoveryInv
<1>11. PlaceInv'
  BY <1>1, <1>2, <1>3, <1>4, <1>5, <1>6, <1>7
     DEF IInv, PlaceInv, Places, B, OwnReq, OwnCounted, HostReq, AtHost,
         DoneReq, LateReq, PostReq, Polling, Posting
<1>12. OwnInv'
  <2>1. OwnReq # None => OwnReq \in Reqs
    BY Names DEF IInv, Shape, OwnReq, ActRec
  <2> QED BY <1>1, <1>2, <1>3, <1>4, <1>5, <1>6, <1>7, <2>1 DEF IInv, OwnInv
<1>13. CountInv'
  BY <1>1, <1>2, <1>3, <1>4, <1>5, <1>6, <1>7
     DEF IInv, CountInv, InFlight, B, DoneReq, Counted, Polling
<1>14. ClaimInv' /\ OtherInv'
  BY <1>1, <1>2, <1>3, <1>4, <1>5, <1>6, <1>7
     DEF IInv, ClaimInv, Claims, B, OtherInv, Stopping
<1>15. XferInv'
  <2>1. rq[at].st # "completing"
    BY <1>1, <1>2 DEF IInv, PlaceInv, Places, B
  <2>2. \A a \in Actors : act[a].pc \in {"complete", "go"} /\ act[a].tgt # None =>
          act[a].tgt \in Reqs /\ act[a].tgt # at
    <3> SUFFICES ASSUME NEW a \in Actors, act[a].pc \in {"complete", "go"},
                        act[a].tgt # None
                 PROVE  act[a].tgt \in Reqs /\ act[a].tgt # at
      OBVIOUS
    <3>1. act[a].tgt \in Reqs
      BY DEF IInv, Shape, ActRec
    <3>2. PostReq(a) = act[a].tgt
      BY DEF PostReq
    <3> QED BY <1>1, <1>2, <3>1, <3>2, PosterNames DEF IInv, PlaceInv, Places, B
  <2> QED
    BY <1>1, <1>2, <1>3, <1>4, <1>5, <1>6, <1>7, <2>1, <2>2
       DEF IInv, XferInv, Actors
<1> QED
  BY <1>8, <1>9, <1>10, <1>11, <1>12, <1>13, <1>14, <1>15 DEF IInv

(* The host driver gives a request back. *)
LEMMA ReqDoneStep ==
  ASSUME IInv, mmc_blk_mq_req_done
  PROVE  IInv'
<1>1. PICK res \in Results(at) :
        /\ DoneLater \/ DoneRecovery(res) \/ DoneNow(res)
        /\ rq' = [rq EXCEPT ![at].err = res.err, ![at].xfer = res.xfer,
                            ![at].bad = res.bad]
  BY DEF mmc_blk_mq_req_done
<1>2. /\ at # None /\ act["irq"].pc = "idle" /\ rq[at].op \in RwOps
      /\ at' = None /\ UNCHANGED <<setup, claim, other, submits>>
  BY DEF mmc_blk_mq_req_done
<1>3. CASE DoneLater
  BY <1>1, <1>2, <1>3, DoneLaterStep
<1>4. CASE DoneRecovery(res)
  BY <1>1, <1>2, <1>4, DoneRecoveryStep
<1>5. CASE DoneNow(res)
  BY <1>1, <1>2, <1>5, DoneNowStep
<1> QED BY <1>1, <1>3, <1>4, <1>5

-----------------------------------------------------------------------------
(* What polling and recovery have in common: the request in hand is looked *)
(* at, and its data, never its place, may change.                          *)
PollStep(a) ==
  LET r == act[a].tgt IN
  /\ act[a].pc \in Polling
  /\ UNCHANGED <<setup, at, claim, other, submits>>
  /\ card' \in CardRec /\ ("transfer" \in card'.lied => "transfer" \in card.lied)
  /\ rq' \in [Reqs -> ReqRec]
  /\ \A s \in Reqs : s # r => rq'[s] = rq[s]
  /\ rq'[r].st = rq[r].st /\ rq'[r].op = rq[r].op /\ rq'[r].err = rq[r].err
  /\ rq'[r].bad => rq[r].bad
  /\ \/ AfterPoll(a) /\ ~(rq'[r].xfer > 0 /\ rq'[r].bad)
     \/ /\ mq' = mq
        /\ act' \in [Actors -> ActRec]
        /\ act'[a].pc \in {"recover", "single"} /\ act'[a].req = act[a].req
        /\ act'[a].rw = act[a].rw /\ act'[a].tgt = act[a].tgt
        /\ act'[a].err = act[a].err
        /\ \A b \in Actors : b # a => act'[b] = act[b]

(* The card: resets and removal say nothing of what was transferred. *)
LEMMA CardEffect ==
  ASSUME card \in CardRec, NEW op \in RwOps \cup SyncOps
  PROVE  /\ Reset(card, op) \in CardRec /\ Reset(card, op).lied = card.lied
         /\ [card EXCEPT !.removed = TRUE] \in CardRec
         /\ [card EXCEPT !.removed = TRUE].lied = card.lied
         /\ [card EXCEPT !.reset_done = @ \ {op}] \in CardRec
         /\ [card EXCEPT !.reset_done = @ \ {op}].lied = card.lied
BY DEF CardRec, Reset

(* One request is given another record. *)
LEMMA ReqSet ==
  ASSUME rq \in [Reqs -> ReqRec], NEW r \in Reqs, NEW q \in ReqRec,
         rq' = [rq EXCEPT ![r] = q]
  PROVE  /\ rq' \in [Reqs -> ReqRec] /\ rq'[r] = q
         /\ \A s \in Reqs : s # r => rq'[s] = rq[s]
OBVIOUS

(* mmc_blk_mq_poll_completion() *)
LEMMA PollIsStep ==
  ASSUME IInv, NEW a \in Actors, Poll(a)
  PROVE  PollStep(a)
<1> DEFINE r == act[a].tgt
<1>1. act[a].pc = "poll" /\ r \in Reqs /\ rq[r] \in ReqRec
        /\ rq[r].op \in RwOps \cup SyncOps
  BY DEF Poll, IInv, TargetInv, Polling, Shape, ReqRec
<1>2. UNCHANGED <<setup, at, claim, other, submits>>
  BY DEF Poll
<1>3. rq \in [Reqs -> ReqRec] /\ card \in CardRec /\ Shape
  BY DEF IInv, Shape
<1>4. CASE /\ rq[r].err = "none" /\ (rq[r].op = "write" => ~rq[r].bad)
           /\ card' = [card EXCEPT !.reset_done = @ \ {rq[r].op}]
           /\ AfterPoll(a)
           /\ UNCHANGED rq
  <2>1. ~rq[r].bad
    BY <1>1, <1>4 DEF IInv, XferInv
  <2>2. card' \in CardRec /\ ("transfer" \in card'.lied => "transfer" \in card.lied)
    BY <1>1, <1>3, <1>4, CardEffect
  <2> QED BY <1>1, <1>2, <1>3, <1>4, <2>1, <2>2 DEF PollStep, Polling
<1>5. CASE /\ rq' = IF rq[r].err = "none" /\ rq[r].bad
                    THEN [rq EXCEPT ![r].xfer = 0] ELSE rq
           /\ Step(a, "recover")
           /\ UNCHANGED <<mq, card>>
  <2>1. /\ rq' \in [Reqs -> ReqRec]
        /\ \A s \in Reqs : s # r => rq'[s] = rq[s]
        /\ rq'[r].st = rq[r].st /\ rq'[r].op = rq[r].op /\ rq'[r].err = rq[r].err
        /\ rq'[r].bad = rq[r].bad
    BY <1>1, <1>3, <1>5 DEF ReqRec
  <2>2. /\ act' \in [Actors -> ActRec]
        /\ act'[a].pc \in {"recover", "single"} /\ act'[a].req = act[a].req
        /\ act'[a].rw = act[a].rw /\ act'[a].tgt = act[a].tgt
        /\ act'[a].err = act[a].err
        /\ \A b \in Actors : b # a => act'[b] = act[b]
    BY <1>3, <1>5, StepEffect, Names
  <2> QED BY <1>1, <1>2, <1>3, <1>5, <2>1, <2>2 DEF PollStep, Polling
<1> QED BY <1>4, <1>5 DEF Poll

(* A record of the same request, of which nothing is taken as transferred  *)
(* that was not.                                                           *)
Sane(p, q) ==
  /\ p \in ReqRec /\ p.st = q.st /\ p.op = q.op /\ p.err = q.err
  /\ p.bad => q.bad
  /\ ~(p.xfer > 0 /\ p.bad)

(* mmc_blk_mq_rw_recovery() believes a status only if it is one. *)
LEMMA RecoverReq ==
  ASSUME NEW q \in ReqRec, NEW x \in Answers, Honest(q, x)
  PROVE  LET q1 == AfterStatus(q, x)
             q2 == AfterCount(q1, x)
         IN  /\ Sane(q1, q) /\ Sane(q2, q)
             /\ Sane([q2 EXCEPT !.retries = NO_RETRIES], q)
             /\ Sane(AfterRetries(q2), q)
<1> DEFINE q1 == AfterStatus(q, x)
           q2 == AfterCount(q1, x)
<1>1. Sane(q1, q)
  <2>1. CASE x.status = "ok" /\ (x.tran \/ q.op = "read")
    BY <2>1 DEF AfterStatus, Honest, Sane
  <2>2. CASE ~(x.status = "ok" /\ (x.tran \/ q.op = "read"))
    <3>1. q1 = [q EXCEPT !.xfer = 0]
      BY <2>2 DEF AfterStatus
    <3>2. [q EXCEPT !.xfer = 0] \in ReqRec
      BY DEF ReqRec
    <3> QED BY <3>1, <3>2 DEF Sane, ReqRec
  <2> QED BY <2>1, <2>2
<1> HIDE DEF q1
<1>2. Sane(q2, q)
  <2>1. CASE ~Stuck(x) /\ q1.err # "cmd" /\ q1.op = "write" /\ x.written >= 0
    <3> DEFINE n == x.written  b == FALSE
    <3>1. q2 = [q1 EXCEPT !.xfer = n, !.bad = b]
      BY <2>1 DEF AfterCount
    <3>2. n \in Int /\ b = FALSE /\ b \in BOOLEAN /\ q1 \in ReqRec
      BY <1>1, BlocksAssumption DEF Answers, Sane
    <3> HIDE DEF n, b
    <3>3. q2 \in ReqRec
      BY <3>1, <3>2 DEF ReqRec
    <3>4. q2.st = q1.st /\ q2.op = q1.op /\ q2.err = q1.err /\ q2.bad = b
      BY <3>1, <3>2 DEF ReqRec
    <3> QED BY <1>1, <3>2, <3>3, <3>4 DEF Sane
  <2>2. CASE ~(~Stuck(x) /\ q1.err # "cmd" /\ q1.op = "write" /\ x.written >= 0)
    BY <1>1, <2>2 DEF AfterCount
  <2> QED BY <2>1, <2>2
<1> HIDE DEF q2
<1>3. \A n \in Int : Sane([q2 EXCEPT !.retries = n], q)
  <2> TAKE n \in Int
  <2>1. [q2 EXCEPT !.retries = n] \in ReqRec
    BY <1>2 DEF Sane, ReqRec
  <2> QED BY <1>2, <2>1 DEF Sane, ReqRec
<1>4. NO_RETRIES \in Int /\ MAX_RETRIES - DATA_RETRIES \in Int
  BY RetriesAssumption DEF NO_RETRIES
<1>5. Sane(AfterRetries(q2), q)
  BY <1>2, <1>3, <1>4 DEF AfterRetries
<1> QED BY <1>1, <1>2, <1>3, <1>4, <1>5 DEF q1, q2

(* The context goes on to read one sector at a time. *)
LEMMA SingleEffect ==
  ASSUME Shape, NEW a \in Actors, NEW n \in Int, NEW e \in BOOLEAN,
         \/ act' = [act EXCEPT ![a].pc = "single", ![a].retries = n, ![a].error = e]
         \/ /\ act[a].pc = "single"
            /\ act' = [act EXCEPT ![a].retries = n, ![a].error = e]
  PROVE  /\ act' \in [Actors -> ActRec]
         /\ act'[a].pc \in {"recover", "single"} /\ act'[a].req = act[a].req
         /\ act'[a].rw = act[a].rw /\ act'[a].tgt = act[a].tgt
         /\ act'[a].err = act[a].err
         /\ \A b \in Actors : b # a => act'[b] = act[b]
<1> DEFINE x == [act[a] EXCEPT !.pc = "single", !.retries = n, !.error = e]
           y == [act[a] EXCEPT !.retries = n, !.error = e]
<1>1. act[a] \in ActRec
  BY DEF Shape
<1>2. /\ x \in ActRec /\ x.pc = "single" /\ x.req = act[a].req
      /\ x.rw = act[a].rw /\ x.tgt = act[a].tgt /\ x.err = act[a].err
      /\ y \in ActRec /\ y.pc = act[a].pc /\ y.req = act[a].req
      /\ y.rw = act[a].rw /\ y.tgt = act[a].tgt /\ y.err = act[a].err
  BY <1>1, Names DEF ActRec
<1>3. \/ act' = [act EXCEPT ![a] = x]
      \/ act[a].pc = "single" /\ act' = [act EXCEPT ![a] = y]
  OBVIOUS
<1> HIDE DEF x, y
<1>4. CASE act' = [act EXCEPT ![a] = x]
  <2>1. /\ act' \in [Actors -> ActRec] /\ act'[a] = x
        /\ \A b \in Actors : b # a => act'[b] = act[b]
    BY <1>2, <1>4, ActSet, Zenon
  <2> QED BY <1>2, <2>1
<1>5. CASE act[a].pc = "single" /\ act' = [act EXCEPT ![a] = y]
  <2>1. /\ act' \in [Actors -> ActRec] /\ act'[a] = y
        /\ \A b \in Actors : b # a => act'[b] = act[b]
    BY <1>2, <1>5, ActSet, Zenon
  <2> QED BY <1>2, <1>5, <2>1
<1> QED BY <1>3, <1>4, <1>5

(* mmc_blk_mq_rw_recovery() *)
LEMMA RecoverIsStep ==
  ASSUME IInv, NEW a \in Actors, Recover(a)
  PROVE  PollStep(a)
<1> DEFINE r == act[a].tgt
           op == rq[r].op
<1>1. act[a].pc = "recover" /\ r \in Reqs /\ rq[r] \in ReqRec
        /\ op \in RwOps \cup SyncOps
  BY DEF Recover, IInv, TargetInv, Polling, Shape, ReqRec
<1>2. UNCHANGED <<setup, at, claim, other, submits>>
  BY DEF Recover
<1>3. rq \in [Reqs -> ReqRec] /\ card \in CardRec /\ Shape
  BY DEF IInv, Shape
<1>4. PICK x \in Answers :
        LET q1 == AfterStatus(rq[r], x)
            q2 == AfterCount(q1, x)
            failed == Stuck(x) /\ ~ResetWorks(card, op, x.reset)
            last == q2.xfer = 0 /\ q2.retries + 1 = MAX_RETRIES
        IN  /\ Honest(rq[r], x) /\ x.written <= rq[r].left
            /\ CASE x.status = "none" /\ x.gone ->
                      /\ rq' = [rq EXCEPT ![r] = q1]
                      /\ card' = [card EXCEPT !.removed = TRUE]
                      /\ AfterPoll(a)
                 [] ~(x.status = "none" /\ x.gone) /\ failed ->
                      /\ rq' = [rq EXCEPT ![r] =
                                  [q2 EXCEPT !.retries = NO_RETRIES]]
                      /\ card' = Reset(card, op)
                      /\ AfterPoll(a)
                 [] OTHER ->
                      /\ rq' = [rq EXCEPT ![r] = AfterRetries(q2)]
                      /\ card' = IF Stuck(x) \/ last THEN Reset(card, op)
                                 ELSE card
                      /\ IF Single(q2)
                         THEN /\ act' = [act EXCEPT ![a].pc = "single",
                                    ![a].retries = 0, ![a].error = FALSE]
                              /\ UNCHANGED mq
                         ELSE AfterPoll(a)
  BY DEF Recover
<1> DEFINE q1 == AfterStatus(rq[r], x)
           q2 == AfterCount(q1, x)
           q3 == [q2 EXCEPT !.retries = NO_RETRIES]
           q4 == AfterRetries(q2)
<1>5. Sane(q1, rq[r]) /\ Sane(q3, rq[r]) /\ Sane(q4, rq[r])
  BY <1>1, <1>4, RecoverReq
<1>6. \/ rq' = [rq EXCEPT ![r] = q1] \/ rq' = [rq EXCEPT ![r] = q3]
      \/ rq' = [rq EXCEPT ![r] = q4]
  BY <1>4
<1>7. \/ card' = [card EXCEPT !.removed = TRUE] \/ card' = Reset(card, op)
      \/ card' = card
  BY <1>4
<1>8. \/ AfterPoll(a)
      \/ /\ act' = [act EXCEPT ![a].pc = "single", ![a].retries = 0,
                               ![a].error = FALSE]
         /\ UNCHANGED mq
  BY <1>4
<1> HIDE DEF q1, q2, q3, q4, op
<1>9. card' \in CardRec /\ ("transfer" \in card'.lied => "transfer" \in card.lied)
  BY <1>1, <1>3, <1>7, CardEffect
<1>10. PICK q : Sane(q, rq[r]) /\ rq' = [rq EXCEPT ![r] = q]
  BY <1>5, <1>6
<1>11. /\ rq' \in [Reqs -> ReqRec] /\ rq'[r] = q
       /\ \A s \in Reqs : s # r => rq'[s] = rq[s]
  BY <1>1, <1>3, <1>10, ReqSet DEF Sane
<1>12. CASE AfterPoll(a)
  BY <1>1, <1>2, <1>9, <1>10, <1>11, <1>12 DEF PollStep, Polling, Sane
<1>13. CASE act' = [act EXCEPT ![a].pc = "single", ![a].retries = 0,
         ![a].error = FALSE] /\ mq' = mq
  <2> DEFINE n == 0  e == FALSE
  <2>1. n \in Int /\ e \in BOOLEAN
          /\ act' = [act EXCEPT ![a].pc = "single", ![a].retries = n,
          ![a].error = e]
    BY <1>13
  <2> HIDE DEF n, e
  <2>2. /\ act' \in [Actors -> ActRec]
        /\ act'[a].pc \in {"recover", "single"} /\ act'[a].req = act[a].req
        /\ act'[a].rw = act[a].rw /\ act'[a].tgt = act[a].tgt
        /\ act'[a].err = act[a].err
        /\ \A b \in Actors : b # a => act'[b] = act[b]
    BY <1>3, <2>1, SingleEffect, Zenon
  <2> QED
    BY <1>1, <1>2, <1>9, <1>10, <1>11, <1>13, <2>2 DEF PollStep, Polling, Sane
<1> QED BY <1>8, <1>12, <1>13

(* mmc_blk_read_single() *)
LEMMA ReadSingleIsStep ==
  ASSUME IInv, NEW a \in Actors, mmc_blk_read_single(a)
  PROVE  PollStep(a)
<1> DEFINE r == act[a].tgt
           Take(q) == [q EXCEPT !.left = @ - 1]
           m == IF rq[r].retries > MAX_RETRIES - 1 THEN MAX_RETRIES - 1
                ELSE rq[r].retries
           q0 == [Take(rq[r]) EXCEPT !.xfer = 0, !.retries = m]
           q1 == [Take(rq[r]) EXCEPT !.xfer = 0, !.bad = FALSE]
           q2 == [Take(rq[r]) EXCEPT !.xfer = 1, !.bad = FALSE]
           Loop(q, n, e) ==
             /\ rq' = [rq EXCEPT ![r] = q]
             /\ IF q.left > 0
                THEN /\ act' = [act EXCEPT ![a].retries = n, ![a].error = e]
                     /\ UNCHANGED mq
                ELSE AfterPoll(a)
<1>1. act[a].pc = "single" /\ r \in Reqs /\ rq[r] \in ReqRec
  BY DEF mmc_blk_read_single, IInv, TargetInv, Polling, Shape
<1>2. UNCHANGED <<setup, at, claim, other, submits>>
  BY DEF mmc_blk_read_single
<1>3. rq \in [Reqs -> ReqRec] /\ card \in CardRec /\ Shape /\ act[a] \in ActRec
  BY DEF IInv, Shape
<1>4. \/ rq' = [rq EXCEPT ![r] = q0] /\ AfterPoll(a)
      \/ Loop(q1, act[a].retries + 1, act[a].error)
      \/ Loop(q1, 0, TRUE)
      \/ Loop(q2, 0, FALSE)
  BY DEF mmc_blk_read_single
<1>5. Sane(q0, rq[r]) /\ Sane(q1, rq[r]) /\ Sane(q2, rq[r])
  <2> DEFINE p == Take(rq[r])  z == 0  o == 1  b == FALSE
  <2>1. p \in ReqRec /\ p.st = rq[r].st /\ p.op = rq[r].op /\ p.err = rq[r].err
          /\ p.bad = rq[r].bad /\ p.retries = rq[r].retries
    BY <1>1 DEF ReqRec
  <2>2. z \in Int /\ z = 0 /\ o \in Int /\ b \in BOOLEAN /\ b = FALSE /\ m \in Int
    BY <1>1, RetriesAssumption DEF ReqRec
  <2>3. /\ q0 = [p EXCEPT !.xfer = z, !.retries = m]
        /\ q1 = [p EXCEPT !.xfer = z, !.bad = b]
        /\ q2 = [p EXCEPT !.xfer = o, !.bad = b]
    OBVIOUS
  <2> HIDE DEF p, z, o, b, m, q0, q1, q2
  <2>4. Sane([p EXCEPT !.xfer = z, !.retries = m], rq[r])
    <3>1. [p EXCEPT !.xfer = z, !.retries = m] \in ReqRec
      BY <2>1, <2>2 DEF ReqRec
    <3> QED BY <2>1, <2>2, <3>1 DEF Sane, ReqRec
  <2>5. \A x \in Int : Sane([p EXCEPT !.xfer = x, !.bad = b], rq[r])
    <3> TAKE x \in Int
    <3>1. [p EXCEPT !.xfer = x, !.bad = b] \in ReqRec
      BY <2>1, <2>2 DEF ReqRec
    <3> QED BY <2>1, <2>2, <3>1 DEF Sane, ReqRec
  <2> QED BY <2>2, <2>3, <2>4, <2>5
<1>6. PICK q : Sane(q, rq[r]) /\ rq' = [rq EXCEPT ![r] = q]
  <2>1. \/ rq' = [rq EXCEPT ![r] = q0] \/ rq' = [rq EXCEPT ![r] = q1]
        \/ rq' = [rq EXCEPT ![r] = q2]
    BY <1>4
  <2> HIDE DEF q0, q1, q2
  <2> QED BY <1>5, <2>1
<1>7. /\ rq' \in [Reqs -> ReqRec] /\ rq'[r] = q
      /\ \A s \in Reqs : s # r => rq'[s] = rq[s]
  BY <1>1, <1>3, <1>6, ReqSet DEF Sane
<1>8. /\ card' \in CardRec
      /\ "transfer" \in card'.lied => "transfer" \in card.lied
  <2>1. \/ card' = card
        \/ card' = [card EXCEPT !.lied = @ \cup {"single"}]
    BY DEF mmc_blk_read_single
  <2> QED BY <1>3, <2>1 DEF CardRec
<1>9. CASE AfterPoll(a)
  BY <1>1, <1>2, <1>3, <1>6, <1>7, <1>8, <1>9 DEF PollStep, Polling, Sane
<1>10. CASE ~AfterPoll(a)
  <2>1. PICK n \in Int, e \in BOOLEAN :
          mq' = mq /\ act' = [act EXCEPT ![a].retries = n, ![a].error = e]
    <3>1. act[a].retries + 1 \in Int /\ act[a].error \in BOOLEAN
      BY <1>3 DEF ActRec
    <3>2. \/ Loop(q1, act[a].retries + 1, act[a].error)
          \/ Loop(q1, 0, TRUE)
          \/ Loop(q2, 0, FALSE)
      BY <1>4, <1>10
    <3>3. /\ mq' = mq
          /\ \/ act' = [act EXCEPT ![a].retries = act[a].retries + 1,
                                  ![a].error = act[a].error]
             \/ act' = [act EXCEPT ![a].retries = 0, ![a].error = TRUE]
             \/ act' = [act EXCEPT ![a].retries = 0, ![a].error = FALSE]
      <4> HIDE DEF q1, q2
      <4> QED BY <1>10, <3>2
    <3> QED BY <3>1, <3>3
  <2>2. /\ act' \in [Actors -> ActRec]
        /\ act'[a].pc \in {"recover", "single"} /\ act'[a].req = act[a].req
        /\ act'[a].rw = act[a].rw /\ act'[a].tgt = act[a].tgt
        /\ act'[a].err = act[a].err
        /\ \A b \in Actors : b # a => act'[b] = act[b]
    BY <1>1, <1>3, <2>1, SingleEffect, Zenon
  <2> QED
    BY <1>1, <1>2, <1>3, <1>6, <1>7, <1>8, <2>1, <2>2
       DEF PollStep, Polling, Sane
<1> QED BY <1>9, <1>10

(* The dispatcher goes on with the request it looks at. *)
LEMMA PollStays_disp ==
  ASSUME IInv, PollStep("disp"), ~AfterPoll("disp")
  PROVE  IInv'
<1>1. /\ UNCHANGED <<setup, at, claim, other, submits>>
      /\ act["disp"].pc \in Polling
      /\ act["disp"].tgt \in Reqs
      /\ card' \in CardRec
      /\ "transfer" \in card'.lied => "transfer" \in card.lied
      /\ rq' \in [Reqs -> ReqRec]
      /\ \A s \in Reqs : s # act["disp"].tgt => rq'[s] = rq[s]
      /\ rq'[act["disp"].tgt].st = rq[act["disp"].tgt].st
      /\ rq'[act["disp"].tgt].op = rq[act["disp"].tgt].op
      /\ rq'[act["disp"].tgt].err = rq[act["disp"].tgt].err
      /\ rq'[act["disp"].tgt].bad => rq[act["disp"].tgt].bad
  BY DEF PollStep, IInv, TargetInv, Actors
<1>2. \A s \in Reqs : rq'[s].st = rq[s].st /\ rq'[s].op = rq[s].op
  BY <1>1
<1>3. /\ act' \in [Actors -> ActRec]
      /\ act'["disp"].pc \in {"recover", "single"}
      /\ act'["disp"].req = act["disp"].req
      /\ act'["disp"].rw = act["disp"].rw
      /\ act'["disp"].tgt = act["disp"].tgt
      /\ act'["disp"].err = act["disp"].err
      /\ act'["irq"] = act["irq"]
      /\ act'["cw"] = act["cw"]
      /\ act'["rec"] = act["rec"]
      /\ act'["late"] = act["late"]
  BY Names DEF PollStep
<1>4. /\ mq' = mq
      /\ Total' = Total
  BY DEF PollStep, Total
<1>5. /\ AtHost' <=> AtHost
      /\ OwnCounted' <=> OwnCounted
      /\ OwnReq' = OwnReq
      /\ HostReq' = HostReq
      /\ LateReq' = LateReq
      /\ DoneReq' = DoneReq
      /\ PostReq("disp")' = PostReq("disp")
      /\ PostReq("irq")' = PostReq("irq")
      /\ PostReq("cw")' = PostReq("cw")
      /\ PostReq("rec")' = PostReq("rec")
      /\ Counted("disp")' <=> Counted("disp")
      /\ Counted("irq")' <=> Counted("irq")
      /\ Counted("cw")' <=> Counted("cw")
      /\ Counted("rec")' <=> Counted("rec")
  <2>1. AtHost' <=> AtHost
    BY <1>1, <1>2, <1>3, <1>4 DEF AtHost, IInv, Shape
  <2> QED
    BY <1>1, <1>2, <1>3, <1>4, <2>1, ReqsAssumption, NoneNames
       DEF HostReq, OwnCounted, OwnReq, DoneReq, LateReq, PostReq, Counted,
           Polling, Posting, IInv, LockInv, Locking, Rw, TargetInv
<1>6. Shape'
  BY <1>1, <1>2, <1>3, <1>4, <1>5 DEF IInv, Shape, ActRec
<1>7. PcInv' /\ ModeInv' /\ TargetInv'
  BY <1>1, <1>2, <1>3, <1>4, <1>5
     DEF IInv, PcInv, Polling, Posting, ModeInv, TargetInv, Actors
<1>8. LockInv' /\ HostInv' /\ RecoveryInv'
  BY <1>1, <1>2, <1>3, <1>4, <1>5
     DEF IInv, LockInv, Locking, Rw, Actors, Polling, Posting, HostInv, Ready,
         AtHost, RecoveryInv
<1>9. PlaceInv'
  <2> SUFFICES ASSUME NEW r \in Reqs PROVE (Places(r) = B(rq[r].st = "issued"))'
    BY DEF PlaceInv
  <2>1. Places(r) = B(rq[r].st = "issued") /\ rq'[r].st = rq[r].st /\ r # None
    BY <1>2, ReqsAssumption DEF IInv, PlaceInv
  <2> QED BY <1>3, <1>4, <1>5, <2>1 DEF Places, B
<1>10. OwnInv'
  <2>1. OwnReq # None => OwnReq \in Reqs
    BY Names DEF IInv, Shape, OwnReq, ActRec
  <2> QED BY <1>1, <1>2, <1>3, <1>4, <1>5, <2>1 DEF IInv, OwnInv
<1>11. CountInv'
  BY <1>4, <1>5 DEF IInv, CountInv, InFlight, B
<1>12. ClaimInv' /\ OtherInv'
  BY <1>1, <1>2, <1>3, <1>4, <1>5
     DEF IInv, ClaimInv, Claims, B, Polling, OtherInv, Stopping
<1>13. XferInv'
  <2>1. PostReq("disp") = act["disp"].tgt
    BY <1>1, ReqsAssumption DEF PostReq
  <2>2. rq[act["disp"].tgt].st = "issued"
    BY <1>1, ReqsAssumption, <2>1 DEF IInv, PlaceInv, Places, B
  <2>3. \A b \in Actors : b # "disp" /\ act[b].pc \in {"complete", "go"}
          /\ act[b].tgt # None =>
          act[b].tgt \in Reqs /\ act[b].tgt # act["disp"].tgt
    <3> SUFFICES ASSUME NEW b \in Actors, b # "disp",
                        act[b].pc \in {"complete", "go"}, act[b].tgt # None
                 PROVE  act[b].tgt \in Reqs /\ act[b].tgt # act["disp"].tgt
      OBVIOUS
    <3>1. act[b].tgt \in Reqs
      BY DEF IInv, Shape, ActRec
    <3>2. PostReq(b) = act[b].tgt
      BY DEF PostReq
    <3> QED BY <2>1, <3>1, <3>2, PosterNames DEF IInv, PlaceInv, Places, B
  <2> QED
    BY <1>1, <1>2, <1>3, <1>4, <1>5, <2>2, <2>3
       DEF IInv, XferInv, Actors, Polling
<1> QED
  BY <1>6, <1>7, <1>8, <1>9, <1>10, <1>11, <1>12, <1>13 DEF IInv

(* The dispatcher has looked at the request, keeps it and starts its own. *)
LEMMA PollEnds_disp_rw ==
  ASSUME IInv, PollStep("disp"), AfterPoll("disp"), act["disp"].rw
  PROVE  IInv'
<1>1. /\ UNCHANGED <<setup, at, claim, other, submits>>
      /\ act["disp"].pc \in Polling
      /\ act["disp"].tgt \in Reqs
      /\ card' \in CardRec
      /\ "transfer" \in card'.lied => "transfer" \in card.lied
      /\ rq' \in [Reqs -> ReqRec]
      /\ \A s \in Reqs : s # act["disp"].tgt => rq'[s] = rq[s]
      /\ rq'[act["disp"].tgt].st = rq[act["disp"].tgt].st
      /\ rq'[act["disp"].tgt].op = rq[act["disp"].tgt].op
      /\ rq'[act["disp"].tgt].err = rq[act["disp"].tgt].err
      /\ rq'[act["disp"].tgt].bad => rq[act["disp"].tgt].bad
  BY DEF PollStep, IInv, TargetInv, Actors
<1>2. \A s \in Reqs : rq'[s].st = rq[s].st /\ rq'[s].op = rq[s].op
  BY <1>1
<1>3. /\ act' \in [Actors -> ActRec]
      /\ act'["disp"].pc = "go"
      /\ act'["disp"].req = act["disp"].req
      /\ act'["disp"].rw = act["disp"].rw
      /\ act'["disp"].tgt = act["disp"].tgt
      /\ act'["disp"].err = act["disp"].err
      /\ act'["irq"] = act["irq"]
      /\ act'["cw"] = act["cw"]
      /\ act'["rec"] = act["rec"]
      /\ act'["late"] = act["late"]
  <2> DEFINE x == [act["disp"] EXCEPT !.pc = "go", !.retries = 0, !.error = FALSE]
  <2>1. act' = [act EXCEPT !["disp"] = x] /\ act["disp"] \in ActRec
    BY Names DEF AfterPoll, Rw, IInv, Shape
  <2>2. x \in ActRec
    <3> DEFINE n == 0  e == FALSE
    <3>1. n \in Int /\ e \in BOOLEAN
            /\ x = [act["disp"] EXCEPT !.pc = "go", !.retries = n, !.error = e]
      OBVIOUS
    <3> HIDE DEF n, e, x
    <3> QED BY <2>1, <3>1, Names DEF ActRec
  <2>3. /\ x.pc = "go" /\ x.req = act["disp"].req /\ x.rw = act["disp"].rw
        /\ x.tgt = act["disp"].tgt /\ x.err = act["disp"].err
    BY <2>1 DEF ActRec
  <2> HIDE DEF x
  <2> QED BY <2>1, <2>2, <2>3, ActSet, Names DEF IInv
<1>4. /\ mq' \in QueueRec
      /\ Total' = Total
      /\ mq'.recovery_needed = mq.recovery_needed
      /\ mq'.rw_wait = mq.rw_wait
      /\ mq'.complete_req = None
      /\ mq'.complete_lock = None
      /\ mq'.recovery_req = mq.recovery_req
      /\ mq'.quiesced = mq.quiesced
      /\ mq'.complete_work = mq.complete_work
      /\ mq'.recovery_work = mq.recovery_work
  BY DEF AfterPoll, Rw, IInv, Shape, QueueRec, Total, mmc_tot_in_flight, Actors
<1>5. ~(rq'[act["disp"].tgt].xfer > 0 /\ rq'[act["disp"].tgt].bad)
  BY <1>3 DEF PollStep, Polling
<1>6. act["disp"].err # "busy"
  BY <1>1, Modes DEF IInv, ModeInv
<1>7. /\ AtHost' <=> AtHost
      /\ OwnCounted' <=> OwnCounted
      /\ OwnReq' = OwnReq
      /\ HostReq' = HostReq
      /\ LateReq' = LateReq
      /\ DoneReq' = DoneReq
      /\ PostReq("disp")' = PostReq("disp")
      /\ PostReq("irq")' = PostReq("irq")
      /\ PostReq("cw")' = PostReq("cw")
      /\ PostReq("rec")' = PostReq("rec")
      /\ Counted("disp")' <=> Counted("disp")
      /\ Counted("irq")' <=> Counted("irq")
      /\ Counted("cw")' <=> Counted("cw")
      /\ Counted("rec")' <=> Counted("rec")
  <2>1. AtHost' <=> AtHost
    BY <1>1, <1>2, <1>3, <1>4, <1>5, <1>6 DEF AtHost, IInv, Shape
  <2> QED
    BY <1>1, <1>2, <1>3, <1>4, <1>5, <1>6, <2>1, ReqsAssumption, NoneNames
       DEF HostReq, OwnCounted, OwnReq, DoneReq, LateReq, PostReq, Counted,
           Polling, Posting, IInv, LockInv, Locking, Rw, TargetInv
<1>8. Shape'
  BY <1>1, <1>2, <1>3, <1>4, <1>5, <1>6, <1>7 DEF IInv, Shape, ActRec
<1>9. PcInv' /\ ModeInv' /\ TargetInv'
  BY <1>1, <1>2, <1>3, <1>4, <1>5, <1>6, <1>7
     DEF IInv, PcInv, Polling, Posting, ModeInv, TargetInv, Actors
<1>10. LockInv' /\ HostInv' /\ RecoveryInv'
  BY <1>1, <1>2, <1>3, <1>4, <1>5, <1>6, <1>7
     DEF IInv, LockInv, Locking, Rw, Actors, Polling, Posting, HostInv, Ready,
         AtHost, RecoveryInv
<1>11. PlaceInv'
  <2> SUFFICES ASSUME NEW r \in Reqs PROVE (Places(r) = B(rq[r].st = "issued"))'
    BY DEF PlaceInv
  <2>1. Places(r) = B(rq[r].st = "issued") /\ rq'[r].st = rq[r].st /\ r # None
    BY <1>2, ReqsAssumption DEF IInv, PlaceInv
  <2> QED BY <1>3, <1>4, <1>7, <2>1 DEF Places, B
<1>12. OwnInv'
  <2>1. OwnReq # None => OwnReq \in Reqs
    BY Names DEF IInv, Shape, OwnReq, ActRec
  <2> QED BY <1>1, <1>2, <1>3, <1>4, <1>5, <1>6, <1>7, <2>1 DEF IInv, OwnInv
<1>13. CountInv'
  BY <1>4, <1>7 DEF IInv, CountInv, InFlight, B
<1>14. ClaimInv' /\ OtherInv'
  BY <1>1, <1>2, <1>3, <1>4, <1>5, <1>6, <1>7
     DEF IInv, ClaimInv, Claims, B, Polling, OtherInv, Stopping
<1>15. XferInv'
  <2>1. PostReq("disp") = act["disp"].tgt
    BY <1>1, ReqsAssumption DEF PostReq
  <2>2. rq[act["disp"].tgt].st = "issued"
    BY <1>1, ReqsAssumption, <2>1 DEF IInv, PlaceInv, Places, B
  <2>3. \A b \in Actors : b # "disp" /\ act[b].pc \in {"complete", "go"}
          /\ act[b].tgt # None =>
          act[b].tgt \in Reqs /\ act[b].tgt # act["disp"].tgt
    <3> SUFFICES ASSUME NEW b \in Actors, b # "disp",
                        act[b].pc \in {"complete", "go"}, act[b].tgt # None
                 PROVE  act[b].tgt \in Reqs /\ act[b].tgt # act["disp"].tgt
      OBVIOUS
    <3>1. act[b].tgt \in Reqs
      BY DEF IInv, Shape, ActRec
    <3>2. PostReq(b) = act[b].tgt
      BY DEF PostReq
    <3> QED BY <2>1, <3>1, <3>2, PosterNames DEF IInv, PlaceInv, Places, B
  <2> QED
    BY <1>1, <1>2, <1>3, <1>4, <1>5, <1>6, <1>7, <2>2, <2>3
       DEF IInv, XferInv, Actors, Polling
<1> QED
  BY <1>8, <1>9, <1>10, <1>11, <1>12, <1>13, <1>14, <1>15 DEF IInv

(* The dispatcher has looked at the request and posts it. *)
LEMMA PollEnds_disp_sync ==
  ASSUME IInv, PollStep("disp"), AfterPoll("disp"), ~act["disp"].rw
  PROVE  IInv'
<1>1. /\ UNCHANGED <<setup, at, claim, other, submits>>
      /\ act["disp"].pc \in Polling
      /\ act["disp"].tgt \in Reqs
      /\ card' \in CardRec
      /\ "transfer" \in card'.lied => "transfer" \in card.lied
      /\ rq' \in [Reqs -> ReqRec]
      /\ \A s \in Reqs : s # act["disp"].tgt => rq'[s] = rq[s]
      /\ rq'[act["disp"].tgt].st = rq[act["disp"].tgt].st
      /\ rq'[act["disp"].tgt].op = rq[act["disp"].tgt].op
      /\ rq'[act["disp"].tgt].err = rq[act["disp"].tgt].err
      /\ rq'[act["disp"].tgt].bad => rq[act["disp"].tgt].bad
  BY DEF PollStep, IInv, TargetInv, Actors
<1>2. \A s \in Reqs : rq'[s].st = rq[s].st /\ rq'[s].op = rq[s].op
  BY <1>1
<1>3. /\ act' \in [Actors -> ActRec]
      /\ act'["disp"].pc = "complete"
      /\ act'["disp"].req = act["disp"].req
      /\ act'["disp"].rw = act["disp"].rw
      /\ act'["disp"].tgt = act["disp"].tgt
      /\ act'["disp"].err = act["disp"].err
      /\ act'["irq"] = act["irq"]
      /\ act'["cw"] = act["cw"]
      /\ act'["rec"] = act["rec"]
      /\ act'["late"] = act["late"]
  <2> DEFINE x == [act["disp"] EXCEPT !.pc = "complete", !.retries = 0,
        !.error = FALSE]
  <2>1. act' = [act EXCEPT !["disp"] = x] /\ act["disp"] \in ActRec
    BY Names DEF AfterPoll, Rw, IInv, Shape
  <2>2. x \in ActRec
    <3> DEFINE n == 0  e == FALSE
    <3>1. n \in Int /\ e \in BOOLEAN
            /\ x = [act["disp"] EXCEPT !.pc = "complete", !.retries = n,
            !.error = e]
      OBVIOUS
    <3> HIDE DEF n, e, x
    <3> QED BY <2>1, <3>1, Names DEF ActRec
  <2>3. /\ x.pc = "complete" /\ x.req = act["disp"].req /\ x.rw = act["disp"].rw
        /\ x.tgt = act["disp"].tgt /\ x.err = act["disp"].err
    BY <2>1 DEF ActRec
  <2> HIDE DEF x
  <2> QED BY <2>1, <2>2, <2>3, ActSet, Names DEF IInv
<1>4. /\ mq' = mq
      /\ Total' = Total
  BY DEF AfterPoll, Rw, Total
<1>5. ~(rq'[act["disp"].tgt].xfer > 0 /\ rq'[act["disp"].tgt].bad)
  BY <1>3 DEF PollStep, Polling
<1>6. act["disp"].err # "busy"
  BY <1>1, Modes DEF IInv, ModeInv
<1>7. /\ AtHost' <=> AtHost
      /\ OwnCounted' <=> OwnCounted
      /\ OwnReq' = OwnReq
      /\ HostReq' = HostReq
      /\ LateReq' = LateReq
      /\ DoneReq' = DoneReq
      /\ PostReq("disp")' = PostReq("disp")
      /\ PostReq("irq")' = PostReq("irq")
      /\ PostReq("cw")' = PostReq("cw")
      /\ PostReq("rec")' = PostReq("rec")
      /\ Counted("disp")' <=> Counted("disp")
      /\ Counted("irq")' <=> Counted("irq")
      /\ Counted("cw")' <=> Counted("cw")
      /\ Counted("rec")' <=> Counted("rec")
  <2>1. AtHost' <=> AtHost
    BY <1>1, <1>2, <1>3, <1>4, <1>5, <1>6 DEF AtHost, IInv, Shape
  <2> QED
    BY <1>1, <1>2, <1>3, <1>4, <1>5, <1>6, <2>1, ReqsAssumption, NoneNames
       DEF HostReq, OwnCounted, OwnReq, DoneReq, LateReq, PostReq, Counted,
           Polling, Posting, IInv, LockInv, Locking, Rw, TargetInv
<1>8. Shape'
  BY <1>1, <1>2, <1>3, <1>4, <1>5, <1>6, <1>7 DEF IInv, Shape, ActRec
<1>9. PcInv' /\ ModeInv' /\ TargetInv'
  BY <1>1, <1>2, <1>3, <1>4, <1>5, <1>6, <1>7
     DEF IInv, PcInv, Polling, Posting, ModeInv, TargetInv, Actors
<1>10. LockInv' /\ HostInv' /\ RecoveryInv'
  BY <1>1, <1>2, <1>3, <1>4, <1>5, <1>6, <1>7
     DEF IInv, LockInv, Locking, Rw, Actors, Polling, Posting, HostInv, Ready,
         AtHost, RecoveryInv
<1>11. PlaceInv'
  <2> SUFFICES ASSUME NEW r \in Reqs PROVE (Places(r) = B(rq[r].st = "issued"))'
    BY DEF PlaceInv
  <2>1. Places(r) = B(rq[r].st = "issued") /\ rq'[r].st = rq[r].st /\ r # None
    BY <1>2, ReqsAssumption DEF IInv, PlaceInv
  <2> QED BY <1>3, <1>4, <1>7, <2>1 DEF Places, B
<1>12. OwnInv'
  <2>1. OwnReq # None => OwnReq \in Reqs
    BY Names DEF IInv, Shape, OwnReq, ActRec
  <2> QED BY <1>1, <1>2, <1>3, <1>4, <1>5, <1>6, <1>7, <2>1 DEF IInv, OwnInv
<1>13. CountInv'
  BY <1>4, <1>7 DEF IInv, CountInv, InFlight, B
<1>14. ClaimInv' /\ OtherInv'
  BY <1>1, <1>2, <1>3, <1>4, <1>5, <1>6, <1>7
     DEF IInv, ClaimInv, Claims, B, Polling, OtherInv, Stopping
<1>15. XferInv'
  <2>1. PostReq("disp") = act["disp"].tgt
    BY <1>1, ReqsAssumption DEF PostReq
  <2>2. rq[act["disp"].tgt].st = "issued"
    BY <1>1, ReqsAssumption, <2>1 DEF IInv, PlaceInv, Places, B
  <2>3. \A b \in Actors : b # "disp" /\ act[b].pc \in {"complete", "go"}
          /\ act[b].tgt # None =>
          act[b].tgt \in Reqs /\ act[b].tgt # act["disp"].tgt
    <3> SUFFICES ASSUME NEW b \in Actors, b # "disp",
                        act[b].pc \in {"complete", "go"}, act[b].tgt # None
                 PROVE  act[b].tgt \in Reqs /\ act[b].tgt # act["disp"].tgt
      OBVIOUS
    <3>1. act[b].tgt \in Reqs
      BY DEF IInv, Shape, ActRec
    <3>2. PostReq(b) = act[b].tgt
      BY DEF PostReq
    <3> QED BY <2>1, <3>1, <3>2, PosterNames DEF IInv, PlaceInv, Places, B
  <2> QED
    BY <1>1, <1>2, <1>3, <1>4, <1>5, <1>6, <1>7, <2>2, <2>3
       DEF IInv, XferInv, Actors, Polling
<1> QED
  BY <1>8, <1>9, <1>10, <1>11, <1>12, <1>13, <1>14, <1>15 DEF IInv

(* complete_work goes on with the request it looks at. *)
LEMMA PollStays_cw ==
  ASSUME IInv, PollStep("cw"), ~AfterPoll("cw")
  PROVE  IInv'
<1>1. /\ UNCHANGED <<setup, at, claim, other, submits>>
      /\ act["cw"].pc \in Polling
      /\ act["cw"].tgt \in Reqs
      /\ card' \in CardRec
      /\ "transfer" \in card'.lied => "transfer" \in card.lied
      /\ rq' \in [Reqs -> ReqRec]
      /\ \A s \in Reqs : s # act["cw"].tgt => rq'[s] = rq[s]
      /\ rq'[act["cw"].tgt].st = rq[act["cw"].tgt].st
      /\ rq'[act["cw"].tgt].op = rq[act["cw"].tgt].op
      /\ rq'[act["cw"].tgt].err = rq[act["cw"].tgt].err
      /\ rq'[act["cw"].tgt].bad => rq[act["cw"].tgt].bad
  BY DEF PollStep, IInv, TargetInv, Actors
<1>2. \A s \in Reqs : rq'[s].st = rq[s].st /\ rq'[s].op = rq[s].op
  BY <1>1
<1>3. /\ act' \in [Actors -> ActRec]
      /\ act'["cw"].pc \in {"recover", "single"}
      /\ act'["cw"].req = act["cw"].req
      /\ act'["cw"].rw = act["cw"].rw
      /\ act'["cw"].tgt = act["cw"].tgt
      /\ act'["cw"].err = act["cw"].err
      /\ act'["disp"] = act["disp"]
      /\ act'["irq"] = act["irq"]
      /\ act'["rec"] = act["rec"]
      /\ act'["late"] = act["late"]
  BY Names DEF PollStep
<1>4. /\ mq' = mq
      /\ Total' = Total
  BY DEF PollStep, Total
<1>5. /\ AtHost' <=> AtHost
      /\ OwnCounted' <=> OwnCounted
      /\ OwnReq' = OwnReq
      /\ HostReq' = HostReq
      /\ LateReq' = LateReq
      /\ DoneReq' = DoneReq
      /\ PostReq("disp")' = PostReq("disp")
      /\ PostReq("irq")' = PostReq("irq")
      /\ PostReq("cw")' = PostReq("cw")
      /\ PostReq("rec")' = PostReq("rec")
      /\ Counted("disp")' <=> Counted("disp")
      /\ Counted("irq")' <=> Counted("irq")
      /\ Counted("cw")' <=> Counted("cw")
      /\ Counted("rec")' <=> Counted("rec")
  <2>1. AtHost' <=> AtHost
    BY <1>1, <1>2, <1>3, <1>4 DEF AtHost, IInv, Shape
  <2> QED
    BY <1>1, <1>2, <1>3, <1>4, <2>1, ReqsAssumption, NoneNames
       DEF HostReq, OwnCounted, OwnReq, DoneReq, LateReq, PostReq, Counted,
           Polling, Posting, IInv, LockInv, Locking, Rw, TargetInv
<1>6. Shape'
  BY <1>1, <1>2, <1>3, <1>4, <1>5 DEF IInv, Shape, ActRec
<1>7. PcInv' /\ ModeInv' /\ TargetInv'
  BY <1>1, <1>2, <1>3, <1>4, <1>5
     DEF IInv, PcInv, Polling, Posting, ModeInv, TargetInv, Actors
<1>8. LockInv' /\ HostInv' /\ RecoveryInv'
  BY <1>1, <1>2, <1>3, <1>4, <1>5
     DEF IInv, LockInv, Locking, Rw, Actors, Polling, Posting, HostInv, Ready,
         AtHost, RecoveryInv
<1>9. PlaceInv'
  <2> SUFFICES ASSUME NEW r \in Reqs PROVE (Places(r) = B(rq[r].st = "issued"))'
    BY DEF PlaceInv
  <2>1. Places(r) = B(rq[r].st = "issued") /\ rq'[r].st = rq[r].st /\ r # None
    BY <1>2, ReqsAssumption DEF IInv, PlaceInv
  <2> QED BY <1>3, <1>4, <1>5, <2>1 DEF Places, B
<1>10. OwnInv'
  <2>1. OwnReq # None => OwnReq \in Reqs
    BY Names DEF IInv, Shape, OwnReq, ActRec
  <2> QED BY <1>1, <1>2, <1>3, <1>4, <1>5, <2>1 DEF IInv, OwnInv
<1>11. CountInv'
  BY <1>4, <1>5 DEF IInv, CountInv, InFlight, B
<1>12. ClaimInv' /\ OtherInv'
  BY <1>1, <1>2, <1>3, <1>4, <1>5
     DEF IInv, ClaimInv, Claims, B, Polling, OtherInv, Stopping
<1>13. XferInv'
  <2>1. PostReq("cw") = act["cw"].tgt
    BY <1>1, ReqsAssumption DEF PostReq
  <2>2. rq[act["cw"].tgt].st = "issued"
    BY <1>1, ReqsAssumption, <2>1 DEF IInv, PlaceInv, Places, B
  <2>3. \A b \in Actors : b # "cw" /\ act[b].pc \in {"complete", "go"}
          /\ act[b].tgt # None =>
          act[b].tgt \in Reqs /\ act[b].tgt # act["cw"].tgt
    <3> SUFFICES ASSUME NEW b \in Actors, b # "cw", act[b].pc \in {"complete",
                        "go"}, act[b].tgt # None
                 PROVE  act[b].tgt \in Reqs /\ act[b].tgt # act["cw"].tgt
      OBVIOUS
    <3>1. act[b].tgt \in Reqs
      BY DEF IInv, Shape, ActRec
    <3>2. PostReq(b) = act[b].tgt
      BY DEF PostReq
    <3> QED BY <2>1, <3>1, <3>2, PosterNames DEF IInv, PlaceInv, Places, B
  <2> QED
    BY <1>1, <1>2, <1>3, <1>4, <1>5, <2>2, <2>3
       DEF IInv, XferInv, Actors, Polling
<1> QED
  BY <1>6, <1>7, <1>8, <1>9, <1>10, <1>11, <1>12, <1>13 DEF IInv

(* complete_work has looked at the request and posts it. *)
LEMMA PollEnds_cw ==
  ASSUME IInv, PollStep("cw"), AfterPoll("cw")
  PROVE  IInv'
<1>1. /\ UNCHANGED <<setup, at, claim, other, submits>>
      /\ act["cw"].pc \in Polling
      /\ act["cw"].tgt \in Reqs
      /\ card' \in CardRec
      /\ "transfer" \in card'.lied => "transfer" \in card.lied
      /\ rq' \in [Reqs -> ReqRec]
      /\ \A s \in Reqs : s # act["cw"].tgt => rq'[s] = rq[s]
      /\ rq'[act["cw"].tgt].st = rq[act["cw"].tgt].st
      /\ rq'[act["cw"].tgt].op = rq[act["cw"].tgt].op
      /\ rq'[act["cw"].tgt].err = rq[act["cw"].tgt].err
      /\ rq'[act["cw"].tgt].bad => rq[act["cw"].tgt].bad
  BY DEF PollStep, IInv, TargetInv, Actors
<1>2. \A s \in Reqs : rq'[s].st = rq[s].st /\ rq'[s].op = rq[s].op
  BY <1>1
<1>3. /\ act' \in [Actors -> ActRec]
      /\ act'["cw"].pc = "complete"
      /\ act'["cw"].req = act["cw"].req
      /\ act'["cw"].rw = act["cw"].rw
      /\ act'["cw"].tgt = act["cw"].tgt
      /\ act'["cw"].err = act["cw"].err
      /\ act'["disp"] = act["disp"]
      /\ act'["irq"] = act["irq"]
      /\ act'["rec"] = act["rec"]
      /\ act'["late"] = act["late"]
  <2> DEFINE x == [act["cw"] EXCEPT !.pc = "complete", !.retries = 0,
        !.error = FALSE]
  <2>1. act' = [act EXCEPT !["cw"] = x] /\ act["cw"] \in ActRec
    BY Names DEF AfterPoll, Rw, IInv, Shape
  <2>2. x \in ActRec
    <3> DEFINE n == 0  e == FALSE
    <3>1. n \in Int /\ e \in BOOLEAN
            /\ x = [act["cw"] EXCEPT !.pc = "complete", !.retries = n, !.error = e]
      OBVIOUS
    <3> HIDE DEF n, e, x
    <3> QED BY <2>1, <3>1, Names DEF ActRec
  <2>3. /\ x.pc = "complete" /\ x.req = act["cw"].req /\ x.rw = act["cw"].rw
        /\ x.tgt = act["cw"].tgt /\ x.err = act["cw"].err
    BY <2>1 DEF ActRec
  <2> HIDE DEF x
  <2> QED BY <2>1, <2>2, <2>3, ActSet, Names DEF IInv
<1>4. /\ mq' = mq
      /\ Total' = Total
  BY DEF AfterPoll, Rw, Total
<1>5. ~(rq'[act["cw"].tgt].xfer > 0 /\ rq'[act["cw"].tgt].bad)
  BY <1>3 DEF PollStep, Polling
<1>6. /\ AtHost' <=> AtHost
      /\ OwnCounted' <=> OwnCounted
      /\ OwnReq' = OwnReq
      /\ HostReq' = HostReq
      /\ LateReq' = LateReq
      /\ DoneReq' = DoneReq
      /\ PostReq("disp")' = PostReq("disp")
      /\ PostReq("irq")' = PostReq("irq")
      /\ PostReq("cw")' = PostReq("cw")
      /\ PostReq("rec")' = PostReq("rec")
      /\ Counted("disp")' <=> Counted("disp")
      /\ Counted("irq")' <=> Counted("irq")
      /\ Counted("cw")' <=> Counted("cw")
      /\ Counted("rec")' <=> Counted("rec")
  <2>1. AtHost' <=> AtHost
    BY <1>1, <1>2, <1>3, <1>4, <1>5 DEF AtHost, IInv, Shape
  <2> QED
    BY <1>1, <1>2, <1>3, <1>4, <1>5, <2>1, ReqsAssumption, NoneNames
       DEF HostReq, OwnCounted, OwnReq, DoneReq, LateReq, PostReq, Counted,
           Polling, Posting, IInv, LockInv, Locking, Rw, TargetInv
<1>7. Shape'
  BY <1>1, <1>2, <1>3, <1>4, <1>5, <1>6 DEF IInv, Shape, ActRec
<1>8. PcInv' /\ ModeInv' /\ TargetInv'
  BY <1>1, <1>2, <1>3, <1>4, <1>5, <1>6
     DEF IInv, PcInv, Polling, Posting, ModeInv, TargetInv, Actors
<1>9. LockInv' /\ HostInv' /\ RecoveryInv'
  BY <1>1, <1>2, <1>3, <1>4, <1>5, <1>6
     DEF IInv, LockInv, Locking, Rw, Actors, Polling, Posting, HostInv, Ready,
         AtHost, RecoveryInv
<1>10. PlaceInv'
  <2> SUFFICES ASSUME NEW r \in Reqs PROVE (Places(r) = B(rq[r].st = "issued"))'
    BY DEF PlaceInv
  <2>1. Places(r) = B(rq[r].st = "issued") /\ rq'[r].st = rq[r].st /\ r # None
    BY <1>2, ReqsAssumption DEF IInv, PlaceInv
  <2> QED BY <1>3, <1>4, <1>6, <2>1 DEF Places, B
<1>11. OwnInv'
  <2>1. OwnReq # None => OwnReq \in Reqs
    BY Names DEF IInv, Shape, OwnReq, ActRec
  <2> QED BY <1>1, <1>2, <1>3, <1>4, <1>5, <1>6, <2>1 DEF IInv, OwnInv
<1>12. CountInv'
  BY <1>4, <1>6 DEF IInv, CountInv, InFlight, B
<1>13. ClaimInv' /\ OtherInv'
  BY <1>1, <1>2, <1>3, <1>4, <1>5, <1>6
     DEF IInv, ClaimInv, Claims, B, Polling, OtherInv, Stopping
<1>14. XferInv'
  <2>1. PostReq("cw") = act["cw"].tgt
    BY <1>1, ReqsAssumption DEF PostReq
  <2>2. rq[act["cw"].tgt].st = "issued"
    BY <1>1, ReqsAssumption, <2>1 DEF IInv, PlaceInv, Places, B
  <2>3. \A b \in Actors : b # "cw" /\ act[b].pc \in {"complete", "go"}
          /\ act[b].tgt # None =>
          act[b].tgt \in Reqs /\ act[b].tgt # act["cw"].tgt
    <3> SUFFICES ASSUME NEW b \in Actors, b # "cw", act[b].pc \in {"complete",
                        "go"}, act[b].tgt # None
                 PROVE  act[b].tgt \in Reqs /\ act[b].tgt # act["cw"].tgt
      OBVIOUS
    <3>1. act[b].tgt \in Reqs
      BY DEF IInv, Shape, ActRec
    <3>2. PostReq(b) = act[b].tgt
      BY DEF PostReq
    <3> QED BY <2>1, <3>1, <3>2, PosterNames DEF IInv, PlaceInv, Places, B
  <2> QED
    BY <1>1, <1>2, <1>3, <1>4, <1>5, <1>6, <2>2, <2>3
       DEF IInv, XferInv, Actors, Polling
<1> QED
  BY <1>7, <1>8, <1>9, <1>10, <1>11, <1>12, <1>13, <1>14 DEF IInv

(* The recovery goes on with the request it looks at. *)
LEMMA PollStays_rec ==
  ASSUME IInv, PollStep("rec"), ~AfterPoll("rec")
  PROVE  IInv'
<1>1. /\ UNCHANGED <<setup, at, claim, other, submits>>
      /\ act["rec"].pc \in Polling
      /\ act["rec"].tgt \in Reqs
      /\ card' \in CardRec
      /\ "transfer" \in card'.lied => "transfer" \in card.lied
      /\ rq' \in [Reqs -> ReqRec]
      /\ \A s \in Reqs : s # act["rec"].tgt => rq'[s] = rq[s]
      /\ rq'[act["rec"].tgt].st = rq[act["rec"].tgt].st
      /\ rq'[act["rec"].tgt].op = rq[act["rec"].tgt].op
      /\ rq'[act["rec"].tgt].err = rq[act["rec"].tgt].err
      /\ rq'[act["rec"].tgt].bad => rq[act["rec"].tgt].bad
  BY DEF PollStep, IInv, TargetInv, Actors
<1>2. \A s \in Reqs : rq'[s].st = rq[s].st /\ rq'[s].op = rq[s].op
  BY <1>1
<1>3. /\ act' \in [Actors -> ActRec]
      /\ act'["rec"].pc \in {"recover", "single"}
      /\ act'["rec"].req = act["rec"].req
      /\ act'["rec"].rw = act["rec"].rw
      /\ act'["rec"].tgt = act["rec"].tgt
      /\ act'["rec"].err = act["rec"].err
      /\ act'["disp"] = act["disp"]
      /\ act'["irq"] = act["irq"]
      /\ act'["cw"] = act["cw"]
      /\ act'["late"] = act["late"]
  BY Names DEF PollStep
<1>4. /\ mq' = mq
      /\ Total' = Total
  BY DEF PollStep, Total
<1>5. /\ AtHost' <=> AtHost
      /\ OwnCounted' <=> OwnCounted
      /\ OwnReq' = OwnReq
      /\ HostReq' = HostReq
      /\ LateReq' = LateReq
      /\ DoneReq' = DoneReq
      /\ PostReq("disp")' = PostReq("disp")
      /\ PostReq("irq")' = PostReq("irq")
      /\ PostReq("cw")' = PostReq("cw")
      /\ PostReq("rec")' = PostReq("rec")
      /\ Counted("disp")' <=> Counted("disp")
      /\ Counted("irq")' <=> Counted("irq")
      /\ Counted("cw")' <=> Counted("cw")
      /\ Counted("rec")' <=> Counted("rec")
  <2>1. AtHost' <=> AtHost
    BY <1>1, <1>2, <1>3, <1>4 DEF AtHost, IInv, Shape
  <2> QED
    BY <1>1, <1>2, <1>3, <1>4, <2>1, ReqsAssumption, NoneNames
       DEF HostReq, OwnCounted, OwnReq, DoneReq, LateReq, PostReq, Counted,
           Polling, Posting, IInv, LockInv, Locking, Rw, TargetInv
<1>6. Shape'
  BY <1>1, <1>2, <1>3, <1>4, <1>5 DEF IInv, Shape, ActRec
<1>7. PcInv' /\ ModeInv' /\ TargetInv'
  BY <1>1, <1>2, <1>3, <1>4, <1>5
     DEF IInv, PcInv, Polling, Posting, ModeInv, TargetInv, Actors
<1>8. LockInv' /\ HostInv' /\ RecoveryInv'
  BY <1>1, <1>2, <1>3, <1>4, <1>5
     DEF IInv, LockInv, Locking, Rw, Actors, Polling, Posting, HostInv, Ready,
         AtHost, RecoveryInv
<1>9. PlaceInv'
  <2> SUFFICES ASSUME NEW r \in Reqs PROVE (Places(r) = B(rq[r].st = "issued"))'
    BY DEF PlaceInv
  <2>1. Places(r) = B(rq[r].st = "issued") /\ rq'[r].st = rq[r].st /\ r # None
    BY <1>2, ReqsAssumption DEF IInv, PlaceInv
  <2> QED BY <1>3, <1>4, <1>5, <2>1 DEF Places, B
<1>10. OwnInv'
  <2>1. OwnReq # None => OwnReq \in Reqs
    BY Names DEF IInv, Shape, OwnReq, ActRec
  <2> QED BY <1>1, <1>2, <1>3, <1>4, <1>5, <2>1 DEF IInv, OwnInv
<1>11. CountInv'
  BY <1>4, <1>5 DEF IInv, CountInv, InFlight, B
<1>12. ClaimInv' /\ OtherInv'
  BY <1>1, <1>2, <1>3, <1>4, <1>5
     DEF IInv, ClaimInv, Claims, B, Polling, OtherInv, Stopping
<1>13. XferInv'
  <2>1. PostReq("rec") = act["rec"].tgt
    BY <1>1, ReqsAssumption DEF PostReq
  <2>2. rq[act["rec"].tgt].st = "issued"
    BY <1>1, ReqsAssumption, <2>1 DEF IInv, PlaceInv, Places, B
  <2>3. \A b \in Actors : b # "rec" /\ act[b].pc \in {"complete", "go"}
          /\ act[b].tgt # None =>
          act[b].tgt \in Reqs /\ act[b].tgt # act["rec"].tgt
    <3> SUFFICES ASSUME NEW b \in Actors, b # "rec",
                        act[b].pc \in {"complete", "go"}, act[b].tgt # None
                 PROVE  act[b].tgt \in Reqs /\ act[b].tgt # act["rec"].tgt
      OBVIOUS
    <3>1. act[b].tgt \in Reqs
      BY DEF IInv, Shape, ActRec
    <3>2. PostReq(b) = act[b].tgt
      BY DEF PostReq
    <3> QED BY <2>1, <3>1, <3>2, PosterNames DEF IInv, PlaceInv, Places, B
  <2> QED
    BY <1>1, <1>2, <1>3, <1>4, <1>5, <2>2, <2>3
       DEF IInv, XferInv, Actors, Polling
<1> QED
  BY <1>6, <1>7, <1>8, <1>9, <1>10, <1>11, <1>12, <1>13 DEF IInv

(* The recovery has looked at the request and posts it. *)
LEMMA PollEnds_rec ==
  ASSUME IInv, PollStep("rec"), AfterPoll("rec")
  PROVE  IInv'
<1>1. /\ UNCHANGED <<setup, at, claim, other, submits>>
      /\ act["rec"].pc \in Polling
      /\ act["rec"].tgt \in Reqs
      /\ card' \in CardRec
      /\ "transfer" \in card'.lied => "transfer" \in card.lied
      /\ rq' \in [Reqs -> ReqRec]
      /\ \A s \in Reqs : s # act["rec"].tgt => rq'[s] = rq[s]
      /\ rq'[act["rec"].tgt].st = rq[act["rec"].tgt].st
      /\ rq'[act["rec"].tgt].op = rq[act["rec"].tgt].op
      /\ rq'[act["rec"].tgt].err = rq[act["rec"].tgt].err
      /\ rq'[act["rec"].tgt].bad => rq[act["rec"].tgt].bad
  BY DEF PollStep, IInv, TargetInv, Actors
<1>2. \A s \in Reqs : rq'[s].st = rq[s].st /\ rq'[s].op = rq[s].op
  BY <1>1
<1>3. /\ act' \in [Actors -> ActRec]
      /\ act'["rec"].pc = "complete"
      /\ act'["rec"].req = act["rec"].req
      /\ act'["rec"].rw = act["rec"].rw
      /\ act'["rec"].tgt = act["rec"].tgt
      /\ act'["rec"].err = act["rec"].err
      /\ act'["disp"] = act["disp"]
      /\ act'["irq"] = act["irq"]
      /\ act'["cw"] = act["cw"]
      /\ act'["late"] = act["late"]
  <2> DEFINE x == [act["rec"] EXCEPT !.pc = "complete", !.retries = 0,
        !.error = FALSE]
  <2>1. act' = [act EXCEPT !["rec"] = x] /\ act["rec"] \in ActRec
    BY Names DEF AfterPoll, Rw, IInv, Shape
  <2>2. x \in ActRec
    <3> DEFINE n == 0  e == FALSE
    <3>1. n \in Int /\ e \in BOOLEAN
            /\ x = [act["rec"] EXCEPT !.pc = "complete", !.retries = n, !.error = e]
      OBVIOUS
    <3> HIDE DEF n, e, x
    <3> QED BY <2>1, <3>1, Names DEF ActRec
  <2>3. /\ x.pc = "complete" /\ x.req = act["rec"].req /\ x.rw = act["rec"].rw
        /\ x.tgt = act["rec"].tgt /\ x.err = act["rec"].err
    BY <2>1 DEF ActRec
  <2> HIDE DEF x
  <2> QED BY <2>1, <2>2, <2>3, ActSet, Names DEF IInv
<1>4. /\ mq' = mq
      /\ Total' = Total
  BY DEF AfterPoll, Rw, Total
<1>5. ~(rq'[act["rec"].tgt].xfer > 0 /\ rq'[act["rec"].tgt].bad)
  BY <1>3 DEF PollStep, Polling
<1>6. /\ AtHost' <=> AtHost
      /\ OwnCounted' <=> OwnCounted
      /\ OwnReq' = OwnReq
      /\ HostReq' = HostReq
      /\ LateReq' = LateReq
      /\ DoneReq' = DoneReq
      /\ PostReq("disp")' = PostReq("disp")
      /\ PostReq("irq")' = PostReq("irq")
      /\ PostReq("cw")' = PostReq("cw")
      /\ PostReq("rec")' = PostReq("rec")
      /\ Counted("disp")' <=> Counted("disp")
      /\ Counted("irq")' <=> Counted("irq")
      /\ Counted("cw")' <=> Counted("cw")
      /\ Counted("rec")' <=> Counted("rec")
  <2>1. AtHost' <=> AtHost
    BY <1>1, <1>2, <1>3, <1>4, <1>5 DEF AtHost, IInv, Shape
  <2> QED
    BY <1>1, <1>2, <1>3, <1>4, <1>5, <2>1, ReqsAssumption, NoneNames
       DEF HostReq, OwnCounted, OwnReq, DoneReq, LateReq, PostReq, Counted,
           Polling, Posting, IInv, LockInv, Locking, Rw, TargetInv
<1>7. Shape'
  BY <1>1, <1>2, <1>3, <1>4, <1>5, <1>6 DEF IInv, Shape, ActRec
<1>8. PcInv' /\ ModeInv' /\ TargetInv'
  BY <1>1, <1>2, <1>3, <1>4, <1>5, <1>6
     DEF IInv, PcInv, Polling, Posting, ModeInv, TargetInv, Actors
<1>9. LockInv' /\ HostInv' /\ RecoveryInv'
  BY <1>1, <1>2, <1>3, <1>4, <1>5, <1>6
     DEF IInv, LockInv, Locking, Rw, Actors, Polling, Posting, HostInv, Ready,
         AtHost, RecoveryInv
<1>10. PlaceInv'
  <2> SUFFICES ASSUME NEW r \in Reqs PROVE (Places(r) = B(rq[r].st = "issued"))'
    BY DEF PlaceInv
  <2>1. Places(r) = B(rq[r].st = "issued") /\ rq'[r].st = rq[r].st /\ r # None
    BY <1>2, ReqsAssumption DEF IInv, PlaceInv
  <2> QED BY <1>3, <1>4, <1>6, <2>1 DEF Places, B
<1>11. OwnInv'
  <2>1. OwnReq # None => OwnReq \in Reqs
    BY Names DEF IInv, Shape, OwnReq, ActRec
  <2> QED BY <1>1, <1>2, <1>3, <1>4, <1>5, <1>6, <2>1 DEF IInv, OwnInv
<1>12. CountInv'
  BY <1>4, <1>6 DEF IInv, CountInv, InFlight, B
<1>13. ClaimInv' /\ OtherInv'
  BY <1>1, <1>2, <1>3, <1>4, <1>5, <1>6
     DEF IInv, ClaimInv, Claims, B, Polling, OtherInv, Stopping
<1>14. XferInv'
  <2>1. PostReq("rec") = act["rec"].tgt
    BY <1>1, ReqsAssumption DEF PostReq
  <2>2. rq[act["rec"].tgt].st = "issued"
    BY <1>1, ReqsAssumption, <2>1 DEF IInv, PlaceInv, Places, B
  <2>3. \A b \in Actors : b # "rec" /\ act[b].pc \in {"complete", "go"}
          /\ act[b].tgt # None =>
          act[b].tgt \in Reqs /\ act[b].tgt # act["rec"].tgt
    <3> SUFFICES ASSUME NEW b \in Actors, b # "rec",
                        act[b].pc \in {"complete", "go"}, act[b].tgt # None
                 PROVE  act[b].tgt \in Reqs /\ act[b].tgt # act["rec"].tgt
      OBVIOUS
    <3>1. act[b].tgt \in Reqs
      BY DEF IInv, Shape, ActRec
    <3>2. PostReq(b) = act[b].tgt
      BY DEF PostReq
    <3> QED BY <2>1, <3>1, <3>2, PosterNames DEF IInv, PlaceInv, Places, B
  <2> QED
    BY <1>1, <1>2, <1>3, <1>4, <1>5, <1>6, <2>2, <2>3
       DEF IInv, XferInv, Actors, Polling
<1> QED
  BY <1>7, <1>8, <1>9, <1>10, <1>11, <1>12, <1>13, <1>14 DEF IInv

-----------------------------------------------------------------------------
(* mmc_blk_mq_post_req() completes the request in hand. *)
LEMMA CompleteEffect ==
  ASSUME IInv, NEW a \in Actors, Complete(a)
  PROVE  LET r == act[a].tgt IN
         /\ UNCHANGED <<setup, mq, at, claim, other, card, submits>>
         /\ act[a].pc = "complete" /\ r \in Reqs
         /\ act' \in [Actors -> ActRec]
         /\ act'[a].pc = "dec" /\ act'[a].req = act[a].req
         /\ act'[a].rw = act[a].rw /\ act'[a].tgt = r
         /\ act'[a].err = act[a].err
         /\ \A b \in Actors : b # a => act'[b] = act[b]
         /\ rq' \in [Reqs -> ReqRec]
         /\ \A s \in Reqs : s # r => rq'[s] = rq[s]
         /\ rq'[r].st # "issued" /\ rq'[r].op = rq[r].op
         /\ rq'[r].err = "none" /\ rq'[r].bad => rq[r].err = "none" /\ rq[r].bad
         /\ ~(rq'[r].xfer > 0 /\ rq'[r].bad)
<1> DEFINE r == act[a].tgt
<1>1. act[a].pc = "complete" /\ r \in Reqs /\ r # None /\ rq[r] \in ReqRec
  BY ReqsAssumption DEF Complete, IInv, TargetInv, Shape
<1>2. ~(rq[r].xfer > 0 /\ rq[r].bad)
  BY <1>1 DEF IInv, XferInv
<1>3. UNCHANGED <<setup, mq, at, claim, other, submits>> /\ Step(a, "dec") /\ Shape
  BY DEF Complete, IInv
<1>4. /\ act' \in [Actors -> ActRec]
      /\ act'[a].pc = "dec" /\ act'[a].req = act[a].req
      /\ act'[a].rw = act[a].rw /\ act'[a].tgt = r
      /\ act'[a].err = act[a].err
      /\ \A b \in Actors : b # a => act'[b] = act[b]
  BY <1>3, StepEffect, Names
<1>5. CASE mq.in_recovery
  <2>1. card' = card
    BY <1>2, <1>5 DEF Complete, Reported
  <2>2. rq' = [rq EXCEPT ![r] = mmc_blk_mq_complete_rq(rq[r])]
    BY <1>5 DEF Complete
  <2>3. rq'[r] = mmc_blk_mq_complete_rq(rq[r]) /\ rq' \in [Reqs -> ReqRec]
          /\ \A s \in Reqs : s # r => rq'[s] = rq[s]
    BY <1>1, <2>2, CompletedReq DEF IInv, Shape
  <2>4. /\ rq'[r].st \in {"free", "queued"} /\ rq'[r].op = rq[r].op
        /\ rq'[r].bad = FALSE
    <3>1. /\ mmc_blk_mq_complete_rq(rq[r]).st \in {"free", "queued"}
          /\ mmc_blk_mq_complete_rq(rq[r]).op = rq[r].op
          /\ mmc_blk_mq_complete_rq(rq[r]).bad = FALSE
      BY <1>1, CompletedReq, Zenon
    <3> QED BY <2>3, <3>1
  <2> QED BY <1>1, <1>3, <1>4, <2>1, <2>3, <2>4
<1>6. CASE ~mq.in_recovery
  <2>1. card' = card /\ rq' = [rq EXCEPT ![r].st = "completing"]
    BY <1>6 DEF Complete
  <2>2. /\ rq' \in [Reqs -> ReqRec] /\ rq'[r].st = "completing"
        /\ rq'[r].op = rq[r].op /\ rq'[r].err = rq[r].err
        /\ rq'[r].bad = rq[r].bad /\ rq'[r].xfer = rq[r].xfer
        /\ \A s \in Reqs : s # r => rq'[s] = rq[s]
    BY <1>1, <2>1, Names DEF IInv, Shape, ReqRec
  <2> QED BY <1>1, <1>2, <1>3, <1>4, <2>1, <2>2
<1> QED BY <1>5, <1>6

(* What the context does next, and who unlocks complete_lock. *)
LEMMA PostEffect ==
  ASSUME Shape, NEW a \in Actors, NEW q \in QueueRec, AfterPost(a, q)
  PROVE  /\ act' \in [Actors -> ActRec]
         /\ a = "disp" /\ act[a].rw /\ act[a].err = "start" => act'[a].pc = "undo"
         /\ a = "disp" /\ act[a].rw /\ act[a].err # "start" => act'[a].pc = "leave"
         /\ a = "disp" /\ ~act[a].rw => act'[a].pc = "go"
         /\ a = "rec" => act'[a].pc = "end"
         /\ a \in {"irq", "cw"} => act'[a].pc = "idle"
         /\ act'[a].req = act[a].req /\ act'[a].rw = act[a].rw
         /\ act'[a].tgt = None /\ act'[a].err = act[a].err
         /\ \A b \in Actors : b # a => act'[b] = act[b]
         /\ mq' = IF a = "cw" \/ (a = "disp" /\ ~act[a].rw)
                  THEN [q EXCEPT !.complete_req = None, !.complete_lock = None]
                  ELSE q
<1> DEFINE p == CASE Rw(a) /\ act[a].err = "start" -> "undo"
                  [] Rw(a) /\ act[a].err # "start" -> "leave"
                  [] ~Rw(a) /\ a = "disp" -> "go"
                  [] a = "rec" -> "end"
                  [] OTHER -> "idle"
           x == [act[a] EXCEPT !.pc = p, !.tgt = None]
<1>1. act[a] \in ActRec /\ act[a].rw \in BOOLEAN
  BY DEF Shape, ActRec
<1>2. Rw(a) <=> (a = "disp" /\ act[a].rw)
  BY DEF Rw
<1>3. /\ a = "disp" /\ act[a].rw /\ act[a].err = "start" => p = "undo"
      /\ a = "disp" /\ act[a].rw /\ act[a].err # "start" => p = "leave"
      /\ a = "disp" /\ ~act[a].rw => p = "go"
      /\ a = "rec" => p = "end"
      /\ a \in {"irq", "cw"} => p = "idle"
  BY <1>2
<1>4. p \in Pcs
  BY <1>3, Names DEF Actors
<1>5. act' = [act EXCEPT ![a].pc = p, ![a].tgt = None]
  BY DEF AfterPost
<1> HIDE DEF p
<1>6. act' = [act EXCEPT ![a] = x]
  BY <1>5
<1>7. /\ x \in ActRec /\ x.pc = p /\ x.tgt = None /\ x.req = act[a].req
      /\ x.rw = act[a].rw /\ x.err = act[a].err
  BY <1>1, <1>4 DEF ActRec
<1> HIDE DEF x
<1>8. /\ act' \in [Actors -> ActRec] /\ act'[a] = x
      /\ \A b \in Actors : b # a => act'[b] = act[b]
  BY <1>6, <1>7, ActSet
<1>9. mq' = IF a = "cw" \/ (a = "disp" /\ ~act[a].rw)
            THEN [q EXCEPT !.complete_req = None, !.complete_lock = None]
            ELSE q
  BY <1>2 DEF AfterPost
<1> QED BY <1>3, <1>7, <1>8, <1>9

(* mmc_blk_mq_dec_in_flight(): the count goes down by one, whatever the    *)
(* operation of the tag is by now.                                         *)
LEMMA DecEffect ==
  ASSUME IInv, NEW a \in Actors, mmc_blk_mq_dec_in_flight(a)
  PROVE  \E q \in QueueRec :
           /\ q.in_flight["SYNC"] + q.in_flight["ASYNC"] = Total - 1
           /\ q.recovery_needed = mq.recovery_needed /\ q.rw_wait = mq.rw_wait
           /\ q.complete_req = mq.complete_req
           /\ q.complete_lock = mq.complete_lock
           /\ q.recovery_req = mq.recovery_req /\ q.quiesced = mq.quiesced
           /\ q.complete_work = mq.complete_work
           /\ q.recovery_work = mq.recovery_work
           /\ Total = 1 => mq' = q /\ Step(a, "put")
           /\ Total # 1 => AfterPost(a, q)
<1> DEFINE t == mmc_issue_type(rq[act[a].tgt].op)
           f == [mq.in_flight EXCEPT ![t] = @ - 1]
           q == [mq EXCEPT !.in_flight = f]
<1>1. t \in {"SYNC", "ASYNC"} /\ Shape
  BY DEF mmc_issue_type, IInv
<1> HIDE DEF t
<1>2. f \in [{"SYNC", "ASYNC"} -> Int] /\ f["SYNC"] + f["ASYNC"] = Total - 1
  BY <1>1, CountDown
<1>3. /\ IF mmc_tot_in_flight(q) = 0 THEN mq' = q /\ Step(a, "put")
         ELSE AfterPost(a, q)
  BY DEF mmc_blk_mq_dec_in_flight, t
<1> HIDE DEF f
<1>4. /\ q \in QueueRec /\ q.in_flight = f
      /\ q.recovery_needed = mq.recovery_needed /\ q.rw_wait = mq.rw_wait
      /\ q.complete_req = mq.complete_req
      /\ q.complete_lock = mq.complete_lock
      /\ q.recovery_req = mq.recovery_req /\ q.quiesced = mq.quiesced
      /\ q.complete_work = mq.complete_work
      /\ q.recovery_work = mq.recovery_work
  BY <1>1, <1>2 DEF Shape, QueueRec
<1> HIDE DEF q
<1>5. mmc_tot_in_flight(q) = Total - 1 /\ Total \in Int
  BY <1>1, <1>2, <1>4 DEF mmc_tot_in_flight, Total, Shape, QueueRec
<1> QED BY <1>2, <1>3, <1>4, <1>5

(* The dispatcher completes the request in hand. *)
LEMMA Complete_disp ==
  ASSUME IInv, Complete("disp")
  PROVE  IInv'
<1>1. /\ UNCHANGED <<setup, mq, at, claim, other, card, submits>>
      /\ Total' = Total
      /\ act["disp"].pc = "complete"
      /\ act["disp"].tgt \in Reqs
      /\ act["disp"].tgt # None
      /\ act' \in [Actors -> ActRec]
      /\ act'["disp"].pc = "dec"
      /\ act'["disp"].req = act["disp"].req
      /\ act'["disp"].rw = act["disp"].rw
      /\ act'["disp"].tgt = act["disp"].tgt
      /\ act'["disp"].err = act["disp"].err
      /\ act'["irq"] = act["irq"]
      /\ act'["cw"] = act["cw"]
      /\ act'["rec"] = act["rec"]
      /\ act'["late"] = act["late"]
      /\ rq' \in [Reqs -> ReqRec]
      /\ \A s \in Reqs : s # act["disp"].tgt => rq'[s] = rq[s]
      /\ rq'[act["disp"].tgt].st # "issued"
      /\ rq'[act["disp"].tgt].op = rq[act["disp"].tgt].op
      /\ rq'[act["disp"].tgt].err = "none" /\ rq'[act["disp"].tgt].bad =>
           rq[act["disp"].tgt].err = "none" /\ rq[act["disp"].tgt].bad
      /\ ~(rq'[act["disp"].tgt].xfer > 0 /\ rq'[act["disp"].tgt].bad)
  BY CompleteEffect, Names, ReqsAssumption DEF Total
<1>2. \A s \in Reqs : rq'[s].op = rq[s].op
  BY <1>1
<1>3. /\ AtHost' <=> AtHost
      /\ OwnCounted' <=> OwnCounted
      /\ OwnReq' = OwnReq
      /\ HostReq' = HostReq
      /\ LateReq' = LateReq
      /\ DoneReq' = DoneReq
      /\ PostReq("disp") = act["disp"].tgt
      /\ PostReq("disp")' = None
      /\ PostReq("irq")' = PostReq("irq")
      /\ PostReq("cw")' = PostReq("cw")
      /\ PostReq("rec")' = PostReq("rec")
      /\ Counted("disp")' <=> Counted("disp")
      /\ Counted("irq")' <=> Counted("irq")
      /\ Counted("cw")' <=> Counted("cw")
      /\ Counted("rec")' <=> Counted("rec")
  <2>1. AtHost' <=> AtHost
    BY <1>1, <1>2 DEF AtHost, IInv, Shape
  <2> QED
    BY <1>1, <2>1
       DEF HostReq, OwnCounted, OwnReq, DoneReq, LateReq, PostReq, Counted, Polling,
           Posting
<1>4. Shape'
  BY <1>1, <1>2, <1>3 DEF IInv, Shape, ActRec
<1>5. PcInv' /\ ModeInv' /\ TargetInv'
  BY <1>1, <1>2, <1>3
     DEF IInv, PcInv, Polling, Posting, ModeInv, TargetInv, Actors
<1>6. LockInv' /\ HostInv' /\ RecoveryInv'
  BY <1>1, <1>2, <1>3
     DEF IInv, LockInv, Locking, Rw, Actors, Polling, Posting, HostInv, Ready,
         AtHost, RecoveryInv
<1>7. PlaceInv'
  <2> SUFFICES ASSUME NEW r \in Reqs PROVE (Places(r) = B(rq[r].st = "issued"))'
    BY DEF PlaceInv
  <2>1. Places(r) = B(rq[r].st = "issued") /\ r # None
    BY ReqsAssumption DEF IInv, PlaceInv
  <2> QED BY <1>1, <1>3, <2>1 DEF Places, B
<1>8. OwnInv'
  <2>1. OwnReq # None => OwnReq \in Reqs
    BY Names DEF IInv, Shape, OwnReq, ActRec
  <2> QED BY <1>1, <1>2, <1>3, <2>1 DEF IInv, OwnInv
<1>9. CountInv'
  BY <1>1, <1>3 DEF IInv, CountInv, InFlight, B
<1>10. ClaimInv' /\ OtherInv'
  BY <1>1, <1>2, <1>3 DEF IInv, ClaimInv, Claims, B, OtherInv, Stopping
<1>11. XferInv'
  <2>1. PostReq("disp") = act["disp"].tgt
    BY <1>1, ReqsAssumption DEF PostReq
  <2>2. rq[act["disp"].tgt].st = "issued"
    BY <1>1, ReqsAssumption, <2>1 DEF IInv, PlaceInv, Places, B
  <2>3. \A b \in Actors : b # "disp" /\ act[b].pc \in {"complete", "go"}
          /\ act[b].tgt # None =>
          act[b].tgt \in Reqs /\ act[b].tgt # act["disp"].tgt
    <3> SUFFICES ASSUME NEW b \in Actors, b # "disp",
                        act[b].pc \in {"complete", "go"}, act[b].tgt # None
                 PROVE  act[b].tgt \in Reqs /\ act[b].tgt # act["disp"].tgt
      OBVIOUS
    <3>1. act[b].tgt \in Reqs
      BY DEF IInv, Shape, ActRec
    <3>2. PostReq(b) = act[b].tgt
      BY DEF PostReq
    <3> QED BY <2>1, <3>1, <3>2, PosterNames DEF IInv, PlaceInv, Places, B
  <2> QED
    BY <1>1, <1>2, <1>3, <2>2, <2>3
       DEF IInv, XferInv, Actors, Polling
<1> QED
  BY <1>4, <1>5, <1>6, <1>7, <1>8, <1>9, <1>10, <1>11 DEF IInv

(* The host driver's call completes the request in hand. *)
LEMMA Complete_irq ==
  ASSUME IInv, Complete("irq")
  PROVE  IInv'
<1>1. /\ UNCHANGED <<setup, mq, at, claim, other, card, submits>>
      /\ Total' = Total
      /\ act["irq"].pc = "complete"
      /\ act["irq"].tgt \in Reqs
      /\ act["irq"].tgt # None
      /\ act' \in [Actors -> ActRec]
      /\ act'["irq"].pc = "dec"
      /\ act'["irq"].req = act["irq"].req
      /\ act'["irq"].rw = act["irq"].rw
      /\ act'["irq"].tgt = act["irq"].tgt
      /\ act'["irq"].err = act["irq"].err
      /\ act'["disp"] = act["disp"]
      /\ act'["cw"] = act["cw"]
      /\ act'["rec"] = act["rec"]
      /\ act'["late"] = act["late"]
      /\ rq' \in [Reqs -> ReqRec]
      /\ \A s \in Reqs : s # act["irq"].tgt => rq'[s] = rq[s]
      /\ rq'[act["irq"].tgt].st # "issued"
      /\ rq'[act["irq"].tgt].op = rq[act["irq"].tgt].op
      /\ rq'[act["irq"].tgt].err = "none" /\ rq'[act["irq"].tgt].bad =>
           rq[act["irq"].tgt].err = "none" /\ rq[act["irq"].tgt].bad
      /\ ~(rq'[act["irq"].tgt].xfer > 0 /\ rq'[act["irq"].tgt].bad)
  BY CompleteEffect, Names, ReqsAssumption DEF Total
<1>2. \A s \in Reqs : rq'[s].op = rq[s].op
  BY <1>1
<1>3. /\ AtHost' <=> AtHost
      /\ OwnCounted' <=> OwnCounted
      /\ OwnReq' = OwnReq
      /\ HostReq' = HostReq
      /\ LateReq' = LateReq
      /\ DoneReq' = DoneReq
      /\ PostReq("irq") = act["irq"].tgt
      /\ PostReq("irq")' = None
      /\ PostReq("disp")' = PostReq("disp")
      /\ PostReq("cw")' = PostReq("cw")
      /\ PostReq("rec")' = PostReq("rec")
      /\ Counted("disp")' <=> Counted("disp")
      /\ Counted("irq")' <=> Counted("irq")
      /\ Counted("cw")' <=> Counted("cw")
      /\ Counted("rec")' <=> Counted("rec")
  <2>1. AtHost' <=> AtHost
    BY <1>1, <1>2 DEF AtHost, IInv, Shape
  <2> QED
    BY <1>1, <2>1
       DEF HostReq, OwnCounted, OwnReq, DoneReq, LateReq, PostReq, Counted, Polling,
           Posting
<1>4. Shape'
  BY <1>1, <1>2, <1>3 DEF IInv, Shape, ActRec
<1>5. PcInv' /\ ModeInv' /\ TargetInv'
  BY <1>1, <1>2, <1>3
     DEF IInv, PcInv, Polling, Posting, ModeInv, TargetInv, Actors
<1>6. LockInv' /\ HostInv' /\ RecoveryInv'
  BY <1>1, <1>2, <1>3
     DEF IInv, LockInv, Locking, Rw, Actors, Polling, Posting, HostInv, Ready,
         AtHost, RecoveryInv
<1>7. PlaceInv'
  <2> SUFFICES ASSUME NEW r \in Reqs PROVE (Places(r) = B(rq[r].st = "issued"))'
    BY DEF PlaceInv
  <2>1. Places(r) = B(rq[r].st = "issued") /\ r # None
    BY ReqsAssumption DEF IInv, PlaceInv
  <2> QED BY <1>1, <1>3, <2>1 DEF Places, B
<1>8. OwnInv'
  <2>1. OwnReq # None => OwnReq \in Reqs
    BY Names DEF IInv, Shape, OwnReq, ActRec
  <2> QED BY <1>1, <1>2, <1>3, <2>1 DEF IInv, OwnInv
<1>9. CountInv'
  BY <1>1, <1>3 DEF IInv, CountInv, InFlight, B
<1>10. ClaimInv' /\ OtherInv'
  BY <1>1, <1>2, <1>3 DEF IInv, ClaimInv, Claims, B, OtherInv, Stopping
<1>11. XferInv'
  <2>1. PostReq("irq") = act["irq"].tgt
    BY <1>1, ReqsAssumption DEF PostReq
  <2>2. rq[act["irq"].tgt].st = "issued"
    BY <1>1, ReqsAssumption, <2>1 DEF IInv, PlaceInv, Places, B
  <2>3. \A b \in Actors : b # "irq" /\ act[b].pc \in {"complete", "go"}
          /\ act[b].tgt # None =>
          act[b].tgt \in Reqs /\ act[b].tgt # act["irq"].tgt
    <3> SUFFICES ASSUME NEW b \in Actors, b # "irq",
                        act[b].pc \in {"complete", "go"}, act[b].tgt # None
                 PROVE  act[b].tgt \in Reqs /\ act[b].tgt # act["irq"].tgt
      OBVIOUS
    <3>1. act[b].tgt \in Reqs
      BY DEF IInv, Shape, ActRec
    <3>2. PostReq(b) = act[b].tgt
      BY DEF PostReq
    <3> QED BY <2>1, <3>1, <3>2, PosterNames DEF IInv, PlaceInv, Places, B
  <2> QED
    BY <1>1, <1>2, <1>3, <2>2, <2>3
       DEF IInv, XferInv, Actors, Polling
<1> QED
  BY <1>4, <1>5, <1>6, <1>7, <1>8, <1>9, <1>10, <1>11 DEF IInv

(* complete_work completes the request in hand. *)
LEMMA Complete_cw ==
  ASSUME IInv, Complete("cw")
  PROVE  IInv'
<1>1. /\ UNCHANGED <<setup, mq, at, claim, other, card, submits>>
      /\ Total' = Total
      /\ act["cw"].pc = "complete"
      /\ act["cw"].tgt \in Reqs
      /\ act["cw"].tgt # None
      /\ act' \in [Actors -> ActRec]
      /\ act'["cw"].pc = "dec"
      /\ act'["cw"].req = act["cw"].req
      /\ act'["cw"].rw = act["cw"].rw
      /\ act'["cw"].tgt = act["cw"].tgt
      /\ act'["cw"].err = act["cw"].err
      /\ act'["disp"] = act["disp"]
      /\ act'["irq"] = act["irq"]
      /\ act'["rec"] = act["rec"]
      /\ act'["late"] = act["late"]
      /\ rq' \in [Reqs -> ReqRec]
      /\ \A s \in Reqs : s # act["cw"].tgt => rq'[s] = rq[s]
      /\ rq'[act["cw"].tgt].st # "issued"
      /\ rq'[act["cw"].tgt].op = rq[act["cw"].tgt].op
      /\ rq'[act["cw"].tgt].err = "none" /\ rq'[act["cw"].tgt].bad =>
           rq[act["cw"].tgt].err = "none" /\ rq[act["cw"].tgt].bad
      /\ ~(rq'[act["cw"].tgt].xfer > 0 /\ rq'[act["cw"].tgt].bad)
  BY CompleteEffect, Names, ReqsAssumption DEF Total
<1>2. \A s \in Reqs : rq'[s].op = rq[s].op
  BY <1>1
<1>3. /\ AtHost' <=> AtHost
      /\ OwnCounted' <=> OwnCounted
      /\ OwnReq' = OwnReq
      /\ HostReq' = HostReq
      /\ LateReq' = LateReq
      /\ DoneReq' = DoneReq
      /\ PostReq("cw") = act["cw"].tgt
      /\ PostReq("cw")' = None
      /\ PostReq("disp")' = PostReq("disp")
      /\ PostReq("irq")' = PostReq("irq")
      /\ PostReq("rec")' = PostReq("rec")
      /\ Counted("disp")' <=> Counted("disp")
      /\ Counted("irq")' <=> Counted("irq")
      /\ Counted("cw")' <=> Counted("cw")
      /\ Counted("rec")' <=> Counted("rec")
  <2>1. AtHost' <=> AtHost
    BY <1>1, <1>2 DEF AtHost, IInv, Shape
  <2> QED
    BY <1>1, <2>1
       DEF HostReq, OwnCounted, OwnReq, DoneReq, LateReq, PostReq, Counted, Polling,
           Posting
<1>4. Shape'
  BY <1>1, <1>2, <1>3 DEF IInv, Shape, ActRec
<1>5. PcInv' /\ ModeInv' /\ TargetInv'
  BY <1>1, <1>2, <1>3
     DEF IInv, PcInv, Polling, Posting, ModeInv, TargetInv, Actors
<1>6. LockInv' /\ HostInv' /\ RecoveryInv'
  BY <1>1, <1>2, <1>3
     DEF IInv, LockInv, Locking, Rw, Actors, Polling, Posting, HostInv, Ready,
         AtHost, RecoveryInv
<1>7. PlaceInv'
  <2> SUFFICES ASSUME NEW r \in Reqs PROVE (Places(r) = B(rq[r].st = "issued"))'
    BY DEF PlaceInv
  <2>1. Places(r) = B(rq[r].st = "issued") /\ r # None
    BY ReqsAssumption DEF IInv, PlaceInv
  <2> QED BY <1>1, <1>3, <2>1 DEF Places, B
<1>8. OwnInv'
  <2>1. OwnReq # None => OwnReq \in Reqs
    BY Names DEF IInv, Shape, OwnReq, ActRec
  <2> QED BY <1>1, <1>2, <1>3, <2>1 DEF IInv, OwnInv
<1>9. CountInv'
  BY <1>1, <1>3 DEF IInv, CountInv, InFlight, B
<1>10. ClaimInv' /\ OtherInv'
  BY <1>1, <1>2, <1>3 DEF IInv, ClaimInv, Claims, B, OtherInv, Stopping
<1>11. XferInv'
  <2>1. PostReq("cw") = act["cw"].tgt
    BY <1>1, ReqsAssumption DEF PostReq
  <2>2. rq[act["cw"].tgt].st = "issued"
    BY <1>1, ReqsAssumption, <2>1 DEF IInv, PlaceInv, Places, B
  <2>3. \A b \in Actors : b # "cw" /\ act[b].pc \in {"complete", "go"}
          /\ act[b].tgt # None =>
          act[b].tgt \in Reqs /\ act[b].tgt # act["cw"].tgt
    <3> SUFFICES ASSUME NEW b \in Actors, b # "cw", act[b].pc \in {"complete",
                        "go"}, act[b].tgt # None
                 PROVE  act[b].tgt \in Reqs /\ act[b].tgt # act["cw"].tgt
      OBVIOUS
    <3>1. act[b].tgt \in Reqs
      BY DEF IInv, Shape, ActRec
    <3>2. PostReq(b) = act[b].tgt
      BY DEF PostReq
    <3> QED BY <2>1, <3>1, <3>2, PosterNames DEF IInv, PlaceInv, Places, B
  <2> QED
    BY <1>1, <1>2, <1>3, <2>2, <2>3
       DEF IInv, XferInv, Actors, Polling
<1> QED
  BY <1>4, <1>5, <1>6, <1>7, <1>8, <1>9, <1>10, <1>11 DEF IInv

(* The recovery completes the request in hand. *)
LEMMA Complete_rec ==
  ASSUME IInv, Complete("rec")
  PROVE  IInv'
<1>1. /\ UNCHANGED <<setup, mq, at, claim, other, card, submits>>
      /\ Total' = Total
      /\ act["rec"].pc = "complete"
      /\ act["rec"].tgt \in Reqs
      /\ act["rec"].tgt # None
      /\ act' \in [Actors -> ActRec]
      /\ act'["rec"].pc = "dec"
      /\ act'["rec"].req = act["rec"].req
      /\ act'["rec"].rw = act["rec"].rw
      /\ act'["rec"].tgt = act["rec"].tgt
      /\ act'["rec"].err = act["rec"].err
      /\ act'["disp"] = act["disp"]
      /\ act'["irq"] = act["irq"]
      /\ act'["cw"] = act["cw"]
      /\ act'["late"] = act["late"]
      /\ rq' \in [Reqs -> ReqRec]
      /\ \A s \in Reqs : s # act["rec"].tgt => rq'[s] = rq[s]
      /\ rq'[act["rec"].tgt].st # "issued"
      /\ rq'[act["rec"].tgt].op = rq[act["rec"].tgt].op
      /\ rq'[act["rec"].tgt].err = "none" /\ rq'[act["rec"].tgt].bad =>
           rq[act["rec"].tgt].err = "none" /\ rq[act["rec"].tgt].bad
      /\ ~(rq'[act["rec"].tgt].xfer > 0 /\ rq'[act["rec"].tgt].bad)
  BY CompleteEffect, Names, ReqsAssumption DEF Total
<1>2. \A s \in Reqs : rq'[s].op = rq[s].op
  BY <1>1
<1>3. /\ AtHost' <=> AtHost
      /\ OwnCounted' <=> OwnCounted
      /\ OwnReq' = OwnReq
      /\ HostReq' = HostReq
      /\ LateReq' = LateReq
      /\ DoneReq' = DoneReq
      /\ PostReq("rec") = act["rec"].tgt
      /\ PostReq("rec")' = None
      /\ PostReq("disp")' = PostReq("disp")
      /\ PostReq("irq")' = PostReq("irq")
      /\ PostReq("cw")' = PostReq("cw")
      /\ Counted("disp")' <=> Counted("disp")
      /\ Counted("irq")' <=> Counted("irq")
      /\ Counted("cw")' <=> Counted("cw")
      /\ Counted("rec")' <=> Counted("rec")
  <2>1. AtHost' <=> AtHost
    BY <1>1, <1>2 DEF AtHost, IInv, Shape
  <2> QED
    BY <1>1, <2>1
       DEF HostReq, OwnCounted, OwnReq, DoneReq, LateReq, PostReq, Counted, Polling,
           Posting
<1>4. Shape'
  BY <1>1, <1>2, <1>3 DEF IInv, Shape, ActRec
<1>5. PcInv' /\ ModeInv' /\ TargetInv'
  BY <1>1, <1>2, <1>3
     DEF IInv, PcInv, Polling, Posting, ModeInv, TargetInv, Actors
<1>6. LockInv' /\ HostInv' /\ RecoveryInv'
  BY <1>1, <1>2, <1>3
     DEF IInv, LockInv, Locking, Rw, Actors, Polling, Posting, HostInv, Ready,
         AtHost, RecoveryInv
<1>7. PlaceInv'
  <2> SUFFICES ASSUME NEW r \in Reqs PROVE (Places(r) = B(rq[r].st = "issued"))'
    BY DEF PlaceInv
  <2>1. Places(r) = B(rq[r].st = "issued") /\ r # None
    BY ReqsAssumption DEF IInv, PlaceInv
  <2> QED BY <1>1, <1>3, <2>1 DEF Places, B
<1>8. OwnInv'
  <2>1. OwnReq # None => OwnReq \in Reqs
    BY Names DEF IInv, Shape, OwnReq, ActRec
  <2> QED BY <1>1, <1>2, <1>3, <2>1 DEF IInv, OwnInv
<1>9. CountInv'
  BY <1>1, <1>3 DEF IInv, CountInv, InFlight, B
<1>10. ClaimInv' /\ OtherInv'
  BY <1>1, <1>2, <1>3 DEF IInv, ClaimInv, Claims, B, OtherInv, Stopping
<1>11. XferInv'
  <2>1. PostReq("rec") = act["rec"].tgt
    BY <1>1, ReqsAssumption DEF PostReq
  <2>2. rq[act["rec"].tgt].st = "issued"
    BY <1>1, ReqsAssumption, <2>1 DEF IInv, PlaceInv, Places, B
  <2>3. \A b \in Actors : b # "rec" /\ act[b].pc \in {"complete", "go"}
          /\ act[b].tgt # None =>
          act[b].tgt \in Reqs /\ act[b].tgt # act["rec"].tgt
    <3> SUFFICES ASSUME NEW b \in Actors, b # "rec",
                        act[b].pc \in {"complete", "go"}, act[b].tgt # None
                 PROVE  act[b].tgt \in Reqs /\ act[b].tgt # act["rec"].tgt
      OBVIOUS
    <3>1. act[b].tgt \in Reqs
      BY DEF IInv, Shape, ActRec
    <3>2. PostReq(b) = act[b].tgt
      BY DEF PostReq
    <3> QED BY <2>1, <3>1, <3>2, PosterNames DEF IInv, PlaceInv, Places, B
  <2> QED
    BY <1>1, <1>2, <1>3, <2>2, <2>3
       DEF IInv, XferInv, Actors, Polling
<1> QED
  BY <1>4, <1>5, <1>6, <1>7, <1>8, <1>9, <1>10, <1>11 DEF IInv

(* The dispatcher counts the last request down. *)
LEMMA DecLast_disp ==
  ASSUME IInv, mmc_blk_mq_dec_in_flight("disp"), Total = 1
  PROVE  IInv'
<1>1. /\ UNCHANGED <<setup, rq, at, claim, other, card, submits>>
      /\ act["disp"].pc = "dec"
      /\ act["disp"].tgt \in Reqs
  BY Names DEF mmc_blk_mq_dec_in_flight, IInv, TargetInv
<1>2. /\ Total \in Nat
      /\ Total > 0
      /\ act["disp"].pc # "claim"
  <2>1. Counted("disp")
    BY <1>1 DEF Counted
  <2> QED
    BY <2>1 DEF IInv, CountInv, InFlight, B, ClaimInv, OwnCounted, Counted
<1>3. /\ mq' \in QueueRec
      /\ Total' = Total - 1
      /\ mq'.recovery_needed = mq.recovery_needed
      /\ mq'.rw_wait = mq.rw_wait
      /\ mq'.complete_req = mq.complete_req
      /\ mq'.complete_lock = mq.complete_lock
      /\ mq'.recovery_req = mq.recovery_req
      /\ mq'.quiesced = mq.quiesced
      /\ mq'.complete_work = mq.complete_work
      /\ mq'.recovery_work = mq.recovery_work
      /\ act' \in [Actors -> ActRec]
      /\ act'["disp"].pc = "put"
      /\ act'["disp"].req = act["disp"].req
      /\ act'["disp"].rw = act["disp"].rw
      /\ act'["disp"].tgt = act["disp"].tgt
      /\ act'["disp"].err = act["disp"].err
      /\ act'["irq"] = act["irq"]
      /\ act'["cw"] = act["cw"]
      /\ act'["rec"] = act["rec"]
      /\ act'["late"] = act["late"]
  <2>1. PICK q \in QueueRec :
           /\ q.in_flight["SYNC"] + q.in_flight["ASYNC"] = Total - 1
           /\ q.recovery_needed = mq.recovery_needed /\ q.rw_wait = mq.rw_wait
           /\ q.complete_req = mq.complete_req
           /\ q.complete_lock = mq.complete_lock
           /\ q.recovery_req = mq.recovery_req /\ q.quiesced = mq.quiesced
           /\ q.complete_work = mq.complete_work
           /\ q.recovery_work = mq.recovery_work
           /\ Total = 1 => mq' = q /\ Step("disp", "put")
           /\ Total # 1 => AfterPost("disp", q)
    BY DecEffect, Names
  <2>2. mq' = q /\ Step("disp", "put")
    BY <2>1
  <2> QED BY <2>1, <2>2, StepEffect, Names DEF IInv, Total, mmc_tot_in_flight
<1>4. Shape'
  BY <1>1, <1>2, <1>3 DEF IInv, Shape, ActRec
<1>5. PcInv' /\ ModeInv' /\ TargetInv'
  BY <1>1, <1>2, <1>3
     DEF IInv, PcInv, Polling, Posting, ModeInv, TargetInv, Actors
<1>6. LockInv' /\ HostInv' /\ RecoveryInv'
  BY <1>1, <1>2, <1>3
     DEF IInv, LockInv, Locking, Rw, Actors, Polling, Posting, HostInv, Ready,
         AtHost, RecoveryInv
<1>7. PlaceInv'
  BY <1>1, <1>2, <1>3
     DEF IInv, PlaceInv, Places, B, OwnReq, OwnCounted, HostReq, AtHost,
         DoneReq, LateReq, PostReq, Polling, Posting
<1>8. OwnInv'
  BY <1>1, <1>2, <1>3 DEF IInv, OwnInv, OwnReq, OwnCounted, Polling, Posting
<1>9. CountInv'
  BY <1>1, <1>2, <1>3
     DEF IInv, CountInv, InFlight, B, OwnCounted, AtHost, DoneReq, Counted,
         Polling, Posting
<1>10. ClaimInv' /\ OtherInv' /\ XferInv'
  BY <1>1, <1>2, <1>3
     DEF IInv, ClaimInv, Claims, B, OtherInv, Stopping, XferInv,
         Actors
<1> QED
  BY <1>4, <1>5, <1>6, <1>7, <1>8, <1>9, <1>10 DEF IInv

(* The host driver's call counts the last request down. *)
LEMMA DecLast_irq ==
  ASSUME IInv, mmc_blk_mq_dec_in_flight("irq"), Total = 1
  PROVE  IInv'
<1>1. /\ UNCHANGED <<setup, rq, at, claim, other, card, submits>>
      /\ act["irq"].pc = "dec"
      /\ act["irq"].tgt \in Reqs
  BY Names DEF mmc_blk_mq_dec_in_flight, IInv, TargetInv
<1>2. /\ Total \in Nat
      /\ Total > 0
      /\ act["disp"].pc # "claim"
  <2>1. Counted("irq")
    BY <1>1 DEF Counted
  <2> QED
    BY <2>1 DEF IInv, CountInv, InFlight, B, ClaimInv, OwnCounted, Counted
<1>3. /\ mq' \in QueueRec
      /\ Total' = Total - 1
      /\ mq'.recovery_needed = mq.recovery_needed
      /\ mq'.rw_wait = mq.rw_wait
      /\ mq'.complete_req = mq.complete_req
      /\ mq'.complete_lock = mq.complete_lock
      /\ mq'.recovery_req = mq.recovery_req
      /\ mq'.quiesced = mq.quiesced
      /\ mq'.complete_work = mq.complete_work
      /\ mq'.recovery_work = mq.recovery_work
      /\ act' \in [Actors -> ActRec]
      /\ act'["irq"].pc = "put"
      /\ act'["irq"].req = act["irq"].req
      /\ act'["irq"].rw = act["irq"].rw
      /\ act'["irq"].tgt = act["irq"].tgt
      /\ act'["irq"].err = act["irq"].err
      /\ act'["disp"] = act["disp"]
      /\ act'["cw"] = act["cw"]
      /\ act'["rec"] = act["rec"]
      /\ act'["late"] = act["late"]
  <2>1. PICK q \in QueueRec :
           /\ q.in_flight["SYNC"] + q.in_flight["ASYNC"] = Total - 1
           /\ q.recovery_needed = mq.recovery_needed /\ q.rw_wait = mq.rw_wait
           /\ q.complete_req = mq.complete_req
           /\ q.complete_lock = mq.complete_lock
           /\ q.recovery_req = mq.recovery_req /\ q.quiesced = mq.quiesced
           /\ q.complete_work = mq.complete_work
           /\ q.recovery_work = mq.recovery_work
           /\ Total = 1 => mq' = q /\ Step("irq", "put")
           /\ Total # 1 => AfterPost("irq", q)
    BY DecEffect, Names
  <2>2. mq' = q /\ Step("irq", "put")
    BY <2>1
  <2> QED BY <2>1, <2>2, StepEffect, Names DEF IInv, Total, mmc_tot_in_flight
<1>4. Shape'
  BY <1>1, <1>2, <1>3 DEF IInv, Shape, ActRec
<1>5. PcInv' /\ ModeInv' /\ TargetInv'
  BY <1>1, <1>2, <1>3
     DEF IInv, PcInv, Polling, Posting, ModeInv, TargetInv, Actors
<1>6. LockInv' /\ HostInv' /\ RecoveryInv'
  BY <1>1, <1>2, <1>3
     DEF IInv, LockInv, Locking, Rw, Actors, Polling, Posting, HostInv, Ready,
         AtHost, RecoveryInv
<1>7. PlaceInv'
  BY <1>1, <1>2, <1>3
     DEF IInv, PlaceInv, Places, B, OwnReq, OwnCounted, HostReq, AtHost,
         DoneReq, LateReq, PostReq, Polling, Posting
<1>8. OwnInv'
  BY <1>1, <1>2, <1>3 DEF IInv, OwnInv, OwnReq, OwnCounted, Polling, Posting
<1>9. CountInv'
  BY <1>1, <1>2, <1>3
     DEF IInv, CountInv, InFlight, B, OwnCounted, AtHost, DoneReq, Counted,
         Polling, Posting
<1>10. ClaimInv' /\ OtherInv' /\ XferInv'
  BY <1>1, <1>2, <1>3
     DEF IInv, ClaimInv, Claims, B, OtherInv, Stopping, XferInv,
         Actors
<1> QED
  BY <1>4, <1>5, <1>6, <1>7, <1>8, <1>9, <1>10 DEF IInv

(* complete_work counts the last request down. *)
LEMMA DecLast_cw ==
  ASSUME IInv, mmc_blk_mq_dec_in_flight("cw"), Total = 1
  PROVE  IInv'
<1>1. /\ UNCHANGED <<setup, rq, at, claim, other, card, submits>>
      /\ act["cw"].pc = "dec"
      /\ act["cw"].tgt \in Reqs
  BY Names DEF mmc_blk_mq_dec_in_flight, IInv, TargetInv
<1>2. /\ Total \in Nat
      /\ Total > 0
      /\ act["disp"].pc # "claim"
  <2>1. Counted("cw")
    BY <1>1 DEF Counted
  <2> QED
    BY <2>1 DEF IInv, CountInv, InFlight, B, ClaimInv, OwnCounted, Counted
<1>3. /\ mq' \in QueueRec
      /\ Total' = Total - 1
      /\ mq'.recovery_needed = mq.recovery_needed
      /\ mq'.rw_wait = mq.rw_wait
      /\ mq'.complete_req = mq.complete_req
      /\ mq'.complete_lock = mq.complete_lock
      /\ mq'.recovery_req = mq.recovery_req
      /\ mq'.quiesced = mq.quiesced
      /\ mq'.complete_work = mq.complete_work
      /\ mq'.recovery_work = mq.recovery_work
      /\ act' \in [Actors -> ActRec]
      /\ act'["cw"].pc = "put"
      /\ act'["cw"].req = act["cw"].req
      /\ act'["cw"].rw = act["cw"].rw
      /\ act'["cw"].tgt = act["cw"].tgt
      /\ act'["cw"].err = act["cw"].err
      /\ act'["disp"] = act["disp"]
      /\ act'["irq"] = act["irq"]
      /\ act'["rec"] = act["rec"]
      /\ act'["late"] = act["late"]
  <2>1. PICK q \in QueueRec :
           /\ q.in_flight["SYNC"] + q.in_flight["ASYNC"] = Total - 1
           /\ q.recovery_needed = mq.recovery_needed /\ q.rw_wait = mq.rw_wait
           /\ q.complete_req = mq.complete_req
           /\ q.complete_lock = mq.complete_lock
           /\ q.recovery_req = mq.recovery_req /\ q.quiesced = mq.quiesced
           /\ q.complete_work = mq.complete_work
           /\ q.recovery_work = mq.recovery_work
           /\ Total = 1 => mq' = q /\ Step("cw", "put")
           /\ Total # 1 => AfterPost("cw", q)
    BY DecEffect, Names
  <2>2. mq' = q /\ Step("cw", "put")
    BY <2>1
  <2> QED BY <2>1, <2>2, StepEffect, Names DEF IInv, Total, mmc_tot_in_flight
<1>4. Shape'
  BY <1>1, <1>2, <1>3 DEF IInv, Shape, ActRec
<1>5. PcInv' /\ ModeInv' /\ TargetInv'
  BY <1>1, <1>2, <1>3
     DEF IInv, PcInv, Polling, Posting, ModeInv, TargetInv, Actors
<1>6. LockInv' /\ HostInv' /\ RecoveryInv'
  BY <1>1, <1>2, <1>3
     DEF IInv, LockInv, Locking, Rw, Actors, Polling, Posting, HostInv, Ready,
         AtHost, RecoveryInv
<1>7. PlaceInv'
  BY <1>1, <1>2, <1>3
     DEF IInv, PlaceInv, Places, B, OwnReq, OwnCounted, HostReq, AtHost,
         DoneReq, LateReq, PostReq, Polling, Posting
<1>8. OwnInv'
  BY <1>1, <1>2, <1>3 DEF IInv, OwnInv, OwnReq, OwnCounted, Polling, Posting
<1>9. CountInv'
  BY <1>1, <1>2, <1>3
     DEF IInv, CountInv, InFlight, B, OwnCounted, AtHost, DoneReq, Counted,
         Polling, Posting
<1>10. ClaimInv' /\ OtherInv' /\ XferInv'
  BY <1>1, <1>2, <1>3
     DEF IInv, ClaimInv, Claims, B, OtherInv, Stopping, XferInv,
         Actors
<1> QED
  BY <1>4, <1>5, <1>6, <1>7, <1>8, <1>9, <1>10 DEF IInv

(* The recovery counts the last request down. *)
LEMMA DecLast_rec ==
  ASSUME IInv, mmc_blk_mq_dec_in_flight("rec"), Total = 1
  PROVE  IInv'
<1>1. /\ UNCHANGED <<setup, rq, at, claim, other, card, submits>>
      /\ act["rec"].pc = "dec"
      /\ act["rec"].tgt \in Reqs
  BY Names DEF mmc_blk_mq_dec_in_flight, IInv, TargetInv
<1>2. /\ Total \in Nat
      /\ Total > 0
      /\ act["disp"].pc # "claim"
  <2>1. Counted("rec")
    BY <1>1 DEF Counted
  <2> QED
    BY <2>1 DEF IInv, CountInv, InFlight, B, ClaimInv, OwnCounted, Counted
<1>3. /\ mq' \in QueueRec
      /\ Total' = Total - 1
      /\ mq'.recovery_needed = mq.recovery_needed
      /\ mq'.rw_wait = mq.rw_wait
      /\ mq'.complete_req = mq.complete_req
      /\ mq'.complete_lock = mq.complete_lock
      /\ mq'.recovery_req = mq.recovery_req
      /\ mq'.quiesced = mq.quiesced
      /\ mq'.complete_work = mq.complete_work
      /\ mq'.recovery_work = mq.recovery_work
      /\ act' \in [Actors -> ActRec]
      /\ act'["rec"].pc = "put"
      /\ act'["rec"].req = act["rec"].req
      /\ act'["rec"].rw = act["rec"].rw
      /\ act'["rec"].tgt = act["rec"].tgt
      /\ act'["rec"].err = act["rec"].err
      /\ act'["disp"] = act["disp"]
      /\ act'["irq"] = act["irq"]
      /\ act'["cw"] = act["cw"]
      /\ act'["late"] = act["late"]
  <2>1. PICK q \in QueueRec :
           /\ q.in_flight["SYNC"] + q.in_flight["ASYNC"] = Total - 1
           /\ q.recovery_needed = mq.recovery_needed /\ q.rw_wait = mq.rw_wait
           /\ q.complete_req = mq.complete_req
           /\ q.complete_lock = mq.complete_lock
           /\ q.recovery_req = mq.recovery_req /\ q.quiesced = mq.quiesced
           /\ q.complete_work = mq.complete_work
           /\ q.recovery_work = mq.recovery_work
           /\ Total = 1 => mq' = q /\ Step("rec", "put")
           /\ Total # 1 => AfterPost("rec", q)
    BY DecEffect, Names
  <2>2. mq' = q /\ Step("rec", "put")
    BY <2>1
  <2> QED BY <2>1, <2>2, StepEffect, Names DEF IInv, Total, mmc_tot_in_flight
<1>4. Shape'
  BY <1>1, <1>2, <1>3 DEF IInv, Shape, ActRec
<1>5. PcInv' /\ ModeInv' /\ TargetInv'
  BY <1>1, <1>2, <1>3
     DEF IInv, PcInv, Polling, Posting, ModeInv, TargetInv, Actors
<1>6. LockInv' /\ HostInv' /\ RecoveryInv'
  BY <1>1, <1>2, <1>3
     DEF IInv, LockInv, Locking, Rw, Actors, Polling, Posting, HostInv, Ready,
         AtHost, RecoveryInv
<1>7. PlaceInv'
  BY <1>1, <1>2, <1>3
     DEF IInv, PlaceInv, Places, B, OwnReq, OwnCounted, HostReq, AtHost,
         DoneReq, LateReq, PostReq, Polling, Posting
<1>8. OwnInv'
  BY <1>1, <1>2, <1>3 DEF IInv, OwnInv, OwnReq, OwnCounted, Polling, Posting
<1>9. CountInv'
  BY <1>1, <1>2, <1>3
     DEF IInv, CountInv, InFlight, B, OwnCounted, AtHost, DoneReq, Counted,
         Polling, Posting
<1>10. ClaimInv' /\ OtherInv' /\ XferInv'
  BY <1>1, <1>2, <1>3
     DEF IInv, ClaimInv, Claims, B, OtherInv, Stopping, XferInv,
         Actors
<1> QED
  BY <1>4, <1>5, <1>6, <1>7, <1>8, <1>9, <1>10 DEF IInv

(* The dispatcher counts a request down and goes on. *)
LEMMA DecMore_disp_start ==
  ASSUME IInv, mmc_blk_mq_dec_in_flight("disp"), Total # 1, act["disp"].rw,
         act["disp"].err = "start"
  PROVE  IInv'
<1>1. /\ UNCHANGED <<setup, rq, at, claim, other, card, submits>>
      /\ act["disp"].pc = "dec"
      /\ act["disp"].tgt \in Reqs
  BY Names DEF mmc_blk_mq_dec_in_flight, IInv, TargetInv
<1>2. /\ Total \in Nat
      /\ Total > 0
      /\ act["disp"].pc # "claim"
  <2>1. Counted("disp")
    BY <1>1 DEF Counted
  <2> QED
    BY <2>1 DEF IInv, CountInv, InFlight, B, ClaimInv, OwnCounted, Counted
<1>3. /\ mq' \in QueueRec
      /\ Total' = Total - 1
      /\ mq'.recovery_needed = mq.recovery_needed
      /\ mq'.rw_wait = mq.rw_wait
      /\ mq'.complete_req = mq.complete_req
      /\ mq'.complete_lock = mq.complete_lock
      /\ mq'.recovery_req = mq.recovery_req
      /\ mq'.quiesced = mq.quiesced
      /\ mq'.complete_work = mq.complete_work
      /\ mq'.recovery_work = mq.recovery_work
      /\ act' \in [Actors -> ActRec]
      /\ act'["disp"].pc = "undo"
      /\ act'["disp"].req = act["disp"].req
      /\ act'["disp"].rw = act["disp"].rw
      /\ act'["disp"].tgt = None
      /\ act'["disp"].err = act["disp"].err
      /\ act'["irq"] = act["irq"]
      /\ act'["cw"] = act["cw"]
      /\ act'["rec"] = act["rec"]
      /\ act'["late"] = act["late"]
  <2>1. PICK q \in QueueRec :
           /\ q.in_flight["SYNC"] + q.in_flight["ASYNC"] = Total - 1
           /\ q.recovery_needed = mq.recovery_needed /\ q.rw_wait = mq.rw_wait
           /\ q.complete_req = mq.complete_req
           /\ q.complete_lock = mq.complete_lock
           /\ q.recovery_req = mq.recovery_req /\ q.quiesced = mq.quiesced
           /\ q.complete_work = mq.complete_work
           /\ q.recovery_work = mq.recovery_work
           /\ Total = 1 => mq' = q /\ Step("disp", "put")
           /\ Total # 1 => AfterPost("disp", q)
    BY DecEffect, Names
  <2>2. AfterPost("disp", q) /\ Shape
    BY <2>1 DEF IInv
  <2>3. /\ act' \in [Actors -> ActRec]
        /\ act'["disp"].pc = "undo"
        /\ act'["disp"].req = act["disp"].req
        /\ act'["disp"].rw = act["disp"].rw
        /\ act'["disp"].tgt = None
        /\ act'["disp"].err = act["disp"].err
    BY <2>2, PostEffect, Names
  <2>4. mq' = q
    BY <2>2, PostEffect, Names
  <2>5. \A b \in Actors : b # "disp" => act'[b] = act[b]
    BY <2>2, PostEffect, Names
  <2>6. act'["irq"] = act["irq"] /\ act'["cw"] = act["cw"]
          /\ act'["rec"] = act["rec"]
          /\ act'["late"] = act["late"]
    BY <2>5, Names
  <2> QED BY <2>1, <2>3, <2>4, <2>6 DEF QueueRec, Total, mmc_tot_in_flight
<1>4. Shape'
  BY <1>1, <1>2, <1>3 DEF IInv, Shape, ActRec
<1>5. PcInv' /\ ModeInv' /\ TargetInv'
  BY <1>1, <1>2, <1>3
     DEF IInv, PcInv, Polling, Posting, ModeInv, TargetInv, Actors
<1>6. LockInv' /\ HostInv' /\ RecoveryInv'
  BY <1>1, <1>2, <1>3
     DEF IInv, LockInv, Locking, Rw, Actors, Polling, Posting, HostInv, Ready,
         AtHost, RecoveryInv
<1>7. PlaceInv'
  BY <1>1, <1>2, <1>3
     DEF IInv, PlaceInv, Places, B, OwnReq, OwnCounted, HostReq, AtHost,
         DoneReq, LateReq, PostReq, Polling, Posting
<1>8. OwnInv'
  BY <1>1, <1>2, <1>3 DEF IInv, OwnInv, OwnReq, OwnCounted, Polling, Posting
<1>9. CountInv'
  BY <1>1, <1>2, <1>3
     DEF IInv, CountInv, InFlight, B, OwnCounted, AtHost, DoneReq, Counted,
         Polling, Posting
<1>10. ClaimInv' /\ OtherInv' /\ XferInv'
  BY <1>1, <1>2, <1>3
     DEF IInv, ClaimInv, Claims, B, OtherInv, Stopping, XferInv,
         Actors
<1> QED
  BY <1>4, <1>5, <1>6, <1>7, <1>8, <1>9, <1>10 DEF IInv

(* The dispatcher gives the claim up and goes on. *)
LEMMA Put_disp_start ==
  ASSUME IInv, Put("disp"), act["disp"].rw, act["disp"].err = "start"
  PROVE  IInv'
<1>1. /\ UNCHANGED <<setup, rq, at, other, card, submits>>
      /\ act["disp"].pc = "put"
  BY DEF Put
<1>2. Total \in Nat
  BY DEF IInv, CountInv, InFlight, B
<1>3. /\ mq' \in QueueRec
      /\ Total' = Total
      /\ mq'.recovery_needed = mq.recovery_needed
      /\ mq'.rw_wait = mq.rw_wait
      /\ mq'.complete_req = mq.complete_req
      /\ mq'.complete_lock = mq.complete_lock
      /\ mq'.recovery_req = mq.recovery_req
      /\ mq'.quiesced = mq.quiesced
      /\ mq'.complete_work = mq.complete_work
      /\ mq'.recovery_work = mq.recovery_work
      /\ act' \in [Actors -> ActRec]
      /\ act'["disp"].pc = "undo"
      /\ act'["disp"].req = act["disp"].req
      /\ act'["disp"].rw = act["disp"].rw
      /\ act'["disp"].tgt = None
      /\ act'["disp"].err = act["disp"].err
      /\ act'["irq"] = act["irq"]
      /\ act'["cw"] = act["cw"]
      /\ act'["rec"] = act["rec"]
      /\ act'["late"] = act["late"]
  <2>1. AfterPost("disp", mq) /\ mq \in QueueRec /\ Shape
    BY DEF Put, IInv, Shape
  <2>3. /\ act' \in [Actors -> ActRec]
        /\ act'["disp"].pc = "undo"
        /\ act'["disp"].req = act["disp"].req
        /\ act'["disp"].rw = act["disp"].rw
        /\ act'["disp"].tgt = None
        /\ act'["disp"].err = act["disp"].err
    BY <2>1, PostEffect, Names
  <2>4. mq' = mq
    BY <2>1, PostEffect, Names
  <2>5. \A b \in Actors : b # "disp" => act'[b] = act[b]
    BY <2>1, PostEffect, Names
  <2>6. act'["irq"] = act["irq"] /\ act'["cw"] = act["cw"]
          /\ act'["rec"] = act["rec"]
          /\ act'["late"] = act["late"]
    BY <2>5, Names
  <2> QED BY <2>1, <2>3, <2>4, <2>6 DEF QueueRec, Total, mmc_tot_in_flight
<1>4. claim.by = "mq"
  BY <1>1, <1>2 DEF IInv, ClaimInv, Claims, B
<1>5. /\ claim' \in [by : Holders, cnt : Int, warn : BOOLEAN]
      /\ claim'.warn = claim.warn
      /\ claim'.cnt = claim.cnt - 1
      /\ claim'.by = IF claim.cnt = 1 THEN None ELSE "mq"
  BY <1>4, PutEffect DEF Put, IInv
<1>6. Shape'
  BY <1>1, <1>2, <1>3, <1>4, <1>5 DEF IInv, Shape, ActRec
<1>7. PcInv' /\ ModeInv' /\ TargetInv'
  BY <1>1, <1>2, <1>3, <1>4, <1>5
     DEF IInv, PcInv, Polling, Posting, ModeInv, TargetInv, Actors
<1>8. LockInv' /\ HostInv' /\ RecoveryInv'
  BY <1>1, <1>2, <1>3, <1>4, <1>5
     DEF IInv, LockInv, Locking, Rw, Actors, Polling, Posting, HostInv, Ready,
         AtHost, RecoveryInv
<1>9. PlaceInv'
  BY <1>1, <1>2, <1>3, <1>4, <1>5
     DEF IInv, PlaceInv, Places, B, OwnReq, OwnCounted, HostReq, AtHost,
         DoneReq, LateReq, PostReq, Polling, Posting
<1>10. OwnInv'
  BY <1>1, <1>2, <1>3, <1>4, <1>5
     DEF IInv, OwnInv, OwnReq, OwnCounted, Polling, Posting
<1>11. CountInv'
  BY <1>1, <1>2, <1>3, <1>4, <1>5
     DEF IInv, CountInv, InFlight, B, OwnCounted, AtHost, DoneReq, Counted,
         Polling, Posting
<1>12. ClaimInv' /\ OtherInv' /\ XferInv'
  BY <1>1, <1>2, <1>3, <1>4, <1>5
     DEF IInv, ClaimInv, Claims, B, Shape, Holders, None, OtherInv, Stopping,
         XferInv, Actors
<1> QED
  BY <1>6, <1>7, <1>8, <1>9, <1>10, <1>11, <1>12 DEF IInv

(* The dispatcher counts a request down and goes on. *)
LEMMA DecMore_disp_rw ==
  ASSUME IInv, mmc_blk_mq_dec_in_flight("disp"), Total # 1, act["disp"].rw,
         act["disp"].err # "start"
  PROVE  IInv'
<1>1. /\ UNCHANGED <<setup, rq, at, claim, other, card, submits>>
      /\ act["disp"].pc = "dec"
      /\ act["disp"].tgt \in Reqs
  BY Names DEF mmc_blk_mq_dec_in_flight, IInv, TargetInv
<1>2. /\ Total \in Nat
      /\ Total > 0
      /\ act["disp"].pc # "claim"
  <2>1. Counted("disp")
    BY <1>1 DEF Counted
  <2> QED
    BY <2>1 DEF IInv, CountInv, InFlight, B, ClaimInv, OwnCounted, Counted
<1>3. /\ mq' \in QueueRec
      /\ Total' = Total - 1
      /\ mq'.recovery_needed = mq.recovery_needed
      /\ mq'.rw_wait = mq.rw_wait
      /\ mq'.complete_req = mq.complete_req
      /\ mq'.complete_lock = mq.complete_lock
      /\ mq'.recovery_req = mq.recovery_req
      /\ mq'.quiesced = mq.quiesced
      /\ mq'.complete_work = mq.complete_work
      /\ mq'.recovery_work = mq.recovery_work
      /\ act' \in [Actors -> ActRec]
      /\ act'["disp"].pc = "leave"
      /\ act'["disp"].req = act["disp"].req
      /\ act'["disp"].rw = act["disp"].rw
      /\ act'["disp"].tgt = None
      /\ act'["disp"].err = act["disp"].err
      /\ act'["irq"] = act["irq"]
      /\ act'["cw"] = act["cw"]
      /\ act'["rec"] = act["rec"]
      /\ act'["late"] = act["late"]
  <2>1. PICK q \in QueueRec :
           /\ q.in_flight["SYNC"] + q.in_flight["ASYNC"] = Total - 1
           /\ q.recovery_needed = mq.recovery_needed /\ q.rw_wait = mq.rw_wait
           /\ q.complete_req = mq.complete_req
           /\ q.complete_lock = mq.complete_lock
           /\ q.recovery_req = mq.recovery_req /\ q.quiesced = mq.quiesced
           /\ q.complete_work = mq.complete_work
           /\ q.recovery_work = mq.recovery_work
           /\ Total = 1 => mq' = q /\ Step("disp", "put")
           /\ Total # 1 => AfterPost("disp", q)
    BY DecEffect, Names
  <2>2. AfterPost("disp", q) /\ Shape
    BY <2>1 DEF IInv
  <2>3. /\ act' \in [Actors -> ActRec]
        /\ act'["disp"].pc = "leave"
        /\ act'["disp"].req = act["disp"].req
        /\ act'["disp"].rw = act["disp"].rw
        /\ act'["disp"].tgt = None
        /\ act'["disp"].err = act["disp"].err
    BY <2>2, PostEffect, Names
  <2>4. mq' = q
    BY <2>2, PostEffect, Names
  <2>5. \A b \in Actors : b # "disp" => act'[b] = act[b]
    BY <2>2, PostEffect, Names
  <2>6. act'["irq"] = act["irq"] /\ act'["cw"] = act["cw"]
          /\ act'["rec"] = act["rec"]
          /\ act'["late"] = act["late"]
    BY <2>5, Names
  <2> QED BY <2>1, <2>3, <2>4, <2>6 DEF QueueRec, Total, mmc_tot_in_flight
<1>4. Shape'
  BY <1>1, <1>2, <1>3 DEF IInv, Shape, ActRec
<1>5. PcInv' /\ ModeInv' /\ TargetInv'
  BY <1>1, <1>2, <1>3
     DEF IInv, PcInv, Polling, Posting, ModeInv, TargetInv, Actors
<1>6. LockInv' /\ HostInv' /\ RecoveryInv'
  BY <1>1, <1>2, <1>3
     DEF IInv, LockInv, Locking, Rw, Actors, Polling, Posting, HostInv, Ready,
         AtHost, RecoveryInv
<1>7. PlaceInv'
  BY <1>1, <1>2, <1>3
     DEF IInv, PlaceInv, Places, B, OwnReq, OwnCounted, HostReq, AtHost,
         DoneReq, LateReq, PostReq, Polling, Posting
<1>8. OwnInv'
  BY <1>1, <1>2, <1>3 DEF IInv, OwnInv, OwnReq, OwnCounted, Polling, Posting
<1>9. CountInv'
  BY <1>1, <1>2, <1>3
     DEF IInv, CountInv, InFlight, B, OwnCounted, AtHost, DoneReq, Counted,
         Polling, Posting
<1>10. ClaimInv' /\ OtherInv' /\ XferInv'
  BY <1>1, <1>2, <1>3
     DEF IInv, ClaimInv, Claims, B, OtherInv, Stopping, XferInv,
         Actors
<1> QED
  BY <1>4, <1>5, <1>6, <1>7, <1>8, <1>9, <1>10 DEF IInv

(* The dispatcher gives the claim up and goes on. *)
LEMMA Put_disp_rw ==
  ASSUME IInv, Put("disp"), act["disp"].rw, act["disp"].err # "start"
  PROVE  IInv'
<1>1. /\ UNCHANGED <<setup, rq, at, other, card, submits>>
      /\ act["disp"].pc = "put"
  BY DEF Put
<1>2. Total \in Nat
  BY DEF IInv, CountInv, InFlight, B
<1>3. /\ mq' \in QueueRec
      /\ Total' = Total
      /\ mq'.recovery_needed = mq.recovery_needed
      /\ mq'.rw_wait = mq.rw_wait
      /\ mq'.complete_req = mq.complete_req
      /\ mq'.complete_lock = mq.complete_lock
      /\ mq'.recovery_req = mq.recovery_req
      /\ mq'.quiesced = mq.quiesced
      /\ mq'.complete_work = mq.complete_work
      /\ mq'.recovery_work = mq.recovery_work
      /\ act' \in [Actors -> ActRec]
      /\ act'["disp"].pc = "leave"
      /\ act'["disp"].req = act["disp"].req
      /\ act'["disp"].rw = act["disp"].rw
      /\ act'["disp"].tgt = None
      /\ act'["disp"].err = act["disp"].err
      /\ act'["irq"] = act["irq"]
      /\ act'["cw"] = act["cw"]
      /\ act'["rec"] = act["rec"]
      /\ act'["late"] = act["late"]
  <2>1. AfterPost("disp", mq) /\ mq \in QueueRec /\ Shape
    BY DEF Put, IInv, Shape
  <2>3. /\ act' \in [Actors -> ActRec]
        /\ act'["disp"].pc = "leave"
        /\ act'["disp"].req = act["disp"].req
        /\ act'["disp"].rw = act["disp"].rw
        /\ act'["disp"].tgt = None
        /\ act'["disp"].err = act["disp"].err
    BY <2>1, PostEffect, Names
  <2>4. mq' = mq
    BY <2>1, PostEffect, Names
  <2>5. \A b \in Actors : b # "disp" => act'[b] = act[b]
    BY <2>1, PostEffect, Names
  <2>6. act'["irq"] = act["irq"] /\ act'["cw"] = act["cw"]
          /\ act'["rec"] = act["rec"]
          /\ act'["late"] = act["late"]
    BY <2>5, Names
  <2> QED BY <2>1, <2>3, <2>4, <2>6 DEF QueueRec, Total, mmc_tot_in_flight
<1>4. claim.by = "mq"
  BY <1>1, <1>2 DEF IInv, ClaimInv, Claims, B
<1>5. /\ claim' \in [by : Holders, cnt : Int, warn : BOOLEAN]
      /\ claim'.warn = claim.warn
      /\ claim'.cnt = claim.cnt - 1
      /\ claim'.by = IF claim.cnt = 1 THEN None ELSE "mq"
  BY <1>4, PutEffect DEF Put, IInv
<1>6. Shape'
  BY <1>1, <1>2, <1>3, <1>4, <1>5 DEF IInv, Shape, ActRec
<1>7. PcInv' /\ ModeInv' /\ TargetInv'
  BY <1>1, <1>2, <1>3, <1>4, <1>5
     DEF IInv, PcInv, Polling, Posting, ModeInv, TargetInv, Actors
<1>8. LockInv' /\ HostInv' /\ RecoveryInv'
  BY <1>1, <1>2, <1>3, <1>4, <1>5
     DEF IInv, LockInv, Locking, Rw, Actors, Polling, Posting, HostInv, Ready,
         AtHost, RecoveryInv
<1>9. PlaceInv'
  BY <1>1, <1>2, <1>3, <1>4, <1>5
     DEF IInv, PlaceInv, Places, B, OwnReq, OwnCounted, HostReq, AtHost,
         DoneReq, LateReq, PostReq, Polling, Posting
<1>10. OwnInv'
  BY <1>1, <1>2, <1>3, <1>4, <1>5
     DEF IInv, OwnInv, OwnReq, OwnCounted, Polling, Posting
<1>11. CountInv'
  BY <1>1, <1>2, <1>3, <1>4, <1>5
     DEF IInv, CountInv, InFlight, B, OwnCounted, AtHost, DoneReq, Counted,
         Polling, Posting
<1>12. ClaimInv' /\ OtherInv' /\ XferInv'
  BY <1>1, <1>2, <1>3, <1>4, <1>5
     DEF IInv, ClaimInv, Claims, B, Shape, Holders, None, OtherInv, Stopping,
         XferInv, Actors
<1> QED
  BY <1>6, <1>7, <1>8, <1>9, <1>10, <1>11, <1>12 DEF IInv

(* The dispatcher counts a request down and goes on. *)
LEMMA DecMore_disp_sync ==
  ASSUME IInv, mmc_blk_mq_dec_in_flight("disp"), Total # 1, ~act["disp"].rw
  PROVE  IInv'
<1>1. /\ UNCHANGED <<setup, rq, at, claim, other, card, submits>>
      /\ act["disp"].pc = "dec"
      /\ act["disp"].tgt \in Reqs
  BY Names DEF mmc_blk_mq_dec_in_flight, IInv, TargetInv
<1>2. /\ Total \in Nat
      /\ Total > 0
      /\ act["disp"].pc # "claim"
  <2>1. Counted("disp")
    BY <1>1 DEF Counted
  <2> QED
    BY <2>1 DEF IInv, CountInv, InFlight, B, ClaimInv, OwnCounted, Counted
<1>3. /\ mq' \in QueueRec
      /\ Total' = Total - 1
      /\ mq'.recovery_needed = mq.recovery_needed
      /\ mq'.rw_wait = mq.rw_wait
      /\ mq'.complete_req = None
      /\ mq'.complete_lock = None
      /\ mq'.recovery_req = mq.recovery_req
      /\ mq'.quiesced = mq.quiesced
      /\ mq'.complete_work = mq.complete_work
      /\ mq'.recovery_work = mq.recovery_work
      /\ act' \in [Actors -> ActRec]
      /\ act'["disp"].pc = "go"
      /\ act'["disp"].req = act["disp"].req
      /\ act'["disp"].rw = act["disp"].rw
      /\ act'["disp"].tgt = None
      /\ act'["disp"].err = act["disp"].err
      /\ act'["irq"] = act["irq"]
      /\ act'["cw"] = act["cw"]
      /\ act'["rec"] = act["rec"]
      /\ act'["late"] = act["late"]
  <2>1. PICK q \in QueueRec :
           /\ q.in_flight["SYNC"] + q.in_flight["ASYNC"] = Total - 1
           /\ q.recovery_needed = mq.recovery_needed /\ q.rw_wait = mq.rw_wait
           /\ q.complete_req = mq.complete_req
           /\ q.complete_lock = mq.complete_lock
           /\ q.recovery_req = mq.recovery_req /\ q.quiesced = mq.quiesced
           /\ q.complete_work = mq.complete_work
           /\ q.recovery_work = mq.recovery_work
           /\ Total = 1 => mq' = q /\ Step("disp", "put")
           /\ Total # 1 => AfterPost("disp", q)
    BY DecEffect, Names
  <2>2. AfterPost("disp", q) /\ Shape
    BY <2>1 DEF IInv
  <2>3. /\ act' \in [Actors -> ActRec]
        /\ act'["disp"].pc = "go"
        /\ act'["disp"].req = act["disp"].req
        /\ act'["disp"].rw = act["disp"].rw
        /\ act'["disp"].tgt = None
        /\ act'["disp"].err = act["disp"].err
    BY <2>2, PostEffect, Names
  <2>4. mq' = [q EXCEPT !.complete_req = None, !.complete_lock = None]
    BY <2>2, PostEffect, Names
  <2>5. \A b \in Actors : b # "disp" => act'[b] = act[b]
    BY <2>2, PostEffect, Names
  <2>6. act'["irq"] = act["irq"] /\ act'["cw"] = act["cw"]
          /\ act'["rec"] = act["rec"]
          /\ act'["late"] = act["late"]
    BY <2>5, Names
  <2> QED BY <2>1, <2>3, <2>4, <2>6 DEF QueueRec, Total, mmc_tot_in_flight
<1>4. /\ DoneReq = None
      /\ DoneReq' = None
  BY <1>1, <1>3, NoneNames DEF IInv, LockInv, Locking, Rw, DoneReq, Posting
<1>5. Shape'
  BY <1>1, <1>2, <1>3, <1>4 DEF IInv, Shape, ActRec
<1>6. PcInv' /\ ModeInv' /\ TargetInv'
  BY <1>1, <1>2, <1>3, <1>4
     DEF IInv, PcInv, Polling, Posting, ModeInv, TargetInv, Actors
<1>7. LockInv' /\ HostInv' /\ RecoveryInv'
  BY <1>1, <1>2, <1>3, <1>4
     DEF IInv, LockInv, Locking, Rw, Actors, Polling, Posting, HostInv, Ready,
         AtHost, RecoveryInv
<1>8. PlaceInv'
  BY <1>1, <1>2, <1>3, <1>4
     DEF IInv, PlaceInv, Places, B, OwnReq, OwnCounted, HostReq, AtHost,
         DoneReq, LateReq, PostReq, Polling, Posting
<1>9. OwnInv'
  BY <1>1, <1>2, <1>3, <1>4
     DEF IInv, OwnInv, OwnReq, OwnCounted, Polling, Posting
<1>10. CountInv'
  BY <1>1, <1>2, <1>3, <1>4
     DEF IInv, CountInv, InFlight, B, OwnCounted, AtHost, DoneReq, Counted,
         Polling, Posting
<1>11. ClaimInv' /\ OtherInv' /\ XferInv'
  BY <1>1, <1>2, <1>3, <1>4
     DEF IInv, ClaimInv, Claims, B, OtherInv, Stopping, XferInv,
         Actors
<1> QED
  BY <1>5, <1>6, <1>7, <1>8, <1>9, <1>10, <1>11 DEF IInv

(* The dispatcher gives the claim up and goes on. *)
LEMMA Put_disp_sync ==
  ASSUME IInv, Put("disp"), ~act["disp"].rw
  PROVE  IInv'
<1>1. /\ UNCHANGED <<setup, rq, at, other, card, submits>>
      /\ act["disp"].pc = "put"
  BY DEF Put
<1>2. Total \in Nat
  BY DEF IInv, CountInv, InFlight, B
<1>3. /\ mq' \in QueueRec
      /\ Total' = Total
      /\ mq'.recovery_needed = mq.recovery_needed
      /\ mq'.rw_wait = mq.rw_wait
      /\ mq'.complete_req = None
      /\ mq'.complete_lock = None
      /\ mq'.recovery_req = mq.recovery_req
      /\ mq'.quiesced = mq.quiesced
      /\ mq'.complete_work = mq.complete_work
      /\ mq'.recovery_work = mq.recovery_work
      /\ act' \in [Actors -> ActRec]
      /\ act'["disp"].pc = "go"
      /\ act'["disp"].req = act["disp"].req
      /\ act'["disp"].rw = act["disp"].rw
      /\ act'["disp"].tgt = None
      /\ act'["disp"].err = act["disp"].err
      /\ act'["irq"] = act["irq"]
      /\ act'["cw"] = act["cw"]
      /\ act'["rec"] = act["rec"]
      /\ act'["late"] = act["late"]
  <2>1. AfterPost("disp", mq) /\ mq \in QueueRec /\ Shape
    BY DEF Put, IInv, Shape
  <2>3. /\ act' \in [Actors -> ActRec]
        /\ act'["disp"].pc = "go"
        /\ act'["disp"].req = act["disp"].req
        /\ act'["disp"].rw = act["disp"].rw
        /\ act'["disp"].tgt = None
        /\ act'["disp"].err = act["disp"].err
    BY <2>1, PostEffect, Names
  <2>4. mq' = [mq EXCEPT !.complete_req = None, !.complete_lock = None]
    BY <2>1, PostEffect, Names
  <2>5. \A b \in Actors : b # "disp" => act'[b] = act[b]
    BY <2>1, PostEffect, Names
  <2>6. act'["irq"] = act["irq"] /\ act'["cw"] = act["cw"]
          /\ act'["rec"] = act["rec"]
          /\ act'["late"] = act["late"]
    BY <2>5, Names
  <2> QED BY <2>1, <2>3, <2>4, <2>6 DEF QueueRec, Total, mmc_tot_in_flight
<1>4. /\ DoneReq = None
      /\ DoneReq' = None
  BY <1>1, <1>3, NoneNames DEF IInv, LockInv, Locking, Rw, DoneReq, Posting
<1>5. claim.by = "mq"
  BY <1>1, <1>2 DEF IInv, ClaimInv, Claims, B
<1>6. /\ claim' \in [by : Holders, cnt : Int, warn : BOOLEAN]
      /\ claim'.warn = claim.warn
      /\ claim'.cnt = claim.cnt - 1
      /\ claim'.by = IF claim.cnt = 1 THEN None ELSE "mq"
  BY <1>5, PutEffect DEF Put, IInv
<1>7. Shape'
  BY <1>1, <1>2, <1>3, <1>4, <1>5, <1>6 DEF IInv, Shape, ActRec
<1>8. PcInv' /\ ModeInv' /\ TargetInv'
  BY <1>1, <1>2, <1>3, <1>4, <1>5, <1>6
     DEF IInv, PcInv, Polling, Posting, ModeInv, TargetInv, Actors
<1>9. LockInv' /\ HostInv' /\ RecoveryInv'
  BY <1>1, <1>2, <1>3, <1>4, <1>5, <1>6
     DEF IInv, LockInv, Locking, Rw, Actors, Polling, Posting, HostInv, Ready,
         AtHost, RecoveryInv
<1>10. PlaceInv'
  BY <1>1, <1>2, <1>3, <1>4, <1>5, <1>6
     DEF IInv, PlaceInv, Places, B, OwnReq, OwnCounted, HostReq, AtHost,
         DoneReq, LateReq, PostReq, Polling, Posting
<1>11. OwnInv'
  BY <1>1, <1>2, <1>3, <1>4, <1>5, <1>6
     DEF IInv, OwnInv, OwnReq, OwnCounted, Polling, Posting
<1>12. CountInv'
  BY <1>1, <1>2, <1>3, <1>4, <1>5, <1>6
     DEF IInv, CountInv, InFlight, B, OwnCounted, AtHost, DoneReq, Counted,
         Polling, Posting
<1>13. ClaimInv' /\ OtherInv' /\ XferInv'
  BY <1>1, <1>2, <1>3, <1>4, <1>5, <1>6
     DEF IInv, ClaimInv, Claims, B, Shape, Holders, None, OtherInv, Stopping,
         XferInv, Actors
<1> QED
  BY <1>7, <1>8, <1>9, <1>10, <1>11, <1>12, <1>13 DEF IInv

(* The host driver's call counts a request down and goes on. *)
LEMMA DecMore_irq ==
  ASSUME IInv, mmc_blk_mq_dec_in_flight("irq"), Total # 1
  PROVE  IInv'
<1>1. /\ UNCHANGED <<setup, rq, at, claim, other, card, submits>>
      /\ act["irq"].pc = "dec"
      /\ act["irq"].tgt \in Reqs
  BY Names DEF mmc_blk_mq_dec_in_flight, IInv, TargetInv
<1>2. /\ Total \in Nat
      /\ Total > 0
      /\ act["disp"].pc # "claim"
  <2>1. Counted("irq")
    BY <1>1 DEF Counted
  <2> QED
    BY <2>1 DEF IInv, CountInv, InFlight, B, ClaimInv, OwnCounted, Counted
<1>3. /\ mq' \in QueueRec
      /\ Total' = Total - 1
      /\ mq'.recovery_needed = mq.recovery_needed
      /\ mq'.rw_wait = mq.rw_wait
      /\ mq'.complete_req = mq.complete_req
      /\ mq'.complete_lock = mq.complete_lock
      /\ mq'.recovery_req = mq.recovery_req
      /\ mq'.quiesced = mq.quiesced
      /\ mq'.complete_work = mq.complete_work
      /\ mq'.recovery_work = mq.recovery_work
      /\ act' \in [Actors -> ActRec]
      /\ act'["irq"].pc = "idle"
      /\ act'["irq"].req = act["irq"].req
      /\ act'["irq"].rw = act["irq"].rw
      /\ act'["irq"].tgt = None
      /\ act'["irq"].err = act["irq"].err
      /\ act'["disp"] = act["disp"]
      /\ act'["cw"] = act["cw"]
      /\ act'["rec"] = act["rec"]
      /\ act'["late"] = act["late"]
  <2>1. PICK q \in QueueRec :
           /\ q.in_flight["SYNC"] + q.in_flight["ASYNC"] = Total - 1
           /\ q.recovery_needed = mq.recovery_needed /\ q.rw_wait = mq.rw_wait
           /\ q.complete_req = mq.complete_req
           /\ q.complete_lock = mq.complete_lock
           /\ q.recovery_req = mq.recovery_req /\ q.quiesced = mq.quiesced
           /\ q.complete_work = mq.complete_work
           /\ q.recovery_work = mq.recovery_work
           /\ Total = 1 => mq' = q /\ Step("irq", "put")
           /\ Total # 1 => AfterPost("irq", q)
    BY DecEffect, Names
  <2>2. AfterPost("irq", q) /\ Shape
    BY <2>1 DEF IInv
  <2>3. /\ act' \in [Actors -> ActRec]
        /\ act'["irq"].pc = "idle"
        /\ act'["irq"].req = act["irq"].req
        /\ act'["irq"].rw = act["irq"].rw
        /\ act'["irq"].tgt = None
        /\ act'["irq"].err = act["irq"].err
    BY <2>2, PostEffect, Names
  <2>4. mq' = q
    BY <2>2, PostEffect, Names
  <2>5. \A b \in Actors : b # "irq" => act'[b] = act[b]
    BY <2>2, PostEffect, Names
  <2>6. act'["disp"] = act["disp"] /\ act'["cw"] = act["cw"]
          /\ act'["rec"] = act["rec"]
          /\ act'["late"] = act["late"]
    BY <2>5, Names
  <2> QED BY <2>1, <2>3, <2>4, <2>6 DEF QueueRec, Total, mmc_tot_in_flight
<1>4. Shape'
  BY <1>1, <1>2, <1>3 DEF IInv, Shape, ActRec
<1>5. PcInv' /\ ModeInv' /\ TargetInv'
  BY <1>1, <1>2, <1>3
     DEF IInv, PcInv, Polling, Posting, ModeInv, TargetInv, Actors
<1>6. LockInv' /\ HostInv' /\ RecoveryInv'
  BY <1>1, <1>2, <1>3
     DEF IInv, LockInv, Locking, Rw, Actors, Polling, Posting, HostInv, Ready,
         AtHost, RecoveryInv
<1>7. PlaceInv'
  BY <1>1, <1>2, <1>3
     DEF IInv, PlaceInv, Places, B, OwnReq, OwnCounted, HostReq, AtHost,
         DoneReq, LateReq, PostReq, Polling, Posting
<1>8. OwnInv'
  BY <1>1, <1>2, <1>3 DEF IInv, OwnInv, OwnReq, OwnCounted, Polling, Posting
<1>9. CountInv'
  BY <1>1, <1>2, <1>3
     DEF IInv, CountInv, InFlight, B, OwnCounted, AtHost, DoneReq, Counted,
         Polling, Posting
<1>10. ClaimInv' /\ OtherInv' /\ XferInv'
  BY <1>1, <1>2, <1>3
     DEF IInv, ClaimInv, Claims, B, OtherInv, Stopping, XferInv,
         Actors
<1> QED
  BY <1>4, <1>5, <1>6, <1>7, <1>8, <1>9, <1>10 DEF IInv

(* The host driver's call gives the claim up and goes on. *)
LEMMA Put_irq ==
  ASSUME IInv, Put("irq")
  PROVE  IInv'
<1>1. /\ UNCHANGED <<setup, rq, at, other, card, submits>>
      /\ act["irq"].pc = "put"
  BY DEF Put
<1>2. Total \in Nat
  BY DEF IInv, CountInv, InFlight, B
<1>3. /\ mq' \in QueueRec
      /\ Total' = Total
      /\ mq'.recovery_needed = mq.recovery_needed
      /\ mq'.rw_wait = mq.rw_wait
      /\ mq'.complete_req = mq.complete_req
      /\ mq'.complete_lock = mq.complete_lock
      /\ mq'.recovery_req = mq.recovery_req
      /\ mq'.quiesced = mq.quiesced
      /\ mq'.complete_work = mq.complete_work
      /\ mq'.recovery_work = mq.recovery_work
      /\ act' \in [Actors -> ActRec]
      /\ act'["irq"].pc = "idle"
      /\ act'["irq"].req = act["irq"].req
      /\ act'["irq"].rw = act["irq"].rw
      /\ act'["irq"].tgt = None
      /\ act'["irq"].err = act["irq"].err
      /\ act'["disp"] = act["disp"]
      /\ act'["cw"] = act["cw"]
      /\ act'["rec"] = act["rec"]
      /\ act'["late"] = act["late"]
  <2>1. AfterPost("irq", mq) /\ mq \in QueueRec /\ Shape
    BY DEF Put, IInv, Shape
  <2>3. /\ act' \in [Actors -> ActRec]
        /\ act'["irq"].pc = "idle"
        /\ act'["irq"].req = act["irq"].req
        /\ act'["irq"].rw = act["irq"].rw
        /\ act'["irq"].tgt = None
        /\ act'["irq"].err = act["irq"].err
    BY <2>1, PostEffect, Names
  <2>4. mq' = mq
    BY <2>1, PostEffect, Names
  <2>5. \A b \in Actors : b # "irq" => act'[b] = act[b]
    BY <2>1, PostEffect, Names
  <2>6. act'["disp"] = act["disp"] /\ act'["cw"] = act["cw"]
          /\ act'["rec"] = act["rec"]
          /\ act'["late"] = act["late"]
    BY <2>5, Names
  <2> QED BY <2>1, <2>3, <2>4, <2>6 DEF QueueRec, Total, mmc_tot_in_flight
<1>4. claim.by = "mq"
  BY <1>1, <1>2 DEF IInv, ClaimInv, Claims, B
<1>5. /\ claim' \in [by : Holders, cnt : Int, warn : BOOLEAN]
      /\ claim'.warn = claim.warn
      /\ claim'.cnt = claim.cnt - 1
      /\ claim'.by = IF claim.cnt = 1 THEN None ELSE "mq"
  BY <1>4, PutEffect DEF Put, IInv
<1>6. Shape'
  BY <1>1, <1>2, <1>3, <1>4, <1>5 DEF IInv, Shape, ActRec
<1>7. PcInv' /\ ModeInv' /\ TargetInv'
  BY <1>1, <1>2, <1>3, <1>4, <1>5
     DEF IInv, PcInv, Polling, Posting, ModeInv, TargetInv, Actors
<1>8. LockInv' /\ HostInv' /\ RecoveryInv'
  BY <1>1, <1>2, <1>3, <1>4, <1>5
     DEF IInv, LockInv, Locking, Rw, Actors, Polling, Posting, HostInv, Ready,
         AtHost, RecoveryInv
<1>9. PlaceInv'
  BY <1>1, <1>2, <1>3, <1>4, <1>5
     DEF IInv, PlaceInv, Places, B, OwnReq, OwnCounted, HostReq, AtHost,
         DoneReq, LateReq, PostReq, Polling, Posting
<1>10. OwnInv'
  BY <1>1, <1>2, <1>3, <1>4, <1>5
     DEF IInv, OwnInv, OwnReq, OwnCounted, Polling, Posting
<1>11. CountInv'
  BY <1>1, <1>2, <1>3, <1>4, <1>5
     DEF IInv, CountInv, InFlight, B, OwnCounted, AtHost, DoneReq, Counted,
         Polling, Posting
<1>12. ClaimInv' /\ OtherInv' /\ XferInv'
  BY <1>1, <1>2, <1>3, <1>4, <1>5
     DEF IInv, ClaimInv, Claims, B, Shape, Holders, None, OtherInv, Stopping,
         XferInv, Actors
<1> QED
  BY <1>6, <1>7, <1>8, <1>9, <1>10, <1>11, <1>12 DEF IInv

(* complete_work counts a request down and goes on. *)
LEMMA DecMore_cw ==
  ASSUME IInv, mmc_blk_mq_dec_in_flight("cw"), Total # 1
  PROVE  IInv'
<1>1. /\ UNCHANGED <<setup, rq, at, claim, other, card, submits>>
      /\ act["cw"].pc = "dec"
      /\ act["cw"].tgt \in Reqs
  BY Names DEF mmc_blk_mq_dec_in_flight, IInv, TargetInv
<1>2. /\ Total \in Nat
      /\ Total > 0
      /\ act["disp"].pc # "claim"
  <2>1. Counted("cw")
    BY <1>1 DEF Counted
  <2> QED
    BY <2>1 DEF IInv, CountInv, InFlight, B, ClaimInv, OwnCounted, Counted
<1>3. /\ mq' \in QueueRec
      /\ Total' = Total - 1
      /\ mq'.recovery_needed = mq.recovery_needed
      /\ mq'.rw_wait = mq.rw_wait
      /\ mq'.complete_req = None
      /\ mq'.complete_lock = None
      /\ mq'.recovery_req = mq.recovery_req
      /\ mq'.quiesced = mq.quiesced
      /\ mq'.complete_work = mq.complete_work
      /\ mq'.recovery_work = mq.recovery_work
      /\ act' \in [Actors -> ActRec]
      /\ act'["cw"].pc = "idle"
      /\ act'["cw"].req = act["cw"].req
      /\ act'["cw"].rw = act["cw"].rw
      /\ act'["cw"].tgt = None
      /\ act'["cw"].err = act["cw"].err
      /\ act'["disp"] = act["disp"]
      /\ act'["irq"] = act["irq"]
      /\ act'["rec"] = act["rec"]
      /\ act'["late"] = act["late"]
  <2>1. PICK q \in QueueRec :
           /\ q.in_flight["SYNC"] + q.in_flight["ASYNC"] = Total - 1
           /\ q.recovery_needed = mq.recovery_needed /\ q.rw_wait = mq.rw_wait
           /\ q.complete_req = mq.complete_req
           /\ q.complete_lock = mq.complete_lock
           /\ q.recovery_req = mq.recovery_req /\ q.quiesced = mq.quiesced
           /\ q.complete_work = mq.complete_work
           /\ q.recovery_work = mq.recovery_work
           /\ Total = 1 => mq' = q /\ Step("cw", "put")
           /\ Total # 1 => AfterPost("cw", q)
    BY DecEffect, Names
  <2>2. AfterPost("cw", q) /\ Shape
    BY <2>1 DEF IInv
  <2>3. /\ act' \in [Actors -> ActRec]
        /\ act'["cw"].pc = "idle"
        /\ act'["cw"].req = act["cw"].req
        /\ act'["cw"].rw = act["cw"].rw
        /\ act'["cw"].tgt = None
        /\ act'["cw"].err = act["cw"].err
    BY <2>2, PostEffect, Names
  <2>4. mq' = [q EXCEPT !.complete_req = None, !.complete_lock = None]
    BY <2>2, PostEffect, Names
  <2>5. \A b \in Actors : b # "cw" => act'[b] = act[b]
    BY <2>2, PostEffect, Names
  <2>6. act'["disp"] = act["disp"] /\ act'["irq"] = act["irq"]
          /\ act'["rec"] = act["rec"]
          /\ act'["late"] = act["late"]
    BY <2>5, Names
  <2> QED BY <2>1, <2>3, <2>4, <2>6 DEF QueueRec, Total, mmc_tot_in_flight
<1>4. /\ DoneReq = None
      /\ DoneReq' = None
  BY <1>1, <1>3, NoneNames DEF IInv, LockInv, Locking, Rw, DoneReq, Posting
<1>5. Shape'
  BY <1>1, <1>2, <1>3, <1>4 DEF IInv, Shape, ActRec
<1>6. PcInv' /\ ModeInv' /\ TargetInv'
  BY <1>1, <1>2, <1>3, <1>4
     DEF IInv, PcInv, Polling, Posting, ModeInv, TargetInv, Actors
<1>7. LockInv' /\ HostInv' /\ RecoveryInv'
  BY <1>1, <1>2, <1>3, <1>4
     DEF IInv, LockInv, Locking, Rw, Actors, Polling, Posting, HostInv, Ready,
         AtHost, RecoveryInv
<1>8. PlaceInv'
  BY <1>1, <1>2, <1>3, <1>4
     DEF IInv, PlaceInv, Places, B, OwnReq, OwnCounted, HostReq, AtHost,
         DoneReq, LateReq, PostReq, Polling, Posting
<1>9. OwnInv'
  BY <1>1, <1>2, <1>3, <1>4
     DEF IInv, OwnInv, OwnReq, OwnCounted, Polling, Posting
<1>10. CountInv'
  BY <1>1, <1>2, <1>3, <1>4
     DEF IInv, CountInv, InFlight, B, OwnCounted, AtHost, DoneReq, Counted,
         Polling, Posting
<1>11. ClaimInv' /\ OtherInv' /\ XferInv'
  BY <1>1, <1>2, <1>3, <1>4
     DEF IInv, ClaimInv, Claims, B, OtherInv, Stopping, XferInv,
         Actors
<1> QED
  BY <1>5, <1>6, <1>7, <1>8, <1>9, <1>10, <1>11 DEF IInv

(* complete_work gives the claim up and goes on. *)
LEMMA Put_cw ==
  ASSUME IInv, Put("cw")
  PROVE  IInv'
<1>1. /\ UNCHANGED <<setup, rq, at, other, card, submits>>
      /\ act["cw"].pc = "put"
  BY DEF Put
<1>2. Total \in Nat
  BY DEF IInv, CountInv, InFlight, B
<1>3. /\ mq' \in QueueRec
      /\ Total' = Total
      /\ mq'.recovery_needed = mq.recovery_needed
      /\ mq'.rw_wait = mq.rw_wait
      /\ mq'.complete_req = None
      /\ mq'.complete_lock = None
      /\ mq'.recovery_req = mq.recovery_req
      /\ mq'.quiesced = mq.quiesced
      /\ mq'.complete_work = mq.complete_work
      /\ mq'.recovery_work = mq.recovery_work
      /\ act' \in [Actors -> ActRec]
      /\ act'["cw"].pc = "idle"
      /\ act'["cw"].req = act["cw"].req
      /\ act'["cw"].rw = act["cw"].rw
      /\ act'["cw"].tgt = None
      /\ act'["cw"].err = act["cw"].err
      /\ act'["disp"] = act["disp"]
      /\ act'["irq"] = act["irq"]
      /\ act'["rec"] = act["rec"]
      /\ act'["late"] = act["late"]
  <2>1. AfterPost("cw", mq) /\ mq \in QueueRec /\ Shape
    BY DEF Put, IInv, Shape
  <2>3. /\ act' \in [Actors -> ActRec]
        /\ act'["cw"].pc = "idle"
        /\ act'["cw"].req = act["cw"].req
        /\ act'["cw"].rw = act["cw"].rw
        /\ act'["cw"].tgt = None
        /\ act'["cw"].err = act["cw"].err
    BY <2>1, PostEffect, Names
  <2>4. mq' = [mq EXCEPT !.complete_req = None, !.complete_lock = None]
    BY <2>1, PostEffect, Names
  <2>5. \A b \in Actors : b # "cw" => act'[b] = act[b]
    BY <2>1, PostEffect, Names
  <2>6. act'["disp"] = act["disp"] /\ act'["irq"] = act["irq"]
          /\ act'["rec"] = act["rec"]
          /\ act'["late"] = act["late"]
    BY <2>5, Names
  <2> QED BY <2>1, <2>3, <2>4, <2>6 DEF QueueRec, Total, mmc_tot_in_flight
<1>4. /\ DoneReq = None
      /\ DoneReq' = None
  BY <1>1, <1>3, NoneNames DEF IInv, LockInv, Locking, Rw, DoneReq, Posting
<1>5. claim.by = "mq"
  BY <1>1, <1>2 DEF IInv, ClaimInv, Claims, B
<1>6. /\ claim' \in [by : Holders, cnt : Int, warn : BOOLEAN]
      /\ claim'.warn = claim.warn
      /\ claim'.cnt = claim.cnt - 1
      /\ claim'.by = IF claim.cnt = 1 THEN None ELSE "mq"
  BY <1>5, PutEffect DEF Put, IInv
<1>7. Shape'
  BY <1>1, <1>2, <1>3, <1>4, <1>5, <1>6 DEF IInv, Shape, ActRec
<1>8. PcInv' /\ ModeInv' /\ TargetInv'
  BY <1>1, <1>2, <1>3, <1>4, <1>5, <1>6
     DEF IInv, PcInv, Polling, Posting, ModeInv, TargetInv, Actors
<1>9. LockInv' /\ HostInv' /\ RecoveryInv'
  BY <1>1, <1>2, <1>3, <1>4, <1>5, <1>6
     DEF IInv, LockInv, Locking, Rw, Actors, Polling, Posting, HostInv, Ready,
         AtHost, RecoveryInv
<1>10. PlaceInv'
  BY <1>1, <1>2, <1>3, <1>4, <1>5, <1>6
     DEF IInv, PlaceInv, Places, B, OwnReq, OwnCounted, HostReq, AtHost,
         DoneReq, LateReq, PostReq, Polling, Posting
<1>11. OwnInv'
  BY <1>1, <1>2, <1>3, <1>4, <1>5, <1>6
     DEF IInv, OwnInv, OwnReq, OwnCounted, Polling, Posting
<1>12. CountInv'
  BY <1>1, <1>2, <1>3, <1>4, <1>5, <1>6
     DEF IInv, CountInv, InFlight, B, OwnCounted, AtHost, DoneReq, Counted,
         Polling, Posting
<1>13. ClaimInv' /\ OtherInv' /\ XferInv'
  BY <1>1, <1>2, <1>3, <1>4, <1>5, <1>6
     DEF IInv, ClaimInv, Claims, B, Shape, Holders, None, OtherInv, Stopping,
         XferInv, Actors
<1> QED
  BY <1>7, <1>8, <1>9, <1>10, <1>11, <1>12, <1>13 DEF IInv

(* The recovery counts a request down and goes on. *)
LEMMA DecMore_rec ==
  ASSUME IInv, mmc_blk_mq_dec_in_flight("rec"), Total # 1
  PROVE  IInv'
<1>1. /\ UNCHANGED <<setup, rq, at, claim, other, card, submits>>
      /\ act["rec"].pc = "dec"
      /\ act["rec"].tgt \in Reqs
  BY Names DEF mmc_blk_mq_dec_in_flight, IInv, TargetInv
<1>2. /\ Total \in Nat
      /\ Total > 0
      /\ act["disp"].pc # "claim"
  <2>1. Counted("rec")
    BY <1>1 DEF Counted
  <2> QED
    BY <2>1 DEF IInv, CountInv, InFlight, B, ClaimInv, OwnCounted, Counted
<1>3. /\ mq' \in QueueRec
      /\ Total' = Total - 1
      /\ mq'.recovery_needed = mq.recovery_needed
      /\ mq'.rw_wait = mq.rw_wait
      /\ mq'.complete_req = mq.complete_req
      /\ mq'.complete_lock = mq.complete_lock
      /\ mq'.recovery_req = mq.recovery_req
      /\ mq'.quiesced = mq.quiesced
      /\ mq'.complete_work = mq.complete_work
      /\ mq'.recovery_work = mq.recovery_work
      /\ act' \in [Actors -> ActRec]
      /\ act'["rec"].pc = "end"
      /\ act'["rec"].req = act["rec"].req
      /\ act'["rec"].rw = act["rec"].rw
      /\ act'["rec"].tgt = None
      /\ act'["rec"].err = act["rec"].err
      /\ act'["disp"] = act["disp"]
      /\ act'["irq"] = act["irq"]
      /\ act'["cw"] = act["cw"]
      /\ act'["late"] = act["late"]
  <2>1. PICK q \in QueueRec :
           /\ q.in_flight["SYNC"] + q.in_flight["ASYNC"] = Total - 1
           /\ q.recovery_needed = mq.recovery_needed /\ q.rw_wait = mq.rw_wait
           /\ q.complete_req = mq.complete_req
           /\ q.complete_lock = mq.complete_lock
           /\ q.recovery_req = mq.recovery_req /\ q.quiesced = mq.quiesced
           /\ q.complete_work = mq.complete_work
           /\ q.recovery_work = mq.recovery_work
           /\ Total = 1 => mq' = q /\ Step("rec", "put")
           /\ Total # 1 => AfterPost("rec", q)
    BY DecEffect, Names
  <2>2. AfterPost("rec", q) /\ Shape
    BY <2>1 DEF IInv
  <2>3. /\ act' \in [Actors -> ActRec]
        /\ act'["rec"].pc = "end"
        /\ act'["rec"].req = act["rec"].req
        /\ act'["rec"].rw = act["rec"].rw
        /\ act'["rec"].tgt = None
        /\ act'["rec"].err = act["rec"].err
    BY <2>2, PostEffect, Names
  <2>4. mq' = q
    BY <2>2, PostEffect, Names
  <2>5. \A b \in Actors : b # "rec" => act'[b] = act[b]
    BY <2>2, PostEffect, Names
  <2>6. act'["disp"] = act["disp"] /\ act'["irq"] = act["irq"]
          /\ act'["cw"] = act["cw"]
          /\ act'["late"] = act["late"]
    BY <2>5, Names
  <2> QED BY <2>1, <2>3, <2>4, <2>6 DEF QueueRec, Total, mmc_tot_in_flight
<1>4. Shape'
  BY <1>1, <1>2, <1>3 DEF IInv, Shape, ActRec
<1>5. PcInv' /\ ModeInv' /\ TargetInv'
  BY <1>1, <1>2, <1>3
     DEF IInv, PcInv, Polling, Posting, ModeInv, TargetInv, Actors
<1>6. LockInv' /\ HostInv' /\ RecoveryInv'
  BY <1>1, <1>2, <1>3
     DEF IInv, LockInv, Locking, Rw, Actors, Polling, Posting, HostInv, Ready,
         AtHost, RecoveryInv
<1>7. PlaceInv'
  BY <1>1, <1>2, <1>3
     DEF IInv, PlaceInv, Places, B, OwnReq, OwnCounted, HostReq, AtHost,
         DoneReq, LateReq, PostReq, Polling, Posting
<1>8. OwnInv'
  BY <1>1, <1>2, <1>3 DEF IInv, OwnInv, OwnReq, OwnCounted, Polling, Posting
<1>9. CountInv'
  BY <1>1, <1>2, <1>3
     DEF IInv, CountInv, InFlight, B, OwnCounted, AtHost, DoneReq, Counted,
         Polling, Posting
<1>10. ClaimInv' /\ OtherInv' /\ XferInv'
  BY <1>1, <1>2, <1>3
     DEF IInv, ClaimInv, Claims, B, OtherInv, Stopping, XferInv,
         Actors
<1> QED
  BY <1>4, <1>5, <1>6, <1>7, <1>8, <1>9, <1>10 DEF IInv

(* The recovery gives the claim up and goes on. *)
LEMMA Put_rec ==
  ASSUME IInv, Put("rec")
  PROVE  IInv'
<1>1. /\ UNCHANGED <<setup, rq, at, other, card, submits>>
      /\ act["rec"].pc = "put"
  BY DEF Put
<1>2. Total \in Nat
  BY DEF IInv, CountInv, InFlight, B
<1>3. /\ mq' \in QueueRec
      /\ Total' = Total
      /\ mq'.recovery_needed = mq.recovery_needed
      /\ mq'.rw_wait = mq.rw_wait
      /\ mq'.complete_req = mq.complete_req
      /\ mq'.complete_lock = mq.complete_lock
      /\ mq'.recovery_req = mq.recovery_req
      /\ mq'.quiesced = mq.quiesced
      /\ mq'.complete_work = mq.complete_work
      /\ mq'.recovery_work = mq.recovery_work
      /\ act' \in [Actors -> ActRec]
      /\ act'["rec"].pc = "end"
      /\ act'["rec"].req = act["rec"].req
      /\ act'["rec"].rw = act["rec"].rw
      /\ act'["rec"].tgt = None
      /\ act'["rec"].err = act["rec"].err
      /\ act'["disp"] = act["disp"]
      /\ act'["irq"] = act["irq"]
      /\ act'["cw"] = act["cw"]
      /\ act'["late"] = act["late"]
  <2>1. AfterPost("rec", mq) /\ mq \in QueueRec /\ Shape
    BY DEF Put, IInv, Shape
  <2>3. /\ act' \in [Actors -> ActRec]
        /\ act'["rec"].pc = "end"
        /\ act'["rec"].req = act["rec"].req
        /\ act'["rec"].rw = act["rec"].rw
        /\ act'["rec"].tgt = None
        /\ act'["rec"].err = act["rec"].err
    BY <2>1, PostEffect, Names
  <2>4. mq' = mq
    BY <2>1, PostEffect, Names
  <2>5. \A b \in Actors : b # "rec" => act'[b] = act[b]
    BY <2>1, PostEffect, Names
  <2>6. act'["disp"] = act["disp"] /\ act'["irq"] = act["irq"]
          /\ act'["cw"] = act["cw"]
          /\ act'["late"] = act["late"]
    BY <2>5, Names
  <2> QED BY <2>1, <2>3, <2>4, <2>6 DEF QueueRec, Total, mmc_tot_in_flight
<1>4. claim.by = "mq"
  BY <1>1, <1>2 DEF IInv, ClaimInv, Claims, B
<1>5. /\ claim' \in [by : Holders, cnt : Int, warn : BOOLEAN]
      /\ claim'.warn = claim.warn
      /\ claim'.cnt = claim.cnt - 1
      /\ claim'.by = IF claim.cnt = 1 THEN None ELSE "mq"
  BY <1>4, PutEffect DEF Put, IInv
<1>6. Shape'
  BY <1>1, <1>2, <1>3, <1>4, <1>5 DEF IInv, Shape, ActRec
<1>7. PcInv' /\ ModeInv' /\ TargetInv'
  BY <1>1, <1>2, <1>3, <1>4, <1>5
     DEF IInv, PcInv, Polling, Posting, ModeInv, TargetInv, Actors
<1>8. LockInv' /\ HostInv' /\ RecoveryInv'
  BY <1>1, <1>2, <1>3, <1>4, <1>5
     DEF IInv, LockInv, Locking, Rw, Actors, Polling, Posting, HostInv, Ready,
         AtHost, RecoveryInv
<1>9. PlaceInv'
  BY <1>1, <1>2, <1>3, <1>4, <1>5
     DEF IInv, PlaceInv, Places, B, OwnReq, OwnCounted, HostReq, AtHost,
         DoneReq, LateReq, PostReq, Polling, Posting
<1>10. OwnInv'
  BY <1>1, <1>2, <1>3, <1>4, <1>5
     DEF IInv, OwnInv, OwnReq, OwnCounted, Polling, Posting
<1>11. CountInv'
  BY <1>1, <1>2, <1>3, <1>4, <1>5
     DEF IInv, CountInv, InFlight, B, OwnCounted, AtHost, DoneReq, Counted,
         Polling, Posting
<1>12. ClaimInv' /\ OtherInv' /\ XferInv'
  BY <1>1, <1>2, <1>3, <1>4, <1>5
     DEF IInv, ClaimInv, Claims, B, Shape, Holders, None, OtherInv, Stopping,
         XferInv, Actors
<1> QED
  BY <1>6, <1>7, <1>8, <1>9, <1>10, <1>11, <1>12 DEF IInv

-----------------------------------------------------------------------------
(* The steps of the contexts. *)
LEMMA PollSteps ==
  ASSUME IInv, NEW a \in Actors, PollStep(a)
  PROVE  IInv'
<1>1. a \in {"disp", "cw", "rec"}
  BY PosterNames DEF PollStep, IInv, PcInv, Polling, Posting
<1>2. CASE ~AfterPoll(a)
  BY <1>1, <1>2, PollStays_disp, PollStays_cw, PollStays_rec
<1>3. CASE AfterPoll(a)
  BY <1>1, <1>3, PollEnds_disp_rw, PollEnds_disp_sync, PollEnds_cw,
     PollEnds_rec
<1> QED BY <1>2, <1>3

(* Counting down, with and without others in flight. *)
LEMMA DecSteps ==
  ASSUME IInv, NEW a \in Actors, mmc_blk_mq_dec_in_flight(a)
  PROVE  IInv'
<1>1. a \in {"disp", "irq", "cw", "rec"}
  BY PosterNames DEF mmc_blk_mq_dec_in_flight
<1>2. CASE Total = 1
  BY <1>1, <1>2, DecLast_disp, DecLast_irq, DecLast_cw, DecLast_rec
<1>3. CASE Total # 1
  BY <1>1, <1>3, DecMore_disp_start, DecMore_disp_rw, DecMore_disp_sync,
     DecMore_irq, DecMore_cw, DecMore_rec
<1> QED BY <1>2, <1>3

(* The steps that a context of any kind takes. *)
LEMMA ActSteps ==
  ASSUME IInv, NEW a \in Actors, Act(a)
  PROVE  IInv'
<1>1. CASE Claim(a)
  <2>1. a \in {"disp", "rec"}
    BY <1>1 DEF Claim, IInv, PcInv, Polling, Posting, Actors
  <2> QED BY <1>1, <2>1, Claim_disp, Claim_rec
<1>2. CASE Lock(a)
  <2>1. a \in {"disp", "cw"}
    BY <1>2 DEF Lock, IInv, PcInv, Polling, Posting, Actors
  <2>2. \/ setup.mode = "done" \/ mq.complete_req = None
        \/ setup.mode = "poll" /\ mq.complete_req # None
    BY <1>2 DEF Lock
  <2> QED
    BY <1>2, <2>1, <2>2, LockNone_disp, LockNone_cw, LockTake_disp, LockTake_cw
<1>3. CASE Poll(a)
  BY <1>3, PollIsStep, PollSteps
<1>4. CASE Recover(a)
  BY <1>4, RecoverIsStep, PollSteps
<1>5. CASE mmc_blk_read_single(a)
  BY <1>5, ReadSingleIsStep, PollSteps
<1>6. CASE Complete(a)
  <2>1. a \in {"disp", "irq", "cw", "rec"}
    BY <1>6, PosterNames DEF Complete
  <2> QED
    BY <1>6, <2>1, Complete_disp, Complete_irq, Complete_cw, Complete_rec
<1>7. CASE mmc_blk_mq_dec_in_flight(a)
  BY <1>7, DecSteps
<1>8. CASE Put(a)
  <2>1. a \in {"disp", "irq", "cw", "rec"}
    BY <1>8, PosterNames DEF Put
  <2> QED
    BY <1>8, <2>1, Put_disp_start, Put_disp_rw, Put_disp_sync, Put_irq, Put_cw,
       Put_rec
<1> QED
  BY <1>1, <1>2, <1>3, <1>4, <1>5, <1>6, <1>7, <1>8 DEF Act

(* The queue as mmc_mq_init() leaves it. *)
LEMMA InitHolds == Init => IInv
<1> SUFFICES ASSUME Init PROVE IInv
  OBVIOUS
<1>1. /\ setup \in Setups /\ at = None /\ submits = 0
      /\ \A a \in Actors : act[a] = Idle
      /\ mq.busy = FALSE /\ mq.recovery_needed = FALSE /\ mq.rw_wait = FALSE
      /\ mq.complete_req = None /\ mq.recovery_req = None
      /\ mq.complete_lock = None /\ mq.complete_work = FALSE
      /\ mq.recovery_work = FALSE /\ mq.quiesced = FALSE
      /\ mq.in_flight["SYNC"] = 0 /\ mq.in_flight["ASYNC"] = 0
      /\ claim.by = None /\ claim.cnt = 0 /\ claim.warn = FALSE
      /\ other.pc = "idle" /\ other.suspend = FALSE
      /\ card.lied = {}
      /\ \A r \in Reqs : /\ rq[r].st = "free" /\ rq[r].bad = FALSE
                         /\ rq[r].xfer = 0
  BY DEF Init
<1>2. /\ act["disp"] = Idle /\ act["irq"] = Idle /\ act["cw"] = Idle
      /\ act["rec"] = Idle /\ act["late"] = Idle
  BY <1>1, Names
<1>3. Shape
  <2>1. mq \in QueueRec
    <3>1. [t \in {"SYNC", "ASYNC"} |-> 0] \in [{"SYNC", "ASYNC"} -> Int]
      OBVIOUS
    <3> DEFINE f == [t \in {"SYNC", "ASYNC"} |-> 0]
    <3>2. mq = [in_flight |-> f, busy |-> FALSE,
           recovery_needed |-> FALSE, in_recovery |-> FALSE,
           rw_wait |-> FALSE, waiting |-> FALSE, complete_req |-> None,
           recovery_req |-> None, complete_lock |-> None,
           complete_work |-> FALSE, recovery_work |-> FALSE,
           quiesced |-> FALSE]
      BY DEF Init
    <3> HIDE DEF f
    <3> QED BY <3>1, <3>2 DEF QueueRec, f
  <2>2. rq \in [Reqs -> ReqRec]
    <3>1. [st |-> "free", op |-> "read", left |-> 0, retries |-> 0,
           err |-> "none", xfer |-> 0, bad |-> FALSE] \in ReqRec
      <4>1. "read" \in RwOps \cup SyncOps
        BY DEF RwOps
      <4> QED BY <4>1, Names DEF ReqRec
    <3> QED BY <3>1 DEF Init
  <2>3. act \in [Actors -> ActRec]
    BY IdleRec DEF Init
  <2>4. claim \in [by : Holders, cnt : Int, warn : BOOLEAN]
    BY Names DEF Init, None
  <2>5. other \in [pc : OtherPcs, suspend : BOOLEAN, rounds : Int]
    BY Names DEF Init
  <2>6. card \in CardRec
    BY DEF Init, CardRec
  <2> QED BY <1>1, <2>1, <2>2, <2>3, <2>4, <2>5, <2>6 DEF Shape
<1>4. Total = 0
  BY <1>1 DEF Total, mmc_tot_in_flight
<1>5. PcInv /\ ModeInv /\ TargetInv
  BY <1>1, <1>2, IdleRec DEF PcInv, ModeInv, TargetInv, Polling, Posting
<1>6. LockInv /\ HostInv /\ RecoveryInv
  BY <1>1, <1>2, IdleRec
     DEF LockInv, Locking, HostInv, Ready, AtHost, RecoveryInv, Polling, Posting
<1>7. /\ OwnReq = None /\ LateReq = None /\ HostReq = None /\ DoneReq = None
      /\ PostReq("disp") = None /\ PostReq("irq") = None
      /\ PostReq("cw") = None /\ PostReq("rec") = None
      /\ ~OwnCounted /\ ~AtHost /\ ~Counted("disp") /\ ~Counted("irq")
      /\ ~Counted("cw") /\ ~Counted("rec")
  BY <1>1, <1>2, IdleRec
     DEF OwnReq, HostReq, DoneReq, LateReq, PostReq, OwnCounted, AtHost, Counted,
         Polling, Posting
<1>8. PlaceInv
  BY <1>1, <1>7, ReqsAssumption DEF PlaceInv, Places, B
<1>9. OwnInv /\ CountInv
  BY <1>1, <1>4, <1>7 DEF OwnInv, CountInv, InFlight, B
<1>10. ClaimInv
  BY <1>1, <1>2, <1>4, IdleRec DEF ClaimInv, Claims, B, None
<1>11. OtherInv
  BY <1>1 DEF OtherInv, Stopping
<1>12. XferInv
  BY <1>1, IdleRec DEF XferInv
<1> QED
  BY <1>3, <1>5, <1>6, <1>8, <1>9, <1>10, <1>11, <1>12 DEF IInv

(* A step that changes nothing. *)
LEMMA StutterHolds ==
  ASSUME IInv, UNCHANGED vars
  PROVE  IInv'
<1>1. Total' = Total
  BY DEF vars, Total
<1> QED BY <1>1, SyncAgain DEF vars, IInv, Shape

(* Every action keeps the invariant. *)
LEMMA NextHolds ==
  ASSUME IInv, Next
  PROVE  IInv'
<1>1. CASE \E r \in Reqs : \E op \in setup.ops : Submit(r, op)
  BY <1>1, SubmitStep
<1>2. CASE \E r \in Reqs : mmc_mq_queue_rq(r)
  BY <1>2, RefuseStep, IssueStep
<1>3. CASE \E r \in Reqs : mmc_blk_mq_complete(r)
  BY <1>3, CompleteRqStep
<1>4. CASE \E a \in Actors : Act(a)
  BY <1>4, ActSteps
<1>5. CASE mmc_blk_rw_wait
  BY <1>5, WaitBusy, WaitOver, WaitMore
<1>6. CASE Go
  BY <1>6, GoBusy, GoSync, GoRemoved, GoStart
<1>7. CASE SyncOp \/ Leave
  BY <1>7, SyncOpStep, LeaveStep
<1>8. CASE Undo \/ UndoPut
  BY <1>8, UndoLast, UndoMore, UndoPutStep
<1>9. CASE CompleteWork \/ RecoveryWork \/ RecoveryBegin
  BY <1>9, CompleteWorkStep, RecoveryWorkStep, RecoveryBeginStep
<1>10. CASE RecoveryEnd \/ RecoveryPut
  BY <1>10, RecoveryEndStep, RecoveryPutStep
<1>11. CASE mmc_blk_mq_req_done
  BY <1>11, ReqDoneStep
<1>12. CASE OtherStarts \/ Other
  BY <1>12, OtherStartsStep, OtherClaimsStep, OtherReleasesStep, ResumeStep
     DEF Other
<1> QED
  BY <1>1, <1>2, <1>3, <1>4, <1>5, <1>6, <1>7, <1>8, <1>9, <1>10, <1>11, <1>12,
     Names DEF Next, Dispatcher, Completer, Recoverer

(* The invariant holds of every behaviour: the places, the count and the   *)
(* claims agree, whatever the contexts do at once.                         *)
THEOREM Invariance == Spec => []IInv
<1>1. IInv /\ [Next]_vars => IInv'
  BY NextHolds, StutterHolds
<1> QED BY InitHolds, <1>1, PTL DEF Spec

-----------------------------------------------------------------------------
(* One user at a time: who polls holds complete_lock, who recovers is      *)
(* needed, and neither is so while a transfer is at the host.              *)
LEMMA UsersAlike ==
  ASSUME IInv, NEW x \in Users, NEW y \in Users
  PROVE  x = y
<1>1. \A u \in Users : \/ u = "host" /\ AtHost
                       \/ u = "disp" /\ act["disp"].pc \in Polling \cup {"running"}
                       \/ u = "cw" /\ act["cw"].pc \in Polling
                       \/ u = "rec" /\ act["rec"].pc \in {"recover", "single"}
  BY DEF Users, AtHost, Actors, IInv, PcInv, Polling, Posting
<1>2. AtHost =>
        /\ act["disp"].pc \notin Polling \cup {"running"}
        /\ act["cw"].pc \notin Polling
        /\ act["rec"].pc \notin {"recover", "single"}
  BY NoneNames DEF IInv, HostInv, LockInv, Locking, RecoveryInv
<1>3. act["cw"].pc \in Polling =>
        /\ act["disp"].pc \notin Polling \cup {"running"}
        /\ act["rec"].pc \notin {"recover", "single"}
  BY NoneNames, Modes DEF IInv, LockInv, Locking, HostInv, ModeInv, Polling
<1>4. act["rec"].pc \in {"recover", "single"} =>
        act["disp"].pc \notin Polling \cup {"running"}
  BY Modes DEF IInv, ModeInv, RecoveryInv, HostInv, Ready, TargetInv
<1> QED BY <1>1, <1>2, <1>3, <1>4

(* Who uses the host has the queue's claim. *)
LEMMA UsersClaim ==
  ASSUME IInv, NEW x \in Users
  PROVE  claim.by = "mq"
<1>1. \/ AtHost
      \/ act["disp"].pc \in Polling \cup {"running"}
      \/ act["cw"].pc \in Polling
      \/ act["rec"].pc \in {"recover", "single"}
  BY DEF Users, AtHost, Actors, IInv, PcInv, Polling, Posting
<1>2. CASE act["rec"].pc \in {"recover", "single"}
  BY <1>2 DEF IInv, ClaimInv, Claims, B
<1>3. CASE act["disp"].pc \in Polling \cup {"running"}
  <2>1. Total > 0
    BY <1>3 DEF IInv, CountInv, InFlight, B, OwnCounted
  <2> QED BY <1>3, <2>1 DEF IInv, ClaimInv, Claims, B, Polling
<1>4. CASE AtHost \/ act["cw"].pc \in Polling
  <2>1. Total > 0
    BY <1>4 DEF IInv, CountInv, InFlight, B, Counted
  <2>2. act["disp"].pc # "claim"
    BY <1>4 DEF IInv, CountInv, InFlight, B, Counted, ClaimInv, OwnCounted
  <2> QED BY <2>1, <2>2 DEF IInv, ClaimInv, Claims, B
<1> QED BY <1>1, <1>2, <1>3, <1>4

(* One transfer, one recovery or one synchronous command is at the host at *)
(* a time, with the host claimed: for any number of tags and any           *)
(* interleaving of dispatcher, completion and work items.                  *)
THEOREM HostExclusiveHolds == Spec => []HostExclusive
<1>1. IInv => HostExclusive
  <2> SUFFICES ASSUME IInv, Users # {} PROVE Cardinality(Users) = 1
                      /\ claim.by = "mq"
    BY DEF HostExclusive
  <2>1. PICK u : u \in Users
    OBVIOUS
  <2>2. Users = {u}
    BY <2>1, UsersAlike
  <2>3. Cardinality({u}) = 1
    BY FS_Singleton
  <2> QED BY <2>1, <2>2, <2>3, UsersClaim
<1> QED BY Invariance, <1>1, PTL

(* mmc_queue_suspend(): when the claim was got and given back, no request  *)
(* of the queue is under way.                                              *)
THEOREM SuspendedQuietHolds == Spec => []SuspendedQuiet
<1>1. IInv => SuspendedQuiet
  <2> SUFFICES ASSUME IInv, other.pc = "suspended"
               PROVE  Users = {} /\ \A r \in Reqs : rq[r].st # "issued"
    BY DEF SuspendedQuiet
  <2>1. Total = 0 /\ act["disp"].pc = "idle" /\ act["late"].pc = "idle"
    BY DEF IInv, OtherInv, Stopping
  <2>2. /\ ~AtHost /\ DoneReq = None /\ mq.recovery_req = None
        /\ ~Counted("irq") /\ ~Counted("cw") /\ ~Counted("rec")
    BY <2>1 DEF IInv, CountInv, InFlight, B
  <2>3. Users = {}
    BY <2>1, <2>2
       DEF Users, AtHost, Counted, Actors, IInv, PcInv, Polling, Posting
  <2>4. /\ OwnReq = None /\ LateReq = None
        /\ HostReq = None /\ PostReq("disp") = None
        /\ PostReq("irq") = None /\ PostReq("cw") = None /\ PostReq("rec") = None
    BY <2>1, <2>2
       DEF OwnReq, OwnCounted, LateReq, HostReq, PostReq, Counted, IInv, PcInv,
           Polling, Posting
  <2>5. ASSUME NEW r \in Reqs PROVE rq[r].st # "issued"
    <3>1. r # None
      BY ReqsAssumption
    <3>2. Places(r) = 0
      BY <2>2, <2>4, <3>1 DEF Places, B
    <3> QED BY <3>2 DEF IInv, PlaceInv, B
  <2> QED BY <2>3, <2>5
<1> QED BY Invariance, <1>1, PTL

(* mmc_put_card() never WARNs, and a queue with nothing in flight keeps    *)
(* neither the count nor the claim, whatever type of request each count    *)
(* was taken back under.                                                   *)
THEOREM ClaimBalancedHolds == Spec => []ClaimBalanced
<1>1. IInv => ClaimBalanced
  <2> SUFFICES ASSUME IInv PROVE ClaimBalanced
    OBVIOUS
  <2>1. ASSUME \A a \in Actors : act[a].pc = "idle", ~mq.recovery_work,
               \A r \in Reqs : rq[r].st # "issued"
        PROVE  claim.by # "mq" /\ Total = 0
    <3>1. /\ act["disp"].pc = "idle" /\ act["irq"].pc = "idle"
          /\ act["cw"].pc = "idle" /\ act["rec"].pc = "idle"
          /\ act["late"].pc = "idle"
      BY <2>1, Names
    <3>2. ~AtHost /\ mq.recovery_req = None /\ DoneReq = None
      <4>1. \A r \in Reqs : HostReq # r /\ DoneReq # r /\ mq.recovery_req # r
        BY <2>1, NotPlaced
      <4>2. AtHost => HostReq \in Reqs
        BY DEF AtHost, HostReq, IInv, Shape
      <4>3. DoneReq \in Reqs \cup {None} /\ mq.recovery_req \in Reqs \cup {None}
        BY DEF DoneReq, IInv, Shape, QueueRec
      <4> QED BY <4>1, <4>2, <4>3
    <3>3. Total = 0
      BY <3>1, <3>2
         DEF IInv, CountInv, InFlight, B, OwnCounted, Counted, Polling, Posting
    <3> QED BY <3>1, <3>3 DEF IInv, ClaimInv, Claims, B
  <2>2. ~claim.warn
    BY DEF IInv, ClaimInv
  <2> QED BY <2>1, <2>2 DEF ClaimBalanced, Total
<1> QED BY Invariance, <1>1, PTL

(* Nothing is reported as transferred that was not but the sectors that    *)
(* mmc_blk_read_single() tries again, and no erase as done but the secure  *)
(* ones an -EIO ended: an error that only the card saw is found before the *)
(* request is posted.                                                      *)
THEOREM WrongReportsHolds == Spec => []WrongReports
<1>1. IInv => WrongReports
  BY DEF IInv, XferInv, Shape, CardRec, WrongReports
<1> QED BY Invariance, <1>1, PTL
=============================================================================
