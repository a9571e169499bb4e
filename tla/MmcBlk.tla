-------------------------------- MODULE MmcBlk -------------------------------
(***************************************************************************)
(* The block queue of a card without command queue, mmc/core/queue.c and   *)
(* mmc/core/block.c, and the claim of the host, mmc/core/core.c.  Five     *)
(* contexts work on the queue at once: the dispatcher (mmc_mq_queue_rq()), *)
(* one before it that is late to put the claim, the host driver's          *)
(* completion, and two work items.  The host is that of  *)
(* MmcHost.  Another task claims it now and then, to suspend the queue or  *)
(* to look for the card.                                                   *)
(*                                                                         *)
(* A request has blocks left to transfer.  A step is a section under       *)
(* queue_lock, a sleep, a command to the card or one of the shared fields. *)
(*                                                                         *)
(* Definitions named Bad... are slips that test the properties.            *)
(***************************************************************************)
EXTENDS Integers, FiniteSets

CONSTANTS
  Reqs,            \* the tags of the queue
  Blocks,          \* blocks of a request
  MAX_RETRIES, DATA_RETRIES, READ_SINGLE_RETRIES,
  Setups           \* what a behaviour may meet, one of these

RwOps == {"read", "write"}
SyncOps == {"flush", "discard", "secdiscard"}

(* "done" is a host with MMC_CAP_DONE_COMPLETE; faulty are the tags whose  *)
(* transfers may fail; submits and rounds bound the requests and the       *)
(* rounds of the other task.                                               *)
SetupType ==
  [mode : {"poll", "done"}, ops : SUBSET (RwOps \cup SyncOps),
   faulty : SUBSET Reqs, submits : Nat, rounds : Nat]

ASSUME SetupsAssumption == Setups \subseteq SetupType
ASSUME BlocksAssumption == Blocks \in Nat \ {0}
ASSUME RetriesAssumption ==
  /\ READ_SINGLE_RETRIES \in Nat
  /\ DATA_RETRIES \in Nat /\ MAX_RETRIES \in Nat
  /\ 0 < DATA_RETRIES /\ DATA_RETRIES < MAX_RETRIES

VARIABLES
  setup,       \* of this behaviour
  mq,          \* struct mmc_queue
  rq,          \* the requests and their struct mmc_queue_req
  at,          \* the request the host has, or None
  act,         \* the contexts
  claim,       \* the claim of the host
  other,       \* the other task
  card,        \* mmc_card_removed(), reset_done and what was reported wrongly
  submits

vars == <<setup, mq, rq, at, act, claim, other, card, submits>>

None == "none"
ASSUME ReqsAssumption == None \notin Reqs

Actors == {"disp", "late", "irq", "cw", "rec"}
NO_RETRIES == MAX_RETRIES + 1
Pcs == {"idle", "claim", "wait", "asleep", "lock", "poll", "recover", "single",
        "complete", "dec", "put", "go", "running", "leave", "undo", "undoput",
        "begin", "end", "endput"}

TypeOK ==
  /\ setup \in Setups
  /\ mq \in [in_flight : [{"SYNC", "ASYNC"} -> -setup.submits..(2 * setup.submits)],
             busy : BOOLEAN, recovery_needed : BOOLEAN, in_recovery : BOOLEAN,
             rw_wait : BOOLEAN, waiting : BOOLEAN,
             complete_req : Reqs \cup {None}, recovery_req : Reqs \cup {None},
             complete_lock : Actors \cup {None},
             complete_work : BOOLEAN, recovery_work : BOOLEAN,
             quiesced : BOOLEAN]
  /\ rq \in [Reqs -> [st : {"free", "queued", "issued", "completing"},
                      op : RwOps \cup SyncOps, left : 0..Blocks,
                      retries : 0..NO_RETRIES,
                      err : {"none", "cmd", "data"}, xfer : 0..Blocks,
                      bad : BOOLEAN]]
  /\ at \in Reqs \cup {None}
  /\ act \in [Actors -> [pc : Pcs, req : Reqs \cup {None}, rw : BOOLEAN,
                         tgt : Reqs \cup {None},
                         err : {"none", "busy", "start", "finished"},
                         retries : 0..READ_SINGLE_RETRIES, error : BOOLEAN]]
  /\ claim \in [by : {None, "mq", "other"}, cnt : 0..3, warn : BOOLEAN]
  /\ other \in [pc : {"idle", "quiesce", "claim", "claimed", "suspended"},
                suspend : BOOLEAN, rounds : 0..setup.rounds]
  /\ card \in [removed : BOOLEAN, reset_done : SUBSET (RwOps \cup SyncOps),
               lied : SUBSET {"transfer", "single", "secdiscard"}]
  /\ submits \in 0..setup.submits

Idle == [pc |-> "idle", req |-> None, rw |-> FALSE, tgt |-> None, err |-> "none",
         retries |-> 0, error |-> FALSE]

(* mmc_mq_init() *)
Init ==
  /\ setup \in Setups
  /\ mq = [in_flight |-> [t \in {"SYNC", "ASYNC"} |-> 0], busy |-> FALSE,
           recovery_needed |-> FALSE, in_recovery |-> FALSE,
           rw_wait |-> FALSE, waiting |-> FALSE, complete_req |-> None,
           recovery_req |-> None, complete_lock |-> None,
           complete_work |-> FALSE, recovery_work |-> FALSE,
           quiesced |-> FALSE]
  /\ rq = [r \in Reqs |-> [st |-> "free", op |-> "read", left |-> 0,
                           retries |-> 0, err |-> "none", xfer |-> 0,
                           bad |-> FALSE]]
  /\ at = None
  /\ act = [a \in Actors |-> Idle]
  /\ claim = [by |-> None, cnt |-> 0, warn |-> FALSE]
  /\ other = [pc |-> "idle", suspend |-> FALSE, rounds |-> 0]
  /\ card = [removed |-> FALSE, reset_done |-> {}, lied |-> {}]
  /\ submits = 0

mmc_issue_type(op) == IF op \in RwOps THEN "ASYNC" ELSE "SYNC"

mmc_tot_in_flight(q) == q.in_flight["SYNC"] + q.in_flight["ASYNC"]

Step(a, pc) == act' = [act EXCEPT ![a].pc = pc]

(* The dispatcher issues a transfer.  What it issues it looked up when it  *)
(* began: by now the transfer may be done and its tag be another request.  *)
Rw(a) == a = "disp" /\ act.disp.rw

-----------------------------------------------------------------------------
(* __mmc_claim_host() with the context of the queue, which nests, and      *)
(* mmc_put_card() with its WARN_ON()s.                                     *)

mmc_get_card ==
  /\ claim.by \in {None, "mq"}
  /\ claim' = [claim EXCEPT !.by = "mq", !.cnt = @ + 1]

BadPut ==
  claim' = IF claim.by # "mq" THEN [claim EXCEPT !.warn = TRUE]
           ELSE [claim EXCEPT !.cnt = 0, !.by = None]

mmc_put_card ==
  claim' = IF claim.by # "mq" THEN [claim EXCEPT !.warn = TRUE]
           ELSE [claim EXCEPT !.cnt = @ - 1,
                              !.by = IF claim.cnt = 1 THEN None ELSE @]

(* A claim that was got; the recovery claims too. *)
Claim(a) ==
  /\ act[a].pc = "claim"
  /\ mmc_get_card
  /\ Step(a, IF a = "disp" THEN "wait" ELSE "begin")
  /\ UNCHANGED <<setup, mq, rq, at, other, card, submits>>

-----------------------------------------------------------------------------
(* The block layer.                                                        *)

Submit(r, op) ==
  /\ submits < setup.submits
  /\ rq[r].st = "free"
  /\ rq' = [rq EXCEPT ![r] = [st |-> "queued", op |-> op, retries |-> 0,
                              left |-> IF op \in RwOps THEN Blocks ELSE 0,
                              err |-> "none", xfer |-> 0, bad |-> FALSE]]
  /\ submits' = submits + 1
  /\ UNCHANGED <<setup, mq, at, act, claim, other, card>>

(* The request ends, or goes back to the queue with what is left of it. *)
End(q) == [q EXCEPT !.st = "free", !.left = 0, !.retries = 0, !.err = "none",
                    !.xfer = 0, !.bad = FALSE]
Requeue(q) == [q EXCEPT !.st = "queued", !.err = "none", !.xfer = 0, !.bad = FALSE]

(* mmc_blk_mq_complete_rq(): some data is progress, none costs a retry. *)
BadCompleteRq(q) ==
  CASE q.xfer > 0 /\ q.xfer < q.left -> Requeue([q EXCEPT !.left = @ - q.xfer])
    [] q.left > 0 /\ q.xfer = 0 -> Requeue(q)
    [] OTHER -> End(q)

mmc_blk_mq_complete_rq(q) ==
  CASE q.xfer > 0 /\ q.xfer < q.left -> Requeue([q EXCEPT !.left = @ - q.xfer])
    [] q.xfer = 0 /\ q.left > 0 /\ q.retries < MAX_RETRIES ->
         Requeue([q EXCEPT !.retries = @ + 1])
    [] OTHER -> End(q)

(* Blocks that are reported as transferred and were not. *)
Reported(q, c) ==
  IF q.xfer > 0 /\ q.bad THEN [c EXCEPT !.lied = @ \cup {"transfer"}] ELSE c

(* The completion of blk_mq_complete_request(), in a softirq. *)
mmc_blk_mq_complete(r) ==
  /\ rq[r].st = "completing"
  /\ rq' = [rq EXCEPT ![r] = mmc_blk_mq_complete_rq(rq[r])]
  /\ card' = Reported(rq[r], card)
  /\ UNCHANGED <<setup, mq, at, act, claim, other, submits>>

-----------------------------------------------------------------------------
(* mmc_mq_queue_rq(): one dispatcher at a time has the queue, by `busy'.   *)

mmc_mq_queue_rq(r) ==
  LET q == [mq EXCEPT !.busy = TRUE,
                      !.in_flight[mmc_issue_type(rq[r].op)] = @ + 1]
  IN  /\ rq[r].st = "queued" /\ ~mq.quiesced
      /\ act.disp.pc = "idle" /\ ~mq.busy /\ ~mq.recovery_needed
      /\ IF card.removed
         THEN /\ rq' = [rq EXCEPT ![r] = End(@)]
              /\ UNCHANGED <<mq, act>>
         ELSE /\ rq' = [rq EXCEPT ![r].st = "issued"]
              /\ mq' = q
              /\ act' = [act EXCEPT !.disp =
                   [Idle EXCEPT !.pc = IF mmc_tot_in_flight(q) = 1
                                       THEN "claim" ELSE "wait",
                                !.req = r, !.rw = rq[r].op \in RwOps]]
      /\ UNCHANGED <<setup, at, claim, other, card, submits>>

(* mmc_blk_rw_wait(): wait while another transfer is in progress *)
mmc_blk_rw_wait ==
  /\ act.disp.pc = "wait"
  /\ \/ /\ mq.recovery_needed
        /\ act' = [act EXCEPT !.disp.err = "busy", !.disp.pc = "lock"]
        /\ mq' = [mq EXCEPT !.waiting = FALSE]
     \/ /\ ~mq.recovery_needed /\ ~mq.rw_wait
        /\ Step("disp", "lock")
        /\ mq' = [mq EXCEPT !.waiting = FALSE]
     \/ /\ ~mq.recovery_needed /\ mq.rw_wait
        /\ Step("disp", "asleep")
        /\ mq' = [mq EXCEPT !.waiting = TRUE]
  /\ UNCHANGED <<setup, rq, at, claim, other, card, submits>>

(* Issue the request: a transfer is started, a synchronous operation runs; *)
(* the previous transfer is posted when the next one is under way.         *)
BadGo ==
  /\ act.disp.pc = "go"
  /\ LET d == act.disp IN
     CASE d.err = "busy" -> Step("disp", "undo") /\ UNCHANGED <<mq, at>>
       [] d.err # "busy" /\ ~Rw("disp") ->
            Step("disp", "running") /\ at' = d.req /\ UNCHANGED mq
       [] d.err # "busy" /\ Rw("disp") ->
            /\ at' = IF card.removed THEN at ELSE d.req
            /\ act' = [act EXCEPT
                 !.disp.err = IF card.removed THEN "start" ELSE "none",
                 !.disp.pc = CASE d.tgt # None -> "complete"
                               [] d.tgt = None /\ card.removed -> "undo"
                               [] OTHER -> "leave"]
            /\ UNCHANGED mq
  /\ UNCHANGED <<setup, rq, claim, other, card, submits>>

Go ==
  /\ act.disp.pc = "go"
  /\ LET d == act.disp IN
     CASE d.err = "busy" -> Step("disp", "undo") /\ UNCHANGED <<mq, at>>
       [] d.err # "busy" /\ ~Rw("disp") ->
            Step("disp", "running") /\ at' = d.req /\ UNCHANGED mq
       [] d.err # "busy" /\ Rw("disp") ->
            /\ mq' = [mq EXCEPT !.rw_wait = TRUE]
            /\ at' = IF card.removed THEN at ELSE d.req
            /\ act' = [act EXCEPT
                 !.disp.err = IF card.removed THEN "start" ELSE "none",
                 !.disp.pc = CASE d.tgt # None -> "complete"
                               [] d.tgt = None /\ card.removed -> "undo"
                               [] OTHER -> "leave"]
  /\ UNCHANGED <<setup, rq, claim, other, card, submits>>

(* mmc_blk_issue_flush(), ..._discard_rq(), ..._secdiscard_rq(): an error  *)
(* is tried again after a reset, -EIO only.  A secure erase that -EIO      *)
(* ended for good, as the reset failed or there was one before (-EEXIST),  *)
(* still ends with the status it began with.                               *)
SyncOp ==
  LET op == rq[act.disp.req].op IN
  /\ act.disp.pc = "running"
  /\ \/ /\ act' = [act EXCEPT !.disp.pc = "undo", !.disp.err = "finished"]
        /\ at' = None
        /\ rq' = [rq EXCEPT ![act.disp.req] = End(@)]
        /\ \/ card' = [card EXCEPT !.reset_done = @ \ {op}]
           \/ UNCHANGED card
           \/ /\ op # "flush"
              /\ card' = [card EXCEPT !.reset_done = @ \cup {op},
                                      !.lied = @ \cup ({op} \cap {"secdiscard"})]
     \/ /\ op # "flush" /\ op \notin card.reset_done
        /\ card' = [card EXCEPT !.reset_done = @ \cup {op}]
        /\ UNCHANGED <<act, at, rq>>
  /\ UNCHANGED <<setup, mq, claim, other, submits>>

(* A request that was started keeps its place in flight. *)
Leave ==
  /\ act.disp.pc = "leave"
  /\ mq' = [mq EXCEPT !.busy = FALSE]
  /\ act' = [act EXCEPT !.disp = Idle]
  /\ UNCHANGED <<setup, rq, at, claim, other, card, submits>>

(* What the block layer does with the result: try again, end, nothing. *)
Return(d) ==
  rq' = CASE d.err = "busy" -> [rq EXCEPT ![d.req].st = "queued"]
          [] d.err = "start" -> [rq EXCEPT ![d.req] = End(@)]
          [] OTHER -> rq

(* It was not: in_flight is taken back, under the type of the dispatch.    *)
(* `busy' is no more, and the next dispatch can begin before the claim is  *)
(* put (a third one cannot, here).                                         *)
Undo ==
  LET d == act.disp
      t == IF d.rw THEN "ASYNC" ELSE "SYNC"
      q == [mq EXCEPT !.busy = FALSE, !.in_flight[t] = @ - 1,
                      !.rw_wait = @ /\ d.err # "start"]
  IN  /\ d.pc = "undo"
      /\ mq' = q
      /\ IF mmc_tot_in_flight(q) = 0
         THEN /\ act.late.pc = "idle"
              /\ act' = [act EXCEPT !.disp = Idle,
                                    !.late = [d EXCEPT !.pc = "undoput"]]
              /\ UNCHANGED rq
         ELSE /\ act' = [act EXCEPT !.disp = Idle]
              /\ Return(d)
      /\ UNCHANGED <<setup, at, claim, other, card, submits>>

UndoPut ==
  /\ act.late.pc = "undoput"
  /\ mmc_put_card
  /\ act' = [act EXCEPT !.late = Idle]
  /\ Return(act.late)
  /\ UNCHANGED <<setup, mq, at, other, card, submits>>

-----------------------------------------------------------------------------
(* mmc_blk_mq_complete_prev_req(): the dispatcher or complete_work takes   *)
(* the transfer that is done, under complete_lock.                         *)

Lock(a) ==
  /\ act[a].pc = "lock"
  /\ LET next == IF a = "disp" THEN "go" ELSE "idle" IN
     \/ /\ setup.mode = "done" \/ mq.complete_req = None
        /\ setup.mode = "done" \/ mq.complete_lock = None
        /\ Step(a, next)
        /\ UNCHANGED mq
     \/ /\ setup.mode = "poll" /\ mq.complete_lock = None
        /\ mq.complete_req # None
        /\ mq' = [mq EXCEPT !.complete_lock = a]
        /\ act' = [act EXCEPT ![a].pc = "poll", ![a].tgt = mq.complete_req]
  /\ UNCHANGED <<setup, rq, at, claim, other, card, submits>>

(* The dispatcher of a transfer keeps the request for later, others post   *)
(* it with the lock held.                                                  *)
AfterPoll(a) ==
  /\ act' = [act EXCEPT ![a].pc = IF Rw(a) THEN "go" ELSE "complete",
                        ![a].retries = 0, ![a].error = FALSE]
  /\ mq' = IF Rw(a) THEN [mq EXCEPT !.complete_req = None,
                                     !.complete_lock = None]
           ELSE mq

(* mmc_blk_mq_poll_completion(), mmc_blk_card_busy(): a write is over when *)
(* the card is ready, and its status may show an error nobody saw.         *)
Poll(a) ==
  LET r == act[a].tgt
      q == rq[r]
  IN  /\ act[a].pc = "poll"
      /\ \/ /\ q.err = "none" /\ (q.op = "write" => ~q.bad)
            /\ card' = [card EXCEPT !.reset_done = @ \ {q.op}]
            /\ AfterPoll(a)
            /\ UNCHANGED rq
         \/ /\ q.err # "none" \/ (q.op = "write" /\ r \in setup.faulty)
            /\ rq' = IF q.err = "none" /\ q.bad
                     THEN [rq EXCEPT ![r].xfer = 0] ELSE rq
            /\ Step(a, "recover")
            /\ UNCHANGED <<mq, card>>
      /\ UNCHANGED <<setup, at, claim, other, submits>>

-----------------------------------------------------------------------------
(* mmc_blk_mq_rw_recovery(): how it leaves the request, over the answers   *)
(* of the card to the commands it sends.                                   *)

(* mmc_blk_reset(): once until something succeeds; ok if the reset works *)
Reset(c, op) == [c EXCEPT !.reset_done = @ \cup {op}]
ResetWorks(c, op, ok) == op \notin c.reset_done /\ ok

Answers == [status : {"ok", "bad", "late", "none"},  \* late: at the second try
            gone : BOOLEAN, tran : BOOLEAN, fix : BOOLEAN,
            written : -1..Blocks, reset : BOOLEAN]

(* The status of the card shows what the host did not see. *)
Honest(q, x) == q.bad => x.status # "ok"

BadAfterStatus(q, x) == q

AfterStatus(q, x) ==
  IF x.status = "ok" /\ (x.tran \/ q.op = "read") THEN q
  ELSE [q EXCEPT !.xfer = 0]

(* Back to the transfer state, or not *)
Stuck(x) == ~x.fix /\ (x.status = "none" \/ ~x.tran)

(* An SD card knows what it wrote; -1 is an MMC card. *)
AfterCount(q, x) ==
  IF ~Stuck(x) /\ q.err # "cmd" /\ q.op = "write" /\ x.written >= 0
  THEN [q EXCEPT !.xfer = x.written, !.bad = FALSE]
  ELSE q

(* Set the retries when nothing was transferred; "single" says that one    *)
(* sector is read at a time.                                               *)
Single(q) ==
  /\ q.xfer = 0 /\ q.err # "cmd" /\ q.op = "read" /\ q.left > 1
  /\ q.retries >= MAX_RETRIES - DATA_RETRIES

AfterRetries(q) ==
  IF q.xfer = 0 /\ q.err # "cmd" /\ q.retries < MAX_RETRIES - DATA_RETRIES
  THEN [q EXCEPT !.retries = MAX_RETRIES - DATA_RETRIES]
  ELSE q

Recover(a) ==
  LET r == act[a].tgt
      op == rq[r].op
  IN  /\ act[a].pc = "recover"
      /\ \E x \in Answers :
           LET q1 == AfterStatus(rq[r], x)
               q2 == AfterCount(q1, x)
               failed == Stuck(x) /\ ~ResetWorks(card, op, x.reset)
               last == q2.xfer = 0 /\ q2.retries + 1 = MAX_RETRIES
           IN  /\ Honest(rq[r], x) /\ x.written <= rq[r].left
               /\ op = "read" => x.written = -1
               /\ x.gone => x.status = "none"
               /\ CASE x.status = "none" /\ x.gone ->
                         /\ rq' = [rq EXCEPT ![r] = q1]
                         /\ card' = [card EXCEPT !.removed = TRUE]
                         /\ AfterPoll(a)
                    [] ~(x.status = "none" /\ x.gone) /\ failed ->
                         /\ rq' = [rq EXCEPT ![r] =
                                     [q2 EXCEPT !.retries = NO_RETRIES]]
                         /\ card' = Reset(card, op)
                         /\ AfterPoll(a)
                    [] OTHER ->
                         /\ rq' = [rq EXCEPT ![r] = AfterRetries(q2)]
                         /\ card' = IF Stuck(x) \/ last THEN Reset(card, op)
                                    ELSE card
                         /\ IF Single(q2)
                            THEN /\ act' = [act EXCEPT ![a].pc = "single",
                                       ![a].retries = 0, ![a].error = FALSE]
                                 /\ UNCHANGED mq
                            ELSE AfterPoll(a)
      /\ UNCHANGED <<setup, at, claim, other, submits>>

(* mmc_blk_read_single(), one pass of its loop.  `continue' goes on to     *)
(* the condition of the loop, and that takes the block as done.            *)
mmc_blk_read_single(a) ==
  LET r == act[a].tgt
      s == act[a]
      Take(q) == [q EXCEPT !.left = @ - 1]
      Exit(q) == [Take(q) EXCEPT !.xfer = 0,
                    !.retries = IF q.retries > MAX_RETRIES - 1
                                THEN MAX_RETRIES - 1 ELSE q.retries]
      Loop(q, again, error) ==
        /\ rq' = [rq EXCEPT ![r] = q]
        /\ IF q.left > 0
           THEN /\ act' = [act EXCEPT ![a].retries = again, ![a].error = error]
                /\ UNCHANGED mq
           ELSE AfterPoll(a)
  IN  /\ s.pc = "single"
      /\ \/ (* no status, or the card is stuck: error_exit *)
            /\ rq' = [rq EXCEPT ![r] = Exit(rq[r])]
            /\ AfterPoll(a)
            /\ UNCHANGED card
         \/ (* a command error, tried again *)
            /\ s.retries < READ_SINGLE_RETRIES
            /\ Loop([Take(rq[r]) EXCEPT !.xfer = 0, !.bad = FALSE],
                    s.retries + 1, s.error)
            /\ card' = IF s.error THEN card
                       ELSE [card EXCEPT !.lied = @ \cup {"single"}]
         \/ (* a command error too many, or a data error *)
            /\ Loop([Take(rq[r]) EXCEPT !.xfer = 0, !.bad = FALSE], 0, TRUE)
            /\ UNCHANGED card
         \/ (* read *)
            /\ Loop([Take(rq[r]) EXCEPT !.xfer = 1, !.bad = FALSE], 0, FALSE)
            /\ UNCHANGED card
      /\ UNCHANGED <<setup, at, claim, other, submits>>

-----------------------------------------------------------------------------
(* mmc_blk_mq_post_req(): complete the request, then count it down, by the *)
(* operation its tag has by then, and give the claim up with the last.     *)

AfterPost(a, q) ==
  LET next == CASE Rw(a) /\ act[a].err = "start" -> "undo"
                [] Rw(a) /\ act[a].err # "start" -> "leave"
                [] ~Rw(a) /\ a = "disp" -> "go"
                [] a = "rec" -> "end"
                [] OTHER -> "idle"
  IN  /\ act' = [act EXCEPT ![a].pc = next, ![a].tgt = None]
      /\ mq' = IF a \in {"disp", "cw"} /\ ~Rw(a)
               THEN [q EXCEPT !.complete_req = None, !.complete_lock = None]
               ELSE q

Complete(a) ==
  LET r == act[a].tgt IN
  /\ act[a].pc = "complete"
  /\ IF mq.in_recovery
     THEN /\ rq' = [rq EXCEPT ![r] = mmc_blk_mq_complete_rq(rq[r])]
          /\ card' = Reported(rq[r], card)
     ELSE /\ rq' = [rq EXCEPT ![r].st = "completing"]
          /\ UNCHANGED card
  /\ Step(a, "dec")
  /\ UNCHANGED <<setup, mq, at, claim, other, submits>>

mmc_blk_mq_dec_in_flight(a) ==
  LET t == mmc_issue_type(rq[act[a].tgt].op)
      q == [mq EXCEPT !.in_flight[t] = @ - 1]
  IN  /\ act[a].pc = "dec"
      /\ IF mmc_tot_in_flight(q) = 0
         THEN mq' = q /\ Step(a, "put")
         ELSE AfterPost(a, q)
      /\ UNCHANGED <<setup, rq, at, claim, other, card, submits>>

Put(a) ==
  /\ act[a].pc = "put"
  /\ mmc_put_card
  /\ AfterPost(a, mq)
  /\ UNCHANGED <<setup, rq, at, other, card, submits>>

-----------------------------------------------------------------------------
(* mmc_blk_mq_req_done(), called by the host driver.                       *)

(* wake_up(&mq->wait) *)
Wake(c) == IF c.disp.pc = "asleep" THEN [c EXCEPT !.disp.pc = "wait"] ELSE c

(* How a transfer may end: "cmd" is an error of the command, "data" any    *)
(* other, of the stop command too.  A host may take less than all without  *)
(* an error, and a write may fail in the card unseen.                      *)
Results(r) ==
  LET q == rq[r] IN
  {res \in [err : {"none", "cmd", "data"}, xfer : 0..q.left, bad : BOOLEAN] :
     /\ res.err = "none" => /\ res.xfer > 0
                            /\ res.bad => setup.mode = "poll" /\ q.op = "write"
     /\ res.err = "cmd" => res.xfer = 0 /\ ~res.bad
     /\ r \notin setup.faulty => res.err = "none" /\ ~res.bad}

DoneLater ==
  /\ setup.mode = "poll"
  /\ mq' = [mq EXCEPT !.complete_req = at, !.rw_wait = FALSE,
                      !.complete_work = @ \/ ~mq.waiting]
  /\ act' = IF mq.waiting THEN Wake(act) ELSE act
  /\ UNCHANGED card

(* An error, or urgent background operations, are left to recovery_work. *)
DoneRecovery(res) ==
  /\ setup.mode = "done"
  /\ mq' = [mq EXCEPT !.recovery_needed = TRUE, !.recovery_req = at,
                      !.recovery_work = TRUE]
  /\ act' = Wake(act)
  /\ UNCHANGED card

DoneNow(res) ==
  /\ setup.mode = "done" /\ res.err = "none"
  /\ card' = [card EXCEPT !.reset_done = @ \ {rq[at].op}]
  /\ mq' = [mq EXCEPT !.rw_wait = FALSE]
  /\ act' = [Wake(act) EXCEPT !.irq.pc = "complete", !.irq.tgt = at]

mmc_blk_mq_req_done ==
  /\ at # None /\ act.irq.pc = "idle"
  /\ rq[at].op \in RwOps
  /\ \E res \in Results(at) :
       /\ DoneLater \/ DoneRecovery(res) \/ DoneNow(res)
       /\ rq' = [rq EXCEPT ![at].err = res.err, ![at].xfer = res.xfer,
                           ![at].bad = res.bad]
  /\ at' = None
  /\ UNCHANGED <<setup, claim, other, submits>>

(* mmc_blk_mq_complete_work() *)
CompleteWork ==
  /\ mq.complete_work /\ act.cw.pc = "idle"
  /\ mq' = [mq EXCEPT !.complete_work = FALSE]
  /\ Step("cw", "lock")
  /\ UNCHANGED <<setup, rq, at, claim, other, card, submits>>

-----------------------------------------------------------------------------
(* mmc_mq_recovery_handler(), mmc_blk_mq_recovery().                       *)

RecoveryWork ==
  /\ mq.recovery_work /\ act.rec.pc = "idle"
  /\ mq' = [mq EXCEPT !.recovery_work = FALSE]
  /\ Step("rec", "claim")
  /\ UNCHANGED <<setup, rq, at, claim, other, card, submits>>

RecoveryBegin ==
  LET r == mq.recovery_req IN
  /\ act.rec.pc = "begin"
  /\ mq' = [mq EXCEPT !.in_recovery = TRUE, !.recovery_req = None,
                      !.rw_wait = FALSE]
  /\ act' = [act EXCEPT !.rec.tgt = r,
                        !.rec.pc = IF rq[r].err # "none" THEN "recover"
                                   ELSE "complete"]
  /\ UNCHANGED <<setup, rq, at, claim, other, card, submits>>

RecoveryEnd ==
  /\ act.rec.pc = "end"
  /\ mq' = [mq EXCEPT !.in_recovery = FALSE, !.recovery_needed = FALSE]
  /\ Step("rec", "endput")
  /\ UNCHANGED <<setup, rq, at, claim, other, card, submits>>

BadRecoveryPut ==
  /\ act.rec.pc = "endput"
  /\ Step("rec", "idle")
  /\ UNCHANGED <<setup, mq, rq, at, claim, other, card, submits>>

RecoveryPut ==
  /\ act.rec.pc = "endput"
  /\ mmc_put_card
  /\ Step("rec", "idle")
  /\ UNCHANGED <<setup, mq, rq, at, other, card, submits>>

-----------------------------------------------------------------------------
(* The other task: mmc_queue_suspend() and resume, or a look at the card,  *)
(* which may be gone.                                                      *)

OtherStarts ==
  /\ other.pc = "idle" /\ other.rounds < setup.rounds
  /\ \E s \in BOOLEAN :
       /\ other' = [pc |-> IF s THEN "quiesce" ELSE "claim", suspend |-> s,
                    rounds |-> other.rounds + 1]
       /\ mq' = [mq EXCEPT !.quiesced = s]
  /\ UNCHANGED <<setup, rq, at, act, claim, card, submits>>

(* blk_mq_quiesce_queue() waits for a dispatcher. *)
OtherClaims ==
  /\ \/ other.pc = "quiesce" /\ act.disp.pc = "idle" /\ act.late.pc = "idle"
     \/ other.pc = "claim"
  /\ claim.by = None
  /\ claim' = [claim EXCEPT !.by = "other", !.cnt = 1]
  /\ other' = [other EXCEPT !.pc = "claimed"]
  /\ UNCHANGED <<setup, mq, rq, at, act, card, submits>>

OtherReleases ==
  /\ other.pc = "claimed"
  /\ claim' = [claim EXCEPT !.by = None, !.cnt = 0]
  /\ other' = [other EXCEPT !.pc = IF other.suspend THEN "suspended" ELSE "idle"]
  /\ \E gone \in BOOLEAN :
       /\ gone => ~other.suspend
       /\ card' = [card EXCEPT !.removed = @ \/ gone]
  /\ UNCHANGED <<setup, mq, rq, at, act, submits>>

mmc_queue_resume ==
  /\ other.pc = "suspended"
  /\ mq' = [mq EXCEPT !.quiesced = FALSE]
  /\ other' = [other EXCEPT !.pc = "idle"]
  /\ UNCHANGED <<setup, rq, at, act, claim, card, submits>>

-----------------------------------------------------------------------------
Act(a) ==
  \/ Claim(a) \/ Lock(a) \/ Poll(a) \/ Recover(a) \/ mmc_blk_read_single(a)
  \/ Complete(a) \/ mmc_blk_mq_dec_in_flight(a) \/ Put(a)

Dispatcher ==
  \/ Act("disp") \/ mmc_blk_rw_wait \/ Go \/ SyncOp \/ Leave \/ Undo

Completer == Act("cw") \/ CompleteWork

Recoverer ==
  Act("rec") \/ RecoveryWork \/ RecoveryBegin \/ RecoveryEnd \/ RecoveryPut

Other == OtherClaims \/ OtherReleases \/ mmc_queue_resume

Next ==
  \/ \E r \in Reqs : \/ \E op \in setup.ops : Submit(r, op)
                     \/ mmc_mq_queue_rq(r) \/ mmc_blk_mq_complete(r)
  \/ Dispatcher \/ UndoPut \/ Completer \/ Recoverer
  \/ Act("irq") \/ mmc_blk_mq_req_done
  \/ OtherStarts \/ Other

Spec == Init /\ [][Next]_vars

(* The block layer runs the queue again after every refusal, the host      *)
(* gives every request back (MmcHost), workers are scheduled, and the      *)
(* other task lets go.                                                     *)
FairSpec ==
  /\ Spec
  /\ \A r \in Reqs : WF_vars(mmc_mq_queue_rq(r)) /\ WF_vars(mmc_blk_mq_complete(r))
  /\ WF_vars(Dispatcher) /\ WF_vars(UndoPut)
  /\ WF_vars(Completer) /\ WF_vars(Recoverer)
  /\ WF_vars(Act("irq")) /\ WF_vars(mmc_blk_mq_req_done)
  /\ WF_vars(Other)

-----------------------------------------------------------------------------
(* Who uses the host. *)
Users == {a \in Actors : act[a].pc \in {"poll", "recover", "single", "running"}}
           \cup (IF at # None /\ rq[at].op \in RwOps THEN {"host"} ELSE {})

(* One transfer, one recovery or one synchronous command is at the host at *)
(* a time, and the queue has the host claimed meanwhile: Sdhci and DwMmc   *)
(* rely on it.                                                             *)
HostExclusive == Users # {} => Cardinality(Users) = 1 /\ claim.by = "mq"

(* "The host remains claimed while there are outstanding requests, so      *)
(* simply claiming and releasing here ensures there are none": nothing of  *)
(* a suspended queue is under way.                                         *)
SuspendedQuiet ==
  other.pc = "suspended" =>
    Users = {} /\ \A r \in Reqs : rq[r].st # "issued"

(* The queue keeps no claim when it has nothing in flight, whatever tag    *)
(* the count was taken back under; and mmc_put_card() never WARNs.         *)
ClaimBalanced ==
  /\ ~claim.warn
  /\ (\A a \in Actors : act[a].pc = "idle") /\ ~mq.recovery_work
       /\ (\A r \in Reqs : rq[r].st # "issued")
     => claim.by # "mq" /\ mmc_tot_in_flight(mq) = 0

(* What the block layer is told was done and was not, over partial         *)
(* transfers, errors only the card saw, resets and retries: sectors that   *)
(* mmc_blk_read_single() tries again (SingleTrue) and secure erases that   *)
(* an -EIO ended (SyncOp), nothing else; a write never.                    *)
WrongReports == card.lied \subseteq {"single", "secdiscard"}

(* "we redo the request one sector at a time in order to accurately        *)
(* determine which sectors can be read successfully": a sector whose read  *)
(* is to be tried again is not taken as read.                              *)
SingleTrue ==
  [][\A a \in Actors :
       LET r == act[a].tgt IN
       act[a].pc = "single" /\ act'[a].retries > act[a].retries =>
         act'[a].error \/ rq'[r].left = rq[r].left]_vars

(* Every request ends, whatever fails and whoever waits for whom. *)
RequestsEnd == \A r \in Reqs : rq[r].st # "free" ~> rq[r].st = "free"
=============================================================================
