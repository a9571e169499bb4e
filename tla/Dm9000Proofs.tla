---------------------------- MODULE Dm9000Proofs ----------------------------
(***************************************************************************)
(* Proofs about Dm9000 for any set of boards and of packet lengths.  What  *)
(* depends on register accesses without db->lock is stated for boards with *)
(* wake-on-LAN on, and with several processors or the simple link query    *)
(* only on the old chip.                                                   *)
(***************************************************************************)
EXTENDS Dm9000, TLAPS

(* Other boards shut the chip down under a running link poll: on suspend,  *)
(* or when a link change queues the poll again during stop.                *)
QuietBoards ==
  \A b \in Boards : b.wol /\ (b.simple \/ b.smp => b.type = "E")

(* TypeOK in five parts. *)
BitType ==
  /\ imr \in BOOLEAN /\ hung \in BOOLEAN /\ rcr \in BOOLEAN
  /\ nsr \in BOOLEAN /\ taken \in BOOLEAN
  /\ running \in BOOLEAN /\ active \in BOOLEAN
  /\ present \in BOOLEAN /\ stopped \in BOOLEAN
StatusType ==
  /\ isr \subseteq {"PRS", "PTS", "LNK"}
  /\ status \subseteq {"PRS", "PTS", "LNK"}
PacketType ==
  /\ sram \in Seq(Lens) /\ Len(sram) <= 1
  /\ sending \in {<<>>} \cup (Lens \X Lens)
  /\ tx_pkt_cnt \in 0 .. 2
  /\ queue_pkt_len \in Lens \cup {0}
  /\ rxq \in 0 .. MaxRx
BusType ==
  /\ addr \in Regs /\ last \in Regs /\ saved \in Regs
  /\ lock \in {"free", "irq", "dog", "poll", "ctl"}
DriverType ==
  /\ board \in Boards
  /\ epar \in {"none", "ctl", "poll"}
  /\ addr_lock \in {"free", "ctl", "poll"}
  /\ irq \in {"none", "ready", "rx", "tx", "end"}
  /\ poll \in {"off", "queued", "run", "ncr", "lpa", "cmd", "phy", "res"}
  /\ todo \in Seq(Ops)

(* The lists that neither open nor stop the interface. *)
EepromOps == <<Op("eeprom"), Op("eeprom2")>>
LockedOps == <<Op("locked")>>
LinkOps == <<Op("link")>>
DetachOps == <<Op("detach")>>
AttachOps == <<Op("attach")>>
ShortLists ==
  {dm9000_phy, EepromOps, LockedOps, LinkOps, DetachOps, AttachOps}

(* What is left to do is the list P from its k-th operation. *)
Ahead(P, k) ==
  /\ Len(todo) = Len(P) + 1 - k
  /\ \A i \in 1 .. Len(todo) : todo[i] = P[k - 1 + i]

Old == board.type = "E"

(* Nobody opens or stops the interface: it is down, without an interrupt   *)
(* and a link poll, or up.                                                 *)
SettledInv ==
  /\ running <=> active
  /\ running <=> irq # "none"
  /\ ~present => running
  /\ ~running /\ Old => poll = "off"

(* What dm9000_open() has established before its k-th operation. *)
OpenInv(k) ==
  /\ running /\ ~active /\ present
  /\ k <= 14 <=> irq = "none"
  /\ k <= 16 => irq \in {"none", "ready"}
  /\ k >= 7 /\ k <= 16 => ~imr
  /\ k >= 5 => sending = <<>> /\ sram = <<>>
  /\ k >= 9 => ~nsr
  /\ k >= 14 => tx_pkt_cnt = 0 /\ ~taken
  /\ k <= 20 /\ Old => poll = "off"
  /\ OpenOps[k].op = "write" => last = OpenOps[k].reg

(* What dm9000_stop() has established before its k-th operation. *)
StopInv(k) ==
  /\ ~running /\ ~active /\ present
  /\ k <= 3 <=> irq # "none"
  /\ k >= 2 /\ Old => poll = "off"
  /\ StopOps[k].op = "write" => last = StopOps[k].reg

CtlInv ==
  \/ todo = <<>> /\ SettledInv
  \/ \E k \in 1 .. 21 : Ahead(OpenOps, k) /\ OpenInv(k)
  \/ \E k \in 1 .. 12 : Ahead(StopOps, k) /\ StopInv(k)
  \/ \E P \in ShortLists : \E k \in 1 .. Len(P) :
       Ahead(P, k) /\ SettledInv /\ (P = DetachOps => running)

(* Who owns the spinlock.  A board without the simple link query is never  *)
(* in the middle of one.  The handler has a status only while it runs.     *)
(* The old chip reports no link change.                                    *)
HandlerInv ==
  /\ lock = "irq" <=> irq \in {"rx", "tx", "end"}
  /\ lock = "poll" <=> poll \in {"cmd", "res"}
  /\ lock = "dog" => active
  /\ lock = "ctl" => todo # <<>> /\ Head(todo).op \in {"phy", "phy2"}
  /\ poll \in {"ncr", "lpa"} => board.simple
  /\ irq \in {"none", "ready"} => status = {}
  /\ Old => "LNK" \notin isr \cup status

(* The owner of the spinlock has saved the register selected last by those *)
(* who do not restore it.                                                  *)
AddrInv ==
  /\ lock = "free" => addr = last
  /\ lock # "free" => saved = last

(* While the handler is installed the driver counts the packet on its way  *)
(* or its completion, which the handler will see or another reader of NSR  *)
(* has taken, and the packet that waits behind it, whose length is in      *)
(* queue_pkt_len.  The watchdog has reset the chip but not yet the counts. *)
Busy == sending # <<>> \/ nsr \/ taken
CountInv ==
  /\ nsr => Unseen /\ sending = <<>>
  /\ taken => ~nsr /\ sending = <<>>
  /\ ~Busy => sram = <<>> /\ tx_pkt_cnt = 0
  /\ Busy => \/ sram = <<>> /\ tx_pkt_cnt = 1
             \/ sram = <<queue_pkt_len>> /\ tx_pkt_cnt = 2
TxInv ==
  /\ irq # "none" /\ lock # "dog" => CountInv
  /\ lock = "dog" => sending = <<>> /\ sram = <<>>

IInv == TypeOK /\ CtlInv /\ HandlerInv /\ AddrInv /\ TxInv /\ OwnLength

(* In every list the two halves of a transaction follow one another. *)
First == {"phy", "eeprom"}
Second == {"phy2", "eeprom2"}
Paired(L) ==
  /\ L \in Seq(Ops)
  /\ \A i \in 1 .. Len(L) - 1 : L[i].op \in First <=> L[i + 1].op \in Second
  /\ L # <<>> => L[Len(L)].op \notin First
Whole(L) == Paired(L) /\ L # <<>> /\ Head(L).op \notin Second

(* The owner of addr_lock is in the middle of its transaction. *)
TransactionInv ==
  /\ addr_lock = "poll" <=> poll \in {"cmd", "phy", "res"}
  /\ addr_lock = "ctl" <=>
       todo # <<>> /\ (Head(todo).op \in Second \/ lock = "ctl")
  /\ lock = "ctl" => todo # <<>> /\ Head(todo).op \in {"phy", "phy2"}
  /\ addr_lock # "free" => epar = addr_lock

PInv == Paired(todo) /\ TransactionInv

-----------------------------------------------------------------------------
(* The lists of operations.                                                *)

(* The two halves of iow(). *)
LEMMA IowList ==
  ASSUME NEW r \in Regs, NEW v \in BOOLEAN
  PROVE  /\ iow(r, v) \in Seq(Ops)
         /\ Len(iow(r, v)) = 2
         /\ iow(r, v)[1] = [op |-> "select", reg |-> r, val |-> v]
         /\ iow(r, v)[2] = [op |-> "write", reg |-> r, val |-> v]
<1>1. /\ [op |-> "select", reg |-> r, val |-> v] \in Ops
      /\ [op |-> "write", reg |-> r, val |-> v] \in Ops
  BY DEF Ops
<1>2. QED
  BY <1>1 DEF iow

(* The operations that access no register of their own. *)
LEMMA OpInOps ==
  /\ \A o \in {"vars", "request_irq", "free_irq", "start", "stop_queue",
               "schedule", "cancel", "detach", "attach", "phy", "phy2",
               "eeprom", "eeprom2", "locked", "link", "done", "down"} :
       Op(o) \in Ops
BY DEF Op, Ops

(* Every list consists of operations. *)
LEMMA ListTypes ==
  /\ \A P \in ShortLists : P \in Seq(Ops)
  /\ OpenOps \in Seq(Ops) /\ StopOps \in Seq(Ops)
  /\ SuspendOps \in Seq(Ops) /\ ResumeOps \in Seq(Ops)
<1>1. \A r \in Regs, v \in BOOLEAN : iow(r, v) \in Seq(Ops)
  BY IowList
<1>2. /\ \A s, t \in Seq(Ops) : s \o t \in Seq(Ops)
      /\ <<>> \in Seq(Ops)
      /\ \A o \in Ops : <<o>> \in Seq(Ops)
      /\ \A o, p \in Ops : <<o, p>> \in Seq(Ops)
      /\ \A o, p, q \in Ops : <<o, p, q>> \in Seq(Ops)
  OBVIOUS
<1>3. \A P \in ShortLists : P \in Seq(Ops)
  <2>1. dm9000_phy \in Seq(Ops) /\ EepromOps \in Seq(Ops)
    BY <1>2, OpInOps DEF dm9000_phy, EepromOps
  <2>2. /\ LockedOps \in Seq(Ops) /\ LinkOps \in Seq(Ops)
        /\ DetachOps \in Seq(Ops) /\ AttachOps \in Seq(Ops)
    BY <1>2, OpInOps DEF LockedOps, LinkOps, DetachOps, AttachOps
  <2>3. QED
    BY <2>1, <2>2, Zenon DEF ShortLists
<1>4. dm9000_init_dm9000 \in Seq(Ops)
  <2>1. <<Op("vars")>> \in Seq(Ops)
    BY <1>2, OpInOps
  <2>2. /\ iow("NCR", TRUE) \in Seq(Ops) /\ iow("IMR", FALSE) \in Seq(Ops)
        /\ iow("NSR", TRUE) \in Seq(Ops) /\ iow("ISR", TRUE) \in Seq(Ops)
        /\ iow("RCR", TRUE) \in Seq(Ops)
    BY <1>1 DEF Regs
  <2>3. QED
    BY <1>2, <2>1, <2>2, Zenon DEF dm9000_init_dm9000
<1>5. OpenOps \in Seq(Ops)
  <2>1. <<Op("request_irq")>> \in Seq(Ops)
        /\ <<Op("start"), Op("schedule"), Op("done")>> \in Seq(Ops)
    BY <1>2, OpInOps
  <2>2. iow("GPR", TRUE) \in Seq(Ops) /\ iow("IMR", TRUE) \in Seq(Ops)
    BY <1>1 DEF Regs
  <2>3. QED
    BY <1>2, <1>3, <1>4, <2>1, <2>2, Zenon DEF OpenOps, ShortLists
<1>6. dm9000_shutdown \in Seq(Ops)
  <2>1. /\ iow("GPR", FALSE) \in Seq(Ops) /\ iow("IMR", FALSE) \in Seq(Ops)
        /\ iow("RCR", FALSE) \in Seq(Ops)
    BY <1>1 DEF Regs
  <2>2. QED
    BY <1>2, <1>3, <2>1, Zenon DEF dm9000_shutdown, ShortLists
<1>7. StopOps \in Seq(Ops)
  <2>1. <<Op("cancel"), Op("stop_queue"), Op("free_irq")>> \in Seq(Ops)
        /\ <<Op("down")>> \in Seq(Ops)
    BY <1>2, OpInOps
  <2>2. QED
    BY <1>2, <1>6, <2>1, Zenon DEF StopOps
<1>8. SuspendOps \in Seq(Ops) /\ ResumeOps \in Seq(Ops)
  <2>1. <<Op("detach")>> \in Seq(Ops) /\ <<Op("attach")>> \in Seq(Ops)
    BY <1>2, OpInOps
  <2>2. iow("IMR", TRUE) \in Seq(Ops)
    BY <1>1 DEF Regs
  <2>3. /\ (IF board.wol THEN <<>> ELSE dm9000_shutdown) \in Seq(Ops)
        /\ (IF board.wol THEN <<>> ELSE dm9000_init_dm9000 \o iow("IMR", TRUE))
             \in Seq(Ops)
    BY <1>2, <1>4, <1>6, <2>2, Zenon
  <2>4. QED
    BY <1>2, <2>1, <2>3, Zenon DEF SuspendOps, ResumeOps
<1>9. QED
  BY <1>3, <1>5, <1>7, <1>8

(* dm9000_open(), operation by operation. *)
LEMMA OpenList ==
  /\ Len(OpenOps) = 21
  /\ OpenOps[1].op = "select" /\ OpenOps[1].reg = "GPR"
  /\ OpenOps[2].op = "write" /\ OpenOps[2].reg = "GPR"
  /\ OpenOps[3].op = "select" /\ OpenOps[3].reg = "NCR"
  /\ OpenOps[4].op = "write" /\ OpenOps[4].reg = "NCR"
  /\ OpenOps[5].op = "select" /\ OpenOps[5].reg = "IMR"
  /\ OpenOps[6].op = "write" /\ OpenOps[6].reg = "IMR"
  /\ OpenOps[6].val = FALSE
  /\ OpenOps[7].op = "select" /\ OpenOps[7].reg = "NSR"
  /\ OpenOps[8].op = "write" /\ OpenOps[8].reg = "NSR"
  /\ OpenOps[9].op = "select" /\ OpenOps[9].reg = "ISR"
  /\ OpenOps[10].op = "write" /\ OpenOps[10].reg = "ISR"
  /\ OpenOps[11].op = "select" /\ OpenOps[11].reg = "RCR"
  /\ OpenOps[12].op = "write" /\ OpenOps[12].reg = "RCR"
  /\ OpenOps[13].op = "vars"
  /\ OpenOps[14].op = "request_irq"
  /\ OpenOps[15].op = "select" /\ OpenOps[15].reg = "IMR"
  /\ OpenOps[16].op = "write" /\ OpenOps[16].reg = "IMR"
  /\ OpenOps[17].op = "phy"
  /\ OpenOps[18].op = "phy2"
  /\ OpenOps[19].op = "start"
  /\ OpenOps[20].op = "schedule"
  /\ OpenOps[21].op = "done"
BY SMTT(30) DEF OpenOps, dm9000_init_dm9000, iow, dm9000_phy, Op

(* dm9000_stop(), operation by operation. *)
LEMMA StopList ==
  /\ Len(StopOps) = 12
  /\ StopOps[1].op = "cancel"
  /\ StopOps[2].op = "stop_queue"
  /\ StopOps[3].op = "free_irq"
  /\ StopOps[4].op = "phy"
  /\ StopOps[5].op = "phy2"
  /\ StopOps[6].op = "select" /\ StopOps[6].reg = "GPR"
  /\ StopOps[7].op = "write" /\ StopOps[7].reg = "GPR"
  /\ StopOps[8].op = "select" /\ StopOps[8].reg = "IMR"
  /\ StopOps[9].op = "write" /\ StopOps[9].reg = "IMR"
  /\ StopOps[10].op = "select" /\ StopOps[10].reg = "RCR"
  /\ StopOps[11].op = "write" /\ StopOps[11].reg = "RCR"
  /\ StopOps[12].op = "down"
BY SMTT(30) DEF StopOps, dm9000_shutdown, iow, dm9000_phy, Op

(* The short lists. *)
LEMMA ShortList ==
  /\ Len(dm9000_phy) = 2
  /\ dm9000_phy[1].op = "phy" /\ dm9000_phy[2].op = "phy2"
  /\ Len(EepromOps) = 2
  /\ EepromOps[1].op = "eeprom" /\ EepromOps[2].op = "eeprom2"
  /\ Len(LockedOps) = 1 /\ LockedOps[1].op = "locked"
  /\ Len(LinkOps) = 1 /\ LinkOps[1].op = "link"
  /\ Len(DetachOps) = 1 /\ DetachOps[1].op = "detach"
  /\ Len(AttachOps) = 1 /\ AttachOps[1].op = "attach"
BY DEF dm9000_phy, EepromOps, LockedOps, LinkOps, DetachOps, AttachOps, Op

(* Where the driver stands in a list, and where it stands after the next   *)
(* operation of it.                                                        *)
LEMMA AheadStep ==
  ASSUME NEW P \in Seq(Ops), NEW k \in 1 .. Len(P),
         todo \in Seq(Ops), Ahead(P, k)
  PROVE  /\ todo # <<>> /\ Head(todo) = P[k]
         /\ todo' = Tail(todo) /\ k < Len(P) => Ahead(P, k + 1)'
         /\ todo' = Tail(todo) /\ k = Len(P) => todo' = <<>>
<1>1. todo # <<>> /\ Head(todo) = P[k]
  BY DEF Ahead
<1>2. CASE todo' = Tail(todo) /\ k < Len(P)
  <2>1. Len(todo') = Len(P) + 1 - (k + 1)
    BY <1>1, <1>2 DEF Ahead
  <2>2. \A i \in 1 .. Len(todo') : todo'[i] = P[(k + 1) - 1 + i]
    <3> SUFFICES ASSUME NEW i \in 1 .. Len(todo')
                 PROVE  todo'[i] = P[(k + 1) - 1 + i]
      OBVIOUS
    <3>1. todo'[i] = todo[i + 1] /\ i + 1 \in 1 .. Len(todo)
      BY <1>1, <1>2
    <3>2. (k + 1) - 1 + i = k - 1 + (i + 1)
      OBVIOUS
    <3>3. QED
      BY <3>1, <3>2 DEF Ahead
  <2>3. QED
    BY <1>1, <1>2, <2>1, <2>2 DEF Ahead
<1>3. CASE todo' = Tail(todo) /\ k = Len(P)
  BY <1>1, <1>3 DEF Ahead
<1>4. QED
  BY <1>1, <1>2, <1>3

(* A list that has just been handed to the driver. *)
LEMMA AheadFirst ==
  ASSUME NEW P \in Seq(Ops), todo' = P
  PROVE  Ahead(P, 1)'
BY DEF Ahead

(* The operations of the short lists. *)
LEMMA ShortOps ==
  ASSUME NEW P \in ShortLists, NEW k \in 1 .. Len(P)
  PROVE  /\ P[k].op \in {"detach", "attach", "locked", "link", "phy", "phy2",
                         "eeprom", "eeprom2"}
         /\ P[k].op = "detach" => P = DetachOps
         /\ P = DetachOps => k = Len(P)
<1>1. Len(P) = 1 \/ Len(P) = 2
  BY ShortList DEF ShortLists
<1>2. CASE Len(P) = 1
  <2>1. k = 1
    BY <1>2
  <2>2. QED
    BY <1>2, <2>1, ShortList DEF ShortLists
<1>3. CASE Len(P) = 2
  <2>1. k = 1 \/ k = 2
    BY <1>3
  <2>2. QED
    BY <1>3, <2>1, ShortList DEF ShortLists
<1>4. QED
  BY <1>1, <1>2, <1>3

(* What the next operation tells about the state. *)
LEMMA AtOp ==
  ASSUME CtlInv, todo \in Seq(Ops), todo # <<>>
  PROVE  \/ \E k \in 1 .. 21 : Head(todo) = OpenOps[k] /\ OpenInv(k)
         \/ \E k \in 1 .. 12 : Head(todo) = StopOps[k] /\ StopInv(k)
         \/ /\ SettledInv
            /\ Head(todo).op \in {"detach", "attach", "locked", "link", "phy",
                                  "phy2", "eeprom", "eeprom2"}
            /\ Head(todo).op = "detach" => running
<1>1. ASSUME NEW k \in 1 .. 21, Ahead(OpenOps, k)
      PROVE  Head(todo) = OpenOps[k]
  <2>1. OpenOps \in Seq(Ops) /\ Len(OpenOps) = 21
    BY ListTypes, OpenList
  <2>2. QED
    BY <1>1, <2>1, AheadStep
<1>2. ASSUME NEW k \in 1 .. 12, Ahead(StopOps, k)
      PROVE  Head(todo) = StopOps[k]
  <2>1. StopOps \in Seq(Ops) /\ Len(StopOps) = 12
    BY ListTypes, StopList
  <2>2. QED
    BY <1>2, <2>1, AheadStep
<1>3. ASSUME NEW P \in ShortLists, NEW k \in 1 .. Len(P), Ahead(P, k),
             P = DetachOps => running
      PROVE  /\ Head(todo).op \in {"detach", "attach", "locked", "link", "phy",
                                   "phy2", "eeprom", "eeprom2"}
             /\ Head(todo).op = "detach" => running
  <2>1. P \in Seq(Ops)
    BY ListTypes
  <2>2. Head(todo) = P[k]
    BY <1>3, <2>1, AheadStep
  <2>3. QED
    BY <1>3, <2>2, ShortOps
<1>4. QED
  BY <1>1, <1>2, <1>3 DEF CtlInv

(* Where the operations stand in the list of open. *)
LEMMA OpenPlaces ==
  ASSUME NEW k \in 1 .. 21
  PROVE  /\ OpenOps[k].op = "write" => k \in {2, 4, 6, 8, 10, 12, 16}
         /\ OpenOps[k].op = "select" => k \in {1, 3, 5, 7, 9, 11, 15}
         /\ OpenOps[k].op = "vars" => k = 13
         /\ OpenOps[k].op = "request_irq" => k = 14
         /\ OpenOps[k].op = "phy" => k = 17
         /\ OpenOps[k].op = "phy2" => k = 18
         /\ OpenOps[k].op = "start" => k = 19
         /\ OpenOps[k].op = "schedule" => k = 20
         /\ OpenOps[k].op = "done" => k = 21
         /\ OpenOps[k].op \notin {"cancel", "stop_queue", "free_irq", "down",
                                  "detach", "attach", "eeprom", "eeprom2",
                                  "locked", "link"}
<1>1. \/ k = 1 \/ k = 2 \/ k = 3 \/ k = 4 \/ k = 5 \/ k = 6
      \/ k = 7 \/ k = 8 \/ k = 9 \/ k = 10 \/ k = 11 \/ k = 12
      \/ k = 13 \/ k = 14 \/ k = 15 \/ k = 16 \/ k = 17 \/ k = 18
      \/ k = 19 \/ k = 20 \/ k = 21
  OBVIOUS
<1>2. QED
  BY <1>1, OpenList

(* The same for stop. *)
LEMMA StopPlaces ==
  ASSUME NEW k \in 1 .. 12
  PROVE  /\ StopOps[k].op = "write" => k \in {7, 9, 11}
         /\ StopOps[k].op = "select" => k \in {6, 8, 10}
         /\ StopOps[k].op = "cancel" => k = 1
         /\ StopOps[k].op = "stop_queue" => k = 2
         /\ StopOps[k].op = "free_irq" => k = 3
         /\ StopOps[k].op = "phy" => k = 4
         /\ StopOps[k].op = "phy2" => k = 5
         /\ StopOps[k].op = "down" => k = 12
         /\ StopOps[k].op \notin {"vars", "request_irq", "start", "schedule",
                                  "done", "detach", "attach", "eeprom",
                                  "eeprom2", "locked", "link"}
<1>1. \/ k = 1 \/ k = 2 \/ k = 3 \/ k = 4 \/ k = 5 \/ k = 6
      \/ k = 7 \/ k = 8 \/ k = 9 \/ k = 10 \/ k = 11 \/ k = 12
  OBVIOUS
<1>2. QED
  BY <1>1, StopList

(* The interrupt is requested when the chip is reset and the counts are    *)
(* clear.                                                                  *)
LEMMA AtRequestIrq ==
  ASSUME CtlInv, todo \in Seq(Ops), RequestIrq
  PROVE  /\ irq = "none" /\ sending = <<>> /\ sram = <<>>
         /\ ~nsr /\ ~taken /\ tx_pkt_cnt = 0
         /\ OpenInv(14)
<1>1. PICK k \in 1 .. 21 : Head(todo) = OpenOps[k] /\ OpenInv(k)
  BY AtOp, StopPlaces DEF RequestIrq, At
<1>2. k = 14
  BY <1>1, OpenPlaces DEF RequestIrq, At
<1>3. QED
  BY <1>1, <1>2 DEF OpenInv

(* A step that leaves the list alone keeps CtlInv when it keeps what has   *)
(* been established so far.                                                *)
LEMMA CtlFrame ==
  ASSUME CtlInv, UNCHANGED <<todo, running>>,
         SettledInv => SettledInv',
         \A k \in 1 .. 21 : OpenInv(k) => OpenInv(k)',
         \A k \in 1 .. 12 : StopInv(k) => StopInv(k)'
  PROVE  CtlInv'
<1>1. \A P, k : Ahead(P, k) => Ahead(P, k)'
  BY DEF Ahead
<1>2. QED
  BY <1>1 DEF CtlInv

(* A step that takes the next operation keeps CtlInv when it establishes   *)
(* what the operation is there for.                                        *)
LEMMA CtlNext ==
  ASSUME CtlInv, todo \in Seq(Ops), todo # <<>>, todo' = Tail(todo),
         \A k \in 1 .. 21 : Head(todo) = OpenOps[k] /\ OpenInv(k) =>
           IF k = 21 THEN SettledInv' ELSE OpenInv(k + 1)',
         \A k \in 1 .. 12 : Head(todo) = StopOps[k] /\ StopInv(k) =>
           IF k = 12 THEN SettledInv' ELSE StopInv(k + 1)',
         /\ SettledInv
         /\ Head(todo).op \in {"detach", "attach", "locked", "link", "phy",
                               "phy2", "eeprom", "eeprom2"}
         /\ Head(todo).op = "detach" => running
         => SettledInv'
  PROVE  CtlInv'
<1>1. ASSUME NEW k \in 1 .. 21, Ahead(OpenOps, k), OpenInv(k)
      PROVE  CtlInv'
  <2>1. /\ Head(todo) = OpenOps[k]
        /\ k < 21 => Ahead(OpenOps, k + 1)'
        /\ k = 21 => todo' = <<>>
    <3>1. OpenOps \in Seq(Ops) /\ Len(OpenOps) = 21
      BY ListTypes, OpenList
    <3>2. QED
      BY <1>1, <3>1, AheadStep
  <2>2. CASE k = 21
    BY <1>1, <2>1, <2>2 DEF CtlInv
  <2>3. CASE k < 21
    <3>1. k + 1 \in 1 .. 21 /\ k # 21
      BY <2>3
    <3>2. OpenInv(k + 1)'
      BY <1>1, <2>1, <3>1, Zenon
    <3>3. QED
      BY <2>1, <2>3, <3>1, <3>2 DEF CtlInv
  <2>4. QED
    BY <2>2, <2>3
<1>2. ASSUME NEW k \in 1 .. 12, Ahead(StopOps, k), StopInv(k)
      PROVE  CtlInv'
  <2>1. /\ Head(todo) = StopOps[k]
        /\ k < 12 => Ahead(StopOps, k + 1)'
        /\ k = 12 => todo' = <<>>
    <3>1. StopOps \in Seq(Ops) /\ Len(StopOps) = 12
      BY ListTypes, StopList
    <3>2. QED
      BY <1>2, <3>1, AheadStep
  <2>2. CASE k = 12
    BY <1>2, <2>1, <2>2 DEF CtlInv
  <2>3. CASE k < 12
    <3>1. k + 1 \in 1 .. 12 /\ k # 12
      BY <2>3
    <3>2. StopInv(k + 1)'
      BY <1>2, <2>1, <3>1, Zenon
    <3>3. QED
      BY <2>1, <2>3, <3>1, <3>2 DEF CtlInv
  <2>4. QED
    BY <2>2, <2>3
<1>3. ASSUME NEW P \in ShortLists, NEW k \in 1 .. Len(P), Ahead(P, k),
             SettledInv, P = DetachOps => running
      PROVE  CtlInv'
  <2>1. P \in Seq(Ops)
    BY ListTypes
  <2>2. /\ Head(todo) = P[k]
        /\ k < Len(P) => Ahead(P, k + 1)'
        /\ k = Len(P) => todo' = <<>>
    BY <1>3, <2>1, AheadStep
  <2>3. /\ P[k].op \in {"detach", "attach", "locked", "link", "phy", "phy2",
                        "eeprom", "eeprom2"}
        /\ P[k].op = "detach" => P = DetachOps
        /\ P = DetachOps => k = Len(P)
    BY ShortOps
  <2>4. SettledInv'
    BY <1>3, <2>2, <2>3
  <2>5. CASE k = Len(P)
    BY <2>2, <2>4, <2>5 DEF CtlInv
  <2>6. CASE k < Len(P)
    <3>1. Len(P) \in Nat
      BY <2>1
    <3>2. k + 1 \in 1 .. Len(P) /\ P # DetachOps
      BY <2>3, <2>6, <3>1
    <3>3. QED
      BY <2>2, <2>4, <2>6, <3>2 DEF CtlInv
  <2>7. QED
    BY <2>1, <2>5, <2>6
<1>4. QED
  BY <1>1, <1>2, <1>3 DEF CtlInv

(* The empty list. *)
LEMMA LenEmpty == Len(<<>>) = 0
OBVIOUS

(* The transmit memory holds one packet that waits. *)
LEMMA OneEntry ==
  \A x : Append(<<>>, x) = <<x>> /\ Head(<<x>>) = x /\ Tail(<<x>>) = <<>>
OBVIOUS

(* Once the interrupt is requested the only register written without the   *)
(* lock is IMR.                                                            *)
LEMMA AtWrite ==
  ASSUME CtlInv, todo \in Seq(Ops), At("write")
  PROVE  /\ last = Head(todo).reg
         /\ irq # "none" => last = "IMR"
<1>1. CASE \E k \in 1 .. 21 : Head(todo) = OpenOps[k] /\ OpenInv(k)
  <2>1. PICK k \in 1 .. 21 : Head(todo) = OpenOps[k] /\ OpenInv(k)
    BY <1>1
  <2>2. k \in {2, 4, 6, 8, 10, 12, 16}
    BY <2>1, OpenPlaces DEF Next1, At
  <2>3. QED
    BY <2>1, <2>2, OpenList DEF Next1, At, OpenInv
<1>2. CASE \E k \in 1 .. 12 : Head(todo) = StopOps[k] /\ StopInv(k)
  <2>1. PICK k \in 1 .. 12 : Head(todo) = StopOps[k] /\ StopInv(k)
    BY <1>2
  <2>2. k \in {7, 9, 11}
    BY <2>1, StopPlaces DEF Next1, At
  <2>3. QED
    BY <2>1, <2>2, StopList DEF Next1, At, StopInv
<1>3. QED
  BY <1>1, <1>2, AtOp DEF Next1, At

(* Nobody owns the spinlock when a register is accessed without it: with   *)
(* several processors neither the handler nor the link poll can run then,  *)
(* with one nobody runs inside a section of another.                       *)
LEMMA FreeBus ==
  ASSUME QuietBoards, TypeOK, CtlInv, HandlerInv,
         At("select") \/ At("write")
  PROVE  lock = "free"
<1>1. todo \in Seq(Ops) /\ todo # <<>> /\ Head(todo).op \in {"select", "write"}
  BY DEF TypeOK, At
<1>2. lock # "ctl"
  BY <1>1 DEF HandlerInv
<1>3. CASE ~board.smp
  BY <1>2, <1>3 DEF At, Runs
<1>4. CASE board.smp
  <2>1. Old
    BY <1>4 DEF QuietBoards, TypeOK, Old
  <2>2. ~active /\ poll = "off" /\ irq \in {"none", "ready"}
    <3>1. CASE \E k \in 1 .. 21 : Head(todo) = OpenOps[k] /\ OpenInv(k)
      <4>1. PICK k \in 1 .. 21 : Head(todo) = OpenOps[k] /\ OpenInv(k)
        BY <3>1
      <4>2. k <= 16
        BY <1>1, <4>1, OpenPlaces
      <4>3. QED
        BY <2>1, <4>1, <4>2 DEF OpenInv
    <3>2. CASE \E k \in 1 .. 12 : Head(todo) = StopOps[k] /\ StopInv(k)
      <4>1. PICK k \in 1 .. 12 : Head(todo) = StopOps[k] /\ StopInv(k)
        BY <3>2
      <4>2. k >= 6
        BY <1>1, <4>1, StopPlaces
      <4>3. QED
        BY <2>1, <4>1, <4>2 DEF StopInv
    <3>3. QED
      BY <1>1, <3>1, <3>2, AtOp
  <2>3. QED
    BY <1>2, <2>2 DEF HandlerInv, TypeOK
<1>5. QED
  BY <1>3, <1>4

(* The core transmits and watches only a device that is up, so with its    *)
(* interrupt requested.                                                    *)
LEMMA ActiveUp ==
  ASSUME CtlInv, active
  PROVE  running /\ irq # "none"
BY DEF CtlInv, OpenInv, StopInv, SettledInv

(* A register that is accessed without the spinlock is the one that is     *)
(* selected.                                                               *)
LEMMA WriteOwn ==
  ASSUME QuietBoards, TypeOK, CtlInv, HandlerInv, AddrInv, Write
  PROVE  /\ addr = Head(todo).reg /\ lock = "free"
         /\ irq # "none" => addr = "IMR"
<1>1. At("write") /\ Next1("write")
  BY DEF Write, Next1
<1>2. lock = "free"
  BY <1>1, FreeBus
<1>3. last = Head(todo).reg /\ (irq # "none" => last = "IMR")
  BY <1>1, AtWrite DEF TypeOK
<1>4. QED
  BY <1>2, <1>3 DEF AddrInv

(* Who owns the spinlock. *)
LEMMA HandlerStep ==
  ASSUME TypeOK, HandlerInv, CtlInv, [Next]_vars
  PROVE  HandlerInv'
<1> USE DEF HandlerInv, Old, bus, tx, chip, db, net
<1>1. CASE IrqEnter
  BY <1>1 DEF IrqEnter, Enter
<1>2. CASE dm9000_rx
  BY <1>2 DEF dm9000_rx, Within
<1>3. CASE dm9000_tx_done
  BY <1>3 DEF dm9000_tx_done, Within
<1>4. CASE IrqExit
  <2>1. /\ lock = "irq" /\ lock' = "free" /\ irq = "end" /\ irq' = "ready"
        /\ status' = {} /\ UNCHANGED <<board, isr, todo>>
    BY <1>4 DEF IrqExit, Leave
  <2>2. poll' = poll \/ (poll = "off" /\ poll' = "queued")
    BY <1>4 DEF IrqExit
  <2>3. QED
    BY <2>1, <2>2
<1>5. CASE RequestIrq
  <2>1. /\ At("request_irq")
        /\ UNCHANGED <<board, lock, poll, status, isr, active>>
    BY <1>5 DEF RequestIrq
  <2>2. irq = "none" /\ irq' \in {"none", "ready"}
    BY <1>5, AtRequestIrq DEF RequestIrq, TypeOK
  <2>3. lock # "ctl"
    BY <2>1 DEF At
  <2>4. QED
    BY <2>1, <2>2, <2>3
<1>6. CASE FreeIrq
  BY <1>6 DEF FreeIrq, Next1, At
<1>7. CASE TxComplete \/ RxArrives \/ LinkChanges
  BY <1>7 DEF TxComplete, RxArrives, LinkChanges
<1>8. CASE dm9000_timeout
  <2>1. CASE TimeoutBegins
    BY <2>1 DEF TimeoutBegins, Enter
  <2>2. CASE TimeoutEnds
    BY <2>2 DEF TimeoutEnds, Leave
  <2>3. QED
    BY <1>8, <2>1, <2>2 DEF dm9000_timeout
<1>9. CASE dm9000_poll_work
  <2>0. UNCHANGED <<board, isr, irq, status, active, todo>>
    BY <1>9 DEF dm9000_poll_work, PollBegins, PollSimple, PollNcr, PollPhy,
                PollPhy2
  <2>1. CASE PollBegins
    BY <2>0, <2>1 DEF PollBegins
  <2>2. CASE PollSimple \/ PollNcr
    <3>1. /\ lock = "free" /\ UNCHANGED lock /\ board.simple
          /\ poll' \in {"off", "queued", "ncr", "lpa"}
      BY <2>2 DEF PollSimple, PollNcr, Section, Touch, PollAgain
    <3>2. QED
      BY <2>0, <3>1
  <2>3. CASE PollPhy
    BY <2>0, <2>3 DEF PollPhy, PhyCommand, Enter
  <2>4. CASE PollPhy2
    BY <2>0, <2>4 DEF PollPhy2, PhySleeps, PhyResult, PhyDone, Enter, Leave,
                      PollAgain
  <2>5. QED
    BY <1>9, <2>1, <2>2, <2>3, <2>4 DEF dm9000_poll_work
<1>10. CASE Ctl /\ ~RequestIrq /\ ~FreeIrq /\ ~PhyAccess
  <2>1. /\ todo # <<>> /\ Head(todo).op \notin {"phy", "phy2"}
        /\ UNCHANGED <<lock, irq, status, board>>
        /\ isr' \subseteq isr
        /\ active => active'
    BY <1>10 DEF Ctl, Select, Write, Written, dm9000_reset, InitVars, NetOp,
         Core, Schedule, Cancel, EepromAccess, LockedAccess, dm9000_get_link,
         Section, Touch, Next1, At
  <2>2. \/ poll' = poll
        \/ poll \in {"off", "queued"} /\ poll' \in {"off", "queued"}
    BY <1>10 DEF Ctl, Select, Write, InitVars, NetOp,
         Core, Schedule, Cancel, EepromAccess, LockedAccess, dm9000_get_link
  <2>3. lock # "ctl"
    BY <2>1
  <2>4. QED
    BY <2>1, <2>2, <2>3
<1>11. CASE PhyAccess
  <2>0. UNCHANGED <<board, isr, irq, status, poll, active>>
    BY <1>11 DEF PhyAccess
  <2>1. CASE UNCHANGED todo
    BY <1>11, <2>0, <2>1 DEF PhyAccess, PhyCommand, PhyResult, Enter, Next1,
       At, PhySleeps, PhyDone, Leave
  <2>2. CASE Next1("phy") /\ PhySleeps("ctl")
    BY <2>0, <2>2 DEF PhySleeps, Leave
  <2>3. CASE Next1("phy2") /\ PhyDone("ctl")
    BY <2>0, <2>3 DEF PhyDone, Leave
  <2>4. QED
    BY <1>11, <2>1, <2>2, <2>3 DEF PhyAccess
<1>12. CASE \/ dm9000_open \/ dm9000_stop \/ dm9000_drv_suspend
            \/ dm9000_drv_resume \/ Query
  <2>1. todo = <<>> /\ UNCHANGED <<board, isr, lock, irq, status, poll>>
    BY <1>12 DEF dm9000_open, dm9000_stop, dm9000_drv_suspend,
       dm9000_drv_resume, Query, Idle, Core
  <2>2. lock = "dog" => active'
    BY <1>12 DEF dm9000_open, dm9000_stop, dm9000_drv_suspend,
       dm9000_drv_resume, Query, Idle, Core
  <2>3. QED
    BY <2>1, <2>2
<1>13. CASE UNCHANGED <<lock, irq, status, board, poll, todo, active, isr>>
  BY <1>13
<1>14. QED
  BY <1>1, <1>2, <1>3, <1>4, <1>5, <1>6, <1>7, <1>8, <1>9, <1>10, <1>11,
     <1>12, <1>13
     DEF Next, vars, Chip, TxHangs, dm9000_start_xmit, Section, Touch,
         dm9000_interrupt, dm9000_wol_interrupt, Ctl

(* The spinlock's owner restores the register that was selected when it    *)
(* took the lock.                                                          *)
LEMMA AddrStep ==
  ASSUME QuietBoards, TypeOK, HandlerInv, CtlInv, AddrInv, [Next]_vars
  PROVE  AddrInv'
<1> USE DEF AddrInv, bus
<1>1. CASE UNCHANGED bus
  BY <1>1
<1>2. ASSUME NEW r, lock = "free", Touch(r)
      PROVE  AddrInv'
  BY <1>2 DEF Touch
<1>3. ASSUME NEW a, NEW r, a # "free", Enter(a, r)
      PROVE  AddrInv'
  BY <1>3 DEF Enter
<1>4. ASSUME NEW r, Within("irq", r)
      PROVE  AddrInv'
  BY <1>4 DEF Within
<1>5. ASSUME NEW a, a # "free", Leave(a)
      PROVE  AddrInv'
  BY <1>5 DEF Leave
<1>6. CASE \E len \in Lens : dm9000_start_xmit(len)
  BY <1>2, <1>6 DEF dm9000_start_xmit, Section
<1>7. CASE dm9000_timeout
  BY <1>3, <1>5, <1>7 DEF dm9000_timeout, TimeoutBegins, TimeoutEnds
<1>8. CASE dm9000_interrupt
  BY <1>3, <1>4, <1>5, <1>8
     DEF dm9000_interrupt, IrqEnter, dm9000_rx, dm9000_tx_done, IrqExit
<1>9. CASE dm9000_wol_interrupt
  BY <1>2, <1>9 DEF dm9000_wol_interrupt, Section
<1>10. CASE dm9000_poll_work
  <2>1. CASE PollSimple \/ PollNcr
    BY <1>2, <2>1 DEF PollSimple, PollNcr, Section
  <2>2. CASE PollPhy
    BY <1>3, <2>2 DEF PollPhy, PhyCommand
  <2>3. CASE PollPhy2
    BY <1>3, <1>5, <2>3 DEF PollPhy2, PhySleeps, PhyResult, PhyDone
  <2>4. QED
    BY <1>1, <1>10, <2>1, <2>2, <2>3 DEF dm9000_poll_work, PollBegins
<1>11. CASE Select
  <2>1. At("select") /\ Touch(Head(todo).reg)
    BY <1>11 DEF Select, Next1
  <2>2. lock = "free"
    BY <2>1, FreeBus
  <2>3. QED
    BY <1>2, <2>1, <2>2
<1>12. CASE PhyAccess
  BY <1>3, <1>5, <1>12 DEF PhyAccess, PhyCommand, PhySleeps, PhyResult, PhyDone
<1>13. CASE EepromAccess \/ LockedAccess \/ dm9000_get_link
  BY <1>2, <1>13 DEF EepromAccess, LockedAccess, dm9000_get_link, Section
<1>14. QED
  BY <1>1, <1>6, <1>7, <1>8, <1>9, <1>10, <1>11, <1>12, <1>13
     DEF Next, vars, Chip, TxComplete, TxHangs, RxArrives, LinkChanges,
         dm9000_open, dm9000_stop, dm9000_drv_suspend, dm9000_drv_resume,
         Query, Core, Ctl, Write, InitVars, RequestIrq, FreeIrq, NetOp,
         Schedule, Cancel

(* The handler clears the bit only when it looks at it. *)
LEMMA TxDoneNsr ==
  ASSUME TypeOK, dm9000_tx_done
  PROVE  nsr' <=> nsr /\ "PTS" \notin status
<1>1. nsr \in BOOLEAN
  BY DEF TypeOK
<1>2. nsr' = (nsr /\ "PTS" \notin status)
  BY DEF dm9000_tx_done
<1>3. QED
  BY <1>1, <1>2

(* What the driver counts. *)
LEMMA TxStep ==
  ASSUME QuietBoards, TypeOK, CtlInv, HandlerInv, AddrInv, TxInv, [Next]_vars
  PROVE  TxInv'
<1> USE DEF TxInv, CountInv, Busy, Unseen, bus, tx, chip, db
<1>1. CASE TxComplete
  BY <1>1 DEF TxComplete
<1>2. CASE RxArrives \/ LinkChanges
  BY <1>2 DEF RxArrives, LinkChanges
<1>3. ASSUME NEW len \in Lens, dm9000_start_xmit(len)
      PROVE  TxInv'
  <2>1. running /\ irq # "none" /\ lock = "free"
    BY <1>3, ActiveUp DEF dm9000_start_xmit, Section
  <2>2. lock' = "free" /\ UNCHANGED <<irq, status, isr, nsr, taken>>
    BY <1>3, <2>1 DEF dm9000_start_xmit, Section, Touch
  <2>3. CASE tx_pkt_cnt = 0
    <3>1. sram = <<>> /\ ~Busy
      BY <2>1, <2>3
    <3>2. sending' # <<>> /\ sram' = <<>> /\ tx_pkt_cnt' = 1
      BY <1>3, <2>3, <3>1, OneEntry DEF dm9000_start_xmit, dm9000_send_packet
    <3>3. QED
      BY <2>1, <2>2, <3>1, <3>2
  <2>4. CASE tx_pkt_cnt = 1
    <3>1. sram = <<>> /\ Busy
      BY <2>1, <2>4
    <3>2. sram' = <<queue_pkt_len'>> /\ tx_pkt_cnt' = 2 /\ UNCHANGED sending
      BY <1>3, <2>4, <3>1, OneEntry DEF dm9000_start_xmit
    <3>3. QED
      BY <2>1, <2>2, <3>1, <3>2
  <2>5. QED
    BY <1>3, <2>3, <2>4 DEF dm9000_start_xmit, TypeOK
<1>4. CASE TimeoutBegins
  BY <1>4 DEF TimeoutBegins, dm9000_reset, Enter
<1>5. CASE TimeoutEnds
  BY <1>5 DEF TimeoutEnds, Leave
<1>6. CASE IrqEnter
  BY <1>6 DEF IrqEnter, Enter
<1>7. CASE dm9000_rx
  BY <1>7 DEF dm9000_rx, Within
<1>8. CASE dm9000_tx_done
  <2>0. lock = "irq" /\ lock' = "irq" /\ irq = "tx" /\ irq' = "end"
        /\ UNCHANGED <<isr, status, taken, queue_pkt_len>>
    BY <1>8 DEF dm9000_tx_done, Within
  <2>9. nsr' <=> nsr /\ "PTS" \notin status
    BY <1>8, TxDoneNsr
  <2>1. CASE ~nsr \/ "PTS" \notin status
    <3>1. UNCHANGED <<sram, sending, tx_pkt_cnt>>
      BY <1>8, <2>1 DEF dm9000_tx_done
    <3>2. QED
      BY <2>0, <2>1, <2>9, <3>1
  <2>2. CASE nsr /\ "PTS" \in status
    <3>1. Busy /\ sending = <<>> /\ ~taken /\ ~nsr'
      BY <2>0, <2>2, <2>9
    <3>2. CASE sram = <<>> /\ tx_pkt_cnt = 1
      <4>1. tx_pkt_cnt' = 0
        BY <1>8, <2>2, <3>2 DEF dm9000_tx_done
      <4>2. UNCHANGED <<sram, sending>>
        BY <1>8, <2>2, <4>1 DEF dm9000_tx_done
      <4>3. QED
        BY <2>0, <3>1, <3>2, <4>1, <4>2
    <3>3. CASE sram = <<queue_pkt_len>> /\ tx_pkt_cnt = 2
      <4>1. tx_pkt_cnt' = 1
        BY <1>8, <2>2, <3>3 DEF dm9000_tx_done
      <4>2. sending' # <<>> /\ sram' = <<>>
        BY <1>8, <2>2, <3>3, <4>1, OneEntry
           DEF dm9000_tx_done, dm9000_send_packet
      <4>3. QED
        BY <2>0, <3>1, <4>1, <4>2
    <3>4. QED
      BY <2>0, <3>1, <3>2, <3>3
  <2>3. QED
    BY <2>1, <2>2
<1>9. CASE IrqExit
  BY <1>9 DEF IrqExit, Leave
<1>10. CASE Write
  <2>1. lock = "free" /\ (irq # "none" => addr = "IMR")
    BY <1>10, WriteOwn
  <2>2. UNCHANGED <<bus, db, irq, status>>
        /\ (addr = "IMR" => UNCHANGED <<isr, tx>>)
    BY <1>10 DEF Write, Written
  <2>3. QED
    BY <2>1, <2>2
<1>11. CASE InitVars
  <2>0. todo \in Seq(Ops) /\ At("vars")
    BY <1>11 DEF InitVars, Next1, TypeOK
  <2>1. PICK k \in 1 .. 21 : Head(todo) = OpenOps[k] /\ OpenInv(k)
    BY <2>0, AtOp, StopPlaces DEF At
  <2>2. k = 13
    BY <2>0, <2>1, OpenPlaces DEF At
  <2>3. irq = "none"
    BY <2>1, <2>2 DEF OpenInv
  <2>4. QED
    BY <1>11, <2>3 DEF InitVars
<1>12. CASE RequestIrq
  <2>1. UNCHANGED <<bus, chip, db, status>>
    BY <1>12 DEF RequestIrq
  <2>2. sending = <<>> /\ sram = <<>> /\ ~nsr /\ ~taken /\ tx_pkt_cnt = 0
    BY <1>12, AtRequestIrq DEF TypeOK
  <2>3. QED
    BY <2>1, <2>2
<1>13. CASE FreeIrq
  BY <1>13 DEF FreeIrq
<1>14. CASE dm9000_wol_interrupt \/ PollSimple \/ dm9000_get_link
  <2>1. /\ lock = "free" /\ lock' = "free" /\ ReadNsr
        /\ UNCHANGED <<sram, sending, isr, irq, status, tx_pkt_cnt,
                       queue_pkt_len>>
    BY <1>14 DEF dm9000_wol_interrupt, PollSimple, dm9000_get_link, Section,
                 Touch
  <2>2. nsr' = FALSE /\ (taken' <=> taken \/ nsr)
    BY <2>1 DEF ReadNsr
  <2>3. QED
    BY <2>1, <2>2
<1>15. CASE /\ UNCHANGED <<db, nsr, sram, sending, isr, irq, status>>
            /\ lock' = "dog" <=> lock = "dog"
  BY <1>15
<1>16. CASE PollNcr \/ PollPhy \/ PollPhy2
  BY <1>15, <1>16 DEF PollNcr, PollPhy, PollPhy2, Section, Touch, PhyCommand,
     PhySleeps, PhyResult, PhyDone, Enter, Leave
<1>17. CASE Select \/ LockedAccess \/ EepromAccess
  BY <1>15, <1>17 DEF Select, LockedAccess, EepromAccess, Section, Touch
<1>18. CASE PhyAccess
  BY <1>15, <1>18 DEF PhyAccess, PhyCommand, PhySleeps, PhyResult, PhyDone,
     Enter, Leave
<1>19. QED
  BY <1>1, <1>2, <1>3, <1>4, <1>5, <1>6, <1>7, <1>8, <1>9, <1>10, <1>11,
     <1>12, <1>13, <1>14, <1>15, <1>16, <1>17, <1>18
     DEF Next, vars, Chip, TxHangs, dm9000_timeout, dm9000_interrupt,
         dm9000_poll_work, PollBegins, dm9000_open, dm9000_stop,
         dm9000_drv_suspend, dm9000_drv_resume, Query, Core, Ctl, NetOp,
         Schedule, Cancel

(* Each packet leaves with its own length. *)
LEMMA LengthStep ==
  ASSUME TypeOK, CtlInv, TxInv, OwnLength, [Next]_vars
  PROVE  OwnLength'
<1> USE DEF OwnLength, bus, tx, chip, db
<1>1. ASSUME NEW len \in Lens, dm9000_start_xmit(len)
      PROVE  OwnLength'
  <2>1. irq # "none" /\ lock = "free"
    BY <1>1, ActiveUp DEF dm9000_start_xmit, Section
  <2>2. CASE tx_pkt_cnt = 0
    <3>1. sram = <<>>
      BY <2>1, <2>2 DEF TxInv, CountInv
    <3>2. sending' = <<len, len>>
      BY <1>1, <2>2, <3>1, OneEntry DEF dm9000_start_xmit, dm9000_send_packet
    <3>3. QED
      BY <3>2
  <2>3. CASE tx_pkt_cnt # 0
    BY <1>1, <2>3 DEF dm9000_start_xmit
  <2>4. QED
    BY <2>2, <2>3
<1>2. CASE dm9000_tx_done
  <2>1. CASE UNCHANGED sending
    BY <2>1
  <2>2. CASE nsr /\ "PTS" \in status /\ tx_pkt_cnt' > 0
    <3>1. \/ sram = <<>> /\ tx_pkt_cnt = 1
          \/ sram = <<queue_pkt_len>> /\ tx_pkt_cnt = 2
      BY <1>2, <2>2 DEF dm9000_tx_done, Within, TxInv, CountInv, Busy
    <3>2. tx_pkt_cnt = 1 => tx_pkt_cnt' = 0
      BY <1>2, <2>2 DEF dm9000_tx_done
    <3>3. sram = <<queue_pkt_len>>
      BY <2>2, <3>1, <3>2
    <3>4. sending' = <<queue_pkt_len, queue_pkt_len>>
      BY <1>2, <2>2, <3>3, OneEntry DEF dm9000_tx_done, dm9000_send_packet
    <3>5. QED
      BY <3>4
  <2>3. QED
    BY <1>2, <2>1, <2>2 DEF dm9000_tx_done
<1>3. CASE sending' \in {sending, <<>>}
  BY <1>3
<1>4. CASE Ctl
  BY <1>3, <1>4 DEF Ctl, Core, Select, Write, Written, dm9000_reset, InitVars,
     RequestIrq, FreeIrq, NetOp, Schedule, Cancel, PhyAccess, EepromAccess,
     LockedAccess, dm9000_get_link
<1>5. CASE dm9000_poll_work
  BY <1>3, <1>5 DEF dm9000_poll_work, PollBegins, PollSimple, PollNcr, PollPhy,
     PollPhy2
<1>6. QED
  BY <1>1, <1>2, <1>3, <1>4, <1>5
     DEF Next, vars, Chip, TxComplete, TxHangs, RxArrives, LinkChanges,
         dm9000_timeout, TimeoutBegins, TimeoutEnds, dm9000_reset,
         dm9000_interrupt, IrqEnter, dm9000_rx, IrqExit, dm9000_wol_interrupt,
         dm9000_open, dm9000_stop, dm9000_drv_suspend, dm9000_drv_resume,
         Query, Core

(* The next operation leaves the rest of the list. *)
LEMMA NextTypes ==
  ASSUME todo \in Seq(Ops), todo # <<>>
  PROVE  /\ Tail(todo) \in Seq(Ops)
         /\ Head(todo).op \in {"select", "write"} =>
              Head(todo).reg \in Regs /\ Head(todo).val \in BOOLEAN
<1>1. Tail(todo) \in Seq(Ops) /\ Head(todo) \in Ops
  OBVIOUS
<1>2. QED
  BY <1>1 DEF Ops

(* What is left of a list, and what its next operation carries. *)
LEMMA ListStep ==
  ASSUME todo \in Seq(Ops), Ctl
  PROVE  /\ todo # <<>> /\ todo' \in Seq(Ops)
         /\ Head(todo).op \in {"select", "write"} =>
              Head(todo).reg \in Regs /\ Head(todo).val \in BOOLEAN
<1>1. todo # <<>> /\ (todo' = Tail(todo) \/ todo' = <<>> \/ todo' = todo)
  BY DEF Ctl, Select, Write, InitVars, RequestIrq, FreeIrq, NetOp, Schedule,
         Cancel, PhyAccess, EepromAccess, LockedAccess, dm9000_get_link,
         Next1, At
<1>2. Tail(todo) \in Seq(Ops) /\ <<>> \in Seq(Ops)
  BY <1>1
<1>3. todo' \in Seq(Ops)
  BY <1>1, <1>2, Zenon
<1>4. QED
  BY <1>1, <1>3, NextTypes, Zenon

(* The address register and the spinlock keep their types. *)
LEMMA BusStep ==
  ASSUME TypeOK, [Next]_vars
  PROVE  BusType'
<1> USE DEF BusType, TypeOK, bus
<1>1. CASE UNCHANGED bus
  BY <1>1
<1>2. ASSUME NEW r \in Regs, Touch(r)
      PROVE  BusType'
  BY <1>2 DEF Touch
<1>3. ASSUME NEW a \in {"irq", "dog", "poll", "ctl"}, NEW r \in Regs,
             Enter(a, r)
      PROVE  BusType'
  BY <1>3 DEF Enter
<1>4. ASSUME NEW r \in Regs, Within("irq", r)
      PROVE  BusType'
  BY <1>4 DEF Within
<1>5. ASSUME NEW a, Leave(a)
      PROVE  BusType'
  BY <1>5 DEF Leave, Regs
<1>6. {"GPR", "NCR", "IMR", "NSR", "ISR", "RCR", "EPCR", "EPDR", "other", addr}
        \subseteq Regs
  BY DEF Regs
<1>7. CASE \E len \in Lens : dm9000_start_xmit(len)
  BY <1>2, <1>6, <1>7 DEF dm9000_start_xmit, Section
<1>8. CASE dm9000_timeout
  BY <1>3, <1>5, <1>6, <1>8 DEF dm9000_timeout, TimeoutBegins, TimeoutEnds
<1>9. CASE dm9000_interrupt
  <2>1. CASE IrqEnter
    BY <1>3, <1>6, <2>1 DEF IrqEnter
  <2>2. CASE dm9000_rx
    BY <1>4, <1>6, <2>2 DEF dm9000_rx
  <2>3. CASE dm9000_tx_done
    BY <1>4, <1>6, <2>3 DEF dm9000_tx_done
  <2>4. CASE IrqExit
    BY <1>5, <2>4 DEF IrqExit
  <2>5. QED
    BY <1>9, <2>1, <2>2, <2>3, <2>4 DEF dm9000_interrupt
<1>10. CASE dm9000_wol_interrupt
  BY <1>2, <1>6, <1>10 DEF dm9000_wol_interrupt, Section
<1>11. CASE dm9000_poll_work
  <2>1. CASE PollSimple \/ PollNcr
    BY <1>2, <1>6, <2>1 DEF PollSimple, PollNcr, Section
  <2>2. CASE PollPhy
    BY <1>3, <1>6, <2>2 DEF PollPhy, PhyCommand
  <2>3. CASE PollPhy2
    BY <1>3, <1>5, <1>6, <2>3 DEF PollPhy2, PhySleeps, PhyResult, PhyDone
  <2>4. QED
    BY <1>1, <1>11, <2>1, <2>2, <2>3 DEF dm9000_poll_work, PollBegins
<1>12. CASE Select
  <2>1. todo # <<>> /\ Head(todo).op = "select" /\ Touch(Head(todo).reg)
    BY <1>12 DEF Select, Next1, At
  <2>2. QED
    BY <1>2, <2>1, NextTypes
<1>13. CASE PhyAccess
  BY <1>3, <1>5, <1>6, <1>13
     DEF PhyAccess, PhyCommand, PhySleeps, PhyResult, PhyDone
<1>14. CASE EepromAccess \/ LockedAccess \/ dm9000_get_link
  BY <1>2, <1>6, <1>14 DEF EepromAccess, LockedAccess, dm9000_get_link, Section
<1>15. QED
  BY <1>1, <1>7, <1>8, <1>9, <1>10, <1>11, <1>12, <1>13, <1>14
     DEF Next, vars, Chip, TxComplete, TxHangs, RxArrives, LinkChanges,
         dm9000_open, dm9000_stop, dm9000_drv_suspend, dm9000_drv_resume,
         Query, Core, Ctl, Write, InitVars, RequestIrq, FreeIrq, NetOp,
         Schedule, Cancel

(* The variables keep their types. *)
LEMMA TypeStep ==
  ASSUME TypeOK, CtlInv, TxInv, [Next]_vars
  PROVE  TypeOK'
<1> USE MaxRxAssumption DEF TypeOK, tx, chip, db, net
<1>0. BusType'
  BY BusStep
<1>1. CASE Chip
  <2>1. BitType'
    BY <1>1 DEF Chip, TxComplete, TxHangs, RxArrives, LinkChanges, BitType
  <2>2. StatusType'
    BY <1>1 DEF Chip, TxComplete, TxHangs, RxArrives, LinkChanges, StatusType
  <2>3. PacketType'
    BY <1>1 DEF Chip, TxComplete, TxHangs, RxArrives, LinkChanges, PacketType
  <2>4. DriverType'
    BY <1>1 DEF Chip, TxComplete, TxHangs, RxArrives, LinkChanges, DriverType
  <2>5. QED
    BY <1>0, <2>1, <2>2, <2>3, <2>4
       DEF BusType, BitType, StatusType, PacketType, DriverType
<1>2. ASSUME NEW len \in Lens, dm9000_start_xmit(len)
      PROVE  TypeOK'
  <2>1. irq # "none" /\ lock = "free" /\ sram = <<>>
    BY <1>2, ActiveUp DEF dm9000_start_xmit, Section, TxInv, CountInv, Busy
  <2>2. PacketType'
    <3>1. CASE tx_pkt_cnt = 0
      <4>1. sending' = <<len, len>> /\ sram' = <<>>
        BY <1>2, <2>1, <3>1, OneEntry DEF dm9000_start_xmit, dm9000_send_packet
      <4>2. QED
        BY <1>2, <3>1, <4>1 DEF dm9000_start_xmit, PacketType
    <3>2. CASE tx_pkt_cnt = 1
      <4>1. sram' = <<len>>
        BY <1>2, <2>1, <3>2, OneEntry DEF dm9000_start_xmit
      <4>2. QED
        BY <1>2, <3>2, <4>1 DEF dm9000_start_xmit, PacketType
    <3>3. QED
      BY <1>2, <3>1, <3>2 DEF dm9000_start_xmit
  <2>3. BitType' /\ StatusType'
    BY <1>2 DEF dm9000_start_xmit, dm9000_send_packet, BitType, StatusType
  <2>4. DriverType'
    BY <1>2 DEF dm9000_start_xmit, DriverType
  <2>5. QED
    BY <1>0, <2>2, <2>3, <2>4
       DEF BusType, BitType, StatusType, PacketType, DriverType
<1>3. CASE dm9000_timeout
  <2> USE DEF dm9000_timeout, TimeoutBegins, TimeoutEnds, dm9000_reset
  <2>1. BitType'
    BY <1>3 DEF BitType
  <2>2. StatusType'
    BY <1>3 DEF StatusType
  <2>3. PacketType'
    <3>1. <<>> \in Seq(Lens) /\ Len(<<>>) <= 1
      BY LenEmpty
    <3>2. CASE TimeoutBegins
      BY <3>1, <3>2 DEF PacketType
    <3>3. CASE TimeoutEnds
      BY <3>3 DEF PacketType
    <3>4. QED
      BY <1>3, <3>2, <3>3
  <2>4. DriverType'
    BY <1>3 DEF DriverType
  <2>5. QED
    BY <1>0, <2>1, <2>2, <2>3, <2>4
       DEF BusType, BitType, StatusType, PacketType, DriverType
<1>4. CASE IrqEnter \/ dm9000_rx \/ IrqExit
  <2>1. BitType'
    BY <1>4 DEF IrqEnter, dm9000_rx, IrqExit, BitType
  <2>2. StatusType'
    BY <1>4 DEF IrqEnter, dm9000_rx, IrqExit, StatusType
  <2>3. PacketType'
    BY <1>4 DEF IrqEnter, dm9000_rx, IrqExit, PacketType
  <2>4. DriverType'
    BY <1>4 DEF IrqEnter, dm9000_rx, IrqExit, DriverType
  <2>5. QED
    BY <1>0, <2>1, <2>2, <2>3, <2>4
       DEF BusType, BitType, StatusType, PacketType, DriverType
<1>5. CASE dm9000_tx_done
  <2>1. PacketType' /\ hung' \in BOOLEAN
    <3>1. CASE nsr /\ "PTS" \in status
      <4>1. \/ sram = <<>> /\ tx_pkt_cnt = 1
            \/ sram = <<queue_pkt_len>> /\ tx_pkt_cnt = 2
        BY <1>5, <3>1 DEF dm9000_tx_done, Within, TxInv, CountInv, Busy
      <4>2. CASE sram = <<>> /\ tx_pkt_cnt = 1
        <5>1. tx_pkt_cnt' = 0
          BY <1>5, <3>1, <4>2 DEF dm9000_tx_done
        <5>2. QED
          BY <1>5, <3>1, <5>1 DEF dm9000_tx_done, PacketType
      <4>3. CASE sram = <<queue_pkt_len>> /\ tx_pkt_cnt = 2
        <5>1. tx_pkt_cnt' = 1
          BY <1>5, <3>1, <4>3 DEF dm9000_tx_done
        <5>2. sending' = <<queue_pkt_len, queue_pkt_len>> /\ sram' = <<>>
          BY <1>5, <3>1, <4>3, <5>1, OneEntry
             DEF dm9000_tx_done, dm9000_send_packet
        <5>3. queue_pkt_len \in Lens
          BY <4>3
        <5>4. <<queue_pkt_len, queue_pkt_len>> \in Lens \X Lens
          BY <5>3
        <5>5. UNCHANGED <<queue_pkt_len, rxq>> /\ hung' = FALSE
          BY <1>5, <3>1, <5>1 DEF dm9000_tx_done, dm9000_send_packet
        <5>6. sram' \in Seq(Lens) /\ Len(sram') <= 1
          BY <5>2
        <5>7. sending' \in {<<>>} \cup (Lens \X Lens)
          BY <5>2, <5>4, Zenon
        <5>8. tx_pkt_cnt' \in 0 .. 2 /\ queue_pkt_len' \in Lens \cup {0}
          BY <5>1, <5>5
        <5>9. QED
          BY <5>5, <5>6, <5>7, <5>8 DEF PacketType
      <4>4. QED
        BY <4>1, <4>2, <4>3
    <3>2. CASE ~nsr \/ "PTS" \notin status
      BY <1>5, <3>2 DEF dm9000_tx_done, PacketType
    <3>3. QED
      BY <3>1, <3>2
  <2>2. BitType' /\ StatusType'
    <3>1. stopped' \in BOOLEAN
      <4>1. stopped' = FALSE \/ stopped' = stopped
        BY <1>5 DEF dm9000_tx_done
      <4>2. QED
        BY <4>1
    <3>2. nsr' \in BOOLEAN
      BY <1>5 DEF dm9000_tx_done
    <3>3. UNCHANGED <<imr, rcr, running, active, present, isr, status, taken>>
      BY <1>5 DEF dm9000_tx_done
    <3>4. QED
      BY <2>1, <3>1, <3>2, <3>3 DEF BitType, StatusType
  <2>3. DriverType'
    BY <1>5 DEF dm9000_tx_done, DriverType
  <2>4. QED
    BY <1>0, <2>1, <2>2, <2>3
       DEF BusType, BitType, StatusType, PacketType, DriverType
<1>6. CASE dm9000_wol_interrupt \/ dm9000_poll_work
  <2> USE DEF dm9000_wol_interrupt, dm9000_poll_work, PollBegins, PollSimple,
              PollNcr, PollPhy, PollPhy2
  <2>1. BitType'
    <3>1. nsr' \in BOOLEAN /\ taken' \in BOOLEAN
      BY <1>6 DEF ReadNsr
    <3>2. QED
      BY <1>6, <3>1 DEF BitType
  <2>2. StatusType'
    BY <1>6 DEF StatusType
  <2>3. PacketType'
    BY <1>6 DEF PacketType
  <2>4. DriverType'
    BY <1>6 DEF PollAgain, PhyCommand, PhySleeps, PhyResult, PhyDone,
                DriverType
  <2>5. QED
    BY <1>0, <2>1, <2>2, <2>3, <2>4
       DEF BusType, BitType, StatusType, PacketType, DriverType
<1>7. CASE dm9000_open \/ dm9000_stop \/ dm9000_drv_suspend \/ dm9000_drv_resume
  <2> USE DEF dm9000_open, dm9000_stop, dm9000_drv_suspend, dm9000_drv_resume,
              Core
  <2>1. BitType'
    BY <1>7 DEF BitType
  <2>2. StatusType'
    BY <1>7 DEF StatusType
  <2>3. PacketType'
    BY <1>7 DEF PacketType
  <2>4. DriverType'
    BY <1>7, ListTypes DEF DriverType
  <2>5. QED
    BY <1>0, <2>1, <2>2, <2>3, <2>4
       DEF BusType, BitType, StatusType, PacketType, DriverType
<1>8. CASE Query
  <2> USE DEF Query, Core
  <2>1. BitType'
    BY <1>8 DEF BitType
  <2>2. StatusType'
    BY <1>8 DEF StatusType
  <2>3. PacketType'
    BY <1>8 DEF PacketType
  <2>4. DriverType'
    <3>1. todo' \in Seq(Ops)
      BY <1>8, ListTypes, Zenon
         DEF ShortLists, EepromOps, LockedOps, LinkOps
    <3>2. QED
      BY <1>8, <3>1 DEF DriverType
  <2>5. QED
    BY <1>0, <2>1, <2>2, <2>3, <2>4
       DEF BusType, BitType, StatusType, PacketType, DriverType
<1>9. CASE Ctl /\ (Select \/ Write)
  <2>1. BitType'
    BY <1>9, ListStep
       DEF Select, Write, Written, dm9000_reset, Next1, At, BitType
  <2>2. StatusType'
    BY <1>9, ListStep
       DEF Select, Write, Written, dm9000_reset, Next1, At, StatusType
  <2>3. PacketType'
    <3>1. UNCHANGED db /\ (UNCHANGED <<sram, sending, rxq>> \/ dm9000_reset)
      BY <1>9 DEF Select, Write, Written
    <3>2. CASE UNCHANGED <<sram, sending, rxq>>
      BY <3>1, <3>2 DEF PacketType
    <3>3. CASE dm9000_reset
      BY <3>1, <3>3 DEF dm9000_reset, PacketType
    <3>4. QED
      BY <3>1, <3>2, <3>3
  <2>4. DriverType'
    <3>1. todo' \in Seq(Ops)
      BY <1>9, ListStep
    <3>2. QED
      BY <1>9, <3>1 DEF Select, Write, DriverType
  <2>5. QED
    BY <1>0, <2>1, <2>2, <2>3, <2>4
       DEF BusType, BitType, StatusType, PacketType, DriverType
<1>10. CASE Ctl /\ ~Select /\ ~Write
  <2> USE DEF Ctl, InitVars, RequestIrq, FreeIrq, NetOp, Core, Schedule, Cancel,
              PhyAccess, EepromAccess, LockedAccess, dm9000_get_link
  <2>1. BitType'
    <3>1. nsr' \in BOOLEAN /\ taken' \in BOOLEAN
      BY <1>10 DEF ReadNsr
    <3>2. running' \in BOOLEAN /\ active' \in BOOLEAN /\ present' \in BOOLEAN
          /\ stopped' \in BOOLEAN
      BY <1>10
    <3>3. UNCHANGED <<imr, hung, rcr>>
      BY <1>10
    <3>4. QED
      BY <3>1, <3>2, <3>3 DEF BitType
  <2>2. StatusType'
    BY <1>10 DEF StatusType
  <2>3. PacketType'
    BY <1>10 DEF PacketType
  <2>4. DriverType'
    <3>1. todo' \in Seq(Ops)
      BY <1>10, ListStep
    <3>2. addr_lock' \in {"free", "ctl", "poll"}
          /\ epar' \in {"none", "ctl", "poll"}
      BY <1>10 DEF PhyCommand, PhySleeps, PhyResult, PhyDone
    <3>3. irq' \in {"none", "ready", "rx", "tx", "end"}
      BY <1>10
    <3>4. poll' \in {"off", "queued", "run", "ncr", "lpa", "cmd", "phy", "res"}
      BY <1>10
    <3>5. UNCHANGED board
      BY <1>10
    <3>6. QED
      BY <3>1, <3>2, <3>3, <3>4, <3>5 DEF DriverType
  <2>5. QED
    BY <1>0, <2>1, <2>2, <2>3, <2>4
       DEF BusType, BitType, StatusType, PacketType, DriverType
<1>11. CASE UNCHANGED vars
  BY <1>11 DEF vars, bus
<1>12. QED
  BY <1>1, <1>2, <1>3, <1>4, <1>5, <1>6, <1>7, <1>8, <1>9, <1>10, <1>11
     DEF Next, dm9000_interrupt

(* Nobody opens, stops or queries the interface. *)
LEMMA AtNone ==
  ASSUME CtlInv, todo = <<>>
  PROVE  SettledInv
<1>1. ASSUME NEW P \in Seq(Ops), NEW k \in 1 .. Len(P), Ahead(P, k)
      PROVE  FALSE
  BY <1>1 DEF Ahead
<1>2. QED
  BY <1>1, ListTypes, OpenList, StopList DEF CtlInv

(* What open, stop and the other operations have established. *)
LEMMA CtlStep ==
  ASSUME QuietBoards, TypeOK, CtlInv, HandlerInv, AddrInv, [Next]_vars
  PROVE  CtlInv'
<1> USE DEF bus, tx, chip, db, net, Old
<1>1. board.wol /\ (board.simple => Old) /\ todo \in Seq(Ops)
  BY DEF QuietBoards, TypeOK
<1>2. CASE TxComplete
  <2>1. UNCHANGED <<todo, running>>
    BY <1>2 DEF TxComplete
  <2>2. SettledInv => SettledInv'
    BY <1>2 DEF TxComplete, SettledInv
  <2>3. ASSUME NEW k \in 1 .. 21, OpenInv(k) PROVE OpenInv(k)'
    BY <1>2, <2>3 DEF TxComplete, OpenInv
  <2>4. ASSUME NEW k \in 1 .. 12, StopInv(k) PROVE StopInv(k)'
    BY <1>2, <2>4 DEF TxComplete, StopInv
  <2>5. QED
    BY <2>1, <2>2, <2>3, <2>4, CtlFrame
<1>3. CASE TxHangs \/ RxArrives \/ LinkChanges
  <2>0. UNCHANGED <<board, bus, imr, nsr, sram, sending, db, irq, poll, net,
                    todo>>
    BY <1>3
       DEF TxHangs, RxArrives, LinkChanges
  <2>1. UNCHANGED <<todo, running>>
    BY <2>0
  <2>2. SettledInv => SettledInv'
    BY <2>0 DEF SettledInv
  <2>3. ASSUME NEW k \in 1 .. 21, OpenInv(k) PROVE OpenInv(k)'
    BY <2>0, <2>3 DEF OpenInv
  <2>4. ASSUME NEW k \in 1 .. 12, StopInv(k) PROVE StopInv(k)'
    BY <2>0, <2>4 DEF StopInv
  <2>5. QED
    BY <2>1, <2>2, <2>3, <2>4, CtlFrame
<1>4. CASE \E len \in Lens : dm9000_start_xmit(len)
  <2>0. active /\ UNCHANGED <<board, irq, poll, running, active, present, todo>>
    BY <1>4
       DEF dm9000_start_xmit
  <2>1. UNCHANGED <<todo, running>>
    BY <2>0
  <2>2. SettledInv => SettledInv'
    BY <2>0 DEF SettledInv
  <2>3. ASSUME NEW k \in 1 .. 21, OpenInv(k) PROVE OpenInv(k)'
    BY <2>0, <2>3 DEF OpenInv
  <2>4. ASSUME NEW k \in 1 .. 12, StopInv(k) PROVE StopInv(k)'
    BY <2>0, <2>4 DEF StopInv
  <2>5. QED
    BY <2>1, <2>2, <2>3, <2>4, CtlFrame
<1>5. CASE dm9000_timeout
  <2>0. active /\ UNCHANGED <<board, irq, poll, running, active, present, todo>>
    BY <1>5
       DEF dm9000_timeout, TimeoutBegins, TimeoutEnds, Leave, HandlerInv
  <2>1. UNCHANGED <<todo, running>>
    BY <2>0
  <2>2. SettledInv => SettledInv'
    BY <2>0 DEF SettledInv
  <2>3. ASSUME NEW k \in 1 .. 21, OpenInv(k) PROVE OpenInv(k)'
    BY <2>0, <2>3 DEF OpenInv
  <2>4. ASSUME NEW k \in 1 .. 12, StopInv(k) PROVE StopInv(k)'
    BY <2>0, <2>4 DEF StopInv
  <2>5. QED
    BY <2>1, <2>2, <2>3, <2>4, CtlFrame
<1>6. CASE IrqEnter
  <2>0. /\ irq = "ready" /\ irq' = "rx" /\ imr
        /\ UNCHANGED <<board, last, nsr, sram, sending, db, poll, net, todo>>
    BY <1>6
       DEF IrqEnter, Enter
  <2>1. UNCHANGED <<todo, running>>
    BY <2>0
  <2>2. SettledInv => SettledInv'
    BY <2>0 DEF SettledInv
  <2>3. ASSUME NEW k \in 1 .. 21, OpenInv(k) PROVE OpenInv(k)'
    BY <2>0, <2>3 DEF OpenInv
  <2>4. ASSUME NEW k \in 1 .. 12, StopInv(k) PROVE StopInv(k)'
    BY <2>0, <2>4 DEF StopInv
  <2>5. QED
    BY <2>1, <2>2, <2>3, <2>4, CtlFrame
<1>7. CASE dm9000_rx
  <2>0. /\ irq = "rx" /\ irq' = "tx"
        /\ UNCHANGED <<board, last, imr, nsr, sram, sending, db, poll, net,
                       todo>>
    BY <1>7
       DEF dm9000_rx, Within
  <2>1. UNCHANGED <<todo, running>>
    BY <2>0
  <2>2. SettledInv => SettledInv'
    BY <2>0 DEF SettledInv
  <2>3. ASSUME NEW k \in 1 .. 21, OpenInv(k) PROVE OpenInv(k)'
    BY <2>0, <2>3 DEF OpenInv
  <2>4. ASSUME NEW k \in 1 .. 12, StopInv(k) PROVE StopInv(k)'
    BY <2>0, <2>4 DEF StopInv
  <2>5. QED
    BY <2>1, <2>2, <2>3, <2>4, CtlFrame
<1>8. CASE dm9000_tx_done
  <2>0. /\ irq = "tx" /\ irq' = "end" /\ (nsr' => nsr)
        /\ ~nsr => UNCHANGED <<sram, sending, tx_pkt_cnt>>
        /\ UNCHANGED <<board, last, imr, taken, poll, running, active, present,
                       todo>>
    <3>1. nsr' => nsr
      BY <1>8, TxDoneNsr
    <3>2. QED
      BY <1>8, <3>1 DEF dm9000_tx_done, Within
  <2>1. UNCHANGED <<todo, running>>
    BY <2>0
  <2>2. SettledInv => SettledInv'
    BY <2>0 DEF SettledInv
  <2>3. ASSUME NEW k \in 1 .. 21, OpenInv(k) PROVE OpenInv(k)'
    BY <2>0, <2>3 DEF OpenInv
  <2>4. ASSUME NEW k \in 1 .. 12, StopInv(k) PROVE StopInv(k)'
    BY <2>0, <2>4 DEF StopInv
  <2>5. QED
    BY <2>1, <2>2, <2>3, <2>4, CtlFrame
<1>9. CASE IrqExit
  <2>0. /\ irq = "end" /\ irq' = "ready"
        /\ Old => poll' = poll
        /\ UNCHANGED <<board, last, nsr, sram, sending, db, net, todo>>
    BY <1>9
       DEF IrqExit, Leave, HandlerInv
  <2>1. UNCHANGED <<todo, running>>
    BY <2>0
  <2>2. SettledInv => SettledInv'
    BY <2>0 DEF SettledInv
  <2>3. ASSUME NEW k \in 1 .. 21, OpenInv(k) PROVE OpenInv(k)'
    BY <2>0, <2>3 DEF OpenInv
  <2>4. ASSUME NEW k \in 1 .. 12, StopInv(k) PROVE StopInv(k)'
    BY <2>0, <2>4 DEF StopInv
  <2>5. QED
    BY <2>1, <2>2, <2>3, <2>4, CtlFrame
<1>10. CASE dm9000_wol_interrupt
  <2>0. ~present /\ UNCHANGED <<board, irq, poll, net, todo>>
    BY <1>10
       DEF dm9000_wol_interrupt
  <2>1. UNCHANGED <<todo, running>>
    BY <2>0
  <2>2. SettledInv => SettledInv'
    BY <2>0 DEF SettledInv
  <2>3. ASSUME NEW k \in 1 .. 21, OpenInv(k) PROVE OpenInv(k)'
    BY <2>0, <2>3 DEF OpenInv
  <2>4. ASSUME NEW k \in 1 .. 12, StopInv(k) PROVE StopInv(k)'
    BY <2>0, <2>4 DEF StopInv
  <2>5. QED
    BY <2>1, <2>2, <2>3, <2>4, CtlFrame
<1>11. CASE PollBegins \/ PollPhy
  <2>0. /\ poll # "off" /\ poll' # "off"
        /\ UNCHANGED <<board, last, chip, db, irq, net, todo>>
    BY <1>11
       DEF PollBegins, PollPhy, PhyCommand, Enter
  <2>1. UNCHANGED <<todo, running>>
    BY <2>0
  <2>2. SettledInv => SettledInv'
    BY <2>0 DEF SettledInv
  <2>3. ASSUME NEW k \in 1 .. 21, OpenInv(k) PROVE OpenInv(k)'
    BY <2>0, <2>3 DEF OpenInv
  <2>4. ASSUME NEW k \in 1 .. 12, StopInv(k) PROVE StopInv(k)'
    BY <2>0, <2>4 DEF StopInv
  <2>5. QED
    BY <2>1, <2>2, <2>3, <2>4, CtlFrame
<1>12. CASE PollSimple \/ PollNcr
  <2>0. /\ Old /\ poll # "off" /\ (nsr' => nsr)
        /\ taken' => taken \/ nsr
        /\ UNCHANGED <<board, imr, sram, sending, tx_pkt_cnt, irq, net, todo>>
    <3>1. /\ board.simple /\ poll # "off"
          /\ UNCHANGED <<board, imr, sram, sending, tx_pkt_cnt, irq, net, todo>>
      BY <1>12 DEF PollSimple, PollNcr, HandlerInv
    <3>2. ReadNsr \/ UNCHANGED <<nsr, taken>>
      BY <1>12 DEF PollSimple, PollNcr
    <3>3. (nsr' => nsr) /\ (taken' => taken \/ nsr)
      <4>1. nsr \in BOOLEAN /\ taken \in BOOLEAN
        BY DEF TypeOK
      <4>2. QED
        BY <3>2, <4>1 DEF ReadNsr
    <3>4. QED
      BY <1>1, <3>1, <3>3
  <2>1. UNCHANGED <<todo, running>>
    BY <2>0
  <2>2. SettledInv => SettledInv'
    BY <2>0 DEF SettledInv
  <2>3. ASSUME NEW k \in 1 .. 21, OpenInv(k) PROVE OpenInv(k)'
    BY <2>0, <2>3, OpenPlaces, StopPlaces DEF OpenInv
  <2>4. ASSUME NEW k \in 1 .. 12, StopInv(k) PROVE StopInv(k)'
    BY <2>0, <2>4, OpenPlaces, StopPlaces DEF StopInv
  <2>5. QED
    BY <2>1, <2>2, <2>3, <2>4, CtlFrame
<1>13. CASE PollPhy2
  <2>0. /\ poll # "off"
        /\ UNCHANGED <<board, last, chip, db, irq, net, todo>>
    BY <1>13
       DEF PollPhy2, PhySleeps, PhyResult, PhyDone, Enter, Leave
  <2>1. UNCHANGED <<todo, running>>
    BY <2>0
  <2>2. SettledInv => SettledInv'
    BY <2>0 DEF SettledInv
  <2>3. ASSUME NEW k \in 1 .. 21, OpenInv(k) PROVE OpenInv(k)'
    BY <2>0, <2>3 DEF OpenInv
  <2>4. ASSUME NEW k \in 1 .. 12, StopInv(k) PROVE StopInv(k)'
    BY <2>0, <2>4 DEF StopInv
  <2>5. QED
    BY <2>1, <2>2, <2>3, <2>4, CtlFrame
<1>14. CASE dm9000_open
  <2>1. todo' = OpenOps
    BY <1>14 DEF dm9000_open
  <2>2. Ahead(OpenOps, 1)'
    BY <2>1, AheadFirst, ListTypes DEF ShortLists
  <2>3. todo = <<>> /\ SettledInv
    BY <1>14, AtNone DEF dm9000_open, Idle
  <2>4. OpenInv(1)'
    BY <1>14, <2>3, OpenList DEF dm9000_open, Idle, Core, OpenInv, SettledInv
  <2>5. QED
    BY <2>2, <2>4 DEF CtlInv
<1>15. CASE dm9000_stop
  <2>1. todo' = StopOps
    BY <1>15 DEF dm9000_stop
  <2>2. Ahead(StopOps, 1)'
    BY <2>1, AheadFirst, ListTypes DEF ShortLists
  <2>3. todo = <<>> /\ SettledInv
    BY <1>15, AtNone DEF dm9000_stop, Idle
  <2>4. StopInv(1)'
    BY <1>15, <2>3, StopList DEF dm9000_stop, Idle, Core, StopInv, SettledInv
  <2>5. QED
    BY <2>2, <2>4 DEF CtlInv
<1>16. CASE dm9000_drv_suspend \/ dm9000_drv_resume \/ Query
  <2>1. \E P \in ShortLists : todo' = P /\ (P = DetachOps => running)
    <3>1. CASE dm9000_drv_suspend
      BY <1>1, <3>1 DEF dm9000_drv_suspend, SuspendOps, ShortLists, DetachOps
    <3>2. CASE dm9000_drv_resume
      BY <1>1, <3>2 DEF dm9000_drv_resume, ResumeOps, ShortLists, AttachOps,
                        DetachOps, Op
    <3>3. CASE Query
      <4>1. \/ running /\ todo' = dm9000_phy
            \/ todo' = EepromOps \/ todo' = LockedOps \/ todo' = LinkOps
        BY <3>3 DEF Query, EepromOps, LockedOps, LinkOps
      <4>2. DetachOps \notin {EepromOps, LockedOps, LinkOps}
        BY DEF EepromOps, LockedOps, LinkOps, DetachOps, Op
      <4>3. QED
        BY <4>1, <4>2, Zenon DEF ShortLists
    <3>4. QED
      BY <1>16, <3>1, <3>2, <3>3
  <2>2. PICK P \in ShortLists : todo' = P /\ (P = DetachOps => running)
    BY <2>1
  <2>3. Ahead(P, 1)' /\ 1 \in 1 .. Len(P)
    BY <2>2, AheadFirst, ListTypes, ShortList DEF ShortLists
  <2>4. todo = <<>> /\ SettledInv
    BY <1>16, AtNone DEF dm9000_drv_suspend, dm9000_drv_resume, Query, Idle
  <2>5. SettledInv' /\ UNCHANGED running
    BY <1>16, <2>4 DEF dm9000_drv_suspend, dm9000_drv_resume, Query, Core,
                      SettledInv
  <2>6. QED
    BY <2>2, <2>3, <2>5 DEF CtlInv
<1>17. CASE Select
  <2>0. /\ todo # <<>> /\ todo' = Tail(todo) /\ Head(todo).op = "select"
        /\ last' = Head(todo).reg
        /\ UNCHANGED <<board, chip, db, irq, poll, net>>
    BY <1>17
       DEF Select, Touch, Next1, At
  <2>1. todo # <<>> /\ todo' = Tail(todo)
    BY <2>0
  <2>2. ASSUME NEW k \in 1 .. 21, Head(todo) = OpenOps[k], OpenInv(k)
        PROVE  IF k = 21 THEN SettledInv' ELSE OpenInv(k + 1)'
    <3>1. k \in {1, 3, 5, 7, 9, 11, 15}
      BY <2>0, <2>2, OpenPlaces
    <3>2. CASE k = 1
      BY <2>0, <2>2, <3>2, OpenList DEF OpenInv
    <3>3. CASE k = 3
      BY <2>0, <2>2, <3>3, OpenList DEF OpenInv
    <3>4. CASE k = 5
      BY <2>0, <2>2, <3>4, OpenList DEF OpenInv
    <3>5. CASE k = 7
      BY <2>0, <2>2, <3>5, OpenList DEF OpenInv
    <3>6. CASE k = 9
      BY <2>0, <2>2, <3>6, OpenList DEF OpenInv
    <3>7. CASE k = 11
      BY <2>0, <2>2, <3>7, OpenList DEF OpenInv
    <3>8. CASE k = 15
      BY <2>0, <2>2, <3>8, OpenList DEF OpenInv
    <3>9. QED
      BY <3>1, <3>2, <3>3, <3>4, <3>5, <3>6, <3>7, <3>8
  <2>3. ASSUME NEW k \in 1 .. 12, Head(todo) = StopOps[k], StopInv(k)
        PROVE  IF k = 12 THEN SettledInv' ELSE StopInv(k + 1)'
    <3>1. k \in {6, 8, 10}
      BY <2>0, <2>3, StopPlaces
    <3>2. CASE k = 6
      BY <2>0, <2>3, <3>2, StopList DEF StopInv
    <3>3. CASE k = 8
      BY <2>0, <2>3, <3>3, StopList DEF StopInv
    <3>4. CASE k = 10
      BY <2>0, <2>3, <3>4, StopList DEF StopInv
    <3>5. QED
      BY <3>1, <3>2, <3>3, <3>4
  <2>4. /\ SettledInv
        /\ Head(todo).op \in {"detach", "attach", "locked", "link", "phy",
                              "phy2", "eeprom", "eeprom2"}
        /\ Head(todo).op = "detach" => running
        => SettledInv'
    BY <2>0 DEF SettledInv
  <2>5. QED
    BY <1>1, <2>1, <2>2, <2>3, <2>4, CtlNext
<1>18. CASE Write
  <2>0. /\ todo # <<>> /\ todo' = Tail(todo) /\ Head(todo).op = "write"
        /\ Written(Head(todo).reg, Head(todo).val)
        /\ UNCHANGED <<board, last, db, irq, poll, net>>
    BY <1>18, WriteOwn DEF Write, Next1, At
  <2>1. todo # <<>> /\ todo' = Tail(todo)
    BY <2>0
  <2>2. ASSUME NEW k \in 1 .. 21, Head(todo) = OpenOps[k], OpenInv(k)
        PROVE  IF k = 21 THEN SettledInv' ELSE OpenInv(k + 1)'
    <3>1. k \in {2, 4, 6, 8, 10, 12, 16}
      BY <2>0, <2>2, OpenPlaces
    <3>2. CASE k = 2
      <4>1. UNCHANGED <<imr, nsr, sram, sending>>
        BY <2>0, <2>2, <3>2, OpenList DEF Written, dm9000_reset
      <4>2. QED
        BY <2>0, <2>2, <3>2, <4>1, OpenList DEF OpenInv
    <3>3. CASE k = 4
      <4>1. UNCHANGED <<imr, nsr>> /\ sram' = <<>> /\ sending' = <<>>
        BY <2>0, <2>2, <3>3, OpenList DEF Written, dm9000_reset
      <4>2. QED
        BY <2>0, <2>2, <3>3, <4>1, OpenList DEF OpenInv
    <3>4. CASE k = 6
      <4>1. imr' = FALSE /\ UNCHANGED <<nsr, sram, sending>>
        BY <2>0, <2>2, <3>4, OpenList DEF Written, dm9000_reset
      <4>2. QED
        BY <2>0, <2>2, <3>4, <4>1, OpenList DEF OpenInv
    <3>5. CASE k = 8
      <4>1. nsr' = FALSE /\ UNCHANGED <<imr, sram, sending>>
        BY <2>0, <2>2, <3>5, OpenList DEF Written, dm9000_reset
      <4>2. QED
        BY <2>0, <2>2, <3>5, <4>1, OpenList DEF OpenInv
    <3>6. CASE k = 10
      <4>1. UNCHANGED <<imr, nsr, sram, sending>>
        BY <2>0, <2>2, <3>6, OpenList DEF Written, dm9000_reset
      <4>2. QED
        BY <2>0, <2>2, <3>6, <4>1, OpenList DEF OpenInv
    <3>7. CASE k = 12
      <4>1. UNCHANGED <<imr, nsr, sram, sending>>
        BY <2>0, <2>2, <3>7, OpenList DEF Written, dm9000_reset
      <4>2. QED
        BY <2>0, <2>2, <3>7, <4>1, OpenList DEF OpenInv
    <3>8. CASE k = 16
      <4>1. UNCHANGED <<nsr, sram, sending>>
        BY <2>0, <2>2, <3>8, OpenList DEF Written, dm9000_reset
      <4>2. QED
        BY <2>0, <2>2, <3>8, <4>1, OpenList DEF OpenInv
    <3>9. QED
      BY <3>1, <3>2, <3>3, <3>4, <3>5, <3>6, <3>7, <3>8
  <2>3. ASSUME NEW k \in 1 .. 12, Head(todo) = StopOps[k], StopInv(k)
        PROVE  IF k = 12 THEN SettledInv' ELSE StopInv(k + 1)'
    <3>1. k \in {7, 9, 11}
      BY <2>0, <2>3, StopPlaces
    <3>2. CASE k = 7
      BY <2>0, <2>3, <3>2, StopList DEF StopInv
    <3>3. CASE k = 9
      BY <2>0, <2>3, <3>3, StopList DEF StopInv
    <3>4. CASE k = 11
      BY <2>0, <2>3, <3>4, StopList DEF StopInv
    <3>5. QED
      BY <3>1, <3>2, <3>3, <3>4
  <2>4. /\ SettledInv
        /\ Head(todo).op \in {"detach", "attach", "locked", "link", "phy",
                              "phy2", "eeprom", "eeprom2"}
        /\ Head(todo).op = "detach" => running
        => SettledInv'
    BY <2>0 DEF SettledInv
  <2>5. QED
    BY <1>1, <2>1, <2>2, <2>3, <2>4, CtlNext
<1>19. CASE InitVars
  <2>0. /\ todo # <<>> /\ todo' = Tail(todo) /\ Head(todo).op = "vars"
        /\ tx_pkt_cnt' = 0 /\ taken' = FALSE
        /\ UNCHANGED <<board, last, chip, irq, poll, net>>
    BY <1>19
       DEF InitVars, Next1, At
  <2>1. todo # <<>> /\ todo' = Tail(todo)
    BY <2>0
  <2>2. ASSUME NEW k \in 1 .. 21, Head(todo) = OpenOps[k], OpenInv(k)
        PROVE  IF k = 21 THEN SettledInv' ELSE OpenInv(k + 1)'
    <3>1. k \in {13}
      BY <2>0, <2>2, OpenPlaces
    <3>2. CASE k = 13
      BY <2>0, <2>2, <3>2, OpenList DEF OpenInv
    <3>3. QED
      BY <3>1, <3>2
  <2>3. ASSUME NEW k \in 1 .. 12, Head(todo) = StopOps[k], StopInv(k)
        PROVE  IF k = 12 THEN SettledInv' ELSE StopInv(k + 1)'
    BY <2>0, <2>3, StopPlaces
  <2>4. /\ SettledInv
        /\ Head(todo).op \in {"detach", "attach", "locked", "link", "phy",
                              "phy2", "eeprom", "eeprom2"}
        /\ Head(todo).op = "detach" => running
        => SettledInv'
    BY <2>0 DEF SettledInv
  <2>5. QED
    BY <1>1, <2>1, <2>2, <2>3, <2>4, CtlNext
<1>20. CASE RequestIrq /\ todo' = <<>> /\ running' = FALSE /\ irq' = irq
  <2>1. OpenInv(14)
    BY <1>1, <1>20, AtRequestIrq
  <2>2. SettledInv'
    BY <1>20, <2>1 DEF RequestIrq, OpenInv, SettledInv
  <2>3. QED
    BY <1>20, <2>2 DEF CtlInv
<1>21. CASE /\ RequestIrq /\ irq' = "ready"
            /\ todo' = Tail(todo) /\ running' = running
  <2>0. /\ todo # <<>> /\ todo' = Tail(todo) /\ Head(todo).op = "request_irq"
        /\ irq' = "ready"
        /\ UNCHANGED <<board, last, chip, db, poll, net>>
    BY <1>21
       DEF RequestIrq, At
  <2>1. todo # <<>> /\ todo' = Tail(todo)
    BY <2>0
  <2>2. ASSUME NEW k \in 1 .. 21, Head(todo) = OpenOps[k], OpenInv(k)
        PROVE  IF k = 21 THEN SettledInv' ELSE OpenInv(k + 1)'
    <3>1. k \in {14}
      BY <2>0, <2>2, OpenPlaces
    <3>2. CASE k = 14
      BY <2>0, <2>2, <3>2, OpenList DEF OpenInv
    <3>3. QED
      BY <3>1, <3>2
  <2>3. ASSUME NEW k \in 1 .. 12, Head(todo) = StopOps[k], StopInv(k)
        PROVE  IF k = 12 THEN SettledInv' ELSE StopInv(k + 1)'
    BY <2>0, <2>3, StopPlaces
  <2>4. /\ SettledInv
        /\ Head(todo).op \in {"detach", "attach", "locked", "link", "phy",
                              "phy2", "eeprom", "eeprom2"}
        /\ Head(todo).op = "detach" => running
        => SettledInv'
    BY <2>0 DEF SettledInv
  <2>5. QED
    BY <1>1, <2>1, <2>2, <2>3, <2>4, CtlNext
<1>22. CASE FreeIrq
  <2>0. /\ todo # <<>> /\ todo' = Tail(todo) /\ Head(todo).op = "free_irq"
        /\ irq' = "none"
        /\ UNCHANGED <<board, last, chip, db, poll, net>>
    BY <1>22
       DEF FreeIrq, Next1, At
  <2>1. todo # <<>> /\ todo' = Tail(todo)
    BY <2>0
  <2>2. ASSUME NEW k \in 1 .. 21, Head(todo) = OpenOps[k], OpenInv(k)
        PROVE  IF k = 21 THEN SettledInv' ELSE OpenInv(k + 1)'
    BY <2>0, <2>2, OpenPlaces
  <2>3. ASSUME NEW k \in 1 .. 12, Head(todo) = StopOps[k], StopInv(k)
        PROVE  IF k = 12 THEN SettledInv' ELSE StopInv(k + 1)'
    <3>1. k \in {3}
      BY <2>0, <2>3, StopPlaces
    <3>2. CASE k = 3
      BY <2>0, <2>3, <3>2, StopList DEF StopInv
    <3>3. QED
      BY <3>1, <3>2
  <2>4. /\ SettledInv
        /\ Head(todo).op \in {"detach", "attach", "locked", "link", "phy",
                              "phy2", "eeprom", "eeprom2"}
        /\ Head(todo).op = "detach" => running
        => SettledInv'
    BY <2>0 DEF SettledInv
  <2>5. QED
    BY <1>1, <2>1, <2>2, <2>3, <2>4, CtlNext
<1>23. CASE NetOp
  <2>0. /\ UNCHANGED <<board, last, chip, db, irq, poll, running>>
        /\ todo # <<>> /\ todo' = Tail(todo)
        /\ \/ Head(todo).op = "start" /\ UNCHANGED <<active, present>>
           \/ Head(todo).op = "stop_queue" /\ UNCHANGED <<active, present>>
           \/ Head(todo).op = "done" /\ active' = TRUE /\ UNCHANGED present
           \/ Head(todo).op = "down" /\ UNCHANGED <<active, present>>
           \/ /\ Head(todo).op = "detach" /\ present' = FALSE
              /\ UNCHANGED active
           \/ /\ Head(todo).op = "attach" /\ present' = TRUE
              /\ UNCHANGED active
    BY <1>23 DEF NetOp, Core, Next1, At
  <2>1. todo # <<>> /\ todo' = Tail(todo)
    BY <2>0
  <2>2. ASSUME NEW k \in 1 .. 21, Head(todo) = OpenOps[k], OpenInv(k)
        PROVE  IF k = 21 THEN SettledInv' ELSE OpenInv(k + 1)'
    <3>1. k \in {19, 21}
      BY <2>0, <2>2, OpenPlaces
    <3>2. CASE k = 19
      <4>1. UNCHANGED <<active, present>>
        BY <2>0, <2>2, <3>2, OpenList
      <4>2. QED
        BY <2>0, <2>2, <3>2, <4>1, OpenList DEF OpenInv
    <3>3. CASE k = 21
      <4>1. active' = TRUE /\ UNCHANGED present
        BY <2>0, <2>2, <3>3, OpenList
      <4>2. QED
        BY <2>0, <2>2, <3>3, <4>1 DEF OpenInv, SettledInv
    <3>4. QED
      BY <3>1, <3>2, <3>3
  <2>3. ASSUME NEW k \in 1 .. 12, Head(todo) = StopOps[k], StopInv(k)
        PROVE  IF k = 12 THEN SettledInv' ELSE StopInv(k + 1)'
    <3>1. k \in {2, 12}
      BY <2>0, <2>3, StopPlaces
    <3>0. UNCHANGED <<active, present>>
      BY <2>0, <2>3, <3>1, StopList
    <3>2. CASE k = 2
      BY <2>0, <2>3, <3>0, <3>2, StopList DEF StopInv
    <3>3. CASE k = 12
      BY <2>0, <2>3, <3>0, <3>3, StopList DEF StopInv, SettledInv
    <3>4. QED
      BY <3>1, <3>2, <3>3
  <2>4. /\ SettledInv
        /\ Head(todo).op \in {"detach", "attach", "locked", "link", "phy",
                              "phy2", "eeprom", "eeprom2"}
        /\ Head(todo).op = "detach" => running
        => SettledInv'
    BY <2>0 DEF SettledInv
  <2>5. QED
    BY <1>1, <2>1, <2>2, <2>3, <2>4, CtlNext
<1>24. CASE Schedule
  <2>0. /\ todo # <<>> /\ todo' = Tail(todo) /\ Head(todo).op = "schedule"
        /\ UNCHANGED <<board, last, chip, db, irq, net>>
    BY <1>24
       DEF Schedule, Next1, At
  <2>1. todo # <<>> /\ todo' = Tail(todo)
    BY <2>0
  <2>2. ASSUME NEW k \in 1 .. 21, Head(todo) = OpenOps[k], OpenInv(k)
        PROVE  IF k = 21 THEN SettledInv' ELSE OpenInv(k + 1)'
    <3>1. k \in {20}
      BY <2>0, <2>2, OpenPlaces
    <3>2. CASE k = 20
      BY <2>0, <2>2, <3>2, OpenList DEF OpenInv
    <3>3. QED
      BY <3>1, <3>2
  <2>3. ASSUME NEW k \in 1 .. 12, Head(todo) = StopOps[k], StopInv(k)
        PROVE  IF k = 12 THEN SettledInv' ELSE StopInv(k + 1)'
    BY <2>0, <2>3, StopPlaces
  <2>4. /\ SettledInv
        /\ Head(todo).op \in {"detach", "attach", "locked", "link", "phy",
                              "phy2", "eeprom", "eeprom2"}
        /\ Head(todo).op = "detach" => running
        => SettledInv'
    BY <2>0 DEF SettledInv
  <2>5. QED
    BY <1>1, <2>1, <2>2, <2>3, <2>4, CtlNext
<1>25. CASE Cancel
  <2>0. /\ todo # <<>> /\ todo' = Tail(todo) /\ Head(todo).op = "cancel"
        /\ poll' = "off"
        /\ UNCHANGED <<board, last, chip, db, irq, net>>
    BY <1>25
       DEF Cancel, Next1, At
  <2>1. todo # <<>> /\ todo' = Tail(todo)
    BY <2>0
  <2>2. ASSUME NEW k \in 1 .. 21, Head(todo) = OpenOps[k], OpenInv(k)
        PROVE  IF k = 21 THEN SettledInv' ELSE OpenInv(k + 1)'
    BY <2>0, <2>2, OpenPlaces
  <2>3. ASSUME NEW k \in 1 .. 12, Head(todo) = StopOps[k], StopInv(k)
        PROVE  IF k = 12 THEN SettledInv' ELSE StopInv(k + 1)'
    <3>1. k \in {1}
      BY <2>0, <2>3, StopPlaces
    <3>2. CASE k = 1
      BY <2>0, <2>3, <3>2, StopList DEF StopInv
    <3>3. QED
      BY <3>1, <3>2
  <2>4. /\ SettledInv
        /\ Head(todo).op \in {"detach", "attach", "locked", "link", "phy",
                              "phy2", "eeprom", "eeprom2"}
        /\ Head(todo).op = "detach" => running
        => SettledInv'
    BY <2>0 DEF SettledInv
  <2>5. QED
    BY <1>1, <2>1, <2>2, <2>3, <2>4, CtlNext
<1>26. CASE PhyAccess /\ UNCHANGED todo
  <2>0. UNCHANGED <<board, last, chip, db, irq, poll, net, todo>>
    BY <1>26
       DEF PhyAccess, PhyCommand, PhySleeps, PhyResult, PhyDone, Enter, Leave
  <2>1. UNCHANGED <<todo, running>>
    BY <2>0
  <2>2. SettledInv => SettledInv'
    BY <2>0 DEF SettledInv
  <2>3. ASSUME NEW k \in 1 .. 21, OpenInv(k) PROVE OpenInv(k)'
    BY <2>0, <2>3 DEF OpenInv
  <2>4. ASSUME NEW k \in 1 .. 12, StopInv(k) PROVE StopInv(k)'
    BY <2>0, <2>4 DEF StopInv
  <2>5. QED
    BY <2>1, <2>2, <2>3, <2>4, CtlFrame
<1>27. CASE PhyAccess /\ Next1("phy")
  <2>0. /\ todo # <<>> /\ todo' = Tail(todo) /\ Head(todo).op = "phy"
        /\ UNCHANGED <<board, last, chip, db, irq, poll, net>>
    BY <1>27
       DEF PhyAccess, PhyCommand, PhySleeps, PhyResult, PhyDone, Enter, Leave,
          Next1, At
  <2>1. todo # <<>> /\ todo' = Tail(todo)
    BY <2>0
  <2>2. ASSUME NEW k \in 1 .. 21, Head(todo) = OpenOps[k], OpenInv(k)
        PROVE  IF k = 21 THEN SettledInv' ELSE OpenInv(k + 1)'
    <3>1. k \in {17}
      BY <2>0, <2>2, OpenPlaces
    <3>2. CASE k = 17
      BY <2>0, <2>2, <3>2, OpenList DEF OpenInv
    <3>3. QED
      BY <3>1, <3>2
  <2>3. ASSUME NEW k \in 1 .. 12, Head(todo) = StopOps[k], StopInv(k)
        PROVE  IF k = 12 THEN SettledInv' ELSE StopInv(k + 1)'
    <3>1. k \in {4}
      BY <2>0, <2>3, StopPlaces
    <3>2. CASE k = 4
      BY <2>0, <2>3, <3>2, StopList DEF StopInv
    <3>3. QED
      BY <3>1, <3>2
  <2>4. /\ SettledInv
        /\ Head(todo).op \in {"detach", "attach", "locked", "link", "phy",
                              "phy2", "eeprom", "eeprom2"}
        /\ Head(todo).op = "detach" => running
        => SettledInv'
    BY <2>0 DEF SettledInv
  <2>5. QED
    BY <1>1, <2>1, <2>2, <2>3, <2>4, CtlNext
<1>28. CASE PhyAccess /\ Next1("phy2")
  <2>0. /\ todo # <<>> /\ todo' = Tail(todo) /\ Head(todo).op = "phy2"
        /\ UNCHANGED <<board, last, chip, db, irq, poll, net>>
    BY <1>28
       DEF PhyAccess, PhyCommand, PhySleeps, PhyResult, PhyDone, Enter, Leave,
          Next1, At
  <2>1. todo # <<>> /\ todo' = Tail(todo)
    BY <2>0
  <2>2. ASSUME NEW k \in 1 .. 21, Head(todo) = OpenOps[k], OpenInv(k)
        PROVE  IF k = 21 THEN SettledInv' ELSE OpenInv(k + 1)'
    <3>1. k \in {18}
      BY <2>0, <2>2, OpenPlaces
    <3>2. CASE k = 18
      BY <2>0, <2>2, <3>2, OpenList DEF OpenInv
    <3>3. QED
      BY <3>1, <3>2
  <2>3. ASSUME NEW k \in 1 .. 12, Head(todo) = StopOps[k], StopInv(k)
        PROVE  IF k = 12 THEN SettledInv' ELSE StopInv(k + 1)'
    <3>1. k \in {5}
      BY <2>0, <2>3, StopPlaces
    <3>2. CASE k = 5
      BY <2>0, <2>3, <3>2, StopList DEF StopInv
    <3>3. QED
      BY <3>1, <3>2
  <2>4. /\ SettledInv
        /\ Head(todo).op \in {"detach", "attach", "locked", "link", "phy",
                              "phy2", "eeprom", "eeprom2"}
        /\ Head(todo).op = "detach" => running
        => SettledInv'
    BY <2>0 DEF SettledInv
  <2>5. QED
    BY <1>1, <2>1, <2>2, <2>3, <2>4, CtlNext
<1>29. CASE EepromAccess \/ LockedAccess \/ dm9000_get_link
  <2>0. /\ todo # <<>> /\ todo' = Tail(todo)
        /\ Head(todo).op \in {"eeprom", "eeprom2", "locked", "link"}
        /\ UNCHANGED <<irq, poll, board, running, active, present>>
    BY <1>29
       DEF EepromAccess, LockedAccess, dm9000_get_link, Next1, At
  <2>1. todo # <<>> /\ todo' = Tail(todo)
    BY <2>0
  <2>2. ASSUME NEW k \in 1 .. 21, Head(todo) = OpenOps[k], OpenInv(k)
        PROVE  IF k = 21 THEN SettledInv' ELSE OpenInv(k + 1)'
    BY <2>0, <2>2, OpenPlaces
  <2>3. ASSUME NEW k \in 1 .. 12, Head(todo) = StopOps[k], StopInv(k)
        PROVE  IF k = 12 THEN SettledInv' ELSE StopInv(k + 1)'
    BY <2>0, <2>3, StopPlaces
  <2>4. /\ SettledInv
        /\ Head(todo).op \in {"detach", "attach", "locked", "link", "phy",
                              "phy2", "eeprom", "eeprom2"}
        /\ Head(todo).op = "detach" => running
        => SettledInv'
    BY <2>0 DEF SettledInv
  <2>5. QED
    BY <1>1, <2>1, <2>2, <2>3, <2>4, CtlNext
<1>30. CASE UNCHANGED vars
  BY <1>30 DEF vars, CtlInv, Ahead, SettledInv, OpenInv, StopInv
<1>31. CASE PhyAccess
  <2>1. \/ PhyAccess /\ UNCHANGED todo
        \/ PhyAccess /\ Next1("phy")
        \/ PhyAccess /\ Next1("phy2")
    BY <1>31 DEF PhyAccess
  <2>2. QED
    BY <2>1, <1>26, <1>27, <1>28
<1>32. CASE RequestIrq
  BY <1>32, <1>20, <1>21 DEF RequestIrq
<1>33. QED
  BY <1>2, <1>3, <1>4, <1>5, <1>6, <1>7, <1>8, <1>9, <1>10, <1>11, <1>12,
     <1>13, <1>14, <1>15, <1>16, <1>17, <1>18, <1>19, <1>20, <1>21, <1>22,
     <1>23, <1>24, <1>25, <1>26, <1>27, <1>28, <1>29, <1>30, <1>31, <1>32
     DEF Next, Chip, dm9000_interrupt, dm9000_poll_work, Ctl


-----------------------------------------------------------------------------
(* The transactions, on any board.                                         *)

(* What suspend and resume do on a board without wake-on-LAN. *)
LEMMA SuspendList ==
  ASSUME ~board.wol
  PROVE  /\ Len(SuspendOps) = 9
         /\ SuspendOps[1].op = "detach" /\ SuspendOps[2].op = "phy"
         /\ SuspendOps[3].op = "phy2" /\ SuspendOps[4].op = "select"
         /\ SuspendOps[5].op = "write" /\ SuspendOps[6].op = "select"
         /\ SuspendOps[7].op = "write" /\ SuspendOps[8].op = "select"
         /\ SuspendOps[9].op = "write"
BY SMTT(30) DEF SuspendOps, dm9000_shutdown, iow, dm9000_phy, Op

(* The same for resume. *)
LEMMA ResumeList ==
  ASSUME ~board.wol
  PROVE  /\ Len(ResumeOps) = 14
         /\ ResumeOps[1].op = "select" /\ ResumeOps[2].op = "write"
         /\ ResumeOps[3].op = "select" /\ ResumeOps[4].op = "write"
         /\ ResumeOps[5].op = "select" /\ ResumeOps[6].op = "write"
         /\ ResumeOps[7].op = "select" /\ ResumeOps[8].op = "write"
         /\ ResumeOps[9].op = "select" /\ ResumeOps[10].op = "write"
         /\ ResumeOps[11].op = "vars" /\ ResumeOps[12].op = "select"
         /\ ResumeOps[13].op = "write" /\ ResumeOps[14].op = "attach"
BY SMTT(30) DEF ResumeOps, dm9000_init_dm9000, iow, Op

(* How a list is shown not to split a transaction. *)
LEMMA PairedFrom ==
  ASSUME NEW L \in Seq(Ops), L # <<>>,
         \A i \in 1 .. Len(L) - 1 :
           L[i].op \in First <=> L[i + 1].op \in Second,
         L[Len(L)].op \notin First, L[1].op \notin Second
  PROVE  Whole(L)
<1>1. Head(L) = L[1]
  OBVIOUS
<1>2. QED
  BY <1>1 DEF Whole, Paired

(* No list splits a transaction or begins in the middle of one. *)
LEMMA ListsPaired ==
  \A L \in ShortLists \cup {OpenOps, StopOps, SuspendOps, ResumeOps} : Whole(L)
<1>1. ASSUME NEW L \in ShortLists
      PROVE  Whole(L)
  <2>1. L \in Seq(Ops)
    BY ListTypes
  <2>2. CASE Len(L) = 1
    <3>1. L[1].op \notin First \cup Second
      BY <2>2, ShortList DEF ShortLists, First, Second
    <3>2. QED
      BY <2>1, <2>2, <3>1, PairedFrom DEF Whole, Paired
  <2>3. CASE Len(L) = 2
    <3>1. L[1].op \in First /\ L[2].op \in Second
      BY <2>3, ShortList DEF ShortLists, First, Second
    <3>2. \A i \in 1 .. 2 - 1 : L[i].op \in First <=> L[i + 1].op \in Second
      BY <3>1
    <3>3. /\ L # <<>>
          /\ \A i \in 1 .. Len(L) - 1 :
               L[i].op \in First <=> L[i + 1].op \in Second
          /\ L[Len(L)].op \notin First /\ L[1].op \notin Second
      BY <2>1, <2>3, <3>1, <3>2 DEF First, Second
    <3>4. QED
      BY <2>1, <3>3, PairedFrom, Zenon
  <2>4. QED
    BY <2>2, <2>3, ShortList DEF ShortLists
<1>2. Whole(OpenOps)
  <2>1. ASSUME NEW i \in 1 .. 21 - 1
        PROVE  OpenOps[i].op \in First <=> OpenOps[i + 1].op \in Second
    <3>1. \/ i = 1 \/ i = 2 \/ i = 3 \/ i = 4 \/ i = 5 \/ i = 6
          \/ i = 7 \/ i = 8 \/ i = 9 \/ i = 10 \/ i = 11 \/ i = 12
          \/ i = 13 \/ i = 14 \/ i = 15 \/ i = 16 \/ i = 17 \/ i = 18
          \/ i = 19 \/ i = 20
      OBVIOUS
    <3>2. QED
      BY <3>1, OpenList DEF First, Second
  <2>2. OpenOps \in Seq(Ops) /\ Len(OpenOps) = 21
    BY OpenList, ListTypes
  <2>3. OpenOps[Len(OpenOps)].op \notin First /\ OpenOps[1].op \notin Second
    BY OpenList DEF First, Second
  <2>4. \A i \in 1 .. Len(OpenOps) - 1 :
          OpenOps[i].op \in First <=> OpenOps[i + 1].op \in Second
    BY <2>1, <2>2
  <2>5. OpenOps # <<>>
    <3>1. Len(OpenOps) # 0
      BY <2>2
    <3>2. QED
      BY <3>1, LenEmpty, Zenon
  <2>6. QED
    BY <2>2, <2>3, <2>4, <2>5, PairedFrom, Zenon
<1>3. Whole(StopOps)
  <2>1. ASSUME NEW i \in 1 .. 12 - 1
        PROVE  StopOps[i].op \in First <=> StopOps[i + 1].op \in Second
    <3>1. \/ i = 1 \/ i = 2 \/ i = 3 \/ i = 4 \/ i = 5 \/ i = 6
          \/ i = 7 \/ i = 8 \/ i = 9 \/ i = 10 \/ i = 11
      OBVIOUS
    <3>2. QED
      BY <3>1, StopList DEF First, Second
  <2>2. StopOps \in Seq(Ops) /\ Len(StopOps) = 12
    BY StopList, ListTypes
  <2>3. StopOps[Len(StopOps)].op \notin First /\ StopOps[1].op \notin Second
    BY StopList DEF First, Second
  <2>4. \A i \in 1 .. Len(StopOps) - 1 :
          StopOps[i].op \in First <=> StopOps[i + 1].op \in Second
    BY <2>1, <2>2
  <2>5. StopOps # <<>>
    <3>1. Len(StopOps) # 0
      BY <2>2
    <3>2. QED
      BY <3>1, LenEmpty, Zenon
  <2>6. QED
    BY <2>2, <2>3, <2>4, <2>5, PairedFrom, Zenon
<1>4. board.wol => SuspendOps \in ShortLists /\ ResumeOps \in ShortLists
  BY DEF SuspendOps, ResumeOps, ShortLists, DetachOps, AttachOps
<1>5. CASE ~board.wol
  <2>1. Whole(SuspendOps)
    <3>1. ASSUME NEW i \in 1 .. 9 - 1
          PROVE  SuspendOps[i].op \in First <=> SuspendOps[i + 1].op \in Second
      <4>1. \/ i = 1 \/ i = 2 \/ i = 3 \/ i = 4 \/ i = 5 \/ i = 6
            \/ i = 7 \/ i = 8
        OBVIOUS
      <4>2. QED
        BY <1>5, <4>1, SuspendList DEF First, Second
    <3>2. SuspendOps \in Seq(Ops) /\ Len(SuspendOps) = 9
      BY <1>5, SuspendList, ListTypes
    <3>3. /\ SuspendOps[Len(SuspendOps)].op \notin First
          /\ SuspendOps[1].op \notin Second
      BY <1>5, SuspendList DEF First, Second
    <3>4. \A i \in 1 .. Len(SuspendOps) - 1 :
            SuspendOps[i].op \in First <=> SuspendOps[i + 1].op \in Second
      BY <3>1, <3>2
    <3>5. SuspendOps # <<>>
      <4>1. Len(SuspendOps) # 0
        BY <3>2
      <4>2. QED
        BY <4>1, LenEmpty, Zenon
    <3>6. QED
      BY <3>2, <3>3, <3>4, <3>5, PairedFrom, Zenon
  <2>2. Whole(ResumeOps)
    <3>1. ASSUME NEW i \in 1 .. 14 - 1
          PROVE  ResumeOps[i].op \in First <=> ResumeOps[i + 1].op \in Second
      <4>1. \/ i = 1 \/ i = 2 \/ i = 3 \/ i = 4 \/ i = 5 \/ i = 6
            \/ i = 7 \/ i = 8 \/ i = 9 \/ i = 10 \/ i = 11 \/ i = 12
            \/ i = 13
        OBVIOUS
      <4>2. QED
        BY <1>5, <4>1, ResumeList DEF First, Second
    <3>2. ResumeOps \in Seq(Ops) /\ Len(ResumeOps) = 14
      BY <1>5, ResumeList, ListTypes
    <3>3. /\ ResumeOps[Len(ResumeOps)].op \notin First
          /\ ResumeOps[1].op \notin Second
      BY <1>5, ResumeList DEF First, Second
    <3>4. \A i \in 1 .. Len(ResumeOps) - 1 :
            ResumeOps[i].op \in First <=> ResumeOps[i + 1].op \in Second
      BY <3>1, <3>2
    <3>5. ResumeOps # <<>>
      <4>1. Len(ResumeOps) # 0
        BY <3>2
      <4>2. QED
        BY <4>1, LenEmpty, Zenon
    <3>6. QED
      BY <3>2, <3>3, <3>4, <3>5, PairedFrom, Zenon
  <2>3. QED
    BY <1>1, <1>2, <1>3, <2>1, <2>2
<1>6. QED
  BY <1>1, <1>2, <1>3, <1>4, <1>5

(* The rest of a list does not split a transaction either; it begins in    *)
(* the middle of one exactly when the first half is done.                  *)
LEMMA PairedTail ==
  ASSUME NEW L, Paired(L), L # <<>>
  PROVE  /\ Paired(Tail(L))
         /\ Head(L).op \in First <=>
              Tail(L) # <<>> /\ Head(Tail(L)).op \in Second
<1>1. L \in Seq(Ops) /\ Tail(L) \in Seq(Ops) /\ Head(L) = L[1]
      /\ Len(Tail(L)) = Len(L) - 1
  BY DEF Paired
<1>2. ASSUME NEW i \in 1 .. Len(Tail(L))
      PROVE  Tail(L)[i] = L[i + 1]
  BY <1>1
<1>3. CASE Tail(L) = <<>>
  <2>1. Len(L) = 1
    <3>0. Len(L) \in Nat
      BY <1>1
    <3>1. Len(Tail(L)) = 0
      BY <1>3, LenEmpty, Zenon
    <3>2. \A m, n \in Nat : m = n - 1 /\ m = 0 => n = 1
      OBVIOUS
    <3>3. Len(Tail(L)) \in Nat /\ Len(Tail(L)) = Len(L) - 1
      BY <1>1
    <3>4. QED
      BY <3>0, <3>1, <3>2, <3>3, Zenon
  <2>2. Head(L).op \notin First
    BY <1>1, <2>1 DEF Paired
  <2>3. Paired(Tail(L))
    BY <1>1, <1>3 DEF Paired
  <2>4. QED
    BY <1>3, <2>2, <2>3
<1>4. CASE Tail(L) # <<>>
  <2>1. Len(Tail(L)) \in Nat /\ Len(Tail(L)) >= 1
    BY <1>1, <1>4
  <2>2. Head(Tail(L)) = L[2]
    BY <1>1, <1>2, <1>4, <2>1
  <2>3. Tail(L)[Len(Tail(L))] = L[Len(L)]
    BY <1>1, <1>2, <2>1
  <2>4. ASSUME NEW i \in 1 .. Len(Tail(L)) - 1
        PROVE  Tail(L)[i].op \in First <=> Tail(L)[i + 1].op \in Second
    <3>1. i \in 1 .. Len(Tail(L)) /\ i + 1 \in 1 .. Len(Tail(L))
      BY <2>1
    <3>2. Tail(L)[i] = L[i + 1] /\ Tail(L)[i + 1] = L[(i + 1) + 1]
      BY <1>2, <3>1
    <3>3. i + 1 \in 1 .. Len(L) - 1
      BY <1>1, <2>1
    <3>4. QED
      BY <3>2, <3>3 DEF Paired
  <2>5. L[1].op \in First <=> L[2].op \in Second
    <3>1. 1 \in 1 .. Len(L) - 1 /\ 1 + 1 = 2
      BY <1>1, <2>1
    <3>2. QED
      BY <3>1 DEF Paired
  <2>6. QED
    BY <1>1, <1>4, <2>2, <2>3, <2>4, <2>5 DEF Paired
<1>5. QED
  BY <1>3, <1>4

(* The owner of addr_lock finishes its own transaction. *)
LEMMA TransactionStep ==
  ASSUME PInv, [Next]_vars
  PROVE  PInv'
<1> USE DEF PInv, TransactionInv, bus
<1>1. CASE Ctl
  <2>1. todo # <<>>
    BY <1>1 DEF Ctl, Select, Write, InitVars, RequestIrq, FreeIrq, NetOp,
       Schedule, Cancel, PhyAccess, EepromAccess, LockedAccess,
       dm9000_get_link, Next1, At
  <2>2. /\ Paired(Tail(todo))
        /\ Head(todo).op \in First <=>
             Tail(todo) # <<>> /\ Head(Tail(todo)).op \in Second
    BY <2>1, PairedTail
  <2>3. CASE PhyAccess
    <3>1. UNCHANGED poll
      BY <2>3 DEF PhyAccess
    <3>2. CASE At("phy") /\ PhyCommand("ctl") /\ UNCHANGED todo
      <4>1. /\ Head(todo).op = "phy" /\ addr_lock = "free" /\ lock' = "ctl"
            /\ addr_lock' = "ctl" /\ epar' = "ctl" /\ UNCHANGED todo
        BY <3>2 DEF At, PhyCommand, Enter
      <4>2. QED
        BY <2>1, <3>1, <4>1
    <3>3. CASE Next1("phy") /\ PhySleeps("ctl")
      <4>1. /\ Head(todo).op = "phy" /\ lock = "ctl" /\ lock' = "free"
            /\ todo' = Tail(todo) /\ UNCHANGED <<addr_lock, epar>>
        BY <3>3 DEF Next1, At, PhySleeps, Leave
      <4>2. Tail(todo) # <<>> /\ Head(Tail(todo)).op \in Second
        BY <2>2, <4>1 DEF First
      <4>3. QED
        BY <2>1, <2>2, <3>1, <4>1, <4>2
    <3>4. CASE At("phy2") /\ PhyResult("ctl") /\ UNCHANGED todo
      <4>1. /\ Head(todo).op = "phy2" /\ lock' = "ctl"
            /\ UNCHANGED <<todo, addr_lock, epar>>
        BY <3>4 DEF At, PhyResult, Enter
      <4>2. QED
        BY <2>1, <3>1, <4>1 DEF Second
    <3>5. CASE Next1("phy2") /\ PhyDone("ctl")
      <4>1. /\ Head(todo).op = "phy2" /\ lock = "ctl" /\ lock' = "free"
            /\ todo' = Tail(todo) /\ addr_lock' = "free"
        BY <3>5 DEF Next1, At, PhyDone, Leave
      <4>2. ~(Tail(todo) # <<>> /\ Head(Tail(todo)).op \in Second)
        BY <2>2, <4>1 DEF First
      <4>3. QED
        BY <2>1, <2>2, <3>1, <4>1, <4>2
    <3>6. QED
      BY <2>3, <3>2, <3>3, <3>4, <3>5 DEF PhyAccess
  <2>4. CASE EepromAccess
    <3>1. lock = "free" /\ lock' = "free" /\ UNCHANGED poll
          /\ todo' = Tail(todo)
      BY <2>4 DEF EepromAccess, Section, Touch, Next1
    <3>2. CASE Head(todo).op = "eeprom"
      <4>1. addr_lock = "free" /\ addr_lock' = "ctl" /\ epar' = "ctl"
        BY <2>4, <3>2 DEF EepromAccess, Next1, At
      <4>2. Tail(todo) # <<>> /\ Head(Tail(todo)).op \in Second
        BY <2>2, <3>2 DEF First
      <4>3. QED
        BY <2>1, <2>2, <3>1, <4>1, <4>2
    <3>3. CASE Head(todo).op = "eeprom2"
      <4>1. addr_lock' = "free"
        BY <2>4, <3>3 DEF EepromAccess, Next1, At
      <4>2. ~(Tail(todo) # <<>> /\ Head(Tail(todo)).op \in Second)
        BY <2>2, <3>3 DEF First
      <4>3. addr_lock = "ctl"
        BY <2>1, <3>3 DEF Second
      <4>4. QED
        BY <2>1, <2>2, <3>1, <4>1, <4>2, <4>3
    <3>4. QED
      BY <2>4, <3>2, <3>3 DEF EepromAccess, Next1, At
  <2>5. CASE RequestIrq
    <3>1. Paired(<<>>)
      BY LenEmpty DEF Paired
    <3>2. /\ Head(todo).op = "request_irq"
          /\ UNCHANGED <<addr_lock, epar, poll, lock>>
          /\ todo' = <<>> \/ todo' = Tail(todo)
      BY <2>5 DEF RequestIrq, At
    <3>3. CASE todo' = <<>>
      BY <2>1, <3>1, <3>2, <3>3 DEF Second
    <3>4. CASE todo' = Tail(todo)
      BY <2>1, <2>2, <3>2, <3>4 DEF First, Second
    <3>5. QED
      BY <3>2, <3>3, <3>4
  <2>6. CASE \/ Select \/ Write \/ InitVars \/ FreeIrq \/ NetOp \/ Schedule
             \/ Cancel \/ LockedAccess \/ dm9000_get_link
    <3>1. /\ todo' = Tail(todo) /\ Head(todo).op \notin First \cup Second
          /\ UNCHANGED <<addr_lock, epar, lock>>
          /\ poll' \in {poll, "off", "queued"}
          /\ poll' # poll => poll \in {"off", "queued"}
      BY <2>6 DEF Select, Write, InitVars, FreeIrq, NetOp, Schedule, Cancel,
         LockedAccess, dm9000_get_link, Section, Touch, Next1, At, Core, First,
         Second
    <3>2. lock # "ctl"
      BY <3>1 DEF First, Second
    <3>3. QED
      BY <2>1, <2>2, <3>1, <3>2
  <2>7. QED
    BY <1>1, <2>3, <2>4, <2>5, <2>6 DEF Ctl
<1>2. CASE \/ dm9000_open \/ dm9000_stop \/ dm9000_drv_suspend
           \/ dm9000_drv_resume \/ Query
  <2>1. Whole(todo')
    BY <1>2, ListsPaired DEF dm9000_open, dm9000_stop, dm9000_drv_suspend,
       dm9000_drv_resume, Query, ShortLists, EepromOps, LockedOps, LinkOps
  <2>2. todo = <<>> /\ UNCHANGED <<addr_lock, epar, poll, lock>>
    BY <1>2 DEF dm9000_open, dm9000_stop, dm9000_drv_suspend,
       dm9000_drv_resume, Query, Idle, Core
  <2>3. QED
    BY <2>1, <2>2 DEF Whole
<1>3. CASE dm9000_poll_work
  <2>0. UNCHANGED todo
    BY <1>3 DEF dm9000_poll_work, PollBegins, PollSimple, PollNcr, PollPhy,
                PollPhy2
  <2>1. CASE PollBegins
    BY <2>0, <2>1 DEF PollBegins
  <2>2. CASE PollSimple \/ PollNcr
    BY <2>0, <2>2 DEF PollSimple, PollNcr, Section, Touch, PollAgain
  <2>3. CASE PollPhy
    <3>1. /\ poll \notin {"cmd", "phy", "res"} /\ poll' = "cmd"
          /\ lock = "free" /\ lock' = "poll"
          /\ addr_lock = "free" /\ addr_lock' = "poll" /\ epar' = "poll"
      BY <2>3 DEF PollPhy, PhyCommand, Enter
    <3>2. QED
      BY <2>0, <3>1
  <2>4. CASE PollPhy2
    <3>1. CASE poll = "cmd" /\ PhySleeps("poll") /\ poll' = "phy"
      BY <2>0, <3>1 DEF PhySleeps, Leave
    <3>2. CASE poll = "phy" /\ PhyResult("poll") /\ poll' = "res"
      BY <2>0, <3>2 DEF PhyResult, Enter
    <3>3. CASE poll = "res" /\ PhyDone("poll") /\ poll' = PollAgain
      BY <2>0, <3>3 DEF PhyDone, Leave, PollAgain
    <3>4. QED
      BY <2>4, <3>1, <3>2, <3>3 DEF PollPhy2
  <2>5. QED
    BY <1>3, <2>1, <2>2, <2>3, <2>4 DEF dm9000_poll_work
<1>4. CASE /\ UNCHANGED <<todo, addr_lock, epar>>
           /\ lock' = "ctl" <=> lock = "ctl"
           /\ poll' \in {poll, "queued"} /\ (poll' # poll => poll = "off")
  BY <1>4
<1>5. CASE dm9000_timeout \/ dm9000_interrupt
  BY <1>4, <1>5 DEF dm9000_timeout, TimeoutBegins, TimeoutEnds,
     dm9000_interrupt, IrqEnter, dm9000_rx, dm9000_tx_done, IrqExit,
     Enter, Within, Leave
<1>6. CASE (\E len \in Lens : dm9000_start_xmit(len)) \/ dm9000_wol_interrupt
  BY <1>4, <1>6 DEF dm9000_start_xmit, dm9000_wol_interrupt, Section, Touch
<1>7. QED
  BY <1>1, <1>2, <1>3, <1>4, <1>5, <1>6
     DEF Next, vars, Chip, TxComplete, TxHangs, RxArrives, LinkChanges

(* A PHY or EEPROM access that sleeps between its command and its result   *)
(* finds its own result, on any board: the link poll and whoever queries   *)
(* the interface exclude each other with addr_lock.                        *)
THEOREM OwnTransactionHolds == Spec => []OwnTransaction
<1>1. Init => PInv
  BY LenEmpty DEF Init, PInv, Paired, TransactionInv
<1>2. PInv /\ [Next]_vars => PInv'
  BY TransactionStep
<1>3. PInv => OwnTransaction
  BY DEF PInv, TransactionInv, OwnTransaction, Second
<1>4. QED
  BY <1>1, <1>2, <1>3, PTL DEF Spec

-----------------------------------------------------------------------------
(* What holds on boards with wake-on-LAN.                                  *)

(* The inductive invariant. *)
THEOREM Inductive == QuietBoards /\ Spec => []IInv
<1>1. Init => IInv
  <2>1. ASSUME Init PROVE TypeOK
    <3>1. BitType /\ StatusType
      BY <2>1 DEF Init, BitType, StatusType
    <3>2. PacketType
      BY <2>1, MaxRxAssumption, LenEmpty DEF Init, PacketType
    <3>3. BusType
      BY <2>1 DEF Init, BusType, Regs
    <3>4. DriverType
      BY <2>1 DEF Init, DriverType
    <3>5. QED
      BY <3>1, <3>2, <3>3, <3>4
         DEF TypeOK, BitType, StatusType, PacketType, BusType, DriverType
  <2>2. Init => CtlInv
    BY DEF Init, CtlInv, SettledInv
  <2>3. Init => HandlerInv /\ AddrInv /\ TxInv /\ OwnLength
    BY DEF Init, HandlerInv, AddrInv, TxInv, OwnLength
  <2>4. QED
    BY <2>1, <2>2, <2>3 DEF IInv
<1>2. QuietBoards /\ IInv /\ [Next]_vars => IInv'
  BY TypeStep, CtlStep, HandlerStep, AddrStep, TxStep, LengthStep DEF IInv
<1>3. QED
  <2>1. QuietBoards => (IInv /\ [Next]_vars => IInv')
    BY <1>2
  <2>2. CASE QuietBoards
    BY <1>1, <2>1, <2>2, PTL DEF Spec
  <2>3. QED
    BY <2>2

(* The variables keep their types; the count never leaves 0 .. 2, so the   *)
(* u16 never wraps, and the transmit memory holds at most one packet that  *)
(* waits.                                                                  *)
THEOREM TypeCorrect == QuietBoards /\ Spec => []TypeOK
<1>1. IInv => TypeOK
  BY DEF IInv
<1>2. QED
  BY <1>1, Inductive, PTL

(* Whenever db->lock is free the address register holds what was selected  *)
(* last outside the sections that save and restore it: the handler, the    *)
(* watchdog and the halves of a PHY access put back what they found, and   *)
(* no access without the lock falls into one of them.                      *)
THEOREM AddressPreservedHolds == QuietBoards /\ Spec => []AddressPreserved
<1>1. IInv => AddressPreserved
  BY DEF IInv, AddrInv, AddressPreserved
<1>2. QED
  BY <1>1, Inductive, PTL

(* Whoever has selected a register without the lock finds it selected when *)
(* he accesses it, and not in the middle of a section of the handler, the  *)
(* watchdog or the link poll.                                              *)
THEOREM AddressKeptHolds == QuietBoards /\ Spec => []AddressKept
<1>1. QuietBoards /\ IInv => AddressKept
  <2> SUFFICES ASSUME QuietBoards, IInv, todo # <<>>,
                      Head(todo).op = "write", Runs("ctl")
               PROVE  addr = Head(todo).reg /\ lock = "free"
    BY DEF AddressKept
  <2>1. /\ TypeOK /\ CtlInv /\ HandlerInv /\ AddrInv
        /\ todo \in Seq(Ops) /\ At("write")
    BY DEF IInv, TypeOK, At
  <2>2. lock = "free"
    BY <2>1, FreeBus
  <2>3. last = Head(todo).reg
    BY <2>1, AtWrite
  <2>4. QED
    BY <2>1, <2>2, <2>3 DEF AddrInv
<1>2. CASE QuietBoards
  BY <1>1, <1>2, Inductive, PTL
<1>3. QED
  BY <1>2

(* While the interface is up tx_pkt_cnt counts exactly the packets in the  *)
(* chip and the completion that NSR announces and an interrupt is on its   *)
(* way for, but for one that another reader of NSR has consumed, whatever  *)
(* the order of completions, handler, watchdog and link poll.              *)
THEOREM CountMatchesChipHolds == QuietBoards /\ Spec => []CountMatchesChip
<1>1. IInv => CountMatchesChip
  <2> SUFFICES ASSUME IInv, active, lock # "dog"
               PROVE  CountMatchesChip
    BY DEF CountMatchesChip
  <2> DEFINE n == Len(sram)
             a == IF sending = <<>> THEN 0 ELSE 1
             b == IF nsr THEN 1 ELSE 0
             c == IF taken THEN 1 ELSE 0
  <2>1. CountInv
    BY ActiveUp DEF IInv, TxInv
  <2>2. sram = <<queue_pkt_len>> => n = 1
    OBVIOUS
  <2>3. sram = <<>> => n = 0
    BY LenEmpty
  <2>4. /\ (a = 0 /\ sending = <<>>) \/ (a = 1 /\ sending # <<>>)
        /\ (b = 0 /\ ~nsr) \/ (b = 1 /\ nsr)
        /\ (c = 0 /\ ~taken) \/ (c = 1 /\ taken)
    OBVIOUS
  <2> HIDE DEF n, a, b, c
  <2>5. tx_pkt_cnt = n + a + b + c
    <3>1. CASE ~Busy
      <4>1. n = 0 /\ a = 0 /\ b = 0 /\ c = 0 /\ tx_pkt_cnt = 0
        BY <2>1, <2>3, <2>4, <3>1, Zenon DEF CountInv, Busy
      <4>2. QED
        BY <4>1
    <3>2. CASE Busy
      <4>1. \/ a = 1 /\ b = 0 /\ c = 0
            \/ a = 0 /\ b = 1 /\ c = 0
            \/ a = 0 /\ b = 0 /\ c = 1
        BY <2>1, <2>4, <3>2, Zenon DEF CountInv, Busy
      <4>2. \/ n = 0 /\ tx_pkt_cnt = 1
            \/ n = 1 /\ tx_pkt_cnt = 2
        BY <2>1, <2>2, <2>3, <3>2, Zenon DEF CountInv
      <4>3. QED
        BY <4>1, <4>2
    <3>3. QED
      BY <3>1, <3>2
  <2>6. nsr => Unseen
    BY <2>1 DEF CountInv
  <2>7. QED
    BY <2>5, <2>6 DEF CountMatchesChip, n, a, b, c
<1>2. QED
  BY <1>1, Inductive, PTL

(* Each packet leaves with its own length, the second one too, whose       *)
(* length waits in queue_pkt_len until the first is done.                  *)
THEOREM OwnLengthHolds == QuietBoards /\ Spec => []OwnLength
<1>1. IInv => OwnLength
  BY DEF IInv
<1>2. QED
  BY <1>1, Inductive, PTL

(* A stopped driver of the old chip has no link poll left: stop cancels it *)
(* once and it cannot come back.                                           *)
THEOREM PollEndsHolds == QuietBoards /\ Spec => []PollEnds
<1>1. IInv => PollEnds
  <2> SUFFICES ASSUME IInv, board.type = "E", ~running, todo # <<>>,
                      Head(todo).op = "down"
               PROVE  poll = "off"
    BY DEF PollEnds
  <2>1. CtlInv /\ todo \in Seq(Ops)
    BY DEF IInv, TypeOK
  <2>2. ASSUME NEW k \in 1 .. 21, Head(todo) = OpenOps[k]
        PROVE  FALSE
    BY <2>2, OpenPlaces
  <2>3. ASSUME NEW k \in 1 .. 12, Head(todo) = StopOps[k], StopInv(k)
        PROVE  poll = "off"
    <3>1. k = 12
      BY <2>3, StopPlaces
    <3>2. QED
      BY <2>3, <3>1 DEF StopInv, Old
  <2>4. QED
    BY <2>1, <2>2, <2>3, AtOp
<1>2. QED
  BY <1>1, Inductive, PTL
=============================================================================
