------------------------------- MODULE Dm9000 -------------------------------
(***************************************************************************)
(* The DM9000 network driver, rasp-driver/net/dm9000/dm9000.c.  The chip   *)
(* has one address register and one data register: every access selects a  *)
(* register and then reads or writes it.  Five actors share them: the      *)
(* transmit path, the interrupt handler, the transmit watchdog, the link   *)
(* poll (a work item), and whoever opens, stops, suspends, resumes or      *)
(* queries the interface (one at a time: RTNL, or frozen tasks).           *)
(*                                                                         *)
(* A section under db->lock that saves the address register and restores   *)
(* it (the handler, the watchdog, either half of a PHY access) is two or   *)
(* more steps, because the chip and the other processors go on while it    *)
(* runs; one that restores nothing is one step.  Open, stop, suspend and   *)
(* resume access registers without the lock, and are lists of operations   *)
(* that select and write in separate steps.                                *)
(*                                                                         *)
(* Definitions named Bad... are slips that test the properties.            *)
(***************************************************************************)
EXTENDS Naturals, Sequences

CONSTANTS Boards,     \* the boards: [type, simple, wol, smp]
          Lens,       \* the lengths of packets
          MaxRx       \* how many packets wait in the chip's receive memory

ASSUME BoardsAssumption ==
  Boards \subseteq [type : {"E", "A"}, simple : BOOLEAN, wol : BOOLEAN,
                    smp : BOOLEAN]
ASSUME MaxRxAssumption == MaxRx \in Nat \ {0}

VARIABLES
  board,       \* db->type, SIMPLE_PHY, db->wake_state # 0, processors
  (* the chip *)
  addr,        \* the register the address register selects
  imr,         \* interrupts are unmasked
  isr,         \* ISR: a subset of {"PRS", "PTS", "LNK"}
  nsr,         \* NSR: TX1END or TX2END is set; reading the register clears it
  sram,        \* the packets in transmit memory, oldest first
  sending,     \* <<length register, length>> of the packet on its way, or <<>>
  hung,        \* its completion will never come
  rxq,         \* packets in receive memory
  rcr,         \* the receiver is on
  epar,        \* who has a PHY or EEPROM access under way
  (* the driver *)
  tx_pkt_cnt,
  queue_pkt_len,
  addr_lock,   \* who holds the mutex, or "free"
  lock,        \* db->lock, when a section of several steps holds it
  saved,       \* reg_save of whoever holds db->lock
  irq,         \* the handler: "none" (not requested), "ready", "rx", "tx", "end"
  status,      \* int_status of the handler
  poll,        \* phy_poll: where the work item is
  (* the network core *)
  running,     \* netif_running()
  active,      \* the core may transmit: between dev_activate and deactivate
  present,     \* netif_device_present()
  stopped,     \* netif_queue_stopped()
  todo,        \* what open, stop, suspend, resume or a query has yet to do
  (* what only the properties read *)
  last,        \* the register selected last by those who do not restore it
  taken        \* another reader of NSR than the handler got a completion

bus == <<addr, last, saved, lock>>
tx == <<nsr, sram, sending, hung>>
chip == <<imr, isr, tx, rxq, rcr>>
db == <<tx_pkt_cnt, queue_pkt_len, taken>>
net == <<running, active, present, stopped>>
vars == <<board, bus, chip, epar, db, addr_lock, irq, status, poll, net, todo>>

Regs == {"GPR", "NCR", "IMR", "NSR", "ISR", "RCR", "EPCR", "EPDR", "other"}
Ops == [op : {"select", "write"}, reg : Regs, val : BOOLEAN]
         \cup [op : {"vars", "request_irq", "free_irq", "start", "stop_queue",
                     "schedule", "cancel", "detach", "attach", "phy", "phy2",
                     "eeprom", "eeprom2", "locked", "link", "done", "down"}]

TypeOK ==
  /\ board \in Boards
  /\ addr \in Regs /\ last \in Regs /\ saved \in Regs
  /\ nsr \in BOOLEAN /\ taken \in BOOLEAN
  /\ imr \in BOOLEAN /\ isr \subseteq {"PRS", "PTS", "LNK"}
  /\ sram \in Seq(Lens) /\ Len(sram) <= 1
  /\ sending \in {<<>>} \cup (Lens \X Lens)
  /\ hung \in BOOLEAN /\ rxq \in 0 .. MaxRx /\ rcr \in BOOLEAN
  /\ epar \in {"none", "ctl", "poll"}
  /\ tx_pkt_cnt \in 0 .. 2
  /\ queue_pkt_len \in Lens \cup {0}
  /\ addr_lock \in {"free", "ctl", "poll"}
  /\ lock \in {"free", "irq", "dog", "poll", "ctl"}
  /\ irq \in {"none", "ready", "rx", "tx", "end"}
  /\ status \subseteq {"PRS", "PTS", "LNK"}
  /\ poll \in {"off", "queued", "run", "ncr", "lpa", "cmd", "phy", "res"}
  /\ running \in BOOLEAN /\ active \in BOOLEAN
  /\ present \in BOOLEAN /\ stopped \in BOOLEAN
  /\ todo \in Seq(Ops)

(* After probe: the chip has been reset, the interface is down. *)
Init ==
  /\ board \in Boards
  /\ addr = "other" /\ last = "other" /\ saved = "other"
  /\ imr = FALSE /\ isr = {} /\ nsr = FALSE /\ taken = FALSE
  /\ sram = <<>> /\ sending = <<>> /\ hung = FALSE
  /\ rxq = 0 /\ rcr = FALSE
  /\ epar = "none"
  /\ tx_pkt_cnt = 0 /\ queue_pkt_len = 0
  /\ addr_lock = "free" /\ lock = "free"
  /\ irq = "none" /\ status = {}
  /\ poll = "off"
  /\ running = FALSE /\ active = FALSE /\ present = TRUE /\ stopped = TRUE
  /\ todo = <<>>

-----------------------------------------------------------------------------
(* The address register.                                                   *)

(* A register is selected and not restored afterwards. *)
Touch(r) == addr' = r /\ last' = r /\ UNCHANGED <<saved, lock>>
Section(r) == lock = "free" /\ Touch(r)

(* A section that saves the address, selects others and restores it:       *)
(* reg_save = readb(db->io_addr) ... writeb(reg_save, db->io_addr).        *)
Enter(a, r) ==
  /\ lock = "free" /\ lock' = a
  /\ saved' = addr /\ addr' = r
  /\ UNCHANGED last
Within(a, r) == lock = a /\ addr' = r /\ UNCHANGED <<last, saved, lock>>
Leave(a) ==
  /\ lock = a /\ lock' = "free"
  /\ addr' = saved /\ saved' = "other"
  /\ UNCHANGED last

(* With one processor db->lock only keeps others from running. *)
Runs(a) == board.smp \/ lock \in {"free", a}

-----------------------------------------------------------------------------
(* The chip.                                                               *)

(* The packet on the wire is done: TX1END or TX2END, and ISR_PTS. *)
TxComplete ==
  /\ sending # <<>> /\ ~hung
  /\ sending' = <<>>
  /\ nsr' = TRUE /\ isr' = isr \cup {"PTS"}
  /\ UNCHANGED <<board, bus, imr, sram, hung, rxq, rcr, epar, db, addr_lock,
                 irq, status, poll, net, todo>>

(* The chip loses a transmission: the watchdog is there for this. *)
TxHangs ==
  /\ sending # <<>> /\ ~hung
  /\ hung' = TRUE
  /\ UNCHANGED <<board, bus, imr, isr, nsr, sram, sending, rxq, rcr, epar, db,
                 addr_lock, irq, status, poll, net, todo>>

RxArrives ==
  /\ rcr /\ rxq < MaxRx
  /\ rxq' = rxq + 1
  /\ isr' = isr \cup {"PRS"}
  /\ UNCHANGED <<board, bus, imr, tx, rcr, epar, db, addr_lock, irq, status,
                 poll, net, todo>>

(* Only the newer chips report a link change. *)
LinkChanges ==
  /\ board.type # "E" /\ running
  /\ isr' = isr \cup {"LNK"}
  /\ UNCHANGED <<board, bus, imr, tx, rxq, rcr, epar, db, addr_lock, irq,
                 status, poll, net, todo>>

(* dm9000_reset(): what was in the chip is gone and the receiver is off. *)
dm9000_reset ==
  /\ sram' = <<>> /\ sending' = <<>> /\ hung' = FALSE
  /\ rxq' = 0 /\ rcr' = FALSE

(* The effect of a value arriving in register r. *)
Written(r, v) ==
  CASE r = "NCR" -> dm9000_reset /\ UNCHANGED <<imr, isr, nsr>>
    [] r = "IMR" -> imr' = v /\ UNCHANGED <<isr, tx, rxq, rcr>>
    [] r = "NSR" -> nsr' = FALSE
                    /\ UNCHANGED <<imr, isr, sram, sending, hung, rxq, rcr>>
    [] r = "ISR" -> isr' = {} /\ UNCHANGED <<imr, tx, rxq, rcr>>
    [] r = "RCR" -> rcr' = v /\ UNCHANGED <<imr, isr, tx, rxq>>
    [] OTHER -> UNCHANGED chip

(* NSR is read for something else (the link, a wake-up): that clears it. *)
ReadNsr == nsr' = FALSE /\ taken' = (taken \/ nsr)

-----------------------------------------------------------------------------
(* Transmission.                                                           *)

(* dm9000_send_packet(): the packet at the head of transmit memory leaves  *)
(* with the length the driver names.                                       *)
dm9000_send_packet(q, len) ==
  /\ sending' = <<len, Head(q)>>
  /\ sram' = Tail(q)
  /\ hung' = FALSE

BadXmit(len) ==
  /\ active /\ ~stopped
  /\ tx_pkt_cnt <= 1
  /\ Section("other")
  /\ tx_pkt_cnt' = tx_pkt_cnt + 1
  /\ IF tx_pkt_cnt = 0
     THEN /\ dm9000_send_packet(Append(sram, len), len)
          /\ UNCHANGED <<queue_pkt_len, stopped>>
     ELSE /\ sram' = Append(sram, len)
          /\ stopped' = TRUE
          /\ UNCHANGED <<sending, hung, queue_pkt_len>>
  /\ UNCHANGED <<board, imr, isr, nsr, rxq, rcr, epar, taken, addr_lock, irq,
                 status, poll, running, active, present, todo>>

(* The core holds the transmit lock, so tx_pkt_cnt may be tested before    *)
(* db->lock is taken: only a completion can change it meanwhile.  The      *)
(* address register is not restored.                                       *)
dm9000_start_xmit(len) ==
  /\ active /\ ~stopped
  /\ tx_pkt_cnt <= 1
  /\ Section("other")
  /\ tx_pkt_cnt' = tx_pkt_cnt + 1
  /\ IF tx_pkt_cnt = 0
     THEN /\ dm9000_send_packet(Append(sram, len), len)
          /\ UNCHANGED <<queue_pkt_len, stopped>>
     ELSE /\ sram' = Append(sram, len)
          /\ queue_pkt_len' = len
          /\ stopped' = TRUE
          /\ UNCHANGED <<sending, hung>>
  /\ UNCHANGED <<board, imr, isr, nsr, rxq, rcr, epar, taken, addr_lock, irq,
                 status, poll, running, active, present, todo>>

(* The watchdog: the core calls it when a stopped queue of a device that   *)
(* is up makes no progress.  One locked section: save the address, reset,  *)
(* mask; then clear, unmask, wake and restore.                             *)
TimeoutBegins ==
  /\ active /\ present /\ stopped
  /\ Enter("dog", "NCR")
  /\ dm9000_reset
  /\ imr' = FALSE
  /\ UNCHANGED <<board, isr, nsr, epar, db, addr_lock, irq, status, poll, net,
                 todo>>

BadTimeoutEnds ==
  /\ Leave("dog")
  /\ rcr' = TRUE /\ imr' = TRUE
  /\ tx_pkt_cnt' = 0 /\ queue_pkt_len' = 0 /\ taken' = FALSE
  /\ stopped' = FALSE
  /\ UNCHANGED <<board, tx, isr, rxq, epar, addr_lock, irq, status, poll,
                 running, active, present, todo>>

BadTimeoutWake ==
  /\ Leave("dog")
  /\ nsr' = FALSE /\ isr' = {} /\ rcr' = TRUE /\ imr' = TRUE
  /\ tx_pkt_cnt' = 0 /\ queue_pkt_len' = 0 /\ taken' = FALSE
  /\ UNCHANGED <<board, sram, sending, hung, rxq, epar, addr_lock, irq, status,
                 poll, net, todo>>

TimeoutEnds ==
  /\ Leave("dog")
  /\ nsr' = FALSE /\ isr' = {} /\ rcr' = TRUE /\ imr' = TRUE
  /\ tx_pkt_cnt' = 0 /\ queue_pkt_len' = 0 /\ taken' = FALSE
  /\ stopped' = FALSE
  /\ UNCHANGED <<board, sram, sending, hung, rxq, epar, addr_lock, irq, status,
                 poll, running, active, present, todo>>

dm9000_timeout == TimeoutBegins \/ TimeoutEnds

-----------------------------------------------------------------------------
(* dm9000_interrupt(), under db->lock from one end to the other.           *)

(* save the address; mask, read and clear ISR *)
IrqEnter ==
  /\ irq = "ready" /\ irq' = "rx"
  /\ imr /\ isr # {}
  /\ Enter("irq", "ISR")
  /\ imr' = FALSE
  /\ status' = isr /\ isr' = {}
  /\ UNCHANGED <<board, tx, rxq, rcr, epar, db, addr_lock, poll, net, todo>>

(* dm9000_rx() reads packets until none is ready; a status byte that is    *)
(* neither 0 nor 1 switches the receiver off.                              *)
dm9000_rx ==
  /\ irq = "rx" /\ irq' = "tx"
  /\ Within("irq", IF "PRS" \in status THEN "other" ELSE addr)
  /\ \/ "PRS" \notin status /\ UNCHANGED <<rxq, rcr>>
     \/ "PRS" \in status /\ rxq' = 0 /\ UNCHANGED rcr
     \/ "PRS" \in status /\ rxq > 0 /\ rcr' = FALSE /\ UNCHANGED rxq
  /\ UNCHANGED <<board, imr, isr, tx, epar, db, addr_lock, status, poll, net,
                 todo>>

(* If NSR says that a packet is done, it is counted off (the count is a    *)
(* u16), and the second, if there is one, is sent now.                     *)
dm9000_tx_done ==
  /\ irq = "tx" /\ irq' = "end"
  /\ Within("irq", IF "PTS" \in status THEN "NSR" ELSE addr)
  /\ nsr' = (nsr /\ "PTS" \notin status)
  /\ IF nsr /\ "PTS" \in status
     THEN /\ tx_pkt_cnt' = (tx_pkt_cnt - 1) % 65536
          /\ IF tx_pkt_cnt' > 0
             THEN dm9000_send_packet(sram, queue_pkt_len)
             ELSE UNCHANGED <<sram, sending, hung>>
          /\ stopped' = FALSE
     ELSE UNCHANGED <<sram, sending, hung, tx_pkt_cnt, stopped>>
  /\ UNCHANGED <<board, imr, isr, rxq, rcr, epar, queue_pkt_len, taken,
                 addr_lock, status, poll, running, active, present, todo>>

BadIrqExit ==
  /\ irq = "end" /\ irq' = "ready" /\ status' = {}
  /\ Leave("irq")
  /\ poll' = IF "LNK" \in status /\ poll = "off" THEN "queued" ELSE poll
  /\ UNCHANGED <<board, chip, epar, db, addr_lock, net, todo>>

BadIrqRestore ==
  /\ irq = "end" /\ irq' = "ready" /\ status' = {}
  /\ lock = "irq" /\ lock' = "free" /\ saved' = "other"
  /\ addr' = "IMR" /\ UNCHANGED last
  /\ imr' = TRUE
  /\ poll' = IF "LNK" \in status /\ poll = "off" THEN "queued" ELSE poll
  /\ UNCHANGED <<board, isr, tx, rxq, rcr, epar, db, addr_lock, net, todo>>

(* A link change queues the poll; unmask, restore the address, unlock. *)
IrqExit ==
  /\ irq = "end" /\ irq' = "ready" /\ status' = {}
  /\ Leave("irq")
  /\ imr' = TRUE
  /\ poll' = IF "LNK" \in status /\ poll = "off" THEN "queued" ELSE poll
  /\ UNCHANGED <<board, isr, tx, rxq, rcr, epar, db, addr_lock, net, todo>>

dm9000_interrupt == IrqEnter \/ dm9000_rx \/ dm9000_tx_done \/ IrqExit

(* The wake-up line: its handler reads NSR and WCR and restores nothing. *)
dm9000_wol_interrupt ==
  /\ board.wol /\ ~present
  /\ Section("other")
  /\ ReadNsr
  /\ UNCHANGED <<board, imr, isr, sram, sending, hung, rxq, rcr, epar,
                 tx_pkt_cnt, queue_pkt_len, addr_lock, irq, status, poll, net,
                 todo>>

-----------------------------------------------------------------------------
(* dm9000_phy_read() and dm9000_phy_write() by a: two sections under       *)
(* db->lock with a sleep in between, all of it under addr_lock.            *)

BadPhyCommand(a) == epar' = a /\ Enter(a, "EPCR") /\ UNCHANGED addr_lock

PhyCommand(a) ==
  /\ addr_lock = "free" /\ addr_lock' = a
  /\ epar' = a
  /\ Enter(a, "EPCR")
PhySleeps(a) == Leave(a) /\ UNCHANGED <<addr_lock, epar>>
PhyResult(a) == Enter(a, "EPDR") /\ UNCHANGED <<addr_lock, epar>>
PhyDone(a) == Leave(a) /\ addr_lock' = "free" /\ epar' = "none"

-----------------------------------------------------------------------------
(* dm9000_poll_work().  On a SIMPLE_PHY board it reads NSR under the lock, *)
(* and if the carrier has changed and link messages are on also NCR and    *)
(* the PHY; these reads restore nothing.  Other boards read the PHY.  The  *)
(* old chip polls again while the interface is up.                         *)
PollAgain == IF running /\ board.type = "E" THEN "queued" ELSE "off"

PollBegins ==
  /\ poll = "queued" /\ Runs("poll")
  /\ poll' = "run"
  /\ UNCHANGED <<board, bus, chip, epar, db, addr_lock, irq, status, net, todo>>

PollSimple ==
  /\ poll = "run" /\ board.simple
  /\ Section("NSR")
  /\ ReadNsr
  /\ poll' \in {PollAgain, "ncr"}
  /\ UNCHANGED <<board, imr, isr, sram, sending, hung, rxq, rcr, epar,
                 tx_pkt_cnt, queue_pkt_len, addr_lock, irq, status, net, todo>>

(* dm9000_show_carrier() *)
PollNcr ==
  /\ poll = "ncr"
  /\ Section("NCR")
  /\ poll' \in {PollAgain, "lpa"}
  /\ UNCHANGED <<board, chip, epar, db, addr_lock, irq, status, net, todo>>

(* "cmd": the command is being given, "phy": it is under way, "res": its   *)
(* result is being fetched.                                                *)
PollPhy ==
  /\ poll = "lpa" \/ (poll = "run" /\ ~board.simple)
  /\ PhyCommand("poll")
  /\ poll' = "cmd"
  /\ UNCHANGED <<board, chip, db, irq, status, net, todo>>

PollPhy2 ==
  /\ \/ poll = "cmd" /\ PhySleeps("poll") /\ poll' = "phy"
     \/ poll = "phy" /\ PhyResult("poll") /\ poll' = "res"
     \/ poll = "res" /\ PhyDone("poll") /\ poll' = PollAgain
  /\ UNCHANGED <<board, chip, db, irq, status, net, todo>>

dm9000_poll_work ==
  PollBegins \/ PollSimple \/ PollNcr \/ PollPhy \/ PollPhy2

-----------------------------------------------------------------------------
(* open, stop, suspend, resume and the queries, as lists of operations.    *)

Op(o) == [op |-> o]
iow(r, v) == <<[op |-> "select", reg |-> r, val |-> v],
               [op |-> "write", reg |-> r, val |-> v]>>

dm9000_phy == <<Op("phy"), Op("phy2")>>

dm9000_init_dm9000 ==
  iow("NCR", TRUE) \o iow("IMR", FALSE) \o iow("NSR", TRUE)
    \o iow("ISR", TRUE) \o iow("RCR", TRUE) \o <<Op("vars")>>

OpenOps ==
  iow("GPR", TRUE) \o dm9000_init_dm9000 \o <<Op("request_irq")>>
    \o iow("IMR", TRUE) \o dm9000_phy
    \o <<Op("start"), Op("schedule"), Op("done")>>

dm9000_shutdown ==
  dm9000_phy \o iow("GPR", FALSE) \o iow("IMR", FALSE) \o iow("RCR", FALSE)

BadStopOps ==
  <<Op("stop_queue"), Op("free_irq")>> \o dm9000_shutdown \o <<Op("down")>>

StopOps ==
  <<Op("cancel"), Op("stop_queue"), Op("free_irq")>> \o dm9000_shutdown
    \o <<Op("down")>>

SuspendOps == <<Op("detach")>> \o (IF board.wol THEN <<>> ELSE dm9000_shutdown)
ResumeOps ==
  (IF board.wol THEN <<>> ELSE dm9000_init_dm9000 \o iow("IMR", TRUE))
    \o <<Op("attach")>>

Core == <<board, bus, chip, epar, db, addr_lock, irq, status, poll>>
Idle == todo = <<>> /\ present /\ Runs("ctl")

(* The core marks the interface up and calls ndo_open. *)
dm9000_open ==
  /\ Idle /\ ~running
  /\ running' = TRUE
  /\ todo' = OpenOps
  /\ UNCHANGED <<Core, active, present, stopped>>

(* It takes the interface down and waits for transmitters and for the      *)
(* watchdog before ndo_stop.                                               *)
dm9000_stop ==
  /\ Idle /\ running /\ lock # "dog"
  /\ running' = FALSE /\ active' = FALSE
  /\ todo' = StopOps
  /\ UNCHANGED <<Core, present, stopped>>

dm9000_drv_suspend ==
  /\ Idle /\ running
  /\ todo' = SuspendOps
  /\ UNCHANGED <<Core, net>>

dm9000_drv_resume ==
  /\ todo = <<>> /\ ~present /\ Runs("ctl")
  /\ todo' = ResumeOps
  /\ UNCHANGED <<Core, net>>

(* ioctl reads or writes the PHY of an interface that is up; ethtool reads *)
(* and writes the EEPROM and queries the link, which reads NSR; the        *)
(* receive mode and the checksum feature are one locked section.           *)
Query ==
  /\ Idle
  /\ \/ running /\ todo' = dm9000_phy
     \/ todo' = <<Op("eeprom"), Op("eeprom2")>>
     \/ todo' = <<Op("locked")>>
     \/ todo' = <<Op("link")>>
  /\ UNCHANGED <<Core, net>>

At(o) == todo # <<>> /\ Head(todo).op = o /\ Runs("ctl")
Next1(o) == At(o) /\ todo' = Tail(todo)

(* An access without the lock: select a register, then write it - or the   *)
(* one that is selected by then.                                           *)
Select ==
  /\ Next1("select")
  /\ Touch(Head(todo).reg)
  /\ UNCHANGED <<board, chip, epar, db, addr_lock, irq, status, poll, net>>

Write ==
  /\ Next1("write")
  /\ Written(addr, Head(todo).val)
  /\ UNCHANGED <<board, bus, epar, db, addr_lock, irq, status, poll, net>>

InitVars ==
  /\ Next1("vars")
  /\ tx_pkt_cnt' = 0 /\ queue_pkt_len' = 0 /\ taken' = FALSE
  /\ UNCHANGED <<board, bus, chip, epar, addr_lock, irq, status, poll, net>>

(* request_irq() may fail: the interface stays down. *)
RequestIrq ==
  /\ At("request_irq")
  /\ \/ irq' = "ready" /\ todo' = Tail(todo) /\ UNCHANGED running
     \/ todo' = <<>> /\ running' = FALSE /\ UNCHANGED irq
  /\ UNCHANGED <<board, bus, chip, epar, db, addr_lock, status, poll, active,
                 present, stopped>>

(* free_irq() waits for a handler that runs. *)
FreeIrq ==
  /\ Next1("free_irq")
  /\ irq = "ready"
  /\ irq' = "none"
  /\ UNCHANGED <<board, bus, chip, epar, db, addr_lock, status, poll, net>>

(* netif_start_queue(), netif_stop_queue(), netif_device_detach() and      *)
(* netif_device_attach(); "done": the core activates the device.           *)
NetOp ==
  /\ \/ Next1("start") /\ stopped' = FALSE /\ UNCHANGED <<active, present>>
     \/ Next1("stop_queue") /\ stopped' = TRUE /\ UNCHANGED <<active, present>>
     \/ Next1("done") /\ active' = TRUE /\ UNCHANGED <<stopped, present>>
     \/ Next1("down") /\ UNCHANGED <<active, stopped, present>>
     \/ Next1("detach") /\ stopped' = TRUE /\ present' = FALSE /\ UNCHANGED active
     \/ Next1("attach") /\ stopped' = FALSE /\ present' = TRUE /\ UNCHANGED active
  /\ UNCHANGED <<Core, running>>

(* schedule_delayed_work() and cancel_delayed_work_sync(), which waits for *)
(* a poll that runs and keeps it from queueing itself meanwhile.           *)
Schedule ==
  /\ Next1("schedule")
  /\ poll' = IF poll = "off" THEN "queued" ELSE poll
  /\ UNCHANGED <<board, bus, chip, epar, db, addr_lock, irq, status, net>>

Cancel ==
  /\ Next1("cancel")
  /\ poll \in {"off", "queued"}
  /\ poll' = "off"
  /\ UNCHANGED <<board, bus, chip, epar, db, addr_lock, irq, status, net>>

PhyAccess ==
  /\ \/ At("phy") /\ PhyCommand("ctl") /\ UNCHANGED todo
     \/ Next1("phy") /\ PhySleeps("ctl")
     \/ At("phy2") /\ PhyResult("ctl") /\ UNCHANGED todo
     \/ Next1("phy2") /\ PhyDone("ctl")
  /\ UNCHANGED <<board, chip, db, irq, status, poll, net>>

(* dm9000_read_eeprom(), dm9000_write_eeprom(): the sections restore       *)
(* nothing.                                                                *)
EepromAccess ==
  /\ \/ /\ Next1("eeprom")
        /\ addr_lock = "free" /\ addr_lock' = "ctl" /\ epar' = "ctl"
     \/ /\ Next1("eeprom2")
        /\ addr_lock' = "free" /\ epar' = "none"
  /\ Section("other")
  /\ UNCHANGED <<board, chip, db, irq, status, poll, net>>

(* dm9000_read_locked(), dm9000_hash_table(), dm9000_set_features() *)
LockedAccess ==
  /\ Next1("locked")
  /\ Section("other")
  /\ UNCHANGED <<board, chip, epar, db, addr_lock, irq, status, poll, net>>

dm9000_get_link ==
  /\ Next1("link")
  /\ Section("other")
  /\ ReadNsr
  /\ UNCHANGED <<board, imr, isr, sram, sending, hung, rxq, rcr, epar,
                 tx_pkt_cnt, queue_pkt_len, addr_lock, irq, status, poll, net>>

Ctl ==
  \/ Select \/ Write \/ InitVars \/ RequestIrq \/ FreeIrq \/ NetOp \/ Schedule
  \/ Cancel \/ PhyAccess \/ EepromAccess \/ LockedAccess \/ dm9000_get_link

Chip == TxComplete \/ TxHangs \/ RxArrives \/ LinkChanges

Next ==
  \/ Chip
  \/ \E len \in Lens : dm9000_start_xmit(len)
  \/ dm9000_timeout \/ dm9000_interrupt \/ dm9000_wol_interrupt
  \/ dm9000_poll_work
  \/ dm9000_open \/ dm9000_stop \/ dm9000_drv_suspend \/ dm9000_drv_resume
  \/ Query \/ Ctl

Spec == Init /\ [][Next]_vars

(* The processor serves a raised interrupt and finishes its handler, the   *)
(* core's watchdog timer fires, and nobody stops half way through an       *)
(* operation.  The handler competes for a lock that is free again and      *)
(* again.                                                                  *)
FairSpec ==
  Spec /\ SF_vars(dm9000_interrupt) /\ SF_vars(dm9000_timeout)
       /\ SF_vars(Ctl) /\ SF_vars(dm9000_poll_work)

-----------------------------------------------------------------------------
(* "The address register [...] must be preserved over interrupts or        *)
(* similar calls" (the comment on struct board_info): whenever db->lock is *)
(* free, the address register holds what was selected last outside the     *)
(* sections that save and restore it, whatever the handler, the watchdog   *)
(* and the PHY accesses have selected in between.                          *)
AddressPreserved == lock = "free" => addr = last

(* Whoever has selected a register without the lock finds it selected when *)
(* he accesses it, and nobody is in the middle of a section of his own.    *)
AddressKept ==
  todo # <<>> /\ Head(todo).op = "write" /\ Runs("ctl") =>
    addr = Head(todo).reg /\ lock = "free"

(* The handler has not read the status of a completion yet. *)
Unseen == "PTS" \in isr \/ (irq \in {"rx", "tx"} /\ "PTS" \in status)

(* While the interface is up tx_pkt_cnt counts exactly the packets in the  *)
(* chip and the completion NSR announces, which an interrupt is on its way *)
(* for, also after a watchdog reset (once its section is over) that races  *)
(* with a completion; so it never wraps.  One completion, not more, can go *)
(* by uncounted, when somebody else reads NSR first.                       *)
CountMatchesChip ==
  active /\ lock # "dog" =>
    /\ nsr => Unseen
    /\ tx_pkt_cnt = Len(sram) + (IF sending = <<>> THEN 0 ELSE 1)
                      + (IF nsr THEN 1 ELSE 0) + (IF taken THEN 1 ELSE 0)

(* Every completion is counted.  It is not: see the further configurations *)
(* in README.md.                                                           *)
NoneTaken == active => ~taken

(* Each packet leaves with its own length, the second one too, whose       *)
(* length waits in queue_pkt_len until the first is done.                  *)
OwnLength == sending # <<>> => sending[1] = sending[2]

(* A PHY or EEPROM access that sleeps between its command and its result   *)
(* finds its own result: the other users wait for addr_lock.               *)
OwnTransaction ==
  /\ poll \in {"cmd", "phy", "res"} => epar = "poll"
  /\ todo # <<>> /\ Head(todo).op \in {"phy2", "eeprom2"} => epar = "ctl"

(* A stopped driver of the old chip has no poll left that could touch the  *)
(* chip later.  (The handler of the newer chips may queue the poll between *)
(* the cancel and free_irq().)                                             *)
PollEnds ==
  board.type = "E" /\ ~running /\ todo # <<>> /\ Head(todo).op = "down"
    => poll = "off"

(* A stopped transmit queue does not stay stopped while the interface is   *)
(* up, not even when the chip loses a transmission.                        *)
QueueMoves ==
  (stopped /\ active /\ present) ~> (~stopped \/ ~active \/ ~present)

(* A full chip is drained again, also when it was full in suspend.  It is  *)
(* not: see the further configurations in README.md.                       *)
ChipDrains ==
  (tx_pkt_cnt = 2 /\ active /\ present)
    ~> (tx_pkt_cnt < 2 \/ ~active \/ ~present)

(* A packet that was received is fetched, unless the receiver goes off.    *)
RxServed == (rxq > 0 /\ rcr /\ active) ~> (rxq = 0 \/ ~rcr \/ ~active)
=============================================================================
