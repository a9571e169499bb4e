-------------------------------- MODULE DwMmc --------------------------------
(***************************************************************************)
(* The DesignWare host driver, mmc/host/dw_mmc.c: the interrupt handler    *)
(* and two timers set event bits, and a tasklet walks the request through  *)
(* its states.  The handler does not take the tasklet's lock: bits may     *)
(* appear between any two tests of the tasklet, which runs on the          *)
(* handler's processor and is interrupted by it, never the other way.      *)
(* Commands are <<request, role>>.  Voltage switch and tuning commands are *)
(* not modelled.                                                           *)
(*                                                                         *)
(* Definitions named Bad... are slips that test the properties.            *)
(***************************************************************************)
EXTENDS Naturals

CONSTANTS
  Mrqs,        \* the requests
  Kinds,       \* what a request may consist of
  Unwatched,   \* the controller may also hang in a command without a timer
  LateTimers   \* an expired timer may wait while another request starts

(* mute: the command, or for a data command its abort, expects no response *)
KindType == [sbc : BOOLEAN, dir : {"none", "read", "write"}, stop : BOOLEAN,
             mute : BOOLEAN]

ASSUME KindsAssumption ==
  /\ Kinds \subseteq KindType
  /\ \A k \in Kinds : k.sbc \/ k.stop => k.dir # "none" /\ ~k.mute
ASSUME UnwatchedAssumption == Unwatched \in BOOLEAN
ASSUME LateTimersAssumption == LateTimers \in BOOLEAN

VARIABLES
  h,           \* struct dw_mci, the controller and the errors of the request
  tsk,         \* where the tasklet is, or "off"
  firing,      \* expired timers whose handler waits for irq_lock
  out,         \* requests the core has not got back
  completing,  \* the request mmc_request_done() is about to be called for
  good         \* the request just given back as a success, or NoMrq

vars == <<h, tsk, firing, out, completing, good>>

None == <<>>
NoMrq == "none"
ASSUME MrqsAssumption == NoMrq \notin Mrqs
Roles == {"sbc", "cmd", "stop"}
Cmds == Mrqs \X Roles
States == {"IDLE", "SENDING_CMD", "SENDING_DATA", "DATA_BUSY", "SENDING_STOP",
           "DATA_ERROR"}
Timers == {"cto", "dto"}
NoKind == [sbc |-> FALSE, dir |-> "none", stop |-> FALSE, mute |-> FALSE]

TypeOK ==
  /\ h \in [kind : KindType, mrq : Mrqs \cup {NoMrq}, state : States,
            cmd : Cmds \cup {None}, data : BOOLEAN,
            pending_events : SUBSET {"CMD", "XFER", "DATA", "ERROR"},
            cmd_status : {"none", "ok", "bad"},
            data_status : {"none", "ok", "drto_ebe", "bad"},
            timers : SUBSET Timers, fresh : SUBSET Timers, tasklet : BOOLEAN,
            err : SUBSET {"sbc", "cmd", "stop", "data"},
            (* the controller *)
            line : Cmds \cup {None}, left : SUBSET {"DMA", "OVER"},
            owner : Mrqs \cup {NoMrq}, hung : SUBSET {"line", "data"},
            ints : SUBSET {"CMD_ERROR", "CMD_DONE", "DRTO_EBE", "DATA_ERROR",
                           "DATA_OVER", "DMA"},
            carried : SUBSET {"sbc", "cmd", "stop", "data"},
            warn : SUBSET {"cto", "dto", "end", "slot"}]
  /\ tsk \in {"off", "xfer", "recheck", "end"} \cup States
  /\ firing \subseteq Timers
  /\ out \subseteq Mrqs /\ completing \in out \cup {NoMrq}
  /\ good \in Mrqs \cup {NoMrq}

Init ==
  /\ h = [kind |-> NoKind, mrq |-> NoMrq, state |-> "IDLE", cmd |-> None,
          data |-> FALSE, pending_events |-> {}, cmd_status |-> "none",
          data_status |-> "none", timers |-> {}, fresh |-> {},
          tasklet |-> FALSE, err |-> {}, line |-> None, left |-> {},
          owner |-> NoMrq, hung |-> {}, ints |-> {}, carried |-> {},
          warn |-> {}]
  /\ tsk = "off" /\ firing = {}
  /\ out = {} /\ completing = NoMrq /\ good = NoMrq

-----------------------------------------------------------------------------
(* Commands.                                                               *)

(* dw_mci_set_cto(), dw_mci_set_drto(): unless the event is there already *)
Arm(s, t) ==
  IF (t = "cto" /\ "CMD" \in s.pending_events)
       \/ (t = "dto" /\ "DATA" \in s.pending_events)
  THEN s
  ELSE [s EXCEPT !.timers = @ \cup {t}, !.fresh = @ \cup {t}]

(* dw_mci_prep_stop_abort() knows the abort of the usual transfers only:   *)
(* the flags of any other are 0.                                           *)
ExpectsResponse(s, c) ==
  ~s.kind.mute \/ (s.kind.dir # "none" /\ c[2] # "stop")

(* A new command displaces one the controller never answered. *)
dw_mci_start_command(s, c) ==
  LET s1 == [s EXCEPT !.cmd = c, !.line = c, !.hung = @ \ {"line"}]
  IN  IF ExpectsResponse(s, c) THEN Arm(s1, "cto") ELSE s1

send_stop_abort(s) == dw_mci_start_command(s, <<s.mrq, "stop">>)

(* __dw_mci_start_request(): the events start afresh *)
BadStart(s, c) ==
  LET data == c[2] = "cmd" /\ s.kind.dir # "none"
      s1 == [s EXCEPT !.data_status = "none", !.data = data,
                      !.left = IF data THEN {"DMA", "OVER"} ELSE {},
                      !.owner = IF data THEN s.mrq ELSE NoMrq]
  IN  dw_mci_start_command(s1, c)

__dw_mci_start_request(s, c) ==
  LET data == c[2] = "cmd" /\ s.kind.dir # "none"
      s1 == [s EXCEPT !.pending_events = {}, !.cmd_status = "none",
                      !.data_status = "none", !.data = data,
                      !.left = IF data THEN {"DMA", "OVER"} ELSE {},
                      !.owner = IF data THEN s.mrq ELSE NoMrq]
  IN  dw_mci_start_command(s1, c)

(* Nothing is left in the controller, nor any interrupt of it. *)
dw_mci_reset(s) ==
  [s EXCEPT !.line = None, !.left = {}, !.owner = NoMrq, !.hung = {},
            !.ints = {}]

dw_mci_stop_dma(s) ==
  [s EXCEPT !.pending_events = @ \cup {"XFER"}, !.left = @ \ {"DMA"}]

(* The error a command ends with. *)
dw_mci_command_complete(s, role) ==
  [s EXCEPT !.cmd_status = "none",
            !.err = IF s.cmd_status = "bad" THEN @ \cup {role} ELSE @ \ {role}]

(* An error leaves data in the FIFO: reset. *)
dw_mci_data_complete(s) ==
  IF s.data_status \in {"drto_ebe", "bad"}
  THEN dw_mci_reset([s EXCEPT !.err = @ \cup {"data"}])
  ELSE s

(* dw_mci_clear_pending_cmd_complete() and ..._data_complete(); the timer  *)
(* must be off by now, and a handler that runs is waited for.              *)
Clear(s, event, t) ==
  [s EXCEPT !.pending_events = @ \ {event}, !.timers = @ \ {t},
            !.fresh = @ \ {t}, !.warn = @ \cup (s.timers \cap {t})]

-----------------------------------------------------------------------------
(* The interrupt handler.  A command error alone does not wake the         *)
(* tasklet: the command-done bit comes with it.                            *)

BadCmdInts(s, mask) ==
  LET s1 == IF "CMD_ERROR" \in mask THEN [s EXCEPT !.cmd_status = "bad"] ELSE s
  IN  IF "CMD_DONE" \in mask
      THEN [s1 EXCEPT !.cmd_status = IF @ = "none" THEN "ok" ELSE @,
                      !.pending_events = @ \cup {"CMD"}, !.tasklet = TRUE]
      ELSE s1

CmdInts(s, mask) ==
  LET s1 == IF "CMD_ERROR" \in mask
            THEN [s EXCEPT !.timers = @ \ {"cto"}, !.cmd_status = "bad",
                           !.pending_events = @ \cup {"CMD"}]
            ELSE s
  IN  IF "CMD_DONE" \in mask
      THEN [s1 EXCEPT !.timers = @ \ {"cto"},
                      !.cmd_status = IF @ = "none" THEN "ok" ELSE @,
                      !.pending_events = @ \cup {"CMD"}, !.tasklet = TRUE]
      ELSE s1

(* DRTO: no data came; EBE: no end bit, no CRC status *)
DataError(s, mask) ==
  IF mask \cap {"DRTO_EBE", "DATA_ERROR"} # {}
  THEN [s EXCEPT !.data_status =
                   IF "DRTO_EBE" \in mask THEN "drto_ebe" ELSE "bad",
                 !.pending_events = @ \cup {"ERROR"}, !.tasklet = TRUE]
  ELSE s

DataOver(s, mask) ==
  IF "DATA_OVER" \in mask
  THEN [s EXCEPT !.timers = @ \ {"dto"},
                 !.data_status = IF @ = "none" THEN "ok" ELSE @,
                 !.pending_events = @ \cup {"DATA"}, !.tasklet = TRUE]
  ELSE s

(* dw_mci_dmac_complete_dma() *)
DmaDone(s, mask) ==
  IF "DMA" \in mask /\ "ERROR" \notin s.pending_events /\ s.data
  THEN [s EXCEPT !.pending_events = @ \cup {"XFER"}, !.tasklet = TRUE]
  ELSE s

dw_mci_interrupt ==
  /\ h.ints # {}
  /\ LET mask == h.ints
         s1 == DataError([h EXCEPT !.ints = {}], mask)
         s2 == CmdInts(DataOver(s1, mask), mask)
     IN  h' = DmaDone(s2, mask)
  /\ UNCHANGED <<tsk, firing, out, completing, good>>

-----------------------------------------------------------------------------
(* Timers.  "In general we'll assume that at least an interrupt will be    *)
(* asserted in hardware by the time the cto_timer runs" (the comment in    *)
(* dw_mci_set_cto()): a timer expires when the controller hangs or has     *)
(* spoken.  One the tasklet has armed cannot run before the tasklet ends,  *)
(* on the same processor.                                                  *)

TimerExpires(t) ==
  /\ t \in h.timers \ h.fresh
  /\ t = "cto" => h.line = None \/ "line" \in h.hung
  /\ t = "dto" => h.left = {} \/ "data" \in h.hung
  /\ h' = [h EXCEPT !.timers = @ \ {t}]
  /\ firing' = firing \cup {t}
  /\ UNCHANGED <<tsk, out, completing, good>>

dw_mci_cto_timer ==
  /\ "cto" \in firing
  /\ firing' = firing \ {"cto"}
  /\ h' = IF /\ h.ints \cap {"CMD_ERROR", "CMD_DONE"} = {}
             /\ "CMD" \notin h.pending_events
             /\ h.state \in {"SENDING_CMD", "SENDING_STOP"}
          THEN [h EXCEPT !.cmd_status = "bad",
                         !.pending_events = @ \cup {"CMD"}, !.tasklet = TRUE]
          ELSE h
  /\ UNCHANGED <<tsk, out, completing, good>>

dw_mci_dto_timer ==
  /\ "dto" \in firing
  /\ firing' = firing \ {"dto"}
  /\ h' = IF /\ "DATA_OVER" \notin h.ints
             /\ "DATA" \notin h.pending_events
             /\ h.state \in {"SENDING_DATA", "DATA_BUSY"}
          THEN [h EXCEPT !.data_status = "drto_ebe",
                         !.pending_events = @ \cup {"ERROR", "DATA"},
                         !.tasklet = TRUE]
          ELSE h
  /\ UNCHANGED <<tsk, out, completing, good>>

-----------------------------------------------------------------------------
(* dw_mci_tasklet_func(), one step per test of the events.                 *)

TaskletRuns ==
  /\ tsk = "off" /\ h.tasklet
  /\ tsk' = h.state
  /\ h' = [h EXCEPT !.tasklet = FALSE]
  /\ UNCHANGED <<firing, out, completing, good>>

(* The loop ends: the state is stored. *)
Leave(st) ==
  /\ tsk' = "off"
  /\ h' = [h EXCEPT !.state = st, !.fresh = {}]
  /\ UNCHANGED completing

Goto(st, s) == tsk' = st /\ h' = s /\ UNCHANGED completing

(* dw_mci_request_end(): the slot is free before mmc_request_done() *)
dw_mci_request_end(s) ==
  /\ tsk' = "end"
  /\ completing' = s.mrq
  /\ h' = [s EXCEPT !.mrq = NoMrq, !.state = "IDLE",
                    !.warn = IF s.cmd # None \/ s.data THEN @ \cup {"end"} ELSE @]

Idle == tsk = "IDLE" /\ Leave("IDLE")

(* A failed data command is stopped; a failed command without data ends    *)
(* the request.                                                            *)
BadCmdEnds(role, failed) == failed \/ (~h.data /\ role # "sbc")

CmdEnds(role, failed) == ~h.data /\ (failed \/ role # "sbc")

SendingCmd ==
  LET c == h.cmd
      s == dw_mci_command_complete([Clear(h, "CMD", "cto") EXCEPT !.cmd = None],
                                   c[2])
      failed == h.cmd_status = "bad"
  IN  /\ tsk = "SENDING_CMD"
      /\ \/ "CMD" \notin h.pending_events /\ Leave("SENDING_CMD")
         \/ /\ "CMD" \in h.pending_events /\ "cto" \notin firing
            /\ \/ /\ c[2] = "sbc" /\ ~failed
                  /\ Goto("off", [__dw_mci_start_request(s, <<h.mrq, "cmd">>)
                                    EXCEPT !.fresh = {}])
               \/ /\ h.data /\ failed
                  /\ Goto("SENDING_STOP", send_stop_abort(dw_mci_stop_dma(s)))
               \/ /\ CmdEnds(c[2], failed)
                  /\ dw_mci_request_end(s)
               \/ /\ h.data /\ ~failed
                  /\ Goto("SENDING_DATA", s)

(* The data has failed: stop the DMA, and the card unless it was silent.   *)
Abort(s) ==
  LET s1 == dw_mci_stop_dma([s EXCEPT !.pending_events = @ \ {"ERROR"}])
  IN  IF s.data_status = "drto_ebe" THEN s1 ELSE send_stop_abort(s1)

(* Only a read has a data timer. *)
WaitForData(st) ==
  /\ tsk' = "off"
  /\ h' = [(IF h.kind.dir = "read" THEN Arm(h, "dto") ELSE h)
             EXCEPT !.state = st, !.fresh = {}]
  /\ UNCHANGED completing

SendingData ==
  \/ /\ tsk \in {"SENDING_DATA", "recheck"} /\ "ERROR" \in h.pending_events
     /\ Goto("DATA_ERROR", Abort(h))
  \/ /\ tsk = "SENDING_DATA" /\ "ERROR" \notin h.pending_events
     /\ Goto("xfer", h)
  \/ /\ tsk = "xfer" /\ "XFER" \notin h.pending_events
     /\ WaitForData("SENDING_DATA")
  \/ /\ tsk = "xfer" /\ "XFER" \in h.pending_events
     /\ Goto("recheck", [h EXCEPT !.pending_events = @ \ {"XFER"}])
  \/ /\ tsk = "recheck" /\ "ERROR" \notin h.pending_events
     /\ Goto("DATA_BUSY", h)

(* An open-ended transfer is stopped.  After an error everything was       *)
(* reset: without a command-done event by now there never will be one.     *)
DataBusy ==
  LET s == dw_mci_data_complete([Clear(h, "DATA", "dto") EXCEPT !.data = FALSE])
      failed == h.data_status \in {"drto_ebe", "bad"}
  IN  /\ tsk = "DATA_BUSY"
      /\ \/ "DATA" \notin h.pending_events /\ WaitForData("DATA_BUSY")
         \/ /\ "DATA" \in h.pending_events /\ "dto" \notin firing
            /\ \/ /\ ~failed /\ (~h.kind.stop \/ h.kind.sbc)
                  /\ dw_mci_request_end(s)
               \/ /\ ~failed /\ h.kind.stop /\ ~h.kind.sbc
                  /\ Goto("SENDING_STOP", send_stop_abort(s))
               \/ /\ failed /\ "CMD" \notin s.pending_events
                  /\ dw_mci_request_end([s EXCEPT !.cmd = None])
               \/ /\ failed /\ "CMD" \in s.pending_events
                  /\ Goto("SENDING_STOP", s)

SendingStop ==
  LET s1 == Clear(h, "CMD", "cto")
      s2 == IF "cmd" \in h.err /\ h.kind.dir # "none"
            THEN dw_mci_reset(s1) ELSE s1
      s3 == [s2 EXCEPT !.cmd = None, !.data = FALSE]
  IN  /\ tsk = "SENDING_STOP"
      /\ \/ "CMD" \notin h.pending_events /\ Leave("SENDING_STOP")
         \/ /\ "CMD" \in h.pending_events /\ "cto" \notin firing
            /\ dw_mci_request_end(
                 IF ~h.kind.sbc /\ h.kind.stop
                 THEN dw_mci_command_complete(s3, "stop")
                 ELSE [s3 EXCEPT !.cmd_status = "none"])

DataErrorState ==
  /\ tsk = "DATA_ERROR"
  /\ \/ "XFER" \notin h.pending_events /\ Leave("DATA_ERROR")
     \/ /\ "XFER" \in h.pending_events
        /\ Goto("DATA_BUSY", [h EXCEPT !.pending_events = @ \ {"XFER"}])

TaskletStep ==
  /\ Idle \/ SendingCmd \/ SendingData \/ DataBusy \/ SendingStop
       \/ DataErrorState
  /\ UNCHANGED <<firing, out, good>>

(* mmc_request_done(): the caller has its result, nothing is kept of it. *)
mmc_request_done ==
  /\ tsk = "end"
  /\ tsk' = "off"
  /\ out' = out \ {completing}
  /\ good' = IF h.err = {} THEN completing ELSE NoMrq
  /\ completing' = NoMrq
  /\ h' = [h EXCEPT !.kind = NoKind, !.err = {}, !.carried = {}, !.fresh = {}]
  /\ UNCHANGED firing

dw_mci_tasklet_func == TaskletRuns \/ TaskletStep \/ mmc_request_done

-----------------------------------------------------------------------------
(* The core: one request at a time.  dw_mci_request() finds the slot free  *)
(* and the host idle, or no card.                                          *)

dw_mci_request(m, k) ==
  /\ out = {} /\ tsk = "off" /\ h.state = "IDLE"
  /\ LateTimers \/ firing = {}
  /\ out' = {m}
  /\ good' = NoMrq
  /\ h' = [__dw_mci_start_request(
             [h EXCEPT !.kind = k, !.mrq = m, !.state = "SENDING_CMD",
                       !.warn = IF h.mrq # NoMrq THEN @ \cup {"slot"} ELSE @],
             <<m, IF k.sbc THEN "sbc" ELSE "cmd">>) EXCEPT !.fresh = {}]
  /\ UNCHANGED <<tsk, firing, completing>>

NoCard(m) ==
  /\ out = {}
  /\ out' = {m} /\ completing' = m
  /\ good' = NoMrq
  /\ UNCHANGED <<h, tsk, firing>>

Refuse ==
  /\ completing # NoMrq /\ tsk # "end"
  /\ out' = out \ {completing} /\ completing' = NoMrq
  /\ UNCHANGED <<h, tsk, firing, good>>

-----------------------------------------------------------------------------
(* The controller and the card.                                            *)

Carries(s, m, part) ==
  IF m = s.mrq THEN [s EXCEPT !.carried = @ \cup {part}] ELSE s

(* A command ends well or not; after an error its data may come or not. *)
Respond ==
  LET c == h.line IN
  /\ c # None /\ "line" \notin h.hung
  /\ \/ h' = Carries([h EXCEPT !.line = None, !.ints = @ \cup {"CMD_DONE"}],
                     c[1], c[2])
     \/ \E l \in {h.left, IF c[2] = "cmd" THEN {} ELSE h.left} :
          h' = [h EXCEPT !.line = None, !.left = l,
                         !.ints = @ \cup {"CMD_DONE", "CMD_ERROR"}]
  /\ UNCHANGED <<tsk, firing, out, completing, good>>

(* The data moves while or after its command is answered. *)
Transferring == h.left # {} /\ "data" \notin h.hung

Transfer ==
  /\ Transferring
  /\ \E x \in h.left :
       LET s == [h EXCEPT !.left = @ \ {x},
                          !.ints = @ \cup {IF x = "DMA" THEN "DMA" ELSE "DATA_OVER"}]
       IN  h' = IF s.left = {} THEN Carries(s, h.owner, "data") ELSE s
  /\ UNCHANGED <<tsk, firing, out, completing, good>>

(* An error: the controller still signals the end of the data. *)
TransferFails ==
  /\ Transferring
  /\ h.left = {"DMA", "OVER"}
  /\ \E e \in {"DRTO_EBE", "DATA_ERROR"} :
       h' = [h EXCEPT !.ints = @ \cup {e}, !.left = {"OVER"}, !.owner = NoMrq]
  /\ UNCHANGED <<tsk, firing, out, completing, good>>

(* The controller hangs in a command, or before the end of a read. *)
Hang ==
  /\ \/ /\ h.line # None /\ "line" \notin h.hung
        /\ ExpectsResponse(h, h.line) \/ Unwatched
        /\ h' = [h EXCEPT !.hung = @ \cup {"line"}]
     \/ /\ Transferring /\ "OVER" \in h.left /\ h.kind.dir = "read"
        /\ h' = [h EXCEPT !.hung = @ \cup {"data"}]
  /\ UNCHANGED <<tsk, firing, out, completing, good>>

Controller == Respond \/ Transfer \/ TransferFails

Next ==
  \/ \E m \in Mrqs : NoCard(m) \/ \E k \in Kinds : dw_mci_request(m, k)
  \/ Refuse
  \/ dw_mci_interrupt \/ dw_mci_tasklet_func
  \/ \E t \in Timers : TimerExpires(t)
  \/ dw_mci_cto_timer \/ dw_mci_dto_timer
  \/ Controller \/ Hang

Spec == Init /\ [][Next]_vars

(* Interrupts are served, the tasklet and expired timers run; the          *)
(* controller goes on unless it hangs.                                     *)
FairSpec ==
  /\ Spec
  /\ WF_vars(dw_mci_interrupt) /\ WF_vars(dw_mci_tasklet_func)
  /\ WF_vars(TimerExpires("cto") \/ dw_mci_cto_timer)
  /\ WF_vars(TimerExpires("dto") \/ dw_mci_dto_timer)
  /\ WF_vars(Refuse) /\ WF_vars(Controller)

-----------------------------------------------------------------------------
Sent == {r \in {"sbc", "cmd", "stop", "data"} :
           \/ r = "cmd"
           \/ r = "sbc" /\ h.kind.sbc
           \/ r = "stop" /\ h.kind.stop /\ ~h.kind.sbc
           \/ r = "data" /\ h.kind.dir # "none"}

Host == INSTANCE MmcHost WITH
  pending <- out,
  carried <- {m \in out : Sent \subseteq h.carried}

(* The timer of a command is off when its event is taken, and nothing of a *)
(* request is left when it ends or the next one starts: WARN_ON()s of the  *)
(* driver.  The fourth, on the data timer, can fire: the tasklet arms the  *)
(* timer again while its handler waits for irq_lock.                       *)
NoWarning == h.warn \subseteq {"dto"}

(* The controller never transfers for a request that was given back: its   *)
(* pages belong to somebody else.                                          *)
NoLateDma == "DMA" \in h.left => h.owner \in out /\ h.owner # completing

(* The comment of dw_mci_clear_pending_cmd_complete(): that the timer still *)
(* runs when the event is taken "could only really happen if" the          *)
(* interrupt handler ran at the same time and could not delete it.         *)
CtoOff == "cto" \notin h.warn

(* The tasklet, the handler and the timers together do what the core       *)
(* expects: every request comes back once, and as a success only if the    *)
(* card carried it out.                                                    *)
HostSpec == Host!Spec
=============================================================================
