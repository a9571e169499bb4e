-------------------------------- MODULE Sdhci --------------------------------
(***************************************************************************)
(* The SDHCI host driver, mmc/host/sdhci.c: the path of a request from     *)
(* sdhci_request() over the command and data interrupts, the two timeout   *)
(* timers, card removal and controller loss to the finish tasklet, which   *)
(* gives it back.  Everything below host->lock is one step; handlers are   *)
(* functions from the host's state to its next state, as they call one     *)
(* another.                                                                *)
(*                                                                         *)
(* A command is <<request, role>>, its role "sbc", "cmd" or "stop".        *)
(* Definitions named Bad... are slips that test the properties.            *)
(***************************************************************************)
EXTENDS Naturals, FiniteSets, FiniteSetsExt, Functions

CONSTANTS
  Mrqs,       \* the requests
  Kinds,      \* what each of them may consist of
  Setups,     \* the host's AUTO_CMD12 and AUTO_CMD23, and which of "hang",
              \* "card" and "dead" may happen in one behaviour
  MaxMeanwhile, \* commands the core sends during one ongoing transfer
  Unwatched   \* the controller may also hang in a command no timer watches

KindType == [sbc : BOOLEAN, data : BOOLEAN, busy : BOOLEAN, stop : BOOLEAN,
             stopbusy : BOOLEAN, cap : BOOLEAN]

ASSUME KindsAssumption ==
  /\ Kinds \in [Mrqs -> SUBSET KindType]
  /\ \A k \in UNION Range(Kinds) :
       (k.sbc \/ k.stop \/ k.cap => k.data) /\ ~(k.data /\ k.busy)
ASSUME SetupsAssumption ==
  Setups \subseteq [auto : SUBSET {"cmd12", "cmd23"},
                    faults : SUBSET {"hang", "card", "dead"}]
ASSUME MaxMeanwhileAssumption == MaxMeanwhile \in Nat
ASSUME UnwatchedAssumption == Unwatched \in BOOLEAN

VARIABLES
  h,          \* struct sdhci_host, the controller and the errors of requests
  out,        \* requests the core has started and not got back
  completing, \* taken from mrqs_done, mmc_request_done() not yet called
  good,       \* the request just given back as a success, or "none"
  meanwhile,  \* commands started during the ongoing transfer
  task,       \* the finish tasklet runs
  firing,     \* timers whose handler waits for the lock
  card,       \* the card is in the slot
  gone        \* get_cd() told card_event() that there is no card

vars == <<h, out, completing, good, meanwhile, task, firing, card, gone>>

None == <<>>
Roles == {"sbc", "cmd", "stop"}
Cmds == Mrqs \X Roles
BadResponse == {"TIMEOUT", "CRC", "INDEX"}
CmdInts == {"RESPONSE"} \cup BadResponse
DataInts == {"DATA_END", "DATA_ERR"}
NoMrq == "none"
ASSUME MrqsAssumption == NoMrq \notin Mrqs
Slots == 1 .. 2     \* SDHCI_MAX_MRQS

TypeOK ==
  /\ h \in [kind : [Mrqs -> KindType], setup : Setups,
            dead : BOOLEAN,
            (* the driver *)
            cmd : Cmds \cup {None}, data_cmd : Cmds \cup {None},
            data : Mrqs \cup {NoMrq}, data_early : BOOLEAN,
            pending_reset : BOOLEAN, mrqs_done : [Slots -> Mrqs \cup {NoMrq}],
            tasklet : BOOLEAN, timers : SUBSET {"timer", "data_timer"},
            thread_isr : BOOLEAN, cmd_done : SUBSET Mrqs,
            err : SUBSET (Mrqs \X {"sbc", "cmd", "stop", "data"}),
            (* the controller *)
            line : Cmds \cup {None}, dat : Cmds \cup {None},
            hung : SUBSET {"line", "dat"},
            ints : SUBSET (CmdInts \cup DataInts),
            carried : SUBSET (Mrqs \X Roles \X {"rsp", "end"}),
            warn : SUBSET {"cmd", "data_cmd", "data", "inhibit", "twice", "slots"}]
  /\ out \subseteq Mrqs /\ completing \in Mrqs \cup {NoMrq}
  /\ good \in Mrqs \cup {NoMrq}
  /\ task \in BOOLEAN /\ firing \subseteq {"timer", "data_timer"}
  /\ card \in BOOLEAN /\ gone \in BOOLEAN /\ meanwhile \in 0 .. MaxMeanwhile

Plain == [sbc |-> FALSE, data |-> FALSE, busy |-> FALSE, stop |-> FALSE,
          stopbusy |-> FALSE, cap |-> FALSE]

Init ==
  /\ h \in [kind : {[m \in Mrqs |-> Plain]}, setup : Setups,
            dead : {FALSE},
            cmd : {None}, data_cmd : {None}, data : {NoMrq},
            data_early : {FALSE}, pending_reset : {FALSE},
            mrqs_done : {[i \in Slots |-> NoMrq]}, tasklet : {FALSE},
            timers : {{}}, thread_isr : {FALSE}, cmd_done : {{}}, err : {{}},
            line : {None}, dat : {None}, hung : {{}}, ints : {{}},
            carried : {{}}, warn : {{}}]
  /\ out = {} /\ completing = NoMrq /\ good = NoMrq
  /\ task = FALSE /\ firing = {}
  /\ card = TRUE /\ gone = FALSE /\ meanwhile = 0

-----------------------------------------------------------------------------
(* Commands.                                                               *)

HasData(s, c) == c[2] = "cmd" /\ s.kind[c[1]].data

(* cmd->flags & MMC_RSP_BUSY *)
Busy(s, c) ==
  LET k == s.kind[c[1]]
  IN  (c[2] = "cmd" /\ k.busy) \/ (c[2] = "stop" /\ k.stopbusy)

sdhci_data_line_cmd(s, c) == HasData(s, c) \/ Busy(s, c)

(* The timer of a request depends on its main command. *)
TimerOf(s, m) ==
  IF sdhci_data_line_cmd(s, <<m, "cmd">>) THEN "data_timer" ELSE "timer"

(* sdhci_do_reset(): SDHCI_RESET_CMD and SDHCI_RESET_DATA end what the     *)
(* circuit does and clear its interrupts.                                  *)
BadResetCmd(s) == [s EXCEPT !.line = None, !.hung = @ \ {"line"}]
ResetCmd(s) ==
  [s EXCEPT !.line = None, !.hung = @ \ {"line"}, !.ints = @ \ CmdInts]
ResetData(s) ==
  [s EXCEPT !.dat = None, !.hung = @ \ {"dat"}, !.ints = @ \ DataInts]

sdhci_needs_reset(s, m) ==
  /\ ~s.dead
  /\ \/ <<m, "cmd">> \in s.err \/ <<m, "sbc">> \in s.err
     \/ <<m, "data">> \in s.err /\ ~s.kind[m].stop
     \/ <<m, "stop">> \in s.err

(* sdhci_finish_mrq(): the host forgets the request and hands it to the    *)
(* tasklet.                                                                *)
BadFinishMrq(s, m) ==
  LET forget(c) == IF c # None /\ c[1] = m THEN None ELSE c
      s1 == [s EXCEPT !.cmd = forget(@), !.data_cmd = forget(@),
                      !.pending_reset = @ \/ sdhci_needs_reset(s, m)]
      free == {i \in Slots : s.mrqs_done[i] = NoMrq}
  IN  CASE m \in Range(s.mrqs_done) -> [s1 EXCEPT !.warn = @ \cup {"twice"}]
        [] m \notin Range(s.mrqs_done) /\ free = {} ->
             [s1 EXCEPT !.warn = @ \cup {"slots"}, !.tasklet = TRUE]
        [] OTHER -> [s1 EXCEPT !.mrqs_done[Min(free)] = m, !.tasklet = TRUE]

sdhci_finish_mrq(s, m) ==
  LET forget(c) == IF c # None /\ c[1] = m THEN None ELSE c
      s1 == [s EXCEPT !.cmd = forget(@), !.data_cmd = forget(@),
                      !.data = IF @ = m THEN NoMrq ELSE @,
                      !.pending_reset = @ \/ sdhci_needs_reset(s, m)]
      free == {i \in Slots : s.mrqs_done[i] = NoMrq}
  IN  CASE m \in Range(s.mrqs_done) -> [s1 EXCEPT !.warn = @ \cup {"twice"}]
        [] m \notin Range(s.mrqs_done) /\ free = {} ->
             [s1 EXCEPT !.warn = @ \cup {"slots"}, !.tasklet = TRUE]
        [] OTHER -> [s1 EXCEPT !.mrqs_done[Min(free)] = m, !.tasklet = TRUE]

(* sdhci_send_command() and sdhci_prepare_data().  The inhibit bits of the *)
(* lines the command needs must be clear; a stop command does not wait for *)
(* the data line.                                                          *)
sdhci_send_command(s, c) ==
  LET m == c[1]
      line == sdhci_data_line_cmd(s, c)
      s1 == [s EXCEPT !.err = @ \ {c},
                      !.warn = @ \cup (IF s.cmd # None THEN {"cmd"} ELSE {})]
      inhibited == s.line # None \/ (line /\ c[2] # "stop" /\ s.dat # None)
  IN  IF inhibited
      THEN sdhci_finish_mrq([s1 EXCEPT !.err = @ \cup {c},
                                       !.warn = @ \cup {"inhibit"}], m)
      ELSE [s1 EXCEPT
              !.cmd = c,
              !.data_cmd = IF line THEN c ELSE @,
              !.data = IF HasData(s, c) THEN m ELSE @,
              !.data_early = IF HasData(s, c) THEN FALSE ELSE @,
              !.warn = @ \cup {w \in {"data_cmd"} : line /\ s.data_cmd # None}
                         \cup {w \in {"data"} : HasData(s, c) /\ s.data # NoMrq},
              !.timers = @ \cup {TimerOf(s, m)},
              !.line = c,
              !.dat = IF line THEN c ELSE @]

(* The data phase is over: an open-ended or failed transfer is stopped,    *)
(* unless the caller of a 'cap_cmd_during_tfr' request does it.            *)
sdhci_finish_data(s) ==
  LET m == s.data
      failed == <<m, "data">> \in s.err
      k == s.kind[m]
      s1 == [s EXCEPT !.data = NoMrq, !.data_cmd = None]
      s2 == IF ~failed THEN s1
            ELSE IF s.cmd = None \/ s.cmd = s.data_cmd
                 THEN ResetData(ResetCmd(s1)) ELSE ResetData(s1)
  IN  IF k.stop /\ (failed \/ ~k.sbc)
      THEN IF k.cap THEN sdhci_finish_mrq(s2, m)
           ELSE sdhci_send_command([s2 EXCEPT !.cmd = None], <<m, "stop">>)
      ELSE sdhci_finish_mrq(s1, m)

(* The response is here.  A busy command goes on until its busy end, the   *)
(* set-block-count command is followed by the real one, a data command by  *)
(* its data, which may have been faster.                                   *)
BadFinishCommand(s) ==
  LET c == s.cmd
      m == c[1]
      s1 == [s EXCEPT !.cmd = None,
                      !.cmd_done = IF s.kind[m].cap /\ c[2] = "cmd"
                                   THEN @ \cup {m} ELSE @]
      s2 == IF s1.data # NoMrq /\ s1.data_early THEN sdhci_finish_data(s1) ELSE s1
  IN  CASE c[2] = "sbc" -> sdhci_send_command(s1, <<m, "cmd">>)
        [] c[2] # "sbc" /\ ~HasData(s, c) -> sdhci_finish_mrq(s2, m)
        [] OTHER -> s2

sdhci_finish_command(s) ==
  LET c == s.cmd
      m == c[1]
      s1 == [s EXCEPT !.cmd = None,
                      !.cmd_done = IF s.kind[m].cap /\ c[2] = "cmd"
                                   THEN @ \cup {m} ELSE @]
      s2 == IF s1.data # NoMrq /\ s1.data_early THEN sdhci_finish_data(s1) ELSE s1
  IN  CASE Busy(s, c) /\ c = s.data_cmd -> s1
        [] ~(Busy(s, c) /\ c = s.data_cmd) /\ c[2] = "sbc" ->
             sdhci_send_command(s1, <<m, "cmd">>)
        [] ~(Busy(s, c) /\ c = s.data_cmd) /\ c[2] # "sbc" /\ ~HasData(s, c) ->
             sdhci_finish_mrq(s2, m)
        [] OTHER -> s2

-----------------------------------------------------------------------------
(* Interrupts.                                                             *)

(* A response with a bad checksum does not end a data command: the card    *)
(* may be sending.  A wrong index or end bit alone ends it, as a missing   *)
(* response does.                                                          *)
sdhci_cmd_irq(s, mask) ==
  LET c == s.cmd
      s1 == [s EXCEPT !.err = @ \cup {c}]
  IN  CASE c = None -> s
        [] c # None /\ mask \cap BadResponse # {} ->
             IF HasData(s, c) /\ mask \cap {"CRC", "TIMEOUT"} = {"CRC"}
             THEN [s1 EXCEPT !.cmd = None]
             ELSE sdhci_finish_mrq(s1, c[1])
        [] c # None /\ mask = {"RESPONSE"} -> sdhci_finish_command(s)
        [] OTHER -> s

(* Without data the end of the busy state is awaited, which may come       *)
(* before the response; so may the end of the data.                        *)
BadDataIrq(s, mask) ==
  LET c == s.data_cmd
      s1 == [s EXCEPT !.data_cmd = None]
  IN  IF s.data = NoMrq
      THEN CASE c = None \/ ~Busy(s, c) -> s
             [] c # None /\ Busy(s, c) /\ "DATA_ERR" \in mask ->
                  sdhci_finish_mrq([s1 EXCEPT !.err = @ \cup {c}], c[1])
             [] c # None /\ Busy(s, c) /\ mask = {"DATA_END"} ->
                  IF s.cmd = c THEN s1 ELSE sdhci_finish_mrq(s1, c[1])
             [] OTHER -> s
      ELSE CASE "DATA_ERR" \in mask ->
                  sdhci_finish_data([s EXCEPT !.err = @ \cup {<<s.data, "data">>}])
             [] mask = {"DATA_END"} -> sdhci_finish_data(s)
             [] OTHER -> s

sdhci_data_irq(s, mask) ==
  LET c == s.data_cmd
      s1 == [s EXCEPT !.data_cmd = None]
  IN  IF s.data = NoMrq
      THEN CASE c = None \/ ~Busy(s, c) -> s
             [] c # None /\ Busy(s, c) /\ "DATA_ERR" \in mask ->
                  sdhci_finish_mrq([s1 EXCEPT !.err = @ \cup {c}], c[1])
             [] c # None /\ Busy(s, c) /\ mask = {"DATA_END"} ->
                  IF s.cmd = c THEN s1 ELSE sdhci_finish_mrq(s1, c[1])
             [] OTHER -> s
      ELSE CASE "DATA_ERR" \in mask ->
                  sdhci_finish_data([s EXCEPT !.err = @ \cup {<<s.data, "data">>}])
             [] mask = {"DATA_END"} ->
                  IF s.cmd = c THEN [s EXCEPT !.data_early = TRUE]
                  ELSE sdhci_finish_data(s)
             [] OTHER -> s

(* One round of the handler's loop: acknowledge, then commands and data in *)
(* this order.                                                             *)
sdhci_irq ==
  /\ h.ints # {}
  /\ LET mask == h.ints
         s1 == [h EXCEPT !.ints = {}]
         s2 == sdhci_cmd_irq(s1, mask \cap CmdInts)
     IN  h' = sdhci_data_irq(s2, mask \cap DataInts)
  /\ UNCHANGED <<out, completing, good, meanwhile, task, firing, card, gone>>

(* data_cmd first, then cmd, which is gone if it was of the same request *)
sdhci_error_out_mrqs(s) ==
  LET s1 == IF s.data_cmd = None THEN s
            ELSE sdhci_finish_mrq([s EXCEPT !.err = @ \cup {s.data_cmd}],
                                  s.data_cmd[1])
  IN  IF s1.cmd = None THEN s1
      ELSE sdhci_finish_mrq([s1 EXCEPT !.err = @ \cup {s1.cmd}], s1.cmd[1])

(* The threaded handler: sdhci_card_event() asks for the card before it    *)
(* takes the lock.                                                         *)
sdhci_thread_irq ==
  /\ h.thread_isr /\ ~gone
  /\ h' = [h EXCEPT !.thread_isr = FALSE]
  /\ gone' = ~card
  /\ UNCHANGED <<out, completing, good, meanwhile, task, firing, card>>

sdhci_card_event ==
  /\ gone
  /\ gone' = FALSE
  /\ h' = IF h.cmd # None \/ h.data_cmd # None
          THEN sdhci_error_out_mrqs(ResetData(ResetCmd(h))) ELSE h
  /\ UNCHANGED <<out, completing, good, meanwhile, task, firing, card>>

(* sdhci_remove_host() of a controller that is gone: nothing comes from it *)
sdhci_remove_host ==
  /\ ~h.dead /\ "dead" \in h.setup.faults
  /\ h' = sdhci_error_out_mrqs([ResetData(ResetCmd(h)) EXCEPT !.dead = TRUE])
  /\ UNCHANGED <<out, completing, good, meanwhile, task, firing, card, gone>>

-----------------------------------------------------------------------------
(* Timers.  A timer that has expired may wait for the lock while its       *)
(* request completes and del_timer() finds nothing to delete.              *)

TimerExpires(t) ==
  /\ t \in h.timers /\ t \notin firing
  /\ h' = [h EXCEPT !.timers = @ \ {t}]
  /\ firing' = firing \cup {t}
  /\ UNCHANGED <<out, completing, good, meanwhile, task, card, gone>>

sdhci_timeout_timer ==
  /\ "timer" \in firing
  /\ firing' = firing \ {"timer"}
  /\ h' = IF h.cmd # None /\ ~sdhci_data_line_cmd(h, h.cmd)
          THEN sdhci_finish_mrq([h EXCEPT !.err = @ \cup {h.cmd}], h.cmd[1])
          ELSE h
  /\ UNCHANGED <<out, completing, good, meanwhile, task, card, gone>>

sdhci_timeout_data_timer ==
  /\ "data_timer" \in firing
  /\ firing' = firing \ {"data_timer"}
  /\ h' = CASE h.data # NoMrq ->
                 sdhci_finish_data([h EXCEPT !.err = @ \cup {<<h.data, "data">>}])
            [] h.data = NoMrq /\ h.data_cmd # None ->
                 sdhci_finish_mrq([h EXCEPT !.err = @ \cup {h.data_cmd}],
                                  h.data_cmd[1])
            [] h.data = NoMrq /\ h.data_cmd = None /\ h.cmd # None
                 /\ sdhci_data_line_cmd(h, h.cmd) ->
                 sdhci_finish_mrq([h EXCEPT !.err = @ \cup {h.cmd}], h.cmd[1])
            [] OTHER -> h
  /\ UNCHANGED <<out, completing, good, meanwhile, task, card, gone>>

-----------------------------------------------------------------------------
(* The finish tasklet.                                                     *)

TaskletRuns ==
  /\ h.tasklet /\ ~task
  /\ task' = TRUE
  /\ h' = [h EXCEPT !.tasklet = FALSE]
  /\ UNCHANGED <<out, completing, good, meanwhile, firing, card, gone>>

(* sdhci_request_done() under the lock: a request that needs a reset waits *)
(* until the other one has left the lines.                                 *)
sdhci_request_done ==
  /\ task /\ completing = NoMrq
  /\ LET used == {i \in Slots : h.mrqs_done[i] # NoMrq} IN
     \/ /\ used = {}
        /\ task' = FALSE
        /\ UNCHANGED <<h, completing>>
     \/ /\ used # {}
        /\ LET i == Min(used)
               m == h.mrqs_done[i]
               s1 == [h EXCEPT !.timers = @ \ {TimerOf(h, m)}]
               s2 == IF sdhci_needs_reset(h, m)
                     THEN [ResetData(ResetCmd(s1)) EXCEPT !.pending_reset = FALSE]
                     ELSE s1
           IN  \/ /\ sdhci_needs_reset(h, m)
                  /\ h.cmd # None \/ h.data_cmd # None
                  /\ h' = s1
                  /\ task' = FALSE
                  /\ UNCHANGED completing
               \/ /\ ~(/\ sdhci_needs_reset(h, m)
                       /\ h.cmd # None \/ h.data_cmd # None)
                  /\ h' = [s2 EXCEPT !.mrqs_done[i] = NoMrq]
                  /\ completing' = m
                  /\ UNCHANGED task
  /\ UNCHANGED <<out, good, meanwhile, firing, card, gone>>

Failed(s, m) == \E r \in {"sbc", "cmd", "stop", "data"} : <<m, r>> \in s.err

(* The caller has its result: nothing of the request is kept. *)
Forget(s, m) ==
  [s EXCEPT !.kind[m] = Plain, !.err = {e \in @ : e[1] # m},
            !.cmd_done = @ \ {m}, !.carried = {c \in @ : c[1] # m}]

(* the tasklet calls mmc_request_done() after the unlock *)
mmc_request_done ==
  /\ completing # NoMrq
  /\ out' = out \ {completing}
  /\ good' = IF Failed(h, completing) THEN NoMrq ELSE completing
  /\ completing' = NoMrq
  /\ h' = Forget(h, completing)
  /\ meanwhile' = IF out' = {} THEN 0 ELSE meanwhile
  /\ UNCHANGED <<task, firing, card, gone>>

sdhci_tasklet_finish == TaskletRuns \/ sdhci_request_done \/ mmc_request_done

-----------------------------------------------------------------------------
(* The core: one request at a time, or a command without the data lines    *)
(* while a 'cap_cmd_during_tfr' transfer is on and its command is done     *)
(* (mmc_wait_ongoing_tfr_cmd()).                                           *)
MayStart(m, k) ==
  /\ m \notin out
  /\ \A n \in out : h.kind[n].cap /\ n \in h.cmd_done /\ k = Plain
  /\ out # {} => meanwhile < MaxMeanwhile

(* The card was looked for before the lock: it may have come or gone.      *)
sdhci_request(m, k, present) ==
  LET auto12 == "cmd12" \in h.setup.auto /\ ~k.sbc /\ ~k.cap
      s == [h EXCEPT
              !.kind[m] = [k EXCEPT !.stop = @ /\ ~auto12,
                                    !.stopbusy = @ /\ ~auto12]]
  IN  /\ MayStart(m, k)
      /\ out' = out \cup {m}
      /\ meanwhile' = IF out = {} THEN 0 ELSE meanwhile + 1
      /\ good' = NoMrq
      /\ h' = CASE ~present \/ h.dead ->
                     sdhci_finish_mrq([s EXCEPT !.err = @ \cup {<<m, "cmd">>}], m)
                [] present /\ ~h.dead /\ k.sbc /\ "cmd23" \notin h.setup.auto ->
                     sdhci_send_command(s, <<m, "sbc">>)
                [] OTHER -> sdhci_send_command(s, <<m, "cmd">>)
      /\ UNCHANGED <<completing, task, firing, card, gone>>

-----------------------------------------------------------------------------
(* The controller and the card.                                            *)

(* The card answers, does not answer, or answers with a bad checksum, a    *)
(* wrong index or end bit (INDEX), or both.  A command whose data or busy  *)
(* phase has ended was received.                                           *)
Respond ==
  LET c == h.line IN
  /\ c # None /\ "line" \notin h.hung
  /\ \/ /\ card
        /\ h' = [h EXCEPT !.line = None, !.ints = @ \cup {"RESPONSE"},
                          !.carried = @ \cup {<<c[1], c[2], "rsp">>}]
     \/ /\ <<c[1], c[2], "end">> \notin h.carried
        /\ h' = [h EXCEPT !.line = None, !.ints = @ \cup {"TIMEOUT"}]
     \/ /\ card
        /\ \E e \in SUBSET {"CRC", "INDEX"} \ {{}} :
             h' = [h EXCEPT !.line = None, !.ints = @ \cup e]
  /\ UNCHANGED <<out, completing, good, meanwhile, task, firing, card, gone>>

(* Data or busy phase: it may end while the response is still on its way.  *)
DataPhase ==
  LET c == h.dat IN
  /\ c # None /\ "dat" \notin h.hung
  /\ \/ /\ card /\ (h.line = c \/ <<c[1], c[2], "rsp">> \in h.carried)
        /\ h' = [h EXCEPT !.dat = None, !.ints = @ \cup {"DATA_END"},
                          !.carried = @ \cup {<<c[1], c[2], "end">>}]
     \/ h' = [h EXCEPT !.dat = None, !.ints = @ \cup {"DATA_ERR"}]
  /\ UNCHANGED <<out, completing, good, meanwhile, task, firing, card, gone>>

(* The timer that runs for a command looks at it when it expires. *)
Watched(s, c) ==
  sdhci_data_line_cmd(s, c) \/ ~sdhci_data_line_cmd(s, <<c[1], "cmd">>)

(* The controller hangs: the interrupt will never come. *)
Hang ==
  /\ "hang" \in h.setup.faults
  /\ \/ /\ h.line # None /\ (Watched(h, h.line) \/ Unwatched)
        /\ "line" \notin h.hung
        /\ h' = [h EXCEPT !.hung = @ \cup {"line"}]
     \/ /\ h.dat # None
        /\ "dat" \notin h.hung
        /\ h' = [h EXCEPT !.hung = @ \cup {"dat"}]
  /\ UNCHANGED <<out, completing, good, meanwhile, task, firing, card, gone>>

(* The card is taken out, once; the interrupt only wakes the threaded      *)
(* handler.                                                                *)
CardRemoved ==
  /\ "card" \in h.setup.faults
  /\ card
  /\ card' = FALSE
  /\ h' = [h EXCEPT !.thread_isr = TRUE]
  /\ UNCHANGED <<out, completing, good, meanwhile, task, firing, gone>>

Environment == Respond \/ DataPhase \/ Hang \/ CardRemoved

Driver ==
  \/ sdhci_irq \/ sdhci_thread_irq \/ sdhci_card_event
  \/ sdhci_tasklet_finish
  \/ \E t \in {"timer", "data_timer"} : TimerExpires(t)
  \/ sdhci_timeout_timer \/ sdhci_timeout_data_timer

Next ==
  \/ \E m \in Mrqs : \E k \in Kinds[m], present \in BOOLEAN :
       sdhci_request(m, k, present)
  \/ Environment \/ Driver \/ sdhci_remove_host

Spec == Init /\ [][Next]_vars

(* Interrupts are served, the tasklet and expired timers run; the          *)
(* controller answers unless it hangs.                                     *)
FairSpec ==
  /\ Spec
  /\ WF_vars(sdhci_irq) /\ WF_vars(Respond)
  /\ WF_vars(sdhci_tasklet_finish)
  /\ WF_vars(TimerExpires("timer") \/ sdhci_timeout_timer)
  /\ WF_vars(TimerExpires("data_timer") \/ sdhci_timeout_data_timer)

-----------------------------------------------------------------------------
(* What the card must have done for a request to be a success.             *)
Sent(k, r) ==
  CASE r = "cmd" -> TRUE
    [] r = "sbc" -> k.sbc /\ "cmd23" \notin h.setup.auto
    [] r = "stop" -> k.stop /\ ~k.sbc /\ ~k.cap

CarriedOut(m) ==
  \A r \in Roles :
    Sent(h.kind[m], r) =>
      /\ <<m, r, "rsp">> \in h.carried
      /\ sdhci_data_line_cmd(h, <<m, r>>) => <<m, r, "end">> \in h.carried

Host == INSTANCE MmcHost WITH
  pending <- out,
  carried <- {m \in out : CarriedOut(m)}

(* sdhci_request(), the interrupts, the timers and the tasklet together do *)
(* what the core expects: every request comes back once, and as a success  *)
(* only if the card carried it out.                                        *)
HostSpec == Host!Spec

(* "Start a new MMC custom command request for a host, and wait for the    *)
(* command to complete" (mmc_wait_for_req()): every request comes back.    *)
RequestsReturn == \A m \in Mrqs : m \in out ~> m \notin out

(* The host refers only to requests the core still waits for: none that    *)
(* was given back, and may be freed, is touched by a late interrupt or an  *)
(* expired timer; and none it has finished is started again.               *)
OnlyLiveRequests ==
  LET used == {c[1] : c \in {h.cmd, h.data_cmd, h.line, h.dat} \ {None}}
      waiting == Range(h.mrqs_done) \ {NoMrq}
  IN  /\ used \subseteq out
      /\ ({h.data, completing} \ {NoMrq}) \cup waiting \subseteq out
      /\ {c[1] : c \in {h.cmd, h.data_cmd} \ {None}} \cap waiting = {}
      /\ completing \notin waiting

(* No WARN_ON() of the request path fires and "Controller never released   *)
(* inhibit bit(s)" is never printed: the lines are free when a command is  *)
(* sent, the slots suffice, and nothing is finished twice.                 *)
NoWarning == h.warn = {}

(* An interrupt of the command circuit that nobody waits for can only be   *)
(* the rest of a failed request whose reset is still to come: "Got command *)
(* interrupt even though no command operation was in progress" is not      *)
(* printed.                                                                *)
NoStrayInterrupt ==
  h.ints \cap CmdInts # {} /\ h.cmd = None => h.pending_reset
=============================================================================
