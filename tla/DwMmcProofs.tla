---------------------------- MODULE DwMmcProofs -----------------------------
(***************************************************************************)
(* Proofs about DwMmc for any set of requests and of kinds of them.        *)
(*                                                                         *)
(* The invariants speak of the stage of the request: the state the tasklet *)
(* is in while it runs, and the one it has stored otherwise.  Where bits   *)
(* of the handler may arrive at any time, they say what the tasklet has    *)
(* already seen at a stage and what can therefore not come any more.       *)
(***************************************************************************)
EXTENDS DwMmc, TLAPS

Stage ==
  CASE tsk = "off" -> h.state
    [] tsk = "end" -> "IDLE"
    [] OTHER -> tsk

Failed == {"drto_ebe", "bad"}

(* One request: the core's, the host's and the one being given back. *)
MrqInv ==
  /\ h.mrq # NoMrq => out = {h.mrq} /\ completing = NoMrq
  /\ Stage = "IDLE" <=> h.mrq = NoMrq
  /\ tsk = "end" => h.state = "IDLE"
  /\ tsk = "SENDING_CMD" => h.state = "SENDING_CMD"

(* The DMA works for the request of the host and only until the tasklet    *)
(* has taken its event or stopped it; its interrupt does not outlive the   *)
(* data phase.                                                             *)
DmaInv ==
  /\ h.data => h.mrq # NoMrq /\ h.kind.dir # "none"
  /\ "DMA" \in h.left => h.data /\ h.owner = h.mrq
  /\ "DMA" \in h.ints => h.data /\ "DMA" \notin h.left
  /\ Stage \in {"SENDING_CMD", "SENDING_DATA", "xfer"}
       /\ "XFER" \in h.pending_events => "DMA" \notin h.left \cup h.ints
  /\ Stage \in {"recheck", "DATA_BUSY", "DATA_ERROR", "SENDING_STOP"} =>
       "DMA" \notin h.left
  /\ Stage \in {"recheck", "DATA_BUSY"} /\ h.data_status \notin Failed =>
       "DMA" \notin h.ints
  /\ Stage = "DATA_ERROR" \/ "ERROR" \in h.pending_events =>
       h.data_status \in Failed
  /\ Stage = "SENDING_STOP" /\ h.data => "cmd" \in h.err

(* The command under way. *)
CmdInv ==
  /\ Stage = "SENDING_CMD" =>
       /\ h.cmd \in {<<h.mrq, "sbc">>, <<h.mrq, "cmd">>}
       /\ h.data => h.cmd = <<h.mrq, "cmd">>
  /\ Stage \in {"SENDING_DATA", "xfer", "recheck"} => h.cmd = None
  /\ Stage = "DATA_BUSY" /\ h.data_status \notin Failed => h.cmd = None

WarnInv == "end" \notin h.warn /\ "slot" \notin h.warn

(* The timer of a command is off when its event is there, and runs again   *)
(* only when its handler has.                                              *)
CtoInv ==
  /\ "CMD" \in h.pending_events \/ "cto" \in firing => "cto" \notin h.timers
  /\ Stage \in {"SENDING_DATA", "xfer", "recheck"} =>
       "cto" \notin h.timers \cup firing
  /\ Stage = "DATA_BUSY" /\ h.data_status \notin Failed =>
       "cto" \notin h.timers \cup firing
  /\ "cto" \notin h.warn

CmdBits == {"CMD_DONE", "CMD_ERROR"}
ErrorBits == {"DRTO_EBE", "DATA_ERROR"}
DataBits == {"DRTO_EBE", "DATA_ERROR", "DATA_OVER", "DMA"}

(* The command on the line is the one the driver waits for, and what comes *)
(* of it is still to come; a timer has expired only on a silent line.      *)
LineInv ==
  /\ h.line # None /\ "line" \notin h.hung =>
       /\ h.line = h.cmd /\ "CMD" \notin h.pending_events
       /\ h.ints \cap CmdBits = {}
  /\ "cto" \in firing => h.line = None \/ "line" \in h.hung

(* The end of a command is signalled or noted once, and without an error   *)
(* only if the card carried the command out.                               *)
AnswerInv ==
  /\ Stage = "IDLE" => h.cmd = None /\ h.state = "IDLE"
  /\ h.cmd # None => h.cmd[1] = h.mrq
  /\ "CMD" \in h.pending_events => h.ints \cap CmdBits = {} /\ h.cmd # None
  /\ h.ints \cap CmdBits # {} => h.cmd # None
  /\ h.cmd = None /\ Stage # "IDLE" => "cto" \notin h.timers \cup firing
  /\ "CMD" \in h.pending_events /\ h.cmd_status # "bad" =>
       h.cmd[2] \in h.carried
  /\ "CMD_DONE" \in h.ints /\ "CMD_ERROR" \notin h.ints =>
       h.cmd[2] \in h.carried
  /\ "CMD_ERROR" \in h.ints => "CMD_DONE" \in h.ints

(* An error that will end the transfer, whatever else comes. *)
Lost ==
  \/ h.data_status \in Failed
  \/ h.ints \cap ErrorBits # {}
  \/ "cmd" \in h.err

(* The data is over, without an error, only when the card has done it. *)
DataInv ==
  /\ ~h.data => h.left = {} /\ h.ints \cap DataBits = {}
  /\ h.data =>
       /\ h.owner = h.mrq \/ Lost
       /\ h.left = {} =>
            \/ "data" \in h.carried \/ Lost \/ "CMD_ERROR" \in h.ints
            \/ "CMD" \in h.pending_events /\ h.cmd_status = "bad"
       /\ "DATA" \in h.pending_events \/ "DATA_OVER" \in h.ints =>
            "OVER" \notin h.left \/ h.data_status \in Failed
       /\ "DATA" \in h.pending_events =>
            \/ h.ints \cap (ErrorBits \cup {"DATA_OVER"}) = {}
            \/ h.data_status \in Failed

(* What the card has carried out when the request is at a stage. *)
TruthInv ==
  /\ h.kind.sbc \/ h.kind.stop => h.kind.dir # "none"
  /\ Stage = "IDLE" /\ tsk # "end" =>
       h.carried = {} /\ h.err = {} /\ h.kind = NoKind
  /\ Stage = "SENDING_CMD" =>
       /\ h.err = {}
       /\ h.cmd[2] = "cmd" => /\ h.kind.sbc => "sbc" \in h.carried
                              /\ h.data <=> h.kind.dir # "none"
  /\ Stage \in {"SENDING_DATA", "xfer", "recheck", "DATA_BUSY",
                "DATA_ERROR"} =>
       /\ h.data /\ h.err = {} /\ "cmd" \in h.carried
       /\ h.kind.sbc => "sbc" \in h.carried
  /\ Stage = "SENDING_STOP" =>
       \/ "cmd" \in h.err \/ "data" \in h.err
       \/ /\ h.err = {} /\ ~h.kind.sbc /\ h.kind.stop
          /\ "cmd" \in h.carried /\ "data" \in h.carried
          /\ h.cmd = <<h.mrq, "stop">>
  /\ tsk = "end" => h.err # {} \/ Sent \subseteq h.carried

(* The core has at most one request out and then no result. *)
OutInv ==
  /\ h.mrq = NoMrq => out \subseteq {completing}
  /\ out # {} => good = NoMrq
  /\ tsk = "end" => completing # NoMrq

-----------------------------------------------------------------------------
(* The type of the host, with the sets of its fields named: the provers    *)
(* need not look into those that a step leaves alone.                      *)
Events == SUBSET {"CMD", "XFER", "DATA", "ERROR"}
CmdResults == {"none", "ok", "bad"}
DataResults == {"none", "ok", "drto_ebe", "bad"}
Armed == SUBSET Timers
Parts == SUBSET {"sbc", "cmd", "stop", "data"}
Leftovers == SUBSET {"DMA", "OVER"}
Hangs == SUBSET {"line", "data"}
Ints == SUBSET {"CMD_ERROR", "CMD_DONE", "DRTO_EBE", "DATA_ERROR", "DATA_OVER",
                "DMA"}
Warnings == SUBSET {"cto", "dto", "end", "slot"}
MaybeMrq == Mrqs \cup {NoMrq}
MaybeCmd == Cmds \cup {None}
Places == {"off", "xfer", "recheck", "end"} \cup States

HostRec ==
  [kind : KindType, mrq : MaybeMrq, state : States, cmd : MaybeCmd,
   data : BOOLEAN, pending_events : Events, cmd_status : CmdResults,
   data_status : DataResults, timers : Armed, fresh : Armed,
   tasklet : BOOLEAN, err : Parts, line : MaybeCmd, left : Leftovers,
   owner : MaybeMrq, hung : Hangs, ints : Ints, carried : Parts,
   warn : Warnings]

RestType ==
  /\ tsk \in Places /\ firing \in Armed
  /\ out \subseteq Mrqs /\ completing \in out \cup {NoMrq}
  /\ good \in MaybeMrq

Typed == h \in HostRec /\ RestType

(* It is the type of the model. *)
LEMMA TypeParts == TypeOK <=> Typed
BY DEF TypeOK, Typed, HostRec, RestType, Events, CmdResults, DataResults, Armed,
       Parts, Leftovers, Hangs, Ints, Warnings, MaybeMrq, MaybeCmd, Places

(* Values that the driver stores. *)
LEMMA Values ==
  /\ {} \in Events /\ {} \in Leftovers /\ {"DMA", "OVER"} \in Leftovers
  /\ {} \in Hangs /\ {} \in Ints /\ {} \in Armed /\ {} \in Parts
  /\ "none" \in CmdResults /\ "bad" \in CmdResults
  /\ "none" \in DataResults /\ "drto_ebe" \in DataResults
  /\ NoMrq \in MaybeMrq /\ None \in MaybeCmd /\ "cto" \in Timers
  /\ "dto" \in Timers /\ States \subseteq Places /\ NoKind \in KindType
  /\ "off" \in Places /\ "xfer" \in Places /\ "recheck" \in Places
  /\ "end" \in Places
  /\ \A st \in {"IDLE", "SENDING_CMD", "SENDING_DATA", "DATA_BUSY",
                "SENDING_STOP", "DATA_ERROR"} : st \in States
  /\ \A r \in Roles : r \in {"sbc", "cmd", "stop", "data"}
BY DEF Events, Leftovers, Hangs, Ints, Armed, Parts, CmdResults, DataResults,
       MaybeMrq, MaybeCmd, Timers, Places, NoKind, KindType, States, Roles

(* dw_mci_reset() empties the controller. *)
LEMMA ResetIs ==
  ASSUME NEW s \in HostRec, NEW u,
         u = dw_mci_reset(s)
  PROVE  /\ u \in HostRec /\ u.kind = s.kind /\ u.mrq = s.mrq
         /\ u.state = s.state /\ u.cmd = s.cmd /\ u.data = s.data
         /\ u.pending_events = s.pending_events /\ u.cmd_status = s.cmd_status
         /\ u.data_status = s.data_status /\ u.timers = s.timers
         /\ u.err = s.err /\ u.line = None /\ u.left = {} /\ u.owner = NoMrq
         /\ u.hung = {} /\ u.ints = {} /\ u.carried = s.carried
         /\ u.warn = s.warn
BY Values DEF dw_mci_reset, HostRec

(* dw_mci_stop_dma() ends the transfer as if it were complete. *)
LEMMA StopDmaIs ==
  ASSUME NEW s \in HostRec, NEW u,
         u = dw_mci_stop_dma(s)
  PROVE  /\ u \in HostRec /\ u.kind = s.kind /\ u.mrq = s.mrq
         /\ u.state = s.state /\ u.cmd = s.cmd /\ u.data = s.data
         /\ u.pending_events = s.pending_events \cup {"XFER"}
         /\ u.cmd_status = s.cmd_status /\ u.data_status = s.data_status
         /\ u.timers = s.timers /\ u.err = s.err /\ u.line = s.line
         /\ u.left = s.left \ {"DMA"} /\ u.owner = s.owner /\ u.hung = s.hung
         /\ u.ints = s.ints /\ u.carried = s.carried /\ u.warn = s.warn
BY DEF dw_mci_stop_dma, HostRec, Events, Leftovers

(* Arming a timer. *)
LEMMA ArmIs ==
  ASSUME NEW s \in HostRec, NEW t \in Timers, NEW u,
         u = Arm(s, t)
  PROVE  /\ u \in HostRec /\ u.kind = s.kind /\ u.mrq = s.mrq
         /\ u.state = s.state /\ u.cmd = s.cmd /\ u.data = s.data
         /\ u.pending_events = s.pending_events /\ u.cmd_status = s.cmd_status
         /\ u.data_status = s.data_status /\ u.err = s.err /\ u.line = s.line
         /\ u.left = s.left /\ u.owner = s.owner /\ u.hung = s.hung
         /\ u.ints = s.ints /\ u.carried = s.carried /\ u.warn = s.warn
         /\ u.timers \subseteq s.timers \cup {t}
         /\ t = "cto" /\ "CMD" \in s.pending_events => u.timers = s.timers
BY DEF Arm, HostRec, Armed

(* dw_mci_start_command() arms the timer if a response is expected and the *)
(* event is not there yet.                                                 *)
LEMMA StartCommandIs ==
  ASSUME NEW s \in HostRec, NEW c \in Cmds, NEW u,
         u = dw_mci_start_command(s, c)
  PROVE  /\ u \in HostRec /\ u.kind = s.kind /\ u.mrq = s.mrq
         /\ u.state = s.state /\ u.cmd = c /\ u.data = s.data
         /\ u.pending_events = s.pending_events /\ u.cmd_status = s.cmd_status
         /\ u.data_status = s.data_status /\ u.err = s.err /\ u.line = c
         /\ u.left = s.left /\ u.owner = s.owner /\ u.hung = s.hung \ {"line"}
         /\ u.ints = s.ints /\ u.carried = s.carried /\ u.warn = s.warn
         /\ u.timers \subseteq s.timers \cup {"cto"}
         /\ "CMD" \in s.pending_events => u.timers = s.timers
<1> DEFINE s1 == [s EXCEPT !.cmd = c, !.line = c, !.hung = @ \ {"line"}]
<1>1. /\ s1 \in HostRec /\ s1.kind = s.kind /\ s1.mrq = s.mrq
      /\ s1.state = s.state /\ s1.cmd = c /\ s1.data = s.data
      /\ s1.pending_events = s.pending_events /\ s1.cmd_status = s.cmd_status
      /\ s1.data_status = s.data_status /\ s1.timers = s.timers
      /\ s1.err = s.err /\ s1.line = c /\ s1.left = s.left
      /\ s1.owner = s.owner /\ s1.hung = s.hung \ {"line"} /\ s1.ints = s.ints
      /\ s1.carried = s.carried /\ s1.warn = s.warn
  BY DEF HostRec, MaybeCmd, Hangs
<1>2. u = Arm(s1, "cto") \/ u = s1
  BY DEF dw_mci_start_command
<1>3. "cto" \in Timers
  BY DEF Timers
<1> HIDE DEF s1
<1> QED BY <1>1, <1>2, <1>3, ArmIs

(* __dw_mci_start_request() forgets the events of the last one. *)
LEMMA StartRequestIs ==
  ASSUME NEW s \in HostRec, NEW c \in Cmds, NEW d,
         d = (c[2] = "cmd" /\ s.kind.dir # "none"), NEW u,
         u = __dw_mci_start_request(s, c)
  PROVE  /\ u \in HostRec /\ u.kind = s.kind /\ u.mrq = s.mrq
         /\ u.state = s.state /\ u.cmd = c /\ u.data = d
         /\ u.pending_events = {} /\ u.cmd_status = "none"
         /\ u.data_status = "none" /\ u.err = s.err /\ u.line = c
         /\ u.left = IF d THEN {"DMA", "OVER"} ELSE {}
         /\ u.owner = IF d THEN s.mrq ELSE NoMrq
         /\ u.hung = s.hung \ {"line"} /\ u.ints = s.ints
         /\ u.carried = s.carried /\ u.warn = s.warn
         /\ u.timers \subseteq s.timers \cup {"cto"}
<1>1. PICK l \in Leftovers : l = IF d THEN {"DMA", "OVER"} ELSE {}
  BY Values
<1>2. PICK o \in MaybeMrq : o = IF d THEN s.mrq ELSE NoMrq
  BY Values DEF HostRec
<1>3. PICK s1 : s1 = [s EXCEPT !.pending_events = {}, !.cmd_status = "none",
                        !.data_status = "none", !.data = d, !.left = l,
                        !.owner = o]
  OBVIOUS
<1>4. d \in BOOLEAN
  OBVIOUS
<1>5. /\ s1 \in HostRec /\ s1.kind = s.kind /\ s1.mrq = s.mrq
      /\ s1.state = s.state /\ s1.cmd = s.cmd /\ s1.data = d
      /\ s1.pending_events = {} /\ s1.cmd_status = "none"
      /\ s1.data_status = "none" /\ s1.timers = s.timers /\ s1.err = s.err
      /\ s1.line = s.line /\ s1.left = l /\ s1.owner = o /\ s1.hung = s.hung
      /\ s1.ints = s.ints /\ s1.carried = s.carried /\ s1.warn = s.warn
  BY <1>3, <1>4, Values DEF HostRec
<1>6. u = dw_mci_start_command(s1, c)
  BY <1>1, <1>2, <1>3 DEF __dw_mci_start_request
<1> QED BY <1>1, <1>2, <1>5, <1>6, StartCommandIs

(* dw_mci_command_complete() keeps the result of the command. *)
LEMMA CommandCompleteIs ==
  ASSUME NEW s \in HostRec, NEW r \in {"sbc", "cmd", "stop", "data"}, NEW u,
         u = dw_mci_command_complete(s, r)
  PROVE  /\ u \in HostRec /\ u.kind = s.kind /\ u.mrq = s.mrq
         /\ u.state = s.state /\ u.cmd = s.cmd /\ u.data = s.data
         /\ u.pending_events = s.pending_events /\ u.cmd_status = "none"
         /\ u.data_status = s.data_status /\ u.timers = s.timers
         /\ u.line = s.line /\ u.left = s.left /\ u.owner = s.owner
         /\ u.hung = s.hung /\ u.ints = s.ints /\ u.carried = s.carried
         /\ u.warn = s.warn /\ u.err \subseteq s.err \cup {r}
         /\ s.cmd_status = "bad" => u.err = s.err \cup {r}
         /\ s.cmd_status # "bad" => u.err = s.err \ {r}
BY Values DEF dw_mci_command_complete, HostRec, Parts

(* Taking an event, with the warning if its timer is on. *)
LEMMA ClearIs ==
  ASSUME NEW s \in HostRec, NEW e, NEW t \in Timers, NEW u,
         u = Clear(s, e, t)
  PROVE  /\ u \in HostRec /\ u.kind = s.kind /\ u.mrq = s.mrq
         /\ u.state = s.state /\ u.cmd = s.cmd /\ u.data = s.data
         /\ u.pending_events = s.pending_events \ {e}
         /\ u.cmd_status = s.cmd_status /\ u.data_status = s.data_status
         /\ u.timers = s.timers \ {t} /\ u.err = s.err /\ u.line = s.line
         /\ u.left = s.left /\ u.owner = s.owner /\ u.hung = s.hung
         /\ u.ints = s.ints /\ u.carried = s.carried
         /\ u.warn = s.warn \cup (s.timers \cap {t})
BY DEF Clear, HostRec, Timers, Events, Armed, Warnings

(* The handler on a data error. *)
LEMMA DataErrorIs ==
  ASSUME NEW s \in HostRec, NEW mask, NEW u,
         u = DataError(s, mask)
  PROVE  /\ u \in HostRec /\ u.kind = s.kind /\ u.mrq = s.mrq
         /\ u.state = s.state /\ u.cmd = s.cmd /\ u.data = s.data
         /\ u.cmd_status = s.cmd_status /\ u.timers = s.timers /\ u.err = s.err
         /\ u.line = s.line /\ u.left = s.left /\ u.owner = s.owner
         /\ u.hung = s.hung /\ u.ints = s.ints /\ u.carried = s.carried
         /\ u.warn = s.warn
         /\ u.pending_events \subseteq s.pending_events \cup {"ERROR"}
         /\ u.data_status = s.data_status \/ u.data_status \in Failed
         /\ s.pending_events \subseteq u.pending_events
         /\ "ERROR" \in u.pending_events /\ "ERROR" \notin s.pending_events =>
              u.data_status \in Failed
         /\ mask \cap ErrorBits # {} => u.data_status \in Failed
BY DEF DataError, HostRec, Failed, Events, DataResults, ErrorBits

(* The handler at the end of the data. *)
LEMMA DataOverIs ==
  ASSUME NEW s \in HostRec, NEW mask, NEW u,
         u = DataOver(s, mask)
  PROVE  /\ u \in HostRec /\ u.kind = s.kind /\ u.mrq = s.mrq
         /\ u.state = s.state /\ u.cmd = s.cmd /\ u.data = s.data
         /\ u.cmd_status = s.cmd_status /\ u.err = s.err /\ u.line = s.line
         /\ u.left = s.left /\ u.owner = s.owner /\ u.hung = s.hung
         /\ u.ints = s.ints /\ u.carried = s.carried /\ u.warn = s.warn
         /\ u.pending_events \subseteq s.pending_events \cup {"DATA"}
         /\ s.pending_events \subseteq u.pending_events
         /\ "DATA_OVER" \notin mask => u.pending_events = s.pending_events
         /\ u.data_status \in Failed <=> s.data_status \in Failed
         /\ u.timers \in {s.timers, s.timers \ {"dto"}}
BY DEF DataOver, HostRec, Failed, Events, DataResults, Armed

(* The handler at the end of a command turns its timer off. *)
LEMMA CmdIntsIs ==
  ASSUME NEW s \in HostRec, NEW mask, NEW u,
         u = CmdInts(s, mask)
  PROVE  /\ u \in HostRec /\ u.kind = s.kind /\ u.mrq = s.mrq
         /\ u.state = s.state /\ u.cmd = s.cmd /\ u.data = s.data
         /\ u.data_status = s.data_status /\ u.err = s.err /\ u.line = s.line
         /\ u.left = s.left /\ u.owner = s.owner /\ u.hung = s.hung
         /\ u.ints = s.ints /\ u.carried = s.carried /\ u.warn = s.warn
         /\ \/ u.pending_events = s.pending_events
            \/ u.pending_events = s.pending_events \cup {"CMD"}
         /\ u.timers \in {s.timers, s.timers \ {"cto"}}
         /\ "cto" \in u.timers => u.pending_events = s.pending_events
         /\ mask \cap CmdBits = {} =>
              u.pending_events = s.pending_events /\ u.cmd_status = s.cmd_status
         /\ s.cmd_status = "bad" \/ "CMD_ERROR" \in mask => u.cmd_status = "bad"
         /\ "CMD_DONE" \in mask => "CMD" \in u.pending_events
<1>1. PICK s1 : s1 = [s EXCEPT !.timers = @ \ {"cto"}, !.cmd_status = "bad",
                                !.pending_events = @ \cup {"CMD"}]
  OBVIOUS
<1>2. /\ s1 \in HostRec /\ s1.kind = s.kind /\ s1.mrq = s.mrq
      /\ s1.state = s.state /\ s1.cmd = s.cmd /\ s1.data = s.data
      /\ s1.pending_events = s.pending_events \cup {"CMD"}
      /\ s1.cmd_status = "bad" /\ s1.data_status = s.data_status
      /\ s1.timers = s.timers \ {"cto"} /\ s1.err = s.err /\ s1.line = s.line
      /\ s1.left = s.left /\ s1.owner = s.owner /\ s1.hung = s.hung
      /\ s1.ints = s.ints /\ s1.carried = s.carried /\ s1.warn = s.warn
  BY <1>1, Values DEF HostRec, Events, Armed
<1>3. PICK s2 \in HostRec : s2 = IF "CMD_ERROR" \in mask THEN s1 ELSE s
  BY <1>2
<1>4. PICK v \in CmdResults :
        v = IF s2.cmd_status = "none" THEN "ok" ELSE s2.cmd_status
  BY DEF HostRec, CmdResults
<1>5. PICK s3 : s3 = [s2 EXCEPT !.timers = @ \ {"cto"}, !.cmd_status = v,
                        !.pending_events = @ \cup {"CMD"}, !.tasklet = TRUE]
  OBVIOUS
<1>6. /\ s3 \in HostRec /\ s3.kind = s2.kind /\ s3.mrq = s2.mrq
      /\ s3.state = s2.state /\ s3.cmd = s2.cmd /\ s3.data = s2.data
      /\ s3.pending_events = s2.pending_events \cup {"CMD"}
      /\ s3.cmd_status = v /\ s3.data_status = s2.data_status
      /\ s3.timers = s2.timers \ {"cto"} /\ s3.err = s2.err
      /\ s3.line = s2.line /\ s3.left = s2.left /\ s3.owner = s2.owner
      /\ s3.hung = s2.hung /\ s3.ints = s2.ints /\ s3.carried = s2.carried
      /\ s3.warn = s2.warn
  BY <1>5 DEF HostRec, Events, Armed
<1>7. u = IF "CMD_DONE" \in mask THEN s3 ELSE s2
  BY <1>1, <1>3, <1>4, <1>5 DEF CmdInts
<1> QED BY <1>2, <1>3, <1>4, <1>6, <1>7 DEF CmdBits

(* The handler at the end of the DMA. *)
LEMMA DmaDoneIs ==
  ASSUME NEW s \in HostRec, NEW mask, NEW u,
         u = DmaDone(s, mask)
  PROVE  /\ u \in HostRec /\ u.kind = s.kind /\ u.mrq = s.mrq
         /\ u.state = s.state /\ u.cmd = s.cmd /\ u.data = s.data
         /\ u.cmd_status = s.cmd_status /\ u.data_status = s.data_status
         /\ u.timers = s.timers /\ u.err = s.err /\ u.line = s.line
         /\ u.left = s.left /\ u.owner = s.owner /\ u.hung = s.hung
         /\ u.ints = s.ints /\ u.carried = s.carried /\ u.warn = s.warn
         /\ \/ u.pending_events = s.pending_events
            \/ u.pending_events = s.pending_events \cup {"XFER"}
         /\ u.pending_events # s.pending_events => "DMA" \in mask
BY DEF DmaDone, HostRec, Events

(* What the card carries out. *)
LEMMA CarriesIs ==
  ASSUME NEW s \in HostRec, NEW m,
         NEW r \in {"sbc", "cmd", "stop", "data"}, NEW u,
         u = Carries(s, m, r)
  PROVE  /\ u \in HostRec /\ u.kind = s.kind /\ u.mrq = s.mrq
         /\ u.state = s.state /\ u.cmd = s.cmd /\ u.data = s.data
         /\ u.pending_events = s.pending_events /\ u.cmd_status = s.cmd_status
         /\ u.data_status = s.data_status /\ u.timers = s.timers
         /\ u.err = s.err /\ u.line = s.line /\ u.left = s.left
         /\ u.owner = s.owner /\ u.hung = s.hung /\ u.ints = s.ints
         /\ u.warn = s.warn /\ s.carried \subseteq u.carried
         /\ m = s.mrq => r \in u.carried
         /\ m # s.mrq => u.carried = s.carried
BY DEF Carries, HostRec, Parts

-----------------------------------------------------------------------------
(* The inductive invariant; Timely joins it when no timer is late. *)
IInv == Typed /\ MrqInv /\ DmaInv /\ CmdInv /\ WarnInv

Timely == CtoInv /\ LineInv /\ AnswerInv /\ DataInv /\ TruthInv /\ OutInv

Keeps == IInv' /\ (~LateTimers /\ Timely => Timely')

(* What all steps but those of the core do, as the core sees it. *)
Grows ==
  UNCHANGED <<out, good>> /\ h'.kind = h.kind /\ h.carried \subseteq h'.carried

(* What every step outside the tasklet does, and the tasklet when it only  *)
(* looks: the request stays at its stage, events come and are not taken.   *)
StaysPut ==
  /\ h' \in HostRec /\ RestType'
  /\ Stage' = Stage
  /\ tsk' = "end" => h'.state = "IDLE"
  /\ tsk' = "SENDING_CMD" => h'.state = "SENDING_CMD"
  /\ h'.mrq = h.mrq /\ h'.cmd = h.cmd /\ h'.data = h.data /\ h'.warn = h.warn
  /\ h.mrq # NoMrq => /\ h'.kind = h.kind /\ h'.err = h.err
                      /\ out' = out /\ completing' = completing
  /\ "DMA" \in h'.left => "DMA" \in h.left /\ h'.owner = h.owner
  /\ "DMA" \in h'.ints =>
       "DMA" \in h.ints \/ ("DMA" \in h.left /\ "DMA" \notin h'.left)
  /\ "XFER" \in h'.pending_events =>
       \/ "XFER" \in h.pending_events
       \/ "DMA" \in h.ints /\ "DMA" \notin h'.ints
  /\ "ERROR" \in h'.pending_events =>
       "ERROR" \in h.pending_events \/ h'.data_status \in Failed
  /\ h.data_status \in Failed => h'.data_status \in Failed
  /\ h'.timers \subseteq h.timers \cup {"dto"}
  /\ firing' \subseteq firing \cup (h.timers \ h'.timers)
  /\ "CMD" \in h'.pending_events =>
       \/ "CMD" \in h.pending_events \/ "cto" \notin h'.timers
       \/ "cto" \in firing

(* Such a step keeps the invariants. *)
LEMMA StaysPutKeeps ==
  ASSUME IInv, StaysPut
  PROVE  IInv' /\ (CtoInv => CtoInv')
<1>1. Typed'
  BY DEF StaysPut, Typed
<1>2. MrqInv'
  BY DEF IInv, MrqInv, StaysPut
<1>3. DmaInv'
  BY DEF IInv, MrqInv, DmaInv, StaysPut
<1>4. CmdInv' /\ WarnInv'
  BY DEF IInv, CmdInv, WarnInv, StaysPut
<1>5. ASSUME CtoInv PROVE CtoInv'
  BY <1>5 DEF CtoInv, IInv, WarnInv, StaysPut
<1> QED BY <1>1, <1>2, <1>3, <1>4, <1>5 DEF IInv

(* Such a step that the core does not see, while the card may go on. *)
Quiet ==
  /\ StaysPut
  /\ UNCHANGED <<out, completing, good>>
  /\ tsk' = "end" <=> tsk = "end"
  /\ h'.kind = h.kind /\ h'.err = h.err /\ h.carried \subseteq h'.carried

(* It keeps what is known of the result. *)
LEMMA QuietKeeps ==
  ASSUME IInv, Quiet, TruthInv, OutInv, h.mrq = NoMrq => h'.carried = h.carried
  PROVE  TruthInv' /\ OutInv'
<1>1. /\ Stage' = Stage /\ h'.kind = h.kind /\ h'.err = h.err
      /\ h.carried \subseteq h'.carried /\ h'.cmd = h.cmd /\ h'.data = h.data
      /\ h'.mrq = h.mrq
      /\ tsk' = "end" <=> tsk = "end"
      /\ Stage = "IDLE" => h'.carried = h.carried
  BY DEF Quiet, StaysPut, IInv, MrqInv
<1>2. Sent' = Sent
  BY <1>1 DEF Sent
<1>3. TruthInv'
  BY <1>1, <1>2 DEF TruthInv
<1>4. OutInv'
  BY <1>1 DEF OutInv, Quiet
<1> QED BY <1>3, <1>4

-----------------------------------------------------------------------------
(* Steps at which the request stays where it is. *)

(* The handler. *)
LEMMA InterruptStep ==
  ASSUME IInv, dw_mci_interrupt
  PROVE  Keeps /\ Grows
<1> DEFINE mask == h.ints
<1>1. PICK s0 : s0 = [h EXCEPT !.ints = {}]
  OBVIOUS
<1>2. /\ s0 \in HostRec /\ s0.kind = h.kind /\ s0.mrq = h.mrq
      /\ s0.state = h.state /\ s0.cmd = h.cmd /\ s0.data = h.data
      /\ s0.pending_events = h.pending_events /\ s0.cmd_status = h.cmd_status
      /\ s0.data_status = h.data_status /\ s0.timers = h.timers
      /\ s0.err = h.err /\ s0.line = h.line /\ s0.left = h.left
      /\ s0.owner = h.owner /\ s0.hung = h.hung /\ s0.ints = {}
      /\ s0.carried = h.carried /\ s0.warn = h.warn
  BY <1>1, Values DEF IInv, Typed, HostRec
<1>3. PICK s1 : s1 = DataError(s0, mask)
  OBVIOUS
<1>4. PICK s2 : s2 = DataOver(s1, mask)
  OBVIOUS
<1>5. PICK s3 : s3 = CmdInts(s2, mask)
  OBVIOUS
<1>6. /\ h' = DmaDone(s3, mask)
      /\ UNCHANGED <<tsk, firing, out, completing, good>>
  BY <1>1, <1>3, <1>4, <1>5 DEF dw_mci_interrupt
<1>7. /\ s1 \in HostRec /\ s2 \in HostRec /\ s3 \in HostRec /\ h' \in HostRec
  BY <1>2, <1>3, <1>4, <1>5, <1>6, DataErrorIs, DataOverIs, CmdIntsIs, DmaDoneIs
<1>8. /\ h'.mrq = h.mrq /\ h'.cmd = h.cmd /\ h'.data = h.data
      /\ h'.warn = h.warn /\ h'.kind = h.kind /\ h'.err = h.err
      /\ h'.state = h.state /\ h'.left = h.left /\ h'.owner = h.owner
      /\ h'.ints = {} /\ h'.line = h.line /\ h'.hung = h.hung
      /\ h'.carried = h.carried
  <2>1. /\ s1 \in HostRec /\ s1.kind = s0.kind /\ s1.mrq = s0.mrq
        /\ s1.state = s0.state /\ s1.cmd = s0.cmd /\ s1.data = s0.data
        /\ s1.cmd_status = s0.cmd_status /\ s1.timers = s0.timers
        /\ s1.err = s0.err /\ s1.line = s0.line /\ s1.left = s0.left
        /\ s1.owner = s0.owner /\ s1.hung = s0.hung /\ s1.ints = s0.ints
        /\ s1.carried = s0.carried /\ s1.warn = s0.warn
    BY <1>2, <1>3, DataErrorIs
  <2>2. /\ s2 \in HostRec /\ s2.kind = s1.kind /\ s2.mrq = s1.mrq
        /\ s2.state = s1.state /\ s2.cmd = s1.cmd /\ s2.data = s1.data
        /\ s2.cmd_status = s1.cmd_status /\ s2.err = s1.err
        /\ s2.line = s1.line /\ s2.left = s1.left /\ s2.owner = s1.owner
        /\ s2.hung = s1.hung /\ s2.ints = s1.ints /\ s2.carried = s1.carried
        /\ s2.warn = s1.warn
    BY <1>4, <1>7, DataOverIs
  <2>3. /\ s3 \in HostRec /\ s3.kind = s2.kind /\ s3.mrq = s2.mrq
        /\ s3.state = s2.state /\ s3.cmd = s2.cmd /\ s3.data = s2.data
        /\ s3.data_status = s2.data_status /\ s3.err = s2.err
        /\ s3.line = s2.line /\ s3.left = s2.left /\ s3.owner = s2.owner
        /\ s3.hung = s2.hung /\ s3.ints = s2.ints /\ s3.carried = s2.carried
        /\ s3.warn = s2.warn
    BY <1>5, <1>7, CmdIntsIs
  <2>4. /\ h' \in HostRec /\ h'.kind = s3.kind /\ h'.mrq = s3.mrq
        /\ h'.state = s3.state /\ h'.cmd = s3.cmd /\ h'.data = s3.data
        /\ h'.cmd_status = s3.cmd_status /\ h'.data_status = s3.data_status
        /\ h'.timers = s3.timers /\ h'.err = s3.err /\ h'.line = s3.line
        /\ h'.left = s3.left /\ h'.owner = s3.owner /\ h'.hung = s3.hung
        /\ h'.ints = s3.ints /\ h'.carried = s3.carried /\ h'.warn = s3.warn
    BY <1>6, <1>7, DmaDoneIs
  <2> QED BY <1>2, <2>1, <2>2, <2>3, <2>4
<1>9. /\ "XFER" \in h'.pending_events =>
           "XFER" \in h.pending_events \/ "DMA" \in h.ints
      /\ "ERROR" \in h'.pending_events =>
           "ERROR" \in h.pending_events \/ h'.data_status \in Failed
      /\ h.data_status \in Failed => h'.data_status \in Failed
      /\ h.ints \cap ErrorBits # {} => h'.data_status \in Failed
      /\ "DATA" \in h'.pending_events =>
           "DATA" \in h.pending_events \/ "DATA_OVER" \in h.ints
  <2>1. /\ "XFER" \in s3.pending_events => "XFER" \in h.pending_events
        /\ "ERROR" \in s3.pending_events =>
             "ERROR" \in h.pending_events \/ s3.data_status \in Failed
        /\ h.data_status \in Failed => s3.data_status \in Failed
        /\ h.ints \cap ErrorBits # {} => s3.data_status \in Failed
        /\ "DATA" \in s3.pending_events =>
             "DATA" \in h.pending_events \/ "DATA_OVER" \in h.ints
    <3>1. /\ "XFER" \in s2.pending_events => "XFER" \in h.pending_events
          /\ "ERROR" \in s2.pending_events =>
               "ERROR" \in h.pending_events \/ s2.data_status \in Failed
          /\ h.data_status \in Failed => s2.data_status \in Failed
          /\ h.ints \cap ErrorBits # {} => s2.data_status \in Failed
          /\ "DATA" \in s2.pending_events =>
               "DATA" \in h.pending_events \/ "DATA_OVER" \in h.ints
      BY <1>2, <1>3, <1>4, <1>7, DataErrorIs, DataOverIs
    <3> QED BY <1>5, <1>7, <3>1, CmdIntsIs
  <2> QED BY <1>6, <1>7, <2>1, DmaDoneIs
<1>10. /\ h'.timers \subseteq h.timers
       /\ "CMD" \in h'.pending_events =>
            "CMD" \in h.pending_events \/ "cto" \notin h'.timers
  <2>1. /\ s2.timers \subseteq h.timers
        /\ "CMD" \in s2.pending_events => "CMD" \in h.pending_events
    BY <1>2, <1>3, <1>4, <1>7, DataErrorIs, DataOverIs
  <2>2. /\ s3.timers \subseteq h.timers
        /\ "CMD" \in s3.pending_events =>
             "CMD" \in h.pending_events \/ "cto" \notin s3.timers
    BY <1>5, <1>7, <2>1, CmdIntsIs
  <2> QED BY <1>6, <1>7, <2>2, DmaDoneIs
<1>11. /\ "CMD" \in h'.pending_events /\ "CMD" \notin h.pending_events =>
            h.ints \cap CmdBits # {}
       /\ h.cmd_status = "bad" \/ "CMD_ERROR" \in h.ints =>
            h'.cmd_status = "bad"
       /\ "CMD_DONE" \in h.ints => "CMD" \in h'.pending_events
       /\ "CMD" \in h.pending_events => "CMD" \in h'.pending_events
       /\ h.ints \cap CmdBits = {} => h'.cmd_status = h.cmd_status
  <2>1. /\ "CMD" \in s2.pending_events <=> "CMD" \in h.pending_events
        /\ s2.cmd_status = h.cmd_status
    BY <1>2, <1>3, <1>4, <1>7, DataErrorIs, DataOverIs
  <2>2. /\ "CMD" \in s3.pending_events /\ "CMD" \notin h.pending_events =>
             h.ints \cap CmdBits # {}
        /\ h.cmd_status = "bad" \/ "CMD_ERROR" \in h.ints =>
             s3.cmd_status = "bad"
        /\ "CMD_DONE" \in h.ints => "CMD" \in s3.pending_events
        /\ "CMD" \in h.pending_events => "CMD" \in s3.pending_events
        /\ h.ints \cap CmdBits = {} => s3.cmd_status = h.cmd_status
    BY <1>5, <1>7, <2>1, CmdIntsIs
  <2> QED BY <1>6, <1>7, <2>2, DmaDoneIs
<1>12. StaysPut
  BY <1>6, <1>7, <1>8, <1>9, <1>10
     DEF StaysPut, RestType, Stage, IInv, Typed, MrqInv
<1>13. Quiet /\ Grows
  BY <1>6, <1>8, <1>12 DEF Quiet, Grows
<1>14. ASSUME Timely PROVE Timely'
  <2>1. LineInv'
    BY <1>6, <1>8, <1>11, <1>14 DEF Timely, LineInv
  <2>2. AnswerInv'
    BY <1>6, <1>8, <1>10, <1>11, <1>12, <1>14
       DEF Timely, AnswerInv, CmdBits, StaysPut
  <2>3. DataInv'
    BY <1>8, <1>9, <1>11, <1>14 DEF Timely, DataInv, AnswerInv, Lost
  <2> QED
    BY <1>8, <1>12, <1>13, <1>14, <2>1, <2>2, <2>3, StaysPutKeeps, QuietKeeps
       DEF Timely
<1> QED BY <1>12, <1>13, <1>14, StaysPutKeeps DEF Keeps

(* A timer runs out. *)
LEMMA ExpiryStep ==
  ASSUME IInv, NEW t \in Timers, TimerExpires(t)
  PROVE  Keeps /\ Grows
<1>1. /\ h' \in HostRec /\ h'.kind = h.kind /\ h'.mrq = h.mrq
      /\ h'.state = h.state /\ h'.cmd = h.cmd /\ h'.data = h.data
      /\ h'.pending_events = h.pending_events /\ h'.cmd_status = h.cmd_status
      /\ h'.data_status = h.data_status /\ h'.timers = h.timers \ {t}
      /\ h'.err = h.err /\ h'.line = h.line /\ h'.left = h.left
      /\ h'.owner = h.owner /\ h'.hung = h.hung /\ h'.ints = h.ints
      /\ h'.carried = h.carried /\ h'.warn = h.warn
  BY DEF TimerExpires, IInv, Typed, HostRec, Armed
<1>2. /\ firing' = firing \cup {t} /\ t \in h.timers
      /\ UNCHANGED <<tsk, out, completing, good>>
      /\ t = "cto" => h.line = None \/ "line" \in h.hung
  BY DEF TimerExpires
<1>3. StaysPut
  BY <1>1, <1>2
     DEF StaysPut, RestType, Armed, Stage, IInv, Typed, MrqInv
<1>4. Quiet /\ Grows
  BY <1>1, <1>2, <1>3 DEF Quiet, Grows
<1>5. ASSUME Timely PROVE Timely'
  <2>1. LineInv' /\ AnswerInv'
    BY <1>1, <1>2, <1>3, <1>5 DEF Timely, LineInv, AnswerInv, StaysPut
  <2>2. DataInv'
    BY <1>1, <1>2, <1>3, <1>5 DEF Timely, DataInv, Lost
  <2> QED
    BY <1>1, <1>2, <1>3, <1>4, <1>5, <2>1, <2>2, StaysPutKeeps, QuietKeeps
       DEF Timely
<1> QED BY <1>3, <1>4, <1>5, StaysPutKeeps DEF Keeps

(* The handler of a command's timer. *)
LEMMA CtoStep ==
  ASSUME IInv, dw_mci_cto_timer
  PROVE  Keeps /\ Grows
<1>1. /\ h' \in HostRec /\ h'.kind = h.kind /\ h'.mrq = h.mrq
      /\ h'.state = h.state /\ h'.cmd = h.cmd /\ h'.data = h.data
      /\ h'.data_status = h.data_status /\ h'.timers = h.timers
      /\ h'.err = h.err /\ h'.line = h.line /\ h'.left = h.left
      /\ h'.owner = h.owner /\ h'.hung = h.hung /\ h'.ints = h.ints
      /\ h'.carried = h.carried /\ h'.warn = h.warn
      /\ \/ h'.pending_events = h.pending_events /\ h'.cmd_status = h.cmd_status
         \/ /\ h'.pending_events = h.pending_events \cup {"CMD"}
            /\ h'.cmd_status = "bad" /\ h.ints \cap CmdBits = {}
            /\ h.state # "IDLE"
  BY Values DEF dw_mci_cto_timer, IInv, Typed, HostRec, Events, CmdBits
<1>2. /\ firing' = firing \ {"cto"} /\ "cto" \in firing
      /\ UNCHANGED <<tsk, out, completing, good>>
  BY DEF dw_mci_cto_timer
<1>3. StaysPut
  BY <1>1, <1>2
     DEF StaysPut, RestType, Armed, Stage, IInv, Typed, MrqInv
<1>4. Quiet /\ Grows
  BY <1>1, <1>2, <1>3 DEF Quiet, Grows
<1>5. ASSUME Timely PROVE Timely'
  <2>1. LineInv' /\ AnswerInv'
    BY <1>1, <1>2, <1>3, <1>5 DEF Timely, LineInv, AnswerInv, StaysPut
  <2>2. DataInv'
    BY <1>1, <1>2, <1>3, <1>5 DEF Timely, DataInv, Lost
  <2> QED
    BY <1>1, <1>2, <1>3, <1>4, <1>5, <2>1, <2>2, StaysPutKeeps, QuietKeeps
       DEF Timely
<1> QED BY <1>3, <1>4, <1>5, StaysPutKeeps DEF Keeps

(* The handler of the data timer. *)
LEMMA DtoStep ==
  ASSUME IInv, dw_mci_dto_timer
  PROVE  Keeps /\ Grows
<1>1. /\ h' \in HostRec /\ h'.kind = h.kind /\ h'.mrq = h.mrq
      /\ h'.state = h.state /\ h'.cmd = h.cmd /\ h'.data = h.data
      /\ h'.cmd_status = h.cmd_status /\ h'.timers = h.timers /\ h'.err = h.err
      /\ h'.line = h.line /\ h'.left = h.left /\ h'.owner = h.owner
      /\ h'.hung = h.hung /\ h'.ints = h.ints /\ h'.carried = h.carried
      /\ h'.warn = h.warn
      /\ h'.pending_events \subseteq h.pending_events \cup {"ERROR", "DATA"}
      /\ \/ /\ h'.pending_events = h.pending_events
            /\ h'.data_status = h.data_status
         \/ h'.data_status = "drto_ebe"
  BY Values DEF dw_mci_dto_timer, IInv, Typed, HostRec, Events
<1>2. /\ firing' = firing \ {"dto"}
      /\ UNCHANGED <<tsk, out, completing, good>>
  BY DEF dw_mci_dto_timer
<1>3. StaysPut
  BY <1>1, <1>2
     DEF StaysPut, RestType, Armed, Stage, IInv, Typed, MrqInv, Failed
<1>4. Quiet /\ Grows
  BY <1>1, <1>2, <1>3 DEF Quiet, Grows
<1>5. ASSUME Timely PROVE Timely'
  <2>1. LineInv' /\ AnswerInv'
    BY <1>1, <1>2, <1>3, <1>5 DEF Timely, LineInv, AnswerInv, StaysPut, Failed
  <2>2. DataInv'
    BY <1>1, <1>2, <1>3, <1>5 DEF Timely, DataInv, Lost, Failed
  <2> QED
    BY <1>1, <1>2, <1>3, <1>4, <1>5, <2>1, <2>2, StaysPutKeeps, QuietKeeps
       DEF Timely
<1> QED BY <1>3, <1>4, <1>5, StaysPutKeeps DEF Keeps

(* The tasklet starts in the state it has stored. *)
LEMMA RunsStep ==
  ASSUME IInv, TaskletRuns
  PROVE  Keeps /\ Grows
<1>1. /\ h' \in HostRec /\ h'.kind = h.kind /\ h'.mrq = h.mrq
      /\ h'.state = h.state /\ h'.cmd = h.cmd /\ h'.data = h.data
      /\ h'.pending_events = h.pending_events /\ h'.cmd_status = h.cmd_status
      /\ h'.data_status = h.data_status /\ h'.timers = h.timers
      /\ h'.err = h.err /\ h'.line = h.line /\ h'.left = h.left
      /\ h'.owner = h.owner /\ h'.hung = h.hung /\ h'.ints = h.ints
      /\ h'.carried = h.carried /\ h'.warn = h.warn
  BY DEF TaskletRuns, IInv, Typed, HostRec
<1>2. /\ tsk = "off" /\ tsk' = h.state
      /\ UNCHANGED <<firing, out, completing, good>>
  BY DEF TaskletRuns
<1>3. h.state \in States /\ h.state \notin {"off", "end"}
  BY DEF IInv, Typed, HostRec, States
<1>4. StaysPut
  BY <1>1, <1>2, <1>3
     DEF StaysPut, RestType, Places, Stage, IInv, Typed, MrqInv
<1>5. Quiet /\ Grows
  BY <1>1, <1>2, <1>3, <1>4 DEF Quiet, Grows
<1>6. ASSUME Timely PROVE Timely'
  <2>1. LineInv' /\ AnswerInv'
    BY <1>1, <1>2, <1>3, <1>4, <1>6 DEF Timely, LineInv, AnswerInv, StaysPut
  <2>2. DataInv'
    BY <1>1, <1>2, <1>3, <1>4, <1>6 DEF Timely, DataInv, Lost
  <2> QED
    BY <1>1, <1>2, <1>3, <1>4, <1>5, <1>6, <2>1, <2>2, StaysPutKeeps, QuietKeeps
       DEF Timely
<1> QED BY <1>4, <1>5, <1>6, StaysPutKeeps DEF Keeps

(* The tasklet finds nothing to do and stores its state. *)
LEMMA LeaveStep ==
  ASSUME IInv, NEW st \in States, tsk = st, Leave(st),
         UNCHANGED <<firing, out, good>>
  PROVE  Keeps /\ Grows
<1>1. /\ h' \in HostRec /\ h'.kind = h.kind /\ h'.mrq = h.mrq /\ h'.state = st
      /\ h'.cmd = h.cmd /\ h'.data = h.data
      /\ h'.pending_events = h.pending_events /\ h'.cmd_status = h.cmd_status
      /\ h'.data_status = h.data_status /\ h'.timers = h.timers
      /\ h'.err = h.err /\ h'.line = h.line /\ h'.left = h.left
      /\ h'.owner = h.owner /\ h'.hung = h.hung /\ h'.ints = h.ints
      /\ h'.carried = h.carried /\ h'.warn = h.warn
  BY Values DEF Leave, IInv, Typed, HostRec
<1>2. tsk' = "off" /\ UNCHANGED <<firing, out, completing, good>>
  BY DEF Leave
<1>3. st \notin {"off", "end"}
  BY DEF States
<1>4. StaysPut
  BY <1>1, <1>2, <1>3
     DEF StaysPut, RestType, Places, Stage, IInv, Typed, MrqInv
<1>5. Quiet /\ Grows
  BY <1>1, <1>2, <1>3, <1>4 DEF Quiet, Grows
<1>6. ASSUME Timely PROVE Timely'
  <2>1. LineInv' /\ AnswerInv'
    BY <1>1, <1>2, <1>3, <1>4, <1>6
       DEF Timely, LineInv, AnswerInv, StaysPut, Stage
  <2>2. DataInv'
    BY <1>1, <1>2, <1>3, <1>4, <1>6 DEF Timely, DataInv, Lost, Stage
  <2> QED
    BY <1>1, <1>2, <1>3, <1>4, <1>5, <1>6, <2>1, <2>2, StaysPutKeeps, QuietKeeps
       DEF Timely
<1> QED BY <1>4, <1>5, <1>6, StaysPutKeeps DEF Keeps

(* The tasklet waits for data, with a timer if it reads. *)
LEMMA WaitStep ==
  ASSUME IInv, NEW st \in {"SENDING_DATA", "DATA_BUSY"}, WaitForData(st),
         Stage = st, UNCHANGED <<firing, out, good>>
  PROVE  Keeps /\ Grows
<1>1. PICK s : s = IF h.kind.dir = "read" THEN Arm(h, "dto") ELSE h
  OBVIOUS
<1>2. /\ s \in HostRec /\ s.kind = h.kind /\ s.mrq = h.mrq /\ s.state = h.state
      /\ s.cmd = h.cmd /\ s.data = h.data
      /\ s.pending_events = h.pending_events /\ s.cmd_status = h.cmd_status
      /\ s.data_status = h.data_status /\ s.err = h.err /\ s.line = h.line
      /\ s.left = h.left /\ s.owner = h.owner /\ s.hung = h.hung
      /\ s.ints = h.ints /\ s.carried = h.carried /\ s.warn = h.warn
      /\ s.timers \subseteq h.timers \cup {"dto"}
  BY <1>1, ArmIs, Values DEF IInv, Typed
<1>3. h' = [s EXCEPT !.state = st, !.fresh = {}]
  BY <1>1 DEF WaitForData
<1>4. /\ h' \in HostRec /\ h'.kind = s.kind /\ h'.mrq = s.mrq /\ h'.state = st
      /\ h'.cmd = s.cmd /\ h'.data = s.data
      /\ h'.pending_events = s.pending_events /\ h'.cmd_status = s.cmd_status
      /\ h'.data_status = s.data_status /\ h'.timers = s.timers
      /\ h'.err = s.err /\ h'.line = s.line /\ h'.left = s.left
      /\ h'.owner = s.owner /\ h'.hung = s.hung /\ h'.ints = s.ints
      /\ h'.carried = s.carried /\ h'.warn = s.warn
  BY <1>2, <1>3, Values DEF HostRec
<1>5. tsk' = "off" /\ UNCHANGED <<firing, out, completing, good>>
  BY DEF WaitForData
<1>6. StaysPut
  BY <1>2, <1>4, <1>5, Values
     DEF StaysPut, RestType, Stage, IInv, Typed, MrqInv
<1>7. Quiet /\ Grows
  <2>1. tsk # "end"
    BY DEF Stage
  <2> QED BY <1>2, <1>4, <1>5, <1>6, <2>1 DEF Quiet, Grows
<1>8. ASSUME Timely PROVE Timely'
  <2>1. LineInv' /\ AnswerInv'
    BY <1>2, <1>4, <1>5, <1>6, <1>8
       DEF Timely, LineInv, AnswerInv, StaysPut, Stage
  <2>2. DataInv'
    BY <1>2, <1>4, <1>5, <1>6, <1>8 DEF Timely, DataInv, Lost, Stage
  <2> QED
    BY <1>2, <1>4, <1>5, <1>6, <1>7, <1>8, <2>1, <2>2, StaysPutKeeps, QuietKeeps
       DEF Timely
<1> QED BY <1>6, <1>7, <1>8, StaysPutKeeps DEF Keeps

(* mmc_request_done(): the slot has been free since dw_mci_request_end(). *)
LEMMA DoneStep ==
  ASSUME IInv, mmc_request_done
  PROVE  Keeps
<1>1. /\ h' \in HostRec /\ h'.kind = NoKind /\ h'.mrq = h.mrq
      /\ h'.state = h.state /\ h'.cmd = h.cmd /\ h'.data = h.data
      /\ h'.pending_events = h.pending_events /\ h'.cmd_status = h.cmd_status
      /\ h'.data_status = h.data_status /\ h'.timers = h.timers /\ h'.err = {}
      /\ h'.line = h.line /\ h'.left = h.left /\ h'.owner = h.owner
      /\ h'.hung = h.hung /\ h'.ints = h.ints /\ h'.carried = {}
      /\ h'.warn = h.warn
  BY Values DEF mmc_request_done, IInv, Typed, HostRec
<1>2. /\ tsk = "end" /\ tsk' = "off" /\ firing' = firing
      /\ out' = out \ {completing} /\ completing' = NoMrq
      /\ good' \in {completing, NoMrq}
  BY DEF mmc_request_done
<1>3. h.mrq = NoMrq /\ h.state = "IDLE"
  BY <1>2 DEF IInv, MrqInv, Stage
<1>4. RestType'
  BY <1>2, Values DEF RestType, IInv, Typed, MaybeMrq
<1>5. StaysPut
  BY <1>1, <1>2, <1>3, <1>4 DEF StaysPut, Stage
<1>6. ASSUME Timely PROVE Timely'
  <2>1. Stage = "IDLE" /\ Stage' = "IDLE"
    BY <1>1, <1>2, <1>3 DEF Stage
  <2>2. h.cmd = None /\ ~h.data
    BY <1>3, <1>6, <2>1 DEF Timely, AnswerInv, IInv, DmaInv
  <2>3. LineInv'
    BY <1>1, <1>2, <1>6, <2>2 DEF Timely, LineInv
  <2>4. AnswerInv'
    BY <1>1, <1>2, <1>3, <1>6, <2>1, <2>2 DEF Timely, AnswerInv, CmdBits
  <2>5. DataInv'
    BY <1>1, <1>6, <2>2 DEF Timely, DataInv
  <2>6. TruthInv' /\ OutInv'
    BY <1>1, <1>2, <1>3, <1>6, <2>1 DEF Timely, TruthInv, OutInv, NoKind
  <2> QED
    BY <1>5, <1>6, <2>3, <2>4, <2>5, <2>6, StaysPutKeeps DEF Timely
<1> QED BY <1>5, <1>6, StaysPutKeeps DEF Keeps

(* Without a card the request goes back at once. *)
LEMMA NoCardStep ==
  ASSUME IInv, NEW m \in Mrqs, NoCard(m)
  PROVE  Keeps
<1>1. /\ out = {} /\ out' = {m} /\ completing' = m /\ good' = NoMrq
      /\ UNCHANGED <<h, tsk, firing>>
  BY DEF NoCard
<1>2. h.mrq = NoMrq
  BY <1>1 DEF IInv, MrqInv
<1>3. StaysPut
  BY <1>1, <1>2, Values DEF StaysPut, Stage, RestType, IInv, Typed, MrqInv
<1>4. ASSUME Timely PROVE Timely'
  <2>1. tsk # "end" /\ m # NoMrq
    BY <1>1, <1>4, MrqsAssumption DEF Timely, OutInv, IInv, Typed, RestType
  <2>2. LineInv' /\ AnswerInv' /\ DataInv'
    BY <1>1, <1>4 DEF Timely, LineInv, AnswerInv, DataInv, Stage, Lost
  <2>3. TruthInv' /\ OutInv'
    BY <1>1, <1>4, <2>1 DEF Timely, TruthInv, OutInv, Stage, Sent
  <2> QED BY <1>3, <1>4, <2>2, <2>3, StaysPutKeeps DEF Timely
<1> QED BY <1>3, <1>4, StaysPutKeeps DEF Keeps

(* The core has it back. *)
LEMMA RefuseStep ==
  ASSUME IInv, Refuse
  PROVE  Keeps
<1>1. /\ completing # NoMrq /\ tsk # "end" /\ out' = out \ {completing}
      /\ completing' = NoMrq /\ UNCHANGED <<h, tsk, firing, good>>
  BY DEF Refuse
<1>2. h.mrq = NoMrq
  BY <1>1 DEF IInv, MrqInv
<1>3. StaysPut
  BY <1>1, <1>2, Values DEF StaysPut, Stage, RestType, IInv, Typed, MrqInv
<1>4. ASSUME Timely PROVE Timely'
  <2>1. LineInv' /\ AnswerInv' /\ DataInv'
    BY <1>1, <1>4 DEF Timely, LineInv, AnswerInv, DataInv, Stage, Lost
  <2>2. TruthInv' /\ OutInv'
    BY <1>1, <1>2, <1>4 DEF Timely, TruthInv, OutInv, Stage, Sent
  <2> QED BY <1>3, <1>4, <2>1, <2>2, StaysPutKeeps DEF Timely
<1> QED BY <1>3, <1>4, StaysPutKeeps DEF Keeps

(* The controller ends a command. *)
LEMMA RespondStep ==
  ASSUME IInv, Respond
  PROVE  Keeps /\ Grows
<1> DEFINE c == h.line
<1>1. c \in Cmds /\ c[2] \in {"sbc", "cmd", "stop", "data"}
  BY Values DEF Respond, IInv, Typed, HostRec, MaybeCmd, Cmds
<1>2. /\ UNCHANGED <<tsk, firing, out, completing, good>>
      /\ c # None /\ "line" \notin h.hung
  BY DEF Respond
<1>3. CASE h' = Carries([h EXCEPT !.line = None, !.ints = @ \cup {"CMD_DONE"}],
                        c[1], c[2])
  <2>1. PICK s : s = [h EXCEPT !.line = None, !.ints = @ \cup {"CMD_DONE"}]
    OBVIOUS
  <2>2. /\ s \in HostRec /\ s.kind = h.kind /\ s.mrq = h.mrq
        /\ s.state = h.state /\ s.cmd = h.cmd /\ s.data = h.data
        /\ s.pending_events = h.pending_events /\ s.cmd_status = h.cmd_status
        /\ s.data_status = h.data_status /\ s.timers = h.timers
        /\ s.err = h.err /\ s.line = None /\ s.left = h.left
        /\ s.owner = h.owner /\ s.hung = h.hung
        /\ s.ints = h.ints \cup {"CMD_DONE"} /\ s.carried = h.carried
        /\ s.warn = h.warn
    BY <2>1, Values DEF IInv, Typed, HostRec, Ints
  <2>3. PICK m, r : /\ r \in {"sbc", "cmd", "stop", "data"}
                    /\ m = c[1] /\ r = c[2]
                    /\ h' = Carries(s, m, r)
    BY <1>1, <1>3, <2>1
  <2>4. /\ h' \in HostRec /\ h'.kind = s.kind /\ h'.mrq = s.mrq
        /\ h'.state = s.state /\ h'.cmd = s.cmd /\ h'.data = s.data
        /\ h'.pending_events = s.pending_events /\ h'.cmd_status = s.cmd_status
        /\ h'.data_status = s.data_status /\ h'.timers = s.timers
        /\ h'.err = s.err /\ h'.line = s.line /\ h'.left = s.left
        /\ h'.owner = s.owner /\ h'.hung = s.hung /\ h'.ints = s.ints
        /\ h'.warn = s.warn
        /\ s.carried \subseteq h'.carried
        /\ c[1] = h.mrq => c[2] \in h'.carried
    BY <2>2, <2>3, CarriesIs
  <2>5. StaysPut
    BY <1>2, <2>2, <2>4 DEF StaysPut, RestType, Stage, IInv, Typed, MrqInv
  <2>6. Quiet /\ Grows
    BY <1>2, <2>2, <2>4, <2>5 DEF Quiet, Grows
  <2>7. ASSUME Timely PROVE Timely'
    <3>1. /\ c = h.cmd /\ h.cmd # None /\ h.cmd[1] = h.mrq /\ Stage # "IDLE"
          /\ "CMD" \notin h.pending_events /\ h.ints \cap CmdBits = {}
      BY <1>2, <2>7 DEF Timely, LineInv, AnswerInv
    <3>2. h.mrq # NoMrq
      BY <3>1 DEF IInv, MrqInv
    <3>3. LineInv'
      BY <1>2, <2>2, <2>4, <2>7, <3>1 DEF Timely, LineInv
    <3>4. AnswerInv'
      BY <1>2, <2>2, <2>4, <2>5, <2>7, <3>1
         DEF Timely, AnswerInv, CmdBits, StaysPut
    <3>5. DataInv'
      BY <2>2, <2>4, <2>7 DEF Timely, DataInv, Lost, ErrorBits, DataBits
    <3> QED
      BY <2>5, <2>6, <2>7, <3>2, <3>3, <3>4, <3>5, StaysPutKeeps, QuietKeeps
         DEF Timely
  <2> QED BY <2>5, <2>6, <2>7, StaysPutKeeps DEF Keeps
<1>4. CASE \E l \in {h.left, IF c[2] = "cmd" THEN {} ELSE h.left} :
             h' = [h EXCEPT !.line = None, !.left = l,
                            !.ints = @ \cup {"CMD_DONE", "CMD_ERROR"}]
  <2>1. PICK l \in {h.left, {}} :
           h' = [h EXCEPT !.line = None, !.left = l,
                          !.ints = @ \cup {"CMD_DONE", "CMD_ERROR"}]
    BY <1>4
  <2>2. l \in Leftovers
    BY Values DEF IInv, Typed, HostRec
  <2>3. /\ h' \in HostRec /\ h'.kind = h.kind /\ h'.mrq = h.mrq
        /\ h'.state = h.state /\ h'.cmd = h.cmd /\ h'.data = h.data
        /\ h'.pending_events = h.pending_events /\ h'.cmd_status = h.cmd_status
        /\ h'.data_status = h.data_status /\ h'.timers = h.timers
        /\ h'.err = h.err /\ h'.line = None /\ h'.left = l
        /\ h'.owner = h.owner /\ h'.hung = h.hung
        /\ h'.ints = h.ints \cup {"CMD_DONE", "CMD_ERROR"}
        /\ h'.carried = h.carried /\ h'.warn = h.warn
    BY <2>1, <2>2, Values DEF IInv, Typed, HostRec, Ints
  <2>4. StaysPut
    BY <1>2, <2>1, <2>3 DEF StaysPut, RestType, Stage, IInv, Typed, MrqInv
  <2>5. Quiet /\ Grows
    BY <1>2, <2>3, <2>4 DEF Quiet, Grows
  <2>6. ASSUME Timely PROVE Timely'
    <3>1. /\ c = h.cmd /\ h.cmd # None
          /\ "CMD" \notin h.pending_events /\ h.ints \cap CmdBits = {}
      BY <1>2, <2>6 DEF Timely, LineInv
    <3>2. LineInv'
      BY <1>2, <2>3, <2>6, <3>1 DEF Timely, LineInv
    <3>3. AnswerInv'
      BY <1>2, <2>3, <2>4, <2>6, <3>1 DEF Timely, AnswerInv, CmdBits, StaysPut
    <3>4. DataInv'
      BY <2>1, <2>3, <2>6 DEF Timely, DataInv, Lost, ErrorBits, DataBits
    <3> QED
      BY <2>3, <2>4, <2>5, <2>6, <3>2, <3>3, <3>4, StaysPutKeeps, QuietKeeps
         DEF Timely
  <2> QED BY <2>4, <2>5, <2>6, StaysPutKeeps DEF Keeps
<1> QED BY <1>3, <1>4 DEF Respond

(* The controller ends the DMA or signals the end of the data. *)
LEMMA TransferStep ==
  ASSUME IInv, Transfer
  PROVE  Keeps /\ Grows
<1>1. PICK x \in h.left :
        LET s == [h EXCEPT !.left = @ \ {x},
                    !.ints = @ \cup {IF x = "DMA" THEN "DMA" ELSE "DATA_OVER"}]
        IN  h' = IF s.left = {} THEN Carries(s, h.owner, "data") ELSE s
  BY DEF Transfer
<1>2. PICK i \in {"DMA", "DATA_OVER"} :
        i = IF x = "DMA" THEN "DMA" ELSE "DATA_OVER"
  OBVIOUS
<1>3. PICK s : s = [h EXCEPT !.left = @ \ {x}, !.ints = @ \cup {i}]
  OBVIOUS
<1>4. /\ s \in HostRec /\ s.kind = h.kind /\ s.mrq = h.mrq /\ s.state = h.state
      /\ s.cmd = h.cmd /\ s.data = h.data
      /\ s.pending_events = h.pending_events /\ s.cmd_status = h.cmd_status
      /\ s.data_status = h.data_status /\ s.timers = h.timers /\ s.err = h.err
      /\ s.line = h.line /\ s.left = h.left \ {x} /\ s.owner = h.owner
      /\ s.hung = h.hung /\ s.ints = h.ints \cup {i} /\ s.carried = h.carried
      /\ s.warn = h.warn
  BY <1>3 DEF IInv, Typed, HostRec, Ints, Leftovers
<1>5. \/ h' = s /\ s.left # {}
      \/ h' = Carries(s, h.owner, "data")
  BY <1>1, <1>2, <1>3
<1>6. /\ h' \in HostRec /\ h'.kind = s.kind /\ h'.mrq = s.mrq
      /\ h'.state = s.state /\ h'.cmd = s.cmd /\ h'.data = s.data
      /\ h'.pending_events = s.pending_events /\ h'.cmd_status = s.cmd_status
      /\ h'.data_status = s.data_status /\ h'.timers = s.timers
      /\ h'.err = s.err /\ h'.line = s.line /\ h'.left = s.left
      /\ h'.owner = s.owner /\ h'.hung = s.hung /\ h'.ints = s.ints
      /\ h'.warn = s.warn
      /\ s.carried \subseteq h'.carried
      /\ s.left = {} /\ h.owner = s.mrq => "data" \in h'.carried
  BY <1>4, <1>5, CarriesIs
<1>7. UNCHANGED <<tsk, firing, out, completing, good>>
  BY DEF Transfer
<1>8. StaysPut
  BY <1>2, <1>4, <1>6, <1>7 DEF StaysPut, RestType, Stage, IInv, Typed, MrqInv
<1>9. Quiet /\ Grows
  BY <1>4, <1>6, <1>7, <1>8 DEF Quiet, Grows
<1>10. ASSUME Timely PROVE Timely'
  <2>1. h.data /\ h.mrq # NoMrq
    BY <1>1, <1>10 DEF Timely, DataInv, IInv, DmaInv
  <2>2. LineInv' /\ AnswerInv'
    BY <1>2, <1>4, <1>6, <1>7, <1>8, <1>10
       DEF Timely, LineInv, AnswerInv, CmdBits, StaysPut
  <2>3. x = "DMA" <=> i = "DMA"
    BY <1>2
  <2>4. x \in {"DMA", "OVER"}
    BY DEF IInv, Typed, HostRec, Leftovers
  <2>5. "DATA" \in h.pending_events => x # "OVER" \/ h.data_status \in Failed
    BY <1>10, <2>1 DEF Timely, DataInv
  <2>6. DataInv'
    BY <1>2, <1>4, <1>6, <1>10, <2>1, <2>3, <2>4, <2>5
       DEF Timely, DataInv, Lost, ErrorBits
  <2> QED
    BY <1>8, <1>9, <1>10, <2>1, <2>2, <2>6, StaysPutKeeps, QuietKeeps DEF Timely
<1> QED BY <1>8, <1>9, <1>10, StaysPutKeeps DEF Keeps

(* The transfer fails. *)
LEMMA TransferFailsStep ==
  ASSUME IInv, TransferFails
  PROVE  Keeps /\ Grows
<1>1. PICK e \in {"DRTO_EBE", "DATA_ERROR"} :
        h' = [h EXCEPT !.ints = @ \cup {e}, !.left = {"OVER"}, !.owner = NoMrq]
  BY DEF TransferFails
<1>2. /\ h' \in HostRec /\ h'.kind = h.kind /\ h'.mrq = h.mrq
      /\ h'.state = h.state /\ h'.cmd = h.cmd /\ h'.data = h.data
      /\ h'.pending_events = h.pending_events /\ h'.cmd_status = h.cmd_status
      /\ h'.data_status = h.data_status /\ h'.timers = h.timers
      /\ h'.err = h.err /\ h'.line = h.line /\ h'.left = {"OVER"}
      /\ h'.owner = NoMrq /\ h'.hung = h.hung /\ h'.ints = h.ints \cup {e}
      /\ h'.carried = h.carried /\ h'.warn = h.warn
  BY <1>1, Values DEF IInv, Typed, HostRec, Ints, Leftovers
<1>3. /\ UNCHANGED <<tsk, firing, out, completing, good>>
      /\ h.left = {"DMA", "OVER"}
  BY DEF TransferFails
<1>4. StaysPut
  BY <1>2, <1>3 DEF StaysPut, RestType, Stage, IInv, Typed, MrqInv
<1>5. Quiet /\ Grows
  BY <1>2, <1>3, <1>4 DEF Quiet, Grows
<1>6. ASSUME Timely PROVE Timely'
  <2>1. LineInv' /\ AnswerInv'
    BY <1>2, <1>3, <1>4, <1>6
       DEF Timely, LineInv, AnswerInv, CmdBits, StaysPut
  <2>2. DataInv'
    BY <1>2, <1>3, <1>6 DEF Timely, DataInv, Lost, ErrorBits
  <2> QED
    BY <1>2, <1>4, <1>5, <1>6, <2>1, <2>2, StaysPutKeeps, QuietKeeps DEF Timely
<1> QED BY <1>4, <1>5, <1>6, StaysPutKeeps DEF Keeps

(* The controller hangs. *)
LEMMA HangStep ==
  ASSUME IInv, Hang
  PROVE  Keeps /\ Grows
<1>1. /\ h' \in HostRec /\ h'.kind = h.kind /\ h'.mrq = h.mrq
      /\ h'.state = h.state /\ h'.cmd = h.cmd /\ h'.data = h.data
      /\ h'.pending_events = h.pending_events /\ h'.cmd_status = h.cmd_status
      /\ h'.data_status = h.data_status /\ h'.timers = h.timers
      /\ h'.err = h.err /\ h'.line = h.line /\ h'.left = h.left
      /\ h'.owner = h.owner /\ h'.ints = h.ints /\ h'.carried = h.carried
      /\ h'.warn = h.warn
      /\ h.hung \subseteq h'.hung
  BY DEF Hang, IInv, Typed, HostRec, Hangs
<1>2. UNCHANGED <<tsk, firing, out, completing, good>>
  BY DEF Hang
<1>3. StaysPut
  BY <1>1, <1>2 DEF StaysPut, RestType, Stage, IInv, Typed, MrqInv
<1>4. Quiet /\ Grows
  BY <1>1, <1>2, <1>3 DEF Quiet, Grows
<1>5. ASSUME Timely PROVE Timely'
  <2>1. LineInv' /\ AnswerInv'
    BY <1>1, <1>2, <1>3, <1>5 DEF Timely, LineInv, AnswerInv, StaysPut
  <2>2. DataInv'
    BY <1>1, <1>2, <1>3, <1>5 DEF Timely, DataInv, Lost
  <2> QED
    BY <1>1, <1>2, <1>3, <1>4, <1>5, <2>1, <2>2, StaysPutKeeps, QuietKeeps
       DEF Timely
<1> QED BY <1>3, <1>4, <1>5, StaysPutKeeps DEF Keeps

-----------------------------------------------------------------------------
(* Steps of the tasklet that take an event. *)

(* The facts about h that a step needs to type its result. *)
LEMMA HostTyped ==
  ASSUME IInv
  PROVE  /\ h \in HostRec /\ RestType /\ h.mrq \in MaybeMrq
         /\ h.cmd \in MaybeCmd
  BY DEF IInv, Typed, HostRec

(* What the tasklet has made sure of when no timer is late. *)
Settled(s) ==
  /\ "CMD" \notin s.pending_events /\ s.ints \cap CmdBits = {}
  /\ "cto" \in firing => "cto" \notin s.timers
  /\ "cto" \notin s.warn
  /\ s.line = None \/ "line" \in s.hung
  /\ s.left = {} /\ s.ints \cap DataBits = {}
  /\ s.err # {} \/ Sent \subseteq h.carried

(* dw_mci_request_end(): the slot is empty, and with it what belongs to    *)
(* the request.                                                            *)
LEMMA EndStep ==
  ASSUME IInv, NEW s \in HostRec, dw_mci_request_end(s),
         UNCHANGED <<firing, out, good>>,
         h.mrq # NoMrq, s.mrq = h.mrq, s.kind = h.kind, s.carried = h.carried,
         s.cmd = None, ~s.data, "DMA" \notin s.left, "DMA" \notin s.ints,
         "ERROR" \in s.pending_events => s.data_status \in Failed,
         s.warn \subseteq h.warn \cup {"cto", "dto"},
         ~LateTimers /\ Timely => Settled(s)
  PROVE  Keeps /\ Grows
<1>1. h' = [s EXCEPT !.mrq = NoMrq, !.state = "IDLE", !.warn = s.warn]
  BY DEF dw_mci_request_end
<1>2. /\ h' \in HostRec /\ h'.kind = s.kind /\ h'.mrq = NoMrq
      /\ h'.state = "IDLE" /\ h'.cmd = s.cmd /\ h'.data = s.data
      /\ h'.pending_events = s.pending_events /\ h'.cmd_status = s.cmd_status
      /\ h'.data_status = s.data_status /\ h'.timers = s.timers
      /\ h'.err = s.err /\ h'.line = s.line /\ h'.left = s.left
      /\ h'.owner = s.owner /\ h'.hung = s.hung /\ h'.ints = s.ints
      /\ h'.carried = s.carried /\ h'.warn = s.warn
  BY <1>1, Values DEF HostRec
<1>3. /\ tsk' = "end" /\ completing' = s.mrq
      /\ UNCHANGED <<firing, out, good>>
  BY DEF dw_mci_request_end
<1>4. out = {h.mrq}
  BY DEF IInv, MrqInv
<1>5. Typed'
  BY <1>2, <1>3, <1>4, Values DEF Typed, RestType, IInv
<1>6. MrqInv' /\ DmaInv' /\ CmdInv' /\ WarnInv'
  BY <1>2, <1>3 DEF MrqInv, DmaInv, CmdInv, WarnInv, Stage, IInv
<1>7. ASSUME ~LateTimers, Timely PROVE Timely'
  <2>1. Settled(s)
    BY <1>7
  <2>2. Stage' = "IDLE" /\ Sent' = Sent
    BY <1>2, <1>3 DEF Stage, Sent
  <2>3. CtoInv' /\ LineInv' /\ AnswerInv' /\ DataInv'
    BY <1>2, <1>3, <2>1, <2>2
       DEF Settled, CtoInv, LineInv, AnswerInv, DataInv, CmdBits
  <2>4. TruthInv'
    BY <1>2, <1>3, <1>7, <2>1, <2>2 DEF Settled, Timely, TruthInv
  <2>5. OutInv'
    BY <1>2, <1>3, <1>4, <1>7 DEF Timely, OutInv
  <2> QED BY <2>3, <2>4, <2>5 DEF Timely
<1>8. Grows
  BY <1>2, <1>3 DEF Grows
<1> QED BY <1>5, <1>6, <1>7, <1>8 DEF Keeps, IInv

(* The request moves on to another stage; only the tasklet moves it. *)
MovesTo(st) ==
  /\ h' \in HostRec /\ tsk' = st /\ st \in Places \ {"off", "end", "IDLE"}
  /\ st # "SENDING_CMD" /\ h.mrq # NoMrq
  /\ h'.mrq = h.mrq /\ h'.kind = h.kind /\ h'.carried = h.carried
  /\ UNCHANGED <<firing, out, completing, good>>

(* The request is typed and is the only one. *)
LEMMA MovesTyped ==
  ASSUME IInv, NEW st, MovesTo(st)
  PROVE  Typed' /\ MrqInv' /\ Grows /\ (OutInv => OutInv')
<1>1. Typed'
  BY DEF MovesTo, Typed, RestType, IInv
<1>2. MrqInv'
  BY DEF MovesTo, MrqInv, Stage, IInv, Typed
<1>3. Grows
  BY DEF MovesTo, Grows
<1>4. OutInv => OutInv'
  BY DEF MovesTo, OutInv
<1> QED BY <1>1, <1>2, <1>3, <1>4

(* The tasklet takes the end of the command and keeps its result. *)
LEMMA TakesCmd ==
  ASSUME IInv, tsk = "SENDING_CMD", "CMD" \in h.pending_events, NEW s,
         s = dw_mci_command_complete(
               [Clear(h, "CMD", "cto") EXCEPT !.cmd = None], h.cmd[2])
  PROVE  /\ s \in HostRec /\ s.kind = h.kind /\ s.mrq = h.mrq
         /\ s.state = h.state /\ s.cmd = None /\ s.data = h.data
         /\ s.pending_events = h.pending_events \ {"CMD"}
         /\ s.data_status = h.data_status /\ s.timers = h.timers \ {"cto"}
         /\ s.left = h.left /\ s.owner = h.owner /\ s.ints = h.ints
         /\ s.warn = h.warn \cup (h.timers \cap {"cto"})
         /\ h.mrq \in Mrqs /\ h.cmd \in {<<h.mrq, "sbc">>, <<h.mrq, "cmd">>}
         /\ h.data => h.cmd = <<h.mrq, "cmd">>
         /\ s.line = h.line /\ s.hung = h.hung /\ s.carried = h.carried
         /\ h.cmd_status = "bad" => s.err = h.err \cup {h.cmd[2]}
         /\ h.cmd_status # "bad" => s.err = h.err \ {h.cmd[2]}
<1>1. /\ h \in HostRec /\ h.mrq # NoMrq /\ h.mrq \in Mrqs
      /\ h.cmd \in {<<h.mrq, "sbc">>, <<h.mrq, "cmd">>}
      /\ h.data => h.cmd = <<h.mrq, "cmd">>
  <2>1. Stage = "SENDING_CMD"
    BY DEF Stage
  <2> QED BY <2>1 DEF IInv, Typed, MrqInv, CmdInv, HostRec, MaybeMrq
<1>2. PICK r \in {"sbc", "cmd"} : h.cmd = <<h.mrq, r>> /\ r = h.cmd[2]
  BY <1>1
<1>3. PICK s1 : s1 = Clear(h, "CMD", "cto")
  OBVIOUS
<1>4. /\ s1 \in HostRec /\ s1.kind = h.kind /\ s1.mrq = h.mrq
      /\ s1.state = h.state /\ s1.cmd = h.cmd /\ s1.data = h.data
      /\ s1.pending_events = h.pending_events \ {"CMD"}
      /\ s1.cmd_status = h.cmd_status /\ s1.data_status = h.data_status
      /\ s1.timers = h.timers \ {"cto"} /\ s1.err = h.err /\ s1.line = h.line
      /\ s1.left = h.left /\ s1.owner = h.owner /\ s1.hung = h.hung
      /\ s1.ints = h.ints /\ s1.carried = h.carried
      /\ s1.warn = h.warn \cup (h.timers \cap {"cto"})
  BY <1>1, <1>3, ClearIs, Values
<1>5. PICK s2 : s2 = [s1 EXCEPT !.cmd = None]
  OBVIOUS
<1>6. /\ s2 \in HostRec /\ s2.kind = s1.kind /\ s2.mrq = s1.mrq
      /\ s2.state = s1.state /\ s2.cmd = None /\ s2.data = s1.data
      /\ s2.pending_events = s1.pending_events /\ s2.cmd_status = s1.cmd_status
      /\ s2.data_status = s1.data_status /\ s2.timers = s1.timers
      /\ s2.err = s1.err /\ s2.line = s1.line /\ s2.left = s1.left
      /\ s2.owner = s1.owner /\ s2.hung = s1.hung /\ s2.ints = s1.ints
      /\ s2.carried = s1.carried /\ s2.warn = s1.warn
  BY <1>4, <1>5, Values DEF HostRec
<1>7. s = dw_mci_command_complete(s2, r)
  BY <1>2, <1>3, <1>5
<1>8. /\ s \in HostRec /\ s.kind = s2.kind /\ s.mrq = s2.mrq
      /\ s.state = s2.state /\ s.cmd = s2.cmd /\ s.data = s2.data
      /\ s.pending_events = s2.pending_events /\ s.data_status = s2.data_status
      /\ s.timers = s2.timers /\ s.line = s2.line /\ s.left = s2.left
      /\ s.owner = s2.owner /\ s.hung = s2.hung /\ s.ints = s2.ints
      /\ s.carried = s2.carried /\ s.warn = s2.warn
      /\ s2.cmd_status = "bad" => s.err = s2.err \cup {r}
      /\ s2.cmd_status # "bad" => s.err = s2.err \ {r}
  BY <1>6, <1>7, CommandCompleteIs
<1> QED BY <1>1, <1>2, <1>4, <1>6, <1>8

(* STATE_SENDING_CMD: the block count, the command, an error or the end. *)
LEMMA SendingCmdStep ==
  ASSUME IInv, SendingCmd, UNCHANGED <<firing, out, good>>
  PROVE  Keeps /\ Grows
<1>1. tsk = "SENDING_CMD" /\ Stage = "SENDING_CMD"
  BY DEF SendingCmd, Stage
<1>2. CASE "CMD" \notin h.pending_events
  <2>1. Leave("SENDING_CMD")
    BY <1>2 DEF SendingCmd
  <2> QED BY <1>1, <2>1, LeaveStep, Values
<1>3. CASE "CMD" \in h.pending_events
  <2>1. PICK s : s = dw_mci_command_complete(
                       [Clear(h, "CMD", "cto") EXCEPT !.cmd = None], h.cmd[2])
    OBVIOUS
  <2>2. /\ s \in HostRec /\ s.kind = h.kind /\ s.mrq = h.mrq
        /\ s.state = h.state /\ s.cmd = None /\ s.data = h.data
        /\ s.pending_events = h.pending_events \ {"CMD"}
        /\ s.data_status = h.data_status /\ s.timers = h.timers \ {"cto"}
        /\ s.left = h.left /\ s.owner = h.owner /\ s.ints = h.ints
        /\ s.warn = h.warn \cup (h.timers \cap {"cto"})
        /\ h.mrq \in Mrqs /\ h.cmd \in {<<h.mrq, "sbc">>, <<h.mrq, "cmd">>}
        /\ h.data => h.cmd = <<h.mrq, "cmd">>
        /\ s.line = h.line /\ s.hung = h.hung /\ s.carried = h.carried
        /\ h.cmd_status = "bad" => s.err = h.err \cup {h.cmd[2]}
        /\ h.cmd_status # "bad" => s.err = h.err \ {h.cmd[2]}
    BY <1>1, <1>3, <2>1, TakesCmd
  <2>3. "cto" \notin firing /\ h.mrq # NoMrq
    BY <1>1, <1>3 DEF SendingCmd, IInv, MrqInv
  <2>4. Timely =>
          /\ s.warn = h.warn /\ "cto" \notin h.timers
          /\ h.line = None \/ "line" \in h.hung
          /\ h.ints \cap CmdBits = {} /\ h.err = {}
          /\ h.cmd_status # "bad" => h.cmd[2] \in h.carried
          /\ h.cmd[2] = "cmd" /\ h.kind.sbc => "sbc" \in h.carried
    BY <1>1, <1>3, <2>2 DEF Timely, CtoInv, LineInv, AnswerInv, TruthInv
  <2>5. s.pending_events \in Events /\ <<h.mrq, "cmd">> \in Cmds
           /\ <<h.mrq, "stop">> \in Cmds /\ NoMrq # h.mrq
    BY <2>2, <2>3 DEF HostRec, Cmds, Roles
  (* the command itself after the block count *)
  <2>6. CASE /\ h.cmd[2] = "sbc" /\ h.cmd_status # "bad"
             /\ Goto("off", [__dw_mci_start_request(s, <<h.mrq, "cmd">>)
                               EXCEPT !.fresh = {}])
    <3>1. ~h.data
      BY <2>2, <2>6
    <3>2. PICK c \in Cmds : c = <<h.mrq, "cmd">>
      BY <2>5
    <3>3. PICK d \in BOOLEAN : /\ d = (c[2] = "cmd" /\ s.kind.dir # "none")
                               /\ d <=> h.kind.dir # "none"
      BY <2>2, <3>2
    <3>4. PICK u : u = __dw_mci_start_request(s, c)
      OBVIOUS
    <3>5. /\ u \in HostRec /\ u.kind = s.kind /\ u.mrq = s.mrq
          /\ u.state = s.state /\ u.cmd = c /\ u.data = d
          /\ u.pending_events = {} /\ u.cmd_status = "none"
          /\ u.data_status = "none"
          /\ u.left = IF d THEN {"DMA", "OVER"} ELSE {}
          /\ u.owner = IF d THEN s.mrq ELSE NoMrq
          /\ u.ints = s.ints /\ u.warn = s.warn /\ u.line = c
          /\ u.err = s.err /\ u.carried = s.carried
      BY <2>2, <3>3, <3>4, StartRequestIs
    <3>6. /\ h' = [u EXCEPT !.fresh = {}] /\ tsk' = "off"
          /\ completing' = completing
      BY <2>6, <3>2, <3>4 DEF Goto
    <3>7. /\ h' \in HostRec /\ h'.kind = u.kind /\ h'.mrq = u.mrq
          /\ h'.state = u.state /\ h'.cmd = u.cmd /\ h'.data = u.data
          /\ h'.pending_events = u.pending_events
          /\ h'.cmd_status = u.cmd_status /\ h'.data_status = u.data_status
          /\ h'.timers = u.timers /\ h'.err = u.err /\ h'.line = u.line
          /\ h'.left = u.left /\ h'.owner = u.owner /\ h'.hung = u.hung
          /\ h'.ints = u.ints /\ h'.carried = u.carried /\ h'.warn = u.warn
      BY <3>5, <3>6, Values DEF HostRec
    <3>8. h.state = "SENDING_CMD"
      BY <1>1 DEF IInv, MrqInv
    <3>9. Typed'
      BY <3>6, <3>7, Values DEF Typed, RestType, IInv
    <3>10. MrqInv' /\ CmdInv' /\ WarnInv'
      BY <1>1, <2>2, <2>3, <3>2, <3>5, <3>6, <3>7, <3>8
         DEF MrqInv, CmdInv, WarnInv, Stage, IInv
    <3>11. DmaInv'
      BY <1>1, <2>2, <2>3, <3>1, <3>3, <3>5, <3>6, <3>7, <3>8
         DEF DmaInv, Stage, IInv
    <3>12. ASSUME Timely PROVE Timely'
      <4>1. /\ Stage' = "SENDING_CMD" /\ c # None /\ c[1] = h.mrq
            /\ c[2] = "cmd"
            /\ h'.line = c /\ h'.carried = h.carried
        BY <2>2, <3>2, <3>5, <3>6, <3>7, <3>8 DEF Stage, None
      <4>2. CtoInv' /\ LineInv'
        BY <2>2, <2>3, <2>4, <3>5, <3>6, <3>7, <3>12, <4>1
           DEF Timely, CtoInv, LineInv
      <4>3. AnswerInv'
        BY <2>2, <2>4, <3>5, <3>6, <3>7, <3>12, <4>1
           DEF Timely, AnswerInv, CmdBits
      <4>4. DataInv'
        <5>1. h.left = {} /\ h.ints \cap DataBits = {}
          BY <3>1, <3>12 DEF Timely, DataInv
        <5> QED BY <2>2, <3>1, <3>3, <3>5, <3>7, <5>1
                DEF DataInv, DataBits, ErrorBits
      <4>5. TruthInv'
        BY <2>2, <2>4, <2>6, <3>3, <3>5, <3>6, <3>7, <3>12, <4>1
           DEF Timely, TruthInv
      <4>6. OutInv'
        BY <2>2, <3>5, <3>6, <3>7, <3>12 DEF Timely, OutInv
      <4> QED BY <4>2, <4>3, <4>4, <4>5, <4>6 DEF Timely
    <3>13. Grows
      BY <2>2, <3>5, <3>6, <3>7 DEF Grows
    <3> QED BY <3>9, <3>10, <3>11, <3>12, <3>13 DEF Keeps, IInv
  (* a failed command with data is stopped *)
  <2>7. CASE /\ h.data /\ h.cmd_status = "bad"
             /\ Goto("SENDING_STOP", send_stop_abort(dw_mci_stop_dma(s)))
    <3>1. PICK s1 : s1 = dw_mci_stop_dma(s)
      OBVIOUS
    <3>2. /\ s1 \in HostRec /\ s1.kind = s.kind /\ s1.mrq = s.mrq
          /\ s1.state = s.state /\ s1.cmd = s.cmd /\ s1.data = s.data
          /\ s1.pending_events = s.pending_events \cup {"XFER"}
          /\ s1.cmd_status = s.cmd_status /\ s1.data_status = s.data_status
          /\ s1.timers = s.timers /\ s1.err = s.err /\ s1.line = s.line
          /\ s1.left = s.left \ {"DMA"} /\ s1.owner = s.owner
          /\ s1.hung = s.hung /\ s1.ints = s.ints /\ s1.carried = s.carried
          /\ s1.warn = s.warn
      BY <2>2, <3>1, StopDmaIs
    <3>3. /\ h' = dw_mci_start_command(s1, <<h.mrq, "stop">>)
          /\ tsk' = "SENDING_STOP" /\ completing' = completing
      BY <2>2, <2>7, <3>1, <3>2 DEF Goto, send_stop_abort
    <3>4. /\ h' \in HostRec /\ h'.kind = s1.kind /\ h'.mrq = s1.mrq
          /\ h'.state = s1.state /\ h'.data = s1.data
          /\ h'.pending_events = s1.pending_events
          /\ h'.cmd_status = s1.cmd_status /\ h'.data_status = s1.data_status
          /\ h'.err = s1.err /\ h'.left = s1.left /\ h'.owner = s1.owner
          /\ h'.ints = s1.ints /\ h'.carried = s1.carried /\ h'.warn = s1.warn
          /\ h'.cmd = <<h.mrq, "stop">> /\ h'.line = <<h.mrq, "stop">>
          /\ "CMD" \in s1.pending_events => h'.timers = s1.timers
      BY <2>5, <3>2, <3>3, StartCommandIs
    <3>5. MovesTo("SENDING_STOP")
      BY <2>2, <2>3, <3>2, <3>3, <3>4, Values DEF MovesTo, States, Places
    <3>6. DmaInv' /\ CmdInv' /\ WarnInv'
      BY <1>1, <2>2, <2>7, <3>2, <3>3, <3>4
         DEF DmaInv, CmdInv, WarnInv, Stage, IInv
    <3>7. ASSUME Timely PROVE Timely'
      <4>1. /\ Stage' = "SENDING_STOP" /\ h'.cmd # None /\ h'.cmd[1] = h.mrq
            /\ "CMD" \notin h'.pending_events /\ "cmd" \in h'.err
        BY <2>2, <2>7, <3>2, <3>3, <3>4 DEF Stage, None
      <4>2. CtoInv' /\ LineInv' /\ AnswerInv'
        BY <2>2, <2>3, <2>4, <3>2, <3>3, <3>4, <3>7, <4>1
           DEF Timely, CtoInv, LineInv, AnswerInv, CmdBits
      <4>3. DataInv'
        BY <2>2, <2>7, <3>2, <3>4, <3>7, <4>1 DEF Timely, DataInv, Lost
      <4>4. TruthInv'
        BY <2>2, <3>2, <3>3, <3>4, <3>7, <4>1 DEF Timely, TruthInv
      <4> QED BY <3>5, <3>7, <4>2, <4>3, <4>4, MovesTyped DEF Timely
    <3> QED BY <3>5, <3>6, <3>7, MovesTyped DEF Keeps, IInv
  (* a command without data ends the request *)
  <2>8. CASE CmdEnds(h.cmd[2], h.cmd_status = "bad") /\ dw_mci_request_end(s)
    <3>1. ~h.data /\ dw_mci_request_end(s)
      BY <2>8 DEF CmdEnds
    <3>2. ASSUME Timely PROVE Settled(s)
      <4>1. s.left = {} /\ s.ints \cap DataBits = {} /\ s.ints \cap CmdBits = {}
        BY <2>2, <2>4, <3>1, <3>2 DEF Timely, DataInv
      <4>2. s.err # {} \/ Sent \subseteq h.carried
        <5>1. CASE h.cmd_status = "bad"
          BY <2>2, <5>1
        <5>2. CASE h.cmd_status # "bad"
          <6>1. h.cmd[2] = "cmd"
            BY <2>2, <2>8, <5>2 DEF CmdEnds
          <6>2. ~h.kind.sbc /\ ~h.kind.stop /\ h.kind.dir = "none"
            BY <1>1, <3>1, <3>2, <6>1 DEF Timely, TruthInv
          <6> QED BY <2>4, <3>2, <5>2, <6>1, <6>2 DEF Sent
        <5> QED BY <5>1, <5>2
      <4> QED BY <2>2, <2>3, <2>4, <3>2, <4>1, <4>2 DEF Settled, Timely, CtoInv
    <3>3. /\ "DMA" \notin s.left /\ "DMA" \notin s.ints
          /\ "ERROR" \in s.pending_events => s.data_status \in Failed
      BY <2>2, <3>1 DEF IInv, DmaInv
    <3> QED BY <2>2, <2>3, <3>1, <3>2, <3>3, EndStep
  (* the data *)
  <2>9. CASE h.data /\ h.cmd_status # "bad" /\ Goto("SENDING_DATA", s)
    <3>1. h' = s /\ tsk' = "SENDING_DATA" /\ completing' = completing
      BY <2>9 DEF Goto
    <3>2. MovesTo("SENDING_DATA")
      BY <2>2, <2>3, <3>1, Values DEF MovesTo, States, Places
    <3>3. DmaInv' /\ CmdInv' /\ WarnInv'
      BY <1>1, <2>2, <3>1 DEF DmaInv, CmdInv, WarnInv, Stage, IInv
    <3>4. ASSUME Timely PROVE Timely'
      <4>1. Stage' = "SENDING_DATA" /\ h.cmd[2] = "cmd" /\ s.err = {}
        BY <2>2, <2>4, <2>9, <3>1, <3>4 DEF Stage
      <4>2. CtoInv' /\ LineInv' /\ AnswerInv'
        BY <2>2, <2>3, <2>4, <3>1, <3>4, <4>1
           DEF Timely, CtoInv, LineInv, AnswerInv, CmdBits
      <4>3. DataInv'
        BY <2>2, <2>4, <2>9, <3>1, <3>4 DEF Timely, DataInv, Lost, CmdBits
      <4>4. TruthInv'
        BY <2>2, <2>4, <2>9, <3>1, <3>4, <4>1 DEF Timely, TruthInv
      <4> QED BY <3>2, <3>4, <4>2, <4>3, <4>4, MovesTyped DEF Timely
    <3> QED BY <3>2, <3>3, <3>4, MovesTyped DEF Keeps, IInv
  <2> QED BY <1>3, <2>1, <2>6, <2>7, <2>8, <2>9 DEF SendingCmd
<1> QED BY <1>2, <1>3

(* The tasklet leaves until the DMA is done. *)
LEMMA XferWaits ==
  ASSUME IInv, tsk = "xfer", WaitForData("SENDING_DATA"),
         UNCHANGED <<firing, out, good>>
  PROVE  Keeps /\ Grows
<1>1. PICK s : s = IF h.kind.dir = "read" THEN Arm(h, "dto") ELSE h
  OBVIOUS
<1>2. /\ s \in HostRec /\ s.kind = h.kind /\ s.mrq = h.mrq /\ s.state = h.state
      /\ s.cmd = h.cmd /\ s.data = h.data
      /\ s.pending_events = h.pending_events /\ s.cmd_status = h.cmd_status
      /\ s.data_status = h.data_status /\ s.err = h.err /\ s.line = h.line
      /\ s.left = h.left /\ s.owner = h.owner /\ s.hung = h.hung
      /\ s.ints = h.ints /\ s.carried = h.carried /\ s.warn = h.warn
      /\ s.timers \subseteq h.timers \cup {"dto"}
  BY <1>1, ArmIs, Values DEF IInv, Typed
<1>3. h' = [s EXCEPT !.state = "SENDING_DATA", !.fresh = {}]
  BY <1>1 DEF WaitForData
<1>4. /\ h' \in HostRec /\ h'.kind = s.kind /\ h'.mrq = s.mrq
      /\ h'.state = "SENDING_DATA" /\ h'.cmd = s.cmd /\ h'.data = s.data
      /\ h'.pending_events = s.pending_events /\ h'.cmd_status = s.cmd_status
      /\ h'.data_status = s.data_status /\ h'.timers = s.timers
      /\ h'.err = s.err /\ h'.line = s.line /\ h'.left = s.left
      /\ h'.owner = s.owner /\ h'.hung = s.hung /\ h'.ints = s.ints
      /\ h'.carried = s.carried /\ h'.warn = s.warn
  BY <1>2, <1>3, Values DEF HostRec
<1>5. tsk' = "off" /\ UNCHANGED <<firing, out, completing, good>>
  BY DEF WaitForData
<1>6. Typed'
  BY <1>4, <1>5, Values DEF Typed, RestType, IInv
<1>7. MrqInv' /\ CmdInv' /\ WarnInv'
  BY <1>2, <1>4, <1>5 DEF MrqInv, CmdInv, WarnInv, Stage, IInv
<1>8. DmaInv'
  BY <1>2, <1>4, <1>5 DEF DmaInv, Stage, IInv
<1>9. ASSUME Timely PROVE Timely'
  <2>1. CtoInv' /\ LineInv' /\ AnswerInv'
    BY <1>2, <1>4, <1>5, <1>9 DEF Timely, CtoInv, LineInv, AnswerInv, Stage
  <2>2. DataInv'
    BY <1>2, <1>4, <1>9 DEF Timely, DataInv, Lost
  <2>3. TruthInv' /\ OutInv'
    BY <1>2, <1>4, <1>5, <1>9 DEF Timely, TruthInv, OutInv, Stage
  <2> QED BY <2>1, <2>2, <2>3 DEF Timely
<1>10. Grows
  BY <1>2, <1>4, <1>5 DEF Grows
<1> QED BY <1>6, <1>7, <1>8, <1>9, <1>10 DEF Keeps, IInv

(* STATE_SENDING_DATA: an error, or the event of the DMA and once more the *)
(* test for an error.                                                      *)
LEMMA SendingDataStep ==
  ASSUME IInv, SendingData, UNCHANGED <<firing, out, good>>
  PROVE  Keeps /\ Grows
<1>1. /\ tsk \in {"SENDING_DATA", "xfer", "recheck"} /\ Stage = tsk
      /\ h \in HostRec /\ h.mrq # NoMrq /\ h.mrq \in Mrqs
  <2>1. tsk \in {"SENDING_DATA", "xfer", "recheck"} /\ Stage = tsk
    BY DEF SendingData, Stage
  <2> QED BY <2>1 DEF IInv, Typed, MrqInv, HostRec, MaybeMrq
<1>2. CASE tsk \in {"SENDING_DATA", "recheck"} /\ "ERROR" \in h.pending_events
  <2>1. h' = Abort(h) /\ tsk' = "DATA_ERROR" /\ completing' = completing
    BY <1>2 DEF SendingData, Goto
  <2>2. PICK s0 : s0 = [h EXCEPT !.pending_events = @ \ {"ERROR"}]
    OBVIOUS
  <2>3. /\ s0 \in HostRec /\ s0.kind = h.kind /\ s0.mrq = h.mrq
        /\ s0.state = h.state /\ s0.cmd = h.cmd /\ s0.data = h.data
        /\ s0.pending_events = h.pending_events \ {"ERROR"}
        /\ s0.cmd_status = h.cmd_status /\ s0.data_status = h.data_status
        /\ s0.timers = h.timers /\ s0.err = h.err /\ s0.line = h.line
        /\ s0.left = h.left /\ s0.owner = h.owner /\ s0.hung = h.hung
        /\ s0.ints = h.ints /\ s0.carried = h.carried /\ s0.warn = h.warn
    BY <1>1, <2>2 DEF HostRec, Events
  <2>4. PICK s1 : s1 = dw_mci_stop_dma(s0)
    OBVIOUS
  <2>5. /\ s1 \in HostRec /\ s1.kind = s0.kind /\ s1.mrq = s0.mrq
        /\ s1.state = s0.state /\ s1.cmd = s0.cmd /\ s1.data = s0.data
        /\ s1.pending_events = s0.pending_events \cup {"XFER"}
        /\ s1.cmd_status = s0.cmd_status /\ s1.data_status = s0.data_status
        /\ s1.timers = s0.timers /\ s1.err = s0.err /\ s1.line = s0.line
        /\ s1.left = s0.left \ {"DMA"} /\ s1.owner = s0.owner
        /\ s1.hung = s0.hung /\ s1.ints = s0.ints /\ s1.carried = s0.carried
        /\ s1.warn = s0.warn
    BY <2>3, <2>4, StopDmaIs
  <2>6. PICK c \in Cmds : c = <<h.mrq, "stop">>
    BY <1>1 DEF Cmds, Roles
  <2>7. h' = s1 \/ h' = dw_mci_start_command(s1, c)
    BY <2>1, <2>2, <2>3, <2>4, <2>5, <2>6 DEF Abort, send_stop_abort
  <2>8. /\ h' \in HostRec /\ h'.kind = s1.kind /\ h'.mrq = s1.mrq
        /\ h'.state = s1.state /\ h'.data = s1.data
        /\ h'.pending_events = s1.pending_events
        /\ h'.cmd_status = s1.cmd_status /\ h'.data_status = s1.data_status
        /\ h'.err = s1.err /\ h'.left = s1.left /\ h'.owner = s1.owner
        /\ h'.ints = s1.ints /\ h'.carried = s1.carried /\ h'.warn = s1.warn
        /\ \/ /\ h'.cmd = s1.cmd /\ h'.line = s1.line /\ h'.hung = s1.hung
              /\ h'.timers = s1.timers
           \/ h'.cmd = c /\ h'.line = c
        /\ h'.timers \subseteq s1.timers \cup {"cto"}
        /\ "CMD" \in s1.pending_events => h'.timers = s1.timers
    BY <2>5, <2>7, StartCommandIs
  <2>9. MovesTo("DATA_ERROR")
    BY <1>1, <2>1, <2>3, <2>5, <2>8, Values DEF MovesTo, States, Places
  <2>10. h.data_status \in Failed
    BY <1>2 DEF IInv, DmaInv
  <2>11. DmaInv' /\ CmdInv' /\ WarnInv'
    BY <1>1, <2>1, <2>3, <2>5, <2>8, <2>10
       DEF DmaInv, CmdInv, WarnInv, Stage, IInv
  <2>12. ASSUME Timely PROVE Timely'
    <3>1. /\ h.cmd = None /\ "CMD" \notin h.pending_events
          /\ h.ints \cap CmdBits = {} /\ "cto" \notin h.timers \cup firing
          /\ c # None /\ c[1] = h.mrq /\ Stage' = "DATA_ERROR"
      BY <1>1, <2>1, <2>6, <2>12
         DEF Timely, CtoInv, AnswerInv, IInv, CmdInv, None, Stage
    <3>2. CtoInv' /\ LineInv' /\ AnswerInv'
      BY <2>1, <2>3, <2>5, <2>8, <2>12, <3>1
         DEF Timely, CtoInv, LineInv, AnswerInv, CmdBits
    <3>3. DataInv'
      BY <2>3, <2>5, <2>8, <2>10, <2>12 DEF Timely, DataInv, Lost
    <3>4. TruthInv'
      BY <1>1, <2>1, <2>3, <2>5, <2>8, <2>12, <3>1 DEF Timely, TruthInv
    <3> QED BY <2>9, <2>12, <3>2, <3>3, <3>4, MovesTyped DEF Timely
  <2> QED BY <2>9, <2>11, <2>12, MovesTyped DEF Keeps, IInv
<1>3. CASE tsk = "SENDING_DATA" /\ "ERROR" \notin h.pending_events
  <2>1. h' = h /\ tsk' = "xfer" /\ completing' = completing
    BY <1>3 DEF SendingData, Goto
  <2>2. MovesTo("xfer")
    BY <1>1, <2>1, Values DEF MovesTo, States, Places
  <2>3. DmaInv' /\ CmdInv' /\ WarnInv'
    BY <1>1, <1>3, <2>1 DEF DmaInv, CmdInv, WarnInv, Stage, IInv
  <2>4. ASSUME Timely PROVE Timely'
    <3>1. CtoInv' /\ LineInv' /\ AnswerInv'
      BY <1>1, <1>3, <2>1, <2>4 DEF Timely, CtoInv, LineInv, AnswerInv, Stage
    <3>2. DataInv'
      BY <1>1, <1>3, <2>1, <2>4 DEF Timely, DataInv, Lost
    <3>3. TruthInv'
      BY <1>1, <1>3, <2>1, <2>4 DEF Timely, TruthInv, Stage
    <3> QED BY <2>4, <3>1, <3>2, <3>3, <2>2, MovesTyped DEF Timely
  <2> QED BY <2>2, <2>3, <2>4, MovesTyped DEF Keeps, IInv
<1>4. CASE tsk = "xfer" /\ "XFER" \notin h.pending_events
  <2>1. WaitForData("SENDING_DATA")
    BY <1>4 DEF SendingData
  <2> QED BY <1>1, <1>4, <2>1, XferWaits
<1>5. CASE tsk = "xfer" /\ "XFER" \in h.pending_events
  <2>1. /\ h' = [h EXCEPT !.pending_events = @ \ {"XFER"}] /\ tsk' = "recheck"
        /\ completing' = completing
    BY <1>5 DEF SendingData, Goto
  <2>2. /\ h' \in HostRec /\ h'.kind = h.kind /\ h'.mrq = h.mrq
        /\ h'.state = h.state /\ h'.cmd = h.cmd /\ h'.data = h.data
        /\ h'.pending_events = h.pending_events \ {"XFER"}
        /\ h'.cmd_status = h.cmd_status /\ h'.data_status = h.data_status
        /\ h'.timers = h.timers /\ h'.err = h.err /\ h'.line = h.line
        /\ h'.left = h.left /\ h'.owner = h.owner /\ h'.hung = h.hung
        /\ h'.ints = h.ints /\ h'.carried = h.carried /\ h'.warn = h.warn
    BY <1>1, <2>1 DEF HostRec, Events
  <2>3. MovesTo("recheck")
    BY <1>1, <2>1, <2>2, Values DEF MovesTo, States, Places
  <2>4. DmaInv' /\ CmdInv' /\ WarnInv'
    BY <1>1, <1>5, <2>1, <2>2 DEF DmaInv, CmdInv, WarnInv, Stage, IInv
  <2>5. ASSUME Timely PROVE Timely'
    <3>1. CtoInv' /\ LineInv' /\ AnswerInv'
      BY <1>1, <2>1, <2>2, <2>5 DEF Timely, CtoInv, LineInv, AnswerInv, Stage
    <3>2. DataInv'
      BY <1>1, <2>1, <2>2, <2>5 DEF Timely, DataInv, Lost
    <3>3. TruthInv'
      BY <1>1, <2>1, <2>2, <2>5 DEF Timely, TruthInv, Stage
    <3> QED BY <2>5, <3>1, <3>2, <3>3, <2>3, MovesTyped DEF Timely
  <2> QED BY <2>3, <2>4, <2>5, MovesTyped DEF Keeps, IInv
<1>6. CASE tsk = "recheck" /\ "ERROR" \notin h.pending_events
  <2>1. h' = h /\ tsk' = "DATA_BUSY" /\ completing' = completing
    BY <1>6 DEF SendingData, Goto
  <2>2. MovesTo("DATA_BUSY")
    BY <1>1, <2>1, Values DEF MovesTo, States, Places
  <2>3. DmaInv' /\ CmdInv' /\ WarnInv'
    BY <1>1, <1>6, <2>1 DEF DmaInv, CmdInv, WarnInv, Stage, IInv
  <2>4. ASSUME Timely PROVE Timely'
    <3>1. CtoInv' /\ LineInv' /\ AnswerInv'
      BY <1>1, <1>6, <2>1, <2>4 DEF Timely, CtoInv, LineInv, AnswerInv, Stage
    <3>2. DataInv'
      BY <1>1, <1>6, <2>1, <2>4 DEF Timely, DataInv, Lost
    <3>3. TruthInv'
      BY <1>1, <1>6, <2>1, <2>4 DEF Timely, TruthInv, Stage
    <3> QED BY <2>4, <3>1, <3>2, <3>3, <2>2, MovesTyped DEF Timely
  <2> QED BY <2>2, <2>3, <2>4, MovesTyped DEF Keeps, IInv
<1> QED BY <1>1, <1>2, <1>3, <1>4, <1>5, <1>6 DEF SendingData


(* The tasklet takes the end of the data: the DMA has come to its end, or  *)
(* the reset has ended it.                                                 *)
LEMMA TakesData ==
  ASSUME IInv, tsk = "DATA_BUSY", NEW s,
         s = dw_mci_data_complete(
               [Clear(h, "DATA", "dto") EXCEPT !.data = FALSE])
  PROVE  /\ s \in HostRec /\ s.kind = h.kind /\ s.mrq = h.mrq
         /\ s.state = h.state /\ s.cmd = h.cmd /\ ~s.data
         /\ s.pending_events = h.pending_events \ {"DATA"}
         /\ s.data_status = h.data_status /\ s.timers = h.timers \ {"dto"}
         /\ "DMA" \notin s.left /\ "DMA" \notin s.ints
         /\ s.warn = h.warn \cup (h.timers \cap {"dto"})
         /\ s.carried = h.carried /\ s.cmd_status = h.cmd_status
         /\ h.data_status \in Failed =>
              /\ s.line = None /\ s.left = {} /\ s.ints = {}
              /\ "data" \in s.err
         /\ h.data_status \notin Failed =>
              /\ s.line = h.line /\ s.hung = h.hung /\ s.left = h.left
              /\ s.ints = h.ints /\ s.err = h.err
<1>1. /\ h \in HostRec /\ "DMA" \notin h.left
      /\ h.data_status \notin Failed => "DMA" \notin h.ints
  <2>1. Stage = "DATA_BUSY"
    BY DEF Stage
  <2> QED BY <2>1 DEF IInv, Typed, DmaInv
<1>2. PICK s1 : s1 = Clear(h, "DATA", "dto")
  OBVIOUS
<1>3. /\ s1 \in HostRec /\ s1.kind = h.kind /\ s1.mrq = h.mrq
      /\ s1.state = h.state /\ s1.cmd = h.cmd /\ s1.data = h.data
      /\ s1.pending_events = h.pending_events \ {"DATA"}
      /\ s1.cmd_status = h.cmd_status /\ s1.data_status = h.data_status
      /\ s1.timers = h.timers \ {"dto"} /\ s1.err = h.err /\ s1.line = h.line
      /\ s1.left = h.left /\ s1.owner = h.owner /\ s1.hung = h.hung
      /\ s1.ints = h.ints /\ s1.carried = h.carried
      /\ s1.warn = h.warn \cup (h.timers \cap {"dto"})
  BY <1>1, <1>2, ClearIs, Values
<1>4. PICK s2 : s2 = [s1 EXCEPT !.data = FALSE]
  OBVIOUS
<1>5. /\ s2 \in HostRec /\ s2.kind = s1.kind /\ s2.mrq = s1.mrq
      /\ s2.state = s1.state /\ s2.cmd = s1.cmd /\ s2.data = FALSE
      /\ s2.pending_events = s1.pending_events /\ s2.cmd_status = s1.cmd_status
      /\ s2.data_status = s1.data_status /\ s2.timers = s1.timers
      /\ s2.err = s1.err /\ s2.line = s1.line /\ s2.left = s1.left
      /\ s2.owner = s1.owner /\ s2.hung = s1.hung /\ s2.ints = s1.ints
      /\ s2.carried = s1.carried /\ s2.warn = s1.warn
  BY <1>3, <1>4 DEF HostRec
<1>6. PICK s3 : s3 = [s2 EXCEPT !.err = @ \cup {"data"}]
  OBVIOUS
<1>7. /\ s3 \in HostRec /\ s3.kind = s2.kind /\ s3.mrq = s2.mrq
      /\ s3.state = s2.state /\ s3.cmd = s2.cmd /\ s3.data = s2.data
      /\ s3.pending_events = s2.pending_events /\ s3.cmd_status = s2.cmd_status
      /\ s3.data_status = s2.data_status /\ s3.timers = s2.timers
      /\ s3.line = s2.line /\ s3.left = s2.left /\ s3.owner = s2.owner
      /\ s3.hung = s2.hung /\ s3.ints = s2.ints /\ s3.carried = s2.carried
      /\ s3.warn = s2.warn
      /\ "data" \in s3.err
  BY <1>5, <1>6 DEF HostRec, Parts
<1>8. PICK s4 : s4 = dw_mci_reset(s3)
  OBVIOUS
<1>9. /\ s4 \in HostRec /\ s4.kind = s3.kind /\ s4.mrq = s3.mrq
      /\ s4.state = s3.state /\ s4.cmd = s3.cmd /\ s4.data = s3.data
      /\ s4.pending_events = s3.pending_events /\ s4.cmd_status = s3.cmd_status
      /\ s4.data_status = s3.data_status /\ s4.timers = s3.timers
      /\ s4.err = s3.err /\ s4.line = None /\ s4.left = {} /\ s4.owner = NoMrq
      /\ s4.hung = {} /\ s4.ints = {} /\ s4.carried = s3.carried
      /\ s4.warn = s3.warn
  BY <1>7, <1>8, ResetIs
<1>10. s = dw_mci_data_complete(s2) /\ s2.data_status = h.data_status
  BY <1>2, <1>3, <1>4, <1>5
<1>11. CASE h.data_status \in Failed
  <2>1. s = s4
    BY <1>6, <1>8, <1>10, <1>11 DEF dw_mci_data_complete, Failed
  <2>2. /\ s.line = None /\ s.left = {} /\ s.ints = {} /\ "data" \in s.err
        /\ s.carried = h.carried /\ s.cmd_status = h.cmd_status
    BY <1>3, <1>5, <1>7, <1>9, <2>1
  <2>3. /\ s \in HostRec /\ s.kind = s1.kind /\ s.mrq = s1.mrq
        /\ s.state = s1.state /\ s.cmd = s1.cmd /\ ~s.data
        /\ s.pending_events = s1.pending_events /\ s.timers = s1.timers
        /\ s.data_status = s1.data_status /\ s.warn = s1.warn
    BY <1>5, <1>7, <1>9, <2>1
  <2> QED BY <1>3, <1>11, <2>2, <2>3
<1>12. CASE h.data_status \notin Failed
  <2>1. s = s2
    BY <1>10, <1>12 DEF dw_mci_data_complete, Failed
  <2> QED BY <1>1, <1>3, <1>5, <1>12, <2>1
<1> QED BY <1>11, <1>12

(* STATE_DATA_BUSY: the end, the stop command, or after an error the end   *)
(* of the command that was sent for it.                                    *)
LEMMA DataBusyStep ==
  ASSUME IInv, DataBusy, UNCHANGED <<firing, out, good>>
  PROVE  Keeps /\ Grows
<1>1. /\ tsk = "DATA_BUSY" /\ Stage = "DATA_BUSY" /\ h.mrq # NoMrq
      /\ h.mrq \in Mrqs
  <2>1. tsk = "DATA_BUSY" /\ Stage = "DATA_BUSY"
    BY DEF DataBusy, Stage
  <2> QED BY <2>1 DEF IInv, Typed, MrqInv, HostRec, MaybeMrq
<1>2. CASE "DATA" \notin h.pending_events
  <2>1. WaitForData("DATA_BUSY")
    BY <1>2 DEF DataBusy
  <2> QED BY <1>1, <2>1, WaitStep
<1>3. CASE "DATA" \in h.pending_events
  <2>1. PICK s : s = dw_mci_data_complete(
                       [Clear(h, "DATA", "dto") EXCEPT !.data = FALSE])
    OBVIOUS
  <2>2. /\ s \in HostRec /\ s.kind = h.kind /\ s.mrq = h.mrq
        /\ s.state = h.state /\ s.cmd = h.cmd /\ ~s.data
        /\ s.pending_events = h.pending_events \ {"DATA"}
        /\ s.data_status = h.data_status /\ s.timers = h.timers \ {"dto"}
        /\ "DMA" \notin s.left /\ "DMA" \notin s.ints
        /\ s.warn = h.warn \cup (h.timers \cap {"dto"})
        /\ s.carried = h.carried /\ s.cmd_status = h.cmd_status
        /\ h.data_status \in Failed =>
             /\ s.line = None /\ s.left = {} /\ s.ints = {}
             /\ "data" \in s.err
        /\ h.data_status \notin Failed =>
             /\ s.line = h.line /\ s.hung = h.hung /\ s.left = h.left
             /\ s.ints = h.ints /\ s.err = h.err
    BY <1>1, <2>1, TakesData
  <2>3. "ERROR" \in s.pending_events => s.data_status \in Failed
    BY <2>2 DEF IInv, DmaInv
  <2>4. CtoInv => /\ "CMD" \in s.pending_events \/ "cto" \in firing =>
                       "cto" \notin s.timers
                  /\ "cto" \notin s.warn
    BY <2>2 DEF CtoInv
  (* without an error the card has done it *)
  <2>5. ASSUME Timely, h.data_status \notin Failed
        PROVE  /\ h.cmd = None /\ "CMD" \notin h.pending_events
               /\ h.ints \cap CmdBits = {} /\ h.ints \cap DataBits = {}
               /\ h.left = {} /\ h.err = {}
               /\ "cmd" \in h.carried /\ "data" \in h.carried
               /\ h.kind.sbc => "sbc" \in h.carried
               /\ h.line = None \/ "line" \in h.hung
               /\ "cto" \notin h.timers \cup firing
    <3>1. /\ h.cmd = None /\ "DMA" \notin h.left /\ "DMA" \notin h.ints
          /\ h.left \subseteq {"DMA", "OVER"}
      BY <1>1, <2>5 DEF IInv, CmdInv, DmaInv, Typed, HostRec, Leftovers
    <3>2. /\ h.data /\ h.err = {} /\ "cmd" \in h.carried
          /\ h.kind.sbc => "sbc" \in h.carried
      BY <1>1, <2>5 DEF Timely, TruthInv
    <3>3. /\ "CMD" \notin h.pending_events /\ h.ints \cap CmdBits = {}
          /\ h.line = None \/ "line" \in h.hung
          /\ "cto" \notin h.timers \cup firing
      BY <1>1, <2>5, <3>1 DEF Timely, LineInv, AnswerInv
    <3>4. /\ "OVER" \notin h.left
          /\ h.ints \cap (ErrorBits \cup {"DATA_OVER"}) = {}
      BY <1>3, <2>5, <3>2 DEF Timely, DataInv
    <3>5. h.left = {} /\ h.ints \cap DataBits = {}
      BY <3>1, <3>4 DEF ErrorBits, DataBits
    <3>6. "data" \in h.carried
      BY <2>5, <3>2, <3>3, <3>4, <3>5 DEF Timely, DataInv, Lost, CmdBits
    <3> QED BY <3>1, <3>2, <3>3, <3>5, <3>6
  (* the transfer has ended well, and needs no stop command *)
  <2>6. CASE /\ h.data_status \notin Failed /\ dw_mci_request_end(s)
             /\ ~h.kind.stop \/ h.kind.sbc
    <3>1. s.cmd = None
      BY <1>1, <2>2, <2>6 DEF IInv, CmdInv
    <3>2. ASSUME Timely PROVE Settled(s)
      <4>1. Sent \subseteq h.carried
        BY <2>6, <2>5, <3>2 DEF Sent
      <4> QED BY <2>2, <2>4, <2>6, <2>5, <3>2, <4>1 DEF Settled, Timely
    <3> QED BY <1>1, <2>2, <2>3, <2>6, <3>1, <3>2, EndStep
  (* an open-ended transfer is stopped *)
  <2>7. CASE /\ h.data_status \notin Failed /\ h.kind.stop /\ ~h.kind.sbc
             /\ Goto("SENDING_STOP", send_stop_abort(s))
    <3>1. PICK c \in Cmds : c = <<h.mrq, "stop">>
      BY <1>1 DEF Cmds, Roles
    <3>2. /\ h' = dw_mci_start_command(s, c) /\ tsk' = "SENDING_STOP"
          /\ completing' = completing
      BY <2>2, <2>7, <3>1 DEF Goto, send_stop_abort
    <3>3. /\ h' \in HostRec /\ h'.kind = s.kind /\ h'.mrq = s.mrq
          /\ h'.state = s.state /\ h'.cmd = c /\ h'.data = s.data
          /\ h'.pending_events = s.pending_events
          /\ h'.cmd_status = s.cmd_status /\ h'.data_status = s.data_status
          /\ h'.timers = h'.timers /\ h'.err = s.err /\ h'.line = c
          /\ h'.left = s.left /\ h'.owner = s.owner
          /\ h'.hung = s.hung \ {"line"} /\ h'.ints = s.ints
          /\ h'.carried = s.carried /\ h'.warn = s.warn
          /\ h'.timers \subseteq s.timers \cup {"cto"}
          /\ "CMD" \in s.pending_events => h'.timers = s.timers
      BY <2>2, <3>2, StartCommandIs
    <3>4. MovesTo("SENDING_STOP")
      BY <1>1, <2>2, <3>2, <3>3, Values DEF MovesTo, States, Places
    <3>5. DmaInv' /\ CmdInv' /\ WarnInv'
      BY <2>2, <2>3, <3>2, <3>3 DEF DmaInv, CmdInv, WarnInv, Stage, IInv
    <3>6. ASSUME Timely PROVE Timely'
      <4>1. Stage' = "SENDING_STOP" /\ c # None /\ c[1] = h.mrq
        BY <3>1, <3>2 DEF Stage, None
      <4>2. CtoInv' /\ LineInv' /\ AnswerInv'
        BY <2>2, <2>4, <2>7, <2>5, <3>2, <3>3, <3>6, <4>1
           DEF Timely, CtoInv, LineInv, AnswerInv, CmdBits
      <4>3. DataInv'
        BY <2>2, <2>7, <2>5, <3>3, <3>6 DEF DataInv
      <4>4. TruthInv'
        BY <2>2, <2>7, <2>5, <3>1, <3>2, <3>3, <3>6, <4>1 DEF Timely, TruthInv
      <4> QED BY <3>4, <3>6, <4>2, <4>3, <4>4, MovesTyped DEF Timely
    <3> QED BY <3>4, <3>5, <3>6, MovesTyped DEF Keeps, IInv
  (* after an error there is no command-done event any more *)
  <2>8. CASE /\ h.data_status \in Failed /\ "CMD" \notin s.pending_events
             /\ dw_mci_request_end([s EXCEPT !.cmd = None])
    <3>1. PICK u : u = [s EXCEPT !.cmd = None]
      OBVIOUS
    <3>2. /\ u \in HostRec /\ u.kind = s.kind /\ u.mrq = s.mrq
          /\ u.state = s.state /\ u.cmd = None /\ u.data = s.data
          /\ u.pending_events = s.pending_events /\ u.cmd_status = s.cmd_status
          /\ u.data_status = s.data_status /\ u.timers = s.timers
          /\ u.err = s.err /\ u.line = s.line /\ u.left = s.left
          /\ u.owner = s.owner /\ u.hung = s.hung /\ u.ints = s.ints
          /\ u.carried = s.carried /\ u.warn = s.warn
      BY <2>2, <3>1, Values DEF HostRec
    <3>3. dw_mci_request_end(u)
      BY <2>8, <3>1
    <3>4. ASSUME Timely PROVE Settled(u)
      BY <2>2, <2>4, <2>8, <3>2, <3>4 DEF Settled, Timely
    <3> QED BY <1>1, <2>2, <2>3, <3>2, <3>3, <3>4, EndStep
  (* there is one: the stop command has been answered *)
  <2>9. CASE /\ h.data_status \in Failed /\ "CMD" \in s.pending_events
             /\ Goto("SENDING_STOP", s)
    <3>1. h' = s /\ tsk' = "SENDING_STOP" /\ completing' = completing
      BY <2>9 DEF Goto
    <3>2. MovesTo("SENDING_STOP")
      BY <1>1, <2>2, <3>1, Values DEF MovesTo, States, Places
    <3>3. DmaInv' /\ CmdInv' /\ WarnInv'
      BY <2>2, <2>3, <3>1 DEF DmaInv, CmdInv, WarnInv, Stage, IInv
    <3>4. ASSUME Timely PROVE Timely'
      <4>1. /\ Stage' = "SENDING_STOP" /\ h.cmd # None
            /\ "cto" \in firing => "cto" \notin h.timers
        BY <2>2, <2>9, <3>1, <3>4 DEF Stage, Timely, AnswerInv, CtoInv
      <4>2. CtoInv' /\ LineInv' /\ AnswerInv'
        BY <2>2, <2>4, <2>9, <3>1, <3>4, <4>1
           DEF Timely, CtoInv, LineInv, AnswerInv
      <4>3. DataInv'
        BY <2>2, <2>9, <3>1 DEF DataInv
      <4>4. TruthInv'
        BY <2>2, <2>9, <3>1, <3>4, <4>1 DEF Timely, TruthInv
      <4> QED BY <3>2, <3>4, <4>2, <4>3, <4>4, MovesTyped DEF Timely
    <3> QED BY <3>2, <3>3, <3>4, MovesTyped DEF Keeps, IInv
  <2> QED BY <1>3, <2>1, <2>6, <2>7, <2>8, <2>9 DEF DataBusy, Failed
<1> QED BY <1>2, <1>3

(* STATE_SENDING_STOP: the request ends; after a failed command the reset  *)
(* has ended its data.                                                     *)
LEMMA SendingStopStep ==
  ASSUME IInv, SendingStop, UNCHANGED <<firing, out, good>>
  PROVE  Keeps /\ Grows
<1>1. /\ tsk = "SENDING_STOP" /\ Stage = "SENDING_STOP" /\ h.mrq # NoMrq
      /\ h \in HostRec
  <2>1. tsk = "SENDING_STOP" /\ Stage = "SENDING_STOP"
    BY DEF SendingStop, Stage
  <2> QED BY <2>1 DEF IInv, Typed, MrqInv
<1>2. CASE "CMD" \notin h.pending_events
  <2>1. Leave("SENDING_STOP")
    BY <1>2 DEF SendingStop
  <2> QED BY <1>1, <2>1, LeaveStep, Values
<1>3. CASE "CMD" \in h.pending_events
  <2>1. PICK s1 : s1 = Clear(h, "CMD", "cto")
    OBVIOUS
  <2>2. /\ s1 \in HostRec /\ s1.kind = h.kind /\ s1.mrq = h.mrq
        /\ s1.state = h.state /\ s1.cmd = h.cmd /\ s1.data = h.data
        /\ s1.pending_events = h.pending_events \ {"CMD"}
        /\ s1.cmd_status = h.cmd_status /\ s1.data_status = h.data_status
        /\ s1.timers = h.timers \ {"cto"} /\ s1.err = h.err /\ s1.line = h.line
        /\ s1.left = h.left /\ s1.owner = h.owner /\ s1.hung = h.hung
        /\ s1.ints = h.ints /\ s1.carried = h.carried
        /\ s1.warn = h.warn \cup (h.timers \cap {"cto"})
    BY <1>1, <2>1, ClearIs, Values
  <2>3. PICK r : r = dw_mci_reset(s1)
    OBVIOUS
  <2>4. /\ r \in HostRec /\ r.kind = s1.kind /\ r.mrq = s1.mrq
        /\ r.state = s1.state /\ r.cmd = s1.cmd /\ r.data = s1.data
        /\ r.pending_events = s1.pending_events /\ r.cmd_status = s1.cmd_status
        /\ r.data_status = s1.data_status /\ r.timers = s1.timers
        /\ r.err = s1.err /\ r.line = None /\ r.left = {} /\ r.owner = NoMrq
        /\ r.hung = {} /\ r.ints = {} /\ r.carried = s1.carried
        /\ r.warn = s1.warn
    BY <2>2, <2>3, ResetIs
  <2>5. PICK s2 : s2 = IF "cmd" \in h.err /\ h.kind.dir # "none" THEN r ELSE s1
    OBVIOUS
  <2>6. /\ s2 \in HostRec /\ s2.kind = s1.kind /\ s2.mrq = s1.mrq
        /\ s2.state = s1.state /\ s2.cmd = s1.cmd /\ s2.data = s1.data
        /\ s2.pending_events = s1.pending_events
        /\ s2.cmd_status = s1.cmd_status /\ s2.data_status = s1.data_status
        /\ s2.timers = s1.timers /\ s2.err = s1.err /\ s2.carried = s1.carried
        /\ s2.warn = s1.warn
        /\ "DMA" \notin s2.left /\ "DMA" \notin s2.ints
        /\ \/ s2.line = None /\ s2.left = {} /\ s2.ints = {}
           \/ /\ s2.line = h.line /\ s2.hung = h.hung /\ s2.left = h.left
              /\ s2.ints = h.ints /\ ~h.data
    <3>1. CASE "cmd" \in h.err /\ h.kind.dir # "none"
      BY <2>4, <2>5, <3>1
    <3>2. CASE ~("cmd" \in h.err /\ h.kind.dir # "none")
      <4>1. "DMA" \notin h.left /\ ~h.data /\ "DMA" \notin h.ints
        BY <1>1, <3>2 DEF IInv, DmaInv
      <4>2. s2 = s1
        BY <2>5, <3>2
      <4> QED BY <2>2, <4>1, <4>2
    <3> QED BY <3>1, <3>2
  <2>7. PICK s3 : s3 = [s2 EXCEPT !.cmd = None, !.data = FALSE]
    OBVIOUS
  <2>8. /\ s3 \in HostRec /\ s3.kind = s2.kind /\ s3.mrq = s2.mrq
        /\ s3.state = s2.state /\ s3.cmd = None /\ s3.data = FALSE
        /\ s3.pending_events = s2.pending_events
        /\ s3.cmd_status = s2.cmd_status /\ s3.data_status = s2.data_status
        /\ s3.timers = s2.timers /\ s3.err = s2.err /\ s3.line = s2.line
        /\ s3.left = s2.left /\ s3.owner = s2.owner /\ s3.hung = s2.hung
        /\ s3.ints = s2.ints /\ s3.carried = s2.carried /\ s3.warn = s2.warn
    BY <2>6, <2>7, Values DEF HostRec
  <2>9. PICK u : u = IF ~h.kind.sbc /\ h.kind.stop
                     THEN dw_mci_command_complete(s3, "stop")
                     ELSE [s3 EXCEPT !.cmd_status = "none"]
    OBVIOUS
  <2>10. /\ u \in HostRec /\ u.kind = s3.kind /\ u.mrq = s3.mrq
         /\ u.state = s3.state /\ u.cmd = s3.cmd /\ u.data = s3.data
         /\ u.pending_events = s3.pending_events
         /\ u.data_status = s3.data_status /\ u.timers = s3.timers
         /\ u.line = s3.line /\ u.left = s3.left /\ u.owner = s3.owner
         /\ u.hung = s3.hung /\ u.ints = s3.ints /\ u.carried = s3.carried
         /\ u.warn = s3.warn
         /\ \/ ~h.kind.stop \/ h.kind.sbc
            \/ s3.cmd_status = "bad" /\ u.err = s3.err \cup {"stop"}
            \/ s3.cmd_status # "bad" /\ u.err = s3.err \ {"stop"}
         /\ s3.err \ {"stop"} \subseteq u.err
    <3>1. CASE u = dw_mci_command_complete(s3, "stop")
      BY <2>8, <3>1, CommandCompleteIs
    <3>2. CASE /\ u = [s3 EXCEPT !.cmd_status = "none"]
               /\ ~h.kind.stop \/ h.kind.sbc
      BY <2>8, <3>2, Values DEF HostRec
    <3> QED BY <2>9, <3>1, <3>2
  <2>11. "cto" \notin firing /\ dw_mci_request_end(u)
    BY <1>3, <2>1, <2>3, <2>5, <2>7, <2>9 DEF SendingStop
  <2>12. "ERROR" \in u.pending_events => u.data_status \in Failed
    BY <2>2, <2>6, <2>8, <2>10 DEF IInv, DmaInv
  <2>13. ASSUME Timely PROVE Settled(u)
    <3>1. "cto" \notin u.timers /\ "cto" \notin u.warn
      BY <1>3, <2>2, <2>6, <2>8, <2>10, <2>13 DEF Timely, CtoInv
    <3>2. /\ h.ints \cap CmdBits = {}
          /\ h.line = None \/ "line" \in h.hung
          /\ h.cmd_status # "bad" => h.cmd[2] \in h.carried
      BY <1>3, <2>13 DEF Timely, LineInv, AnswerInv
    <3>3. ~h.data => h.left = {} /\ h.ints \cap DataBits = {}
      BY <2>13 DEF Timely, DataInv
    <3>4. u.err # {} \/ Sent \subseteq h.carried
      <4>1. CASE "cmd" \in h.err \/ "data" \in h.err
        BY <2>2, <2>6, <2>8, <2>10, <4>1
      <4>2. CASE /\ h.err = {} /\ ~h.kind.sbc /\ h.kind.stop
                 /\ "cmd" \in h.carried /\ "data" \in h.carried
                 /\ h.cmd = <<h.mrq, "stop">>
        <5>1. h.cmd_status = "bad" => u.err # {}
          BY <2>2, <2>6, <2>8, <2>10, <4>2
        <5>2. h.cmd_status # "bad" => "stop" \in h.carried
          BY <3>2, <4>2
        <5> QED BY <4>2, <5>1, <5>2 DEF Sent
      <4> QED BY <1>1, <2>13, <4>1, <4>2 DEF Timely, TruthInv
    <3>5. "CMD" \notin u.pending_events
      BY <2>2, <2>6, <2>8, <2>10
    <3>6. /\ u.ints \cap CmdBits = {} /\ u.ints \cap DataBits = {}
          /\ u.left = {}
          /\ u.line = None \/ "line" \in u.hung
      <4>1. CASE s2.line = None /\ s2.left = {} /\ s2.ints = {}
        BY <2>8, <2>10, <4>1
      <4>2. CASE /\ s2.line = h.line /\ s2.hung = h.hung /\ s2.left = h.left
                 /\ s2.ints = h.ints /\ ~h.data
        BY <2>8, <2>10, <3>2, <3>3, <4>2
      <4> QED BY <2>6, <4>1, <4>2
    <3> QED BY <3>1, <3>4, <3>5, <3>6 DEF Settled
  <2>14. /\ u.warn \subseteq h.warn \cup {"cto", "dto"} /\ u.mrq = h.mrq
         /\ u.kind = h.kind /\ u.carried = h.carried
    BY <2>2, <2>6, <2>8, <2>10
  <2> QED
    BY <1>1, <2>6, <2>8, <2>10, <2>11, <2>12, <2>13, <2>14, EndStep
<1> QED BY <1>2, <1>3

(* STATE_DATA_ERROR: the tasklet waits until the DMA has been stopped. *)
LEMMA DataErrorStep ==
  ASSUME IInv, DataErrorState, UNCHANGED <<firing, out, good>>
  PROVE  Keeps /\ Grows
<1>1. /\ tsk = "DATA_ERROR" /\ Stage = "DATA_ERROR" /\ h.mrq # NoMrq
      /\ h \in HostRec
  <2>1. tsk = "DATA_ERROR" /\ Stage = "DATA_ERROR"
    BY DEF DataErrorState, Stage
  <2> QED BY <2>1 DEF IInv, Typed, MrqInv
<1>2. CASE "XFER" \notin h.pending_events
  <2>1. Leave("DATA_ERROR")
    BY <1>2 DEF DataErrorState
  <2> QED BY <1>1, <2>1, LeaveStep, Values
<1>3. CASE "XFER" \in h.pending_events
  <2>1. /\ h' = [h EXCEPT !.pending_events = @ \ {"XFER"}]
        /\ tsk' = "DATA_BUSY" /\ completing' = completing
    BY <1>3 DEF DataErrorState, Goto
  <2>2. /\ h' \in HostRec /\ h'.kind = h.kind /\ h'.mrq = h.mrq
        /\ h'.state = h.state /\ h'.cmd = h.cmd /\ h'.data = h.data
        /\ h'.pending_events = h.pending_events \ {"XFER"}
        /\ h'.cmd_status = h.cmd_status /\ h'.data_status = h.data_status
        /\ h'.timers = h.timers /\ h'.err = h.err /\ h'.line = h.line
        /\ h'.left = h.left /\ h'.owner = h.owner /\ h'.hung = h.hung
        /\ h'.ints = h.ints /\ h'.carried = h.carried /\ h'.warn = h.warn
    BY <1>1, <2>1 DEF HostRec, Events
  <2>3. MovesTo("DATA_BUSY")
    BY <1>1, <2>1, <2>2, Values DEF MovesTo, States, Places
  <2>4. DmaInv' /\ CmdInv' /\ WarnInv'
    BY <1>1, <2>1, <2>2 DEF DmaInv, CmdInv, WarnInv, Stage, IInv
  <2>5. h.data_status \in Failed
    BY <1>1 DEF IInv, DmaInv
  <2>6. ASSUME Timely PROVE Timely'
    <3>1. CtoInv' /\ LineInv' /\ AnswerInv'
      BY <1>1, <2>1, <2>2, <2>5, <2>6
         DEF Timely, CtoInv, LineInv, AnswerInv, Stage
    <3>2. DataInv'
      BY <1>1, <2>1, <2>2, <2>5, <2>6 DEF Timely, DataInv, Lost
    <3>3. TruthInv'
      BY <1>1, <2>1, <2>2, <2>5, <2>6 DEF Timely, TruthInv, Stage
    <3> QED BY <2>6, <3>1, <3>2, <3>3, <2>3, MovesTyped DEF Timely
  <2> QED BY <2>3, <2>4, <2>6, MovesTyped DEF Keeps, IInv
<1> QED BY <1>2, <1>3

(* One test of the tasklet. *)
LEMMA TaskletStepKeeps ==
  ASSUME IInv, TaskletStep
  PROVE  Keeps /\ Grows
<1>1. UNCHANGED <<firing, out, good>>
  BY DEF TaskletStep
<1>2. CASE Idle
  <2>1. tsk = "IDLE" /\ Leave("IDLE")
    BY <1>2 DEF Idle
  <2> QED BY <1>1, <2>1, LeaveStep, Values
<1>3. CASE SendingCmd
  BY <1>1, <1>3, SendingCmdStep
<1>4. CASE SendingData
  BY <1>1, <1>4, SendingDataStep
<1>5. CASE DataBusy
  BY <1>1, <1>5, DataBusyStep
<1>6. CASE SendingStop
  BY <1>1, <1>6, SendingStopStep
<1>7. CASE DataErrorState
  BY <1>1, <1>7, DataErrorStep
<1> QED BY <1>2, <1>3, <1>4, <1>5, <1>6, <1>7 DEF TaskletStep

(* dw_mci_request(): a request the core did not have out is in a host that *)
(* has none, and the card has done nothing of it.                          *)
LEMMA RequestStep ==
  ASSUME IInv, NEW m \in Mrqs, NEW k \in Kinds, dw_mci_request(m, k)
  PROVE  Keeps /\ (Timely => h'.carried = {})
<1>1. /\ out = {} /\ out' = {m} /\ tsk = "off" /\ h.state = "IDLE"
      /\ good' = NoMrq /\ UNCHANGED <<tsk, firing, completing>>
      /\ LateTimers \/ firing = {}
  BY DEF dw_mci_request
<1>2. /\ h.mrq = NoMrq /\ completing = NoMrq /\ h \in HostRec
      /\ m # NoMrq /\ k \in KindType /\ m \in MaybeMrq
  BY <1>1, MrqsAssumption, KindsAssumption
     DEF IInv, MrqInv, Typed, RestType, MaybeMrq
<1>3. ~h.data /\ "DMA" \notin h.ints
  BY <1>2 DEF IInv, DmaInv
<1>4. PICK s : s = [h EXCEPT !.kind = k, !.mrq = m, !.state = "SENDING_CMD"]
  OBVIOUS
<1>5. /\ s \in HostRec /\ s.kind = k /\ s.mrq = m /\ s.state = "SENDING_CMD"
      /\ s.cmd = h.cmd /\ s.data = h.data
      /\ s.pending_events = h.pending_events /\ s.cmd_status = h.cmd_status
      /\ s.data_status = h.data_status /\ s.timers = h.timers /\ s.err = h.err
      /\ s.line = h.line /\ s.left = h.left /\ s.owner = h.owner
      /\ s.hung = h.hung /\ s.ints = h.ints /\ s.carried = h.carried
      /\ s.warn = h.warn
  BY <1>2, <1>4, Values DEF HostRec
<1>6. s = [h EXCEPT !.kind = k, !.mrq = m, !.state = "SENDING_CMD",
                    !.warn = IF h.mrq # NoMrq THEN @ \cup {"slot"} ELSE @]
  BY <1>2, <1>4 DEF HostRec
<1>7. PICK c \in Cmds : /\ c = <<m, IF k.sbc THEN "sbc" ELSE "cmd">>
                        /\ c \in {<<m, "sbc">>, <<m, "cmd">>}
  BY DEF Cmds, Roles
<1>8. PICK d \in BOOLEAN : d = (c[2] = "cmd" /\ s.kind.dir # "none")
  OBVIOUS
<1>9. PICK u : u = __dw_mci_start_request(s, c)
  OBVIOUS
<1>10. /\ u \in HostRec /\ u.kind = s.kind /\ u.mrq = s.mrq
       /\ u.state = s.state /\ u.cmd = c /\ u.data = d
       /\ u.pending_events = {} /\ u.cmd_status = "none"
       /\ u.data_status = "none"
       /\ u.left = IF d THEN {"DMA", "OVER"} ELSE {}
       /\ u.owner = IF d THEN s.mrq ELSE NoMrq
       /\ u.ints = s.ints /\ u.warn = s.warn /\ u.err = s.err
       /\ u.line = c /\ u.hung = s.hung \ {"line"} /\ u.carried = s.carried
  BY <1>5, <1>8, <1>9, StartRequestIs
<1>11. h' = [u EXCEPT !.fresh = {}]
  BY <1>6, <1>7, <1>9 DEF dw_mci_request
<1>12. /\ h' \in HostRec /\ h'.kind = u.kind /\ h'.mrq = u.mrq
       /\ h'.state = u.state /\ h'.cmd = u.cmd /\ h'.data = u.data
       /\ h'.pending_events = u.pending_events /\ h'.cmd_status = u.cmd_status
       /\ h'.data_status = u.data_status /\ h'.timers = u.timers
       /\ h'.err = u.err /\ h'.line = u.line /\ h'.left = u.left
       /\ h'.owner = u.owner /\ h'.hung = u.hung /\ h'.ints = u.ints
       /\ h'.carried = u.carried /\ h'.warn = u.warn
  BY <1>10, <1>11, Values DEF HostRec
<1>13. d => c = <<m, "cmd">> /\ k.dir # "none"
  BY <1>5, <1>7, <1>8
<1>14. Typed'
  BY <1>1, <1>2, <1>12, Values DEF Typed, RestType, IInv
<1>15. MrqInv'
  BY <1>1, <1>2, <1>5, <1>10, <1>12 DEF MrqInv, Stage
<1>16. CmdInv' /\ WarnInv'
  BY <1>1, <1>5, <1>7, <1>10, <1>12, <1>13 DEF CmdInv, WarnInv, Stage, IInv
<1>17. DmaInv'
  BY <1>1, <1>2, <1>3, <1>5, <1>10, <1>12, <1>13 DEF DmaInv, Stage
<1>18. ASSUME Timely PROVE /\ h.carried = {} /\ h.err = {}
                           /\ h.ints \cap CmdBits = {}
                           /\ h.ints \cap DataBits = {}
                           /\ "cto" \notin h.warn
  <2>1. Stage = "IDLE" /\ tsk # "end"
    BY <1>1 DEF Stage
  <2>2. h.carried = {} /\ h.err = {} /\ h.cmd = None
    BY <1>18, <2>1 DEF Timely, TruthInv, AnswerInv
  <2>3. h.ints \cap CmdBits = {}
    BY <1>18, <2>2 DEF Timely, AnswerInv
  <2> QED BY <1>3, <1>18, <2>2, <2>3 DEF Timely, DataInv, CtoInv
<1>19. Timely => h'.carried = {}
  BY <1>5, <1>10, <1>12, <1>18
<1>20. ASSUME Timely, ~LateTimers PROVE Timely'
  <2>1. /\ Stage' = "SENDING_CMD" /\ firing' = {} /\ tsk' = "off"
        /\ h'.mrq = m
    BY <1>1, <1>5, <1>10, <1>12, <1>20 DEF Stage
  <2>2. /\ c # None /\ c[1] = m
        /\ c[2] = "cmd" => ~k.sbc
    BY <1>7 DEF None
  <2>3. /\ h'.cmd = c /\ h'.line = c /\ h'.pending_events = {}
        /\ h'.ints \cap CmdBits = {} /\ h'.data = d /\ "line" \notin h'.hung
        /\ "cto" \notin h'.warn /\ h'.err = {} /\ h'.kind = k
    BY <1>5, <1>10, <1>12, <1>18, <1>20
  <2>4. CtoInv' /\ LineInv' /\ AnswerInv'
    BY <2>1, <2>2, <2>3 DEF CtoInv, LineInv, AnswerInv, CmdBits
  <2>5. DataInv'
    <3>1. ~d => h'.left = {} /\ h'.ints \cap DataBits = {}
      BY <1>5, <1>10, <1>12, <1>18, <1>20
    <3>2. d => /\ h'.owner = h'.mrq /\ h'.left # {}
               /\ "DATA_OVER" \notin h'.ints
      BY <1>5, <1>10, <1>12, <1>18, <1>20 DEF DataBits
    <3> QED BY <2>3, <3>1, <3>2 DEF DataInv, Lost
  <2>6. TruthInv'
    <3>1. k.sbc \/ k.stop => k.dir # "none"
      BY KindsAssumption
    <3>2. c[2] = "cmd" => (d <=> k.dir # "none")
      BY <1>5, <1>8
    <3> QED BY <2>1, <2>2, <2>3, <3>1, <3>2 DEF TruthInv
  <2>7. OutInv'
    BY <1>1, <1>2, <2>1 DEF OutInv
  <2> QED BY <2>4, <2>5, <2>6, <2>7 DEF Timely
<1> QED BY <1>14, <1>15, <1>16, <1>17, <1>19, <1>20 DEF Keeps, IInv

-----------------------------------------------------------------------------
(* The invariants hold at the start. *)
LEMMA InitHolds ==
  ASSUME Init
  PROVE  IInv /\ Timely
<1>1. Typed
  <2>1. h \in HostRec
    <3>1. "IDLE" \in States /\ {} \in Warnings
      BY DEF States, Warnings
    <3> QED BY <3>1, Values DEF Init, HostRec
  <2>2. RestType
    BY Values DEF Init, RestType
  <2> QED BY <2>1, <2>2 DEF Typed
<1>2. MrqInv /\ DmaInv /\ CmdInv /\ WarnInv
  BY DEF Init, MrqInv, DmaInv, CmdInv, WarnInv, Stage
<1>3. CtoInv /\ LineInv /\ AnswerInv
  BY DEF Init, CtoInv, LineInv, AnswerInv, Stage, CmdBits
<1>4. DataInv /\ TruthInv /\ OutInv
  BY DEF Init, DataInv, TruthInv, OutInv, Stage, NoKind
<1> QED BY <1>1, <1>2, <1>3, <1>4 DEF IInv, Timely

(* No step breaks an invariant. *)
LEMMA NextHolds ==
  ASSUME IInv, [Next]_vars
  PROVE  Keeps
<1>1. CASE UNCHANGED vars
  <2>1. IInv'
    BY <1>1 DEF vars, IInv, Typed, RestType, MrqInv, DmaInv, CmdInv, WarnInv,
                Stage
  <2>2. Timely => Timely'
    BY <1>1 DEF vars, Timely, CtoInv, LineInv, AnswerInv, DataInv, TruthInv,
                OutInv, Stage, Lost, Sent
  <2> QED BY <2>1, <2>2 DEF Keeps
<1>2. CASE \E m \in Mrqs : NoCard(m) \/ \E k \in Kinds : dw_mci_request(m, k)
  BY <1>2, NoCardStep, RequestStep
<1>3. CASE Refuse
  BY <1>3, RefuseStep
<1>4. CASE dw_mci_interrupt
  BY <1>4, InterruptStep
<1>5. CASE dw_mci_tasklet_func
  BY <1>5, RunsStep, TaskletStepKeeps, DoneStep DEF dw_mci_tasklet_func
<1>6. CASE \E t \in Timers : TimerExpires(t)
  BY <1>6, ExpiryStep
<1>7. CASE dw_mci_cto_timer
  BY <1>7, CtoStep
<1>8. CASE dw_mci_dto_timer
  BY <1>8, DtoStep
<1>9. CASE Controller
  BY <1>9, RespondStep, TransferStep, TransferFailsStep DEF Controller
<1>10. CASE Hang
  BY <1>10, HangStep
<1> QED BY <1>1, <1>2, <1>3, <1>4, <1>5, <1>6, <1>7, <1>8, <1>9, <1>10 DEF Next

(* The invariant of tasklet, handler, timers and controller, for any set   *)
(* of requests, whether timers may be late or not.                         *)
THEOREM Invariance == Spec => []IInv
<1>1. Init => IInv
  BY InitHolds
<1>2. IInv /\ [Next]_vars => IInv'
  BY NextHolds DEF Keeps
<1> QED BY <1>1, <1>2, PTL DEF Spec

(* The variables of the model keep their types. *)
THEOREM TypeCorrect == Spec => []TypeOK
<1>1. IInv => TypeOK
  BY TypeParts DEF IInv
<1> QED BY <1>1, Invariance, PTL

(* However the tasklet, the handler and the timers interleave, and even    *)
(* when an expired timer is so late that it meets the next request, the    *)
(* controller never transfers for a request that was given back.           *)
THEOREM NoLateDmaHolds == Spec => []NoLateDma
<1>1. IInv => NoLateDma
  <2>1. SUFFICES ASSUME IInv, "DMA" \in h.left
                 PROVE  h.owner \in out /\ h.owner # completing
    BY DEF NoLateDma
  <2>2. h.mrq # NoMrq /\ h.owner = h.mrq
    BY <2>1 DEF IInv, DmaInv
  <2> QED BY <2>1, <2>2 DEF IInv, MrqInv
<1> QED BY <1>1, Invariance, PTL

(* When an expired timer is served before the next request starts, the     *)
(* timer of a command is off whenever the tasklet takes its event, and no  *)
(* request ends or starts with something of the former one left: of the    *)
(* driver's WARN_ON()s only that of the data timer can fire.               *)
THEOREM NoWarningHolds ==
  ASSUME ~LateTimers
  PROVE  Spec => []NoWarning
<1>1. Init => IInv /\ Timely
  BY InitHolds
<1>2. IInv /\ Timely /\ [Next]_vars => IInv' /\ Timely'
  BY NextHolds DEF Keeps
<1>3. IInv /\ Timely => NoWarning
  <2>1. SUFFICES ASSUME IInv, Timely PROVE h.warn \subseteq {"dto"}
    BY DEF NoWarning
  <2>2. h.warn \subseteq {"cto", "dto", "end", "slot"}
    BY <2>1 DEF IInv, Typed, HostRec, Warnings
  <2> QED BY <2>1, <2>2 DEF IInv, WarnInv, Timely, CtoInv
<1> QED BY <1>1, <1>2, <1>3, PTL DEF Spec

-----------------------------------------------------------------------------
(* What the core expects at every step: HostSpec without its fairness. *)
HostSafe == Host!Init /\ [][Host!Next]_(Host!vars)

(* The requests out of which the card has carried out every part. *)
Carried == {m \in out : Sent \subseteq h.carried}

(* A step by which the card only goes on carries out the one request that  *)
(* is out, or nothing that the core can see.                               *)
LEMMA GrowsRefines ==
  ASSUME IInv, OutInv, Grows
  PROVE  [Host!Next]_(Host!vars)
<1>1. out' = out /\ good' = good /\ Sent' = Sent /\ Carried \subseteq Carried'
  BY DEF Grows, Sent, Carried
<1>2. CASE Carried' = Carried
  BY <1>1, <1>2 DEF Host!vars, Carried
<1>3. CASE Carried' # Carried
  <2>1. PICK m : m \in Carried' \ Carried
    BY <1>1, <1>3
  <2>2. m \in out /\ m \in Mrqs /\ out \subseteq {m}
    <3>1. m \in out /\ m \in Mrqs
      BY <1>1, <2>1 DEF Carried, IInv, Typed, RestType
    <3> QED BY <3>1 DEF IInv, MrqInv, OutInv
  <2>3. Carried' = Carried \cup {m}
    BY <1>1, <2>1, <2>2 DEF Carried
  <2>4. Host!Carry(m)
    BY <1>1, <2>1, <2>2, <2>3 DEF Host!Carry, Carried
  <2> QED BY <2>2, <2>4 DEF Host!Next
<1> QED BY <1>2, <1>3

(* The four steps of the core are those of the specification. *)
LEMMA RequestRefines ==
  ASSUME IInv, Timely, NEW m \in Mrqs,
         NoCard(m) \/ \E k \in Kinds : dw_mci_request(m, k)
  PROVE  Host!request(m)
<1>1. out = {} /\ out' = {m} /\ good' = NoMrq
  BY DEF NoCard, dw_mci_request
<1>2. h'.carried = {}
  <2>1. CASE NoCard(m)
    <3>1. h.mrq = NoMrq /\ tsk # "end"
      BY <1>1 DEF IInv, MrqInv, Typed, RestType, Timely, OutInv
    <3>2. Stage = "IDLE"
      BY <3>1 DEF IInv, MrqInv
    <3> QED BY <2>1, <3>1, <3>2 DEF Timely, TruthInv, NoCard
  <2>2. CASE \E k \in Kinds : dw_mci_request(m, k)
    BY <2>2, RequestStep
  <2> QED BY <2>1, <2>2
<1>3. "cmd" \in Sent'
  BY DEF Sent
<1>4. Carried = {} /\ Carried' = {}
  BY <1>1, <1>2, <1>3 DEF Carried
<1> QED BY <1>1, <1>4 DEF Host!request, Carried

(* A request is given back, as a success only if the card carried it out. *)
LEMMA DoneRefines ==
  ASSUME IInv, Timely, mmc_request_done
  PROVE  [Host!Next]_(Host!vars)
<1>1. /\ tsk = "end" /\ out' = out \ {completing}
      /\ good' = IF h.err = {} THEN completing ELSE NoMrq
      /\ completing # NoMrq /\ completing \in out /\ completing \in Mrqs
  BY DEF mmc_request_done, Timely, OutInv, IInv, Typed, RestType
<1>2. h.mrq = NoMrq
  BY <1>1 DEF IInv, MrqInv
<1>3. out = {completing} /\ out' = {}
  BY <1>1, <1>2 DEF Timely, OutInv
<1>4. Carried \subseteq {completing} /\ Carried' = {}
  BY <1>3 DEF Carried
<1>5. h.err = {} => completing \in Carried
  BY <1>1 DEF Timely, TruthInv, Carried
<1>6. PICK ok \in BOOLEAN : ok = (h.err = {})
  OBVIOUS
<1>7. Host!mmc_request_done(completing, ok)
  BY <1>1, <1>3, <1>4, <1>5, <1>6 DEF Host!mmc_request_done, Carried
<1> QED BY <1>1, <1>7 DEF Host!Next

(* A request without a card is given back with an error. *)
LEMMA RefuseRefines ==
  ASSUME IInv, Timely, Refuse
  PROVE  [Host!Next]_(Host!vars)
<1>1. /\ completing # NoMrq /\ out' = out \ {completing} /\ good' = good
      /\ completing \in out /\ completing \in Mrqs
  BY DEF Refuse, IInv, Typed, RestType
<1>2. h.mrq = NoMrq /\ good = NoMrq
  BY <1>1 DEF IInv, MrqInv, Timely, OutInv
<1>3. out = {completing} /\ out' = {}
  BY <1>1, <1>2 DEF Timely, OutInv
<1>4. Carried \subseteq {completing} /\ Carried' = {}
  BY <1>3 DEF Carried
<1>5. Host!mmc_request_done(completing, FALSE)
  BY <1>1, <1>2, <1>3, <1>4 DEF Host!mmc_request_done, Carried
<1> QED BY <1>1, <1>5 DEF Host!Next

(* Every step is one that the core expects, or one it does not see. *)
LEMMA NextRefines ==
  ASSUME IInv, Timely, [Next]_vars
  PROVE  [Host!Next]_(Host!vars)
<1>1. CASE UNCHANGED vars
  BY <1>1 DEF vars, Host!vars, Sent
<1>2. CASE \E m \in Mrqs : NoCard(m) \/ \E k \in Kinds : dw_mci_request(m, k)
  BY <1>2, RequestRefines DEF Host!Next
<1>3. CASE Refuse
  BY <1>3, RefuseRefines
<1>4. CASE mmc_request_done
  BY <1>4, DoneRefines
<1>5. CASE Grows
  BY <1>5, GrowsRefines DEF Timely
<1>6. CASE dw_mci_interrupt
  BY <1>5, <1>6, InterruptStep
<1>7. CASE dw_mci_tasklet_func
  BY <1>4, <1>5, <1>7, RunsStep, TaskletStepKeeps DEF dw_mci_tasklet_func
<1>8. CASE \E t \in Timers : TimerExpires(t)
  BY <1>5, <1>8, ExpiryStep
<1>9. CASE dw_mci_cto_timer \/ dw_mci_dto_timer
  BY <1>5, <1>9, CtoStep, DtoStep
<1>10. CASE Controller
  BY <1>5, <1>10, RespondStep, TransferStep, TransferFailsStep DEF Controller
<1>11. CASE Hang
  BY <1>5, <1>11, HangStep
<1> QED BY <1>1, <1>2, <1>3, <1>6, <1>7, <1>8, <1>9, <1>10, <1>11 DEF Next

(* For any set of requests, when no timer is late: the core gets a request *)
(* back only once, and as a success only if the card carried out every     *)
(* command and the data of it, whatever fails, hangs or expires.           *)
THEOREM Refinement ==
  ASSUME ~LateTimers
  PROVE  Spec => HostSafe
<1>1. Init => IInv /\ Timely /\ Host!Init
  BY InitHolds DEF Init, Host!Init
<1>2. IInv /\ Timely /\ [Next]_vars => IInv' /\ Timely'
  BY NextHolds DEF Keeps
<1>3. IInv /\ Timely /\ [Next]_vars => [Host!Next]_(Host!vars)
  BY NextRefines
<1> QED BY <1>1, <1>2, <1>3, PTL DEF Spec, HostSafe
=============================================================================
