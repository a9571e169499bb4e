---------------------------- MODULE SdhciProofs -----------------------------
(***************************************************************************)
(* Proofs about Sdhci for any set of requests, all kinds of them, any host *)
(* and any mixture of faults.                                              *)
(*                                                                         *)
(* The handlers are functions of the host's state that call one another,   *)
(* so the invariants are predicates of a host s, the set o of requests the *)
(* core has out and the request x it is about to get back: they also hold  *)
(* between two calls of one handler.                                       *)
(***************************************************************************)
EXTENDS Sdhci, TLAPS

Waiting(s) == {s.mrqs_done[1], s.mrqs_done[2]} \ {NoMrq}

(* Given to the tasklet, which will reset the lines. *)
Dirty(s, m) == m \in Waiting(s) /\ sdhci_needs_reset(s, m)

(* A request the host works on. *)
Active(s, o, x, m) == m \in o /\ m \notin Waiting(s) /\ m # x

(* An ongoing transfer and a command sent meanwhile. *)
Pair(s, m, n) == s.kind[m].cap /\ m \in s.cmd_done /\ s.kind[n] = Plain

(* What a request may consist of. *)
Legal(k) == (k.sbc \/ k.stop \/ k.cap => k.data) /\ ~(k.data /\ k.busy)

ReqInv(s, o, x) ==
  /\ o \subseteq Mrqs
  /\ Waiting(s) \subseteq o
  /\ x # NoMrq => x \in o /\ x \notin Waiting(s)
  /\ s.mrqs_done[1] = s.mrqs_done[2] => s.mrqs_done[1] = NoMrq
  /\ \A m, n \in o : m = n \/ Pair(s, m, n) \/ Pair(s, n, m)
  /\ \A m \in s.cmd_done : m \in o /\ s.kind[m].cap
  /\ \A m \in o : Legal(s.kind[m])

(* The command under way; its role tells where its request is. *)
CmdInv(s, o, x) ==
  s.cmd # None =>
    /\ Active(s, o, x, s.cmd[1]) /\ s.cmd[1] \notin s.cmd_done
    /\ s.cmd[2] = "sbc" => s.kind[s.cmd[1]].data /\ s.data_cmd = None
    /\ s.cmd[2] = "cmd" /\ s.kind[s.cmd[1]].data => s.data = s.cmd[1]
    /\ s.cmd[2] = "stop" => /\ s.kind[s.cmd[1]].stop /\ s.data = NoMrq
                            /\ s.data_cmd \in {None, s.cmd}

(* The command that has the data line. *)
DataInv(s, o, x) ==
  /\ s.data_cmd # None =>
       /\ Active(s, o, x, s.data_cmd[1]) /\ sdhci_data_line_cmd(s, s.data_cmd)
       /\ HasData(s, s.data_cmd) => s.data = s.data_cmd[1]
       /\ s.data_cmd[2] = "stop" => s.kind[s.data_cmd[1]].stop
  /\ s.data # NoMrq =>
       s.data_cmd = <<s.data, "cmd">> /\ s.kind[s.data].data

(* The lines and the interrupts are those of the commands under way, or    *)
(* those of a request that failed, until the reset.                        *)
LineInv(s) ==
  /\ s.line # None /\ s.line # s.cmd =>
       s.pending_reset /\ Dirty(s, s.line[1]) /\ s.line[1] \notin s.cmd_done
  /\ s.dat # None => sdhci_data_line_cmd(s, s.dat)
  /\ s.dat # None /\ s.dat # s.data_cmd => Dirty(s, s.dat[1])
  /\ s.ints \cap CmdInts # {} =>
       /\ s.line = None
       /\ s.cmd = None =>
            /\ s.pending_reset
            /\ \E m \in Mrqs : Dirty(s, m) /\ m \notin s.cmd_done
  /\ s.ints \cap DataInts # {} =>
       /\ s.dat = None
       /\ s.data_cmd = None => \E m \in Mrqs : Dirty(s, m)

(* Nothing comes from a controller that is gone. *)
DeadInv(s) ==
  s.dead =>
    /\ s.cmd = None /\ s.data_cmd = None /\ s.line = None /\ s.dat = None
    /\ s.ints = {}

(* Data that is over before its command waits for it, or for the timer. *)
EarlyInv(s) ==
  s.data # NoMrq /\ s.data_early =>
    /\ s.data \notin s.cmd_done /\ s.cmd \in {None, s.data_cmd}
    /\ s.dat = None /\ s.ints \cap DataInts = {}

-----------------------------------------------------------------------------
(* What the card has done.                                                 *)

Rsp(s, c) == <<c[1], c[2], "rsp">> \in s.carried
End(s, c) == <<c[1], c[2], "end">> \in s.carried

(* CarriedOut of the model, for a host s. *)
CountSent(s, m) == s.kind[m].sbc /\ "cmd23" \notin s.setup.auto
StopSent(s, m) == s.kind[m].stop /\ ~s.kind[m].sbc /\ ~s.kind[m].cap
PartDone(s, c) == Rsp(s, c) /\ (sdhci_data_line_cmd(s, c) => End(s, c))
CountDone(s, m) == CountSent(s, m) => Rsp(s, <<m, "sbc">>)
AllDone(s, m) ==
  /\ CountDone(s, m) /\ PartDone(s, <<m, "cmd">>)
  /\ StopSent(s, m) => PartDone(s, <<m, "stop">>)

(* Nothing is kept of requests that are not out; a request that ended      *)
(* without an error was carried out.                                       *)
ResultInv(s, o, x) ==
  /\ \A c \in s.carried : c[1] \in o
  /\ \A m \in o : m = x \/ m \in Waiting(s) => Failed(s, m) \/ AllDone(s, m)

(* What has been carried out when a request is at a command. *)
StepInv(s) ==
  /\ "RESPONSE" \in s.ints /\ s.cmd # None => Rsp(s, s.cmd)
  /\ "DATA_END" \in s.ints /\ s.data_cmd # None => End(s, s.data_cmd)
  /\ s.data # NoMrq /\ s.data_early => End(s, s.data_cmd)
  /\ s.cmd # None /\ Busy(s, s.cmd) /\ s.data_cmd # s.cmd => End(s, s.cmd)
  /\ s.data_cmd # None /\ s.data_cmd # s.cmd =>
       Rsp(s, s.data_cmd) \/ s.data_cmd \in s.err
  /\ \A c \in {s.cmd, s.data_cmd} \ {None} :
       /\ c[2] = "cmd" => CountDone(s, c[1])
       /\ c[2] = "stop" =>
            \/ <<c[1], "cmd">> \in s.err \/ <<c[1], "data">> \in s.err
            \/ CountDone(s, c[1]) /\ PartDone(s, <<c[1], "cmd">>)

-----------------------------------------------------------------------------
(* The type of the host, with the sets of its fields named: the provers    *)
(* need not look into those that a step leaves alone.                      *)
MaybeMrq == Mrqs \cup {NoMrq}
MaybeCmd == Cmds \cup {None}
AllKinds == [Mrqs -> KindType]
Done == [Slots -> MaybeMrq]
TimerSets == SUBSET {"timer", "data_timer"}
MrqSets == SUBSET Mrqs
Errors == SUBSET (Mrqs \X {"sbc", "cmd", "stop", "data"})
Hangs == SUBSET {"line", "dat"}
IntSets == SUBSET (CmdInts \cup DataInts)
Carried == SUBSET (Mrqs \X Roles \X {"rsp", "end"})
Warnings ==
  SUBSET {"cmd", "data_cmd", "data", "inhibit", "twice", "slots"}

HostRec ==
  [kind : AllKinds, setup : Setups, dead : BOOLEAN, cmd : MaybeCmd,
   data_cmd : MaybeCmd, data : MaybeMrq, data_early : BOOLEAN,
   pending_reset : BOOLEAN, mrqs_done : Done, tasklet : BOOLEAN,
   timers : TimerSets, thread_isr : BOOLEAN, cmd_done : MrqSets, err : Errors,
   line : MaybeCmd, dat : MaybeCmd, hung : Hangs, ints : IntSets,
   carried : Carried, warn : Warnings]

RestType ==
  /\ out \subseteq Mrqs /\ completing \in MaybeMrq /\ good \in MaybeMrq
  /\ task \in BOOLEAN /\ firing \in TimerSets
  /\ card \in BOOLEAN /\ gone \in BOOLEAN /\ meanwhile \in 0 .. MaxMeanwhile

(* What holds of the host also between two calls of a handler. *)
Good(s, o, x) ==
  /\ s \in HostRec /\ s.warn = {}
  /\ ReqInv(s, o, x) /\ CmdInv(s, o, x) /\ DataInv(s, o, x) /\ LineInv(s)
  /\ ResultInv(s, o, x) /\ StepInv(s)

(* The inductive invariant. *)
IInv ==
  RestType /\ Good(h, out, completing) /\ EarlyInv(h) /\ DeadInv(h)

(* It is the type of the model. *)
LEMMA TypeParts == h \in HostRec /\ RestType => TypeOK
BY DEF TypeOK, HostRec, RestType, MaybeMrq, MaybeCmd, AllKinds, Done, TimerSets,
       MrqSets, Errors, Hangs, IntSets, Carried, Warnings

(* Values that the driver stores. *)
LEMMA Values ==
  /\ {} \in TimerSets /\ {} \in MrqSets /\ {} \in Errors /\ {} \in Hangs
  /\ {} \in IntSets /\ {} \in Carried /\ {} \in Warnings
  /\ NoMrq \in MaybeMrq /\ None \in MaybeCmd /\ Cmds \subseteq MaybeCmd
  /\ Mrqs \subseteq MaybeMrq /\ Plain \in KindType
BY DEF TimerSets, MrqSets, Errors, Hangs, IntSets, Carried, Warnings, MaybeMrq,
       MaybeCmd, Plain, KindType

(* A command is a request and a role. *)
LEMMA CmdIs ==
  ASSUME NEW c \in Cmds
  PROVE  /\ c # None /\ c[1] \in Mrqs /\ c[2] \in {"sbc", "cmd", "stop"}
         /\ c = <<c[1], c[2]>> /\ c[1] # NoMrq
BY MrqsAssumption DEF Cmds, Roles, None

(* A request and a role are a command. *)
LEMMA IsCmd ==
  ASSUME NEW m \in Mrqs, NEW r \in {"sbc", "cmd", "stop"}
  PROVE  <<m, r>> \in Cmds
BY DEF Cmds, Roles

(* The fields that refer to requests. *)
LEMMA Fields ==
  ASSUME NEW s \in HostRec
  PROVE  /\ s.cmd # None => s.cmd \in Cmds
         /\ s.data_cmd # None => s.data_cmd \in Cmds
         /\ s.line # None => s.line \in Cmds
         /\ s.dat # None => s.dat \in Cmds
         /\ s.data # NoMrq => s.data \in Mrqs
         /\ Waiting(s) \subseteq Mrqs /\ NoMrq \notin Waiting(s)
         /\ \A m \in Mrqs : s.kind[m] \in KindType
         /\ s.ints \subseteq CmdInts \cup DataInts
         /\ s.cmd_done \subseteq Mrqs
<1>1. /\ s.cmd \in MaybeCmd /\ s.data_cmd \in MaybeCmd /\ s.line \in MaybeCmd
      /\ s.dat \in MaybeCmd /\ s.data \in MaybeMrq /\ s.mrqs_done \in Done
      /\ s.kind \in AllKinds /\ s.ints \in IntSets /\ s.cmd_done \in MrqSets
  BY DEF HostRec
<1>2. Waiting(s) \subseteq Mrqs /\ NoMrq \notin Waiting(s)
  BY <1>1 DEF Waiting, Done, MaybeMrq, Slots
<1> QED BY <1>1, <1>2 DEF MaybeCmd, MaybeMrq, AllKinds, IntSets, MrqSets

(* The roles are different. *)
LEMMA Kinded ==
  ASSUME NEW s, NEW c
  PROVE  /\ HasData(s, c) <=> (c[2] = "cmd" /\ s.kind[c[1]].data)
         /\ Busy(s, c) <=> \/ c[2] = "cmd" /\ s.kind[c[1]].busy
                           \/ c[2] = "stop" /\ s.kind[c[1]].stopbusy
         /\ sdhci_data_line_cmd(s, c) <=> (HasData(s, c) \/ Busy(s, c))
BY DEF HasData, Busy, sdhci_data_line_cmd

(* The first of the slots that are free or used. *)
LEMMA MinIs ==
  ASSUME NEW S, S \subseteq {1, 2}, S # {}
  PROVE  Min(S) \in S
<1>1. \E i \in S : \A j \in S : i =< j
  <2>1. CASE 1 \in S
    BY <2>1
  <2>2. CASE 1 \notin S
    <3>1. 2 \in S /\ \A j \in S : j = 2
      BY <2>2
    <3> QED BY <3>1
  <2> QED BY <2>1, <2>2
<1> QED BY <1>1 DEF Min

-----------------------------------------------------------------------------
(* What the functions of the driver do to the fields.                      *)

(* What no handler changes. *)
Frame(u, s) ==
  /\ u \in HostRec /\ u.kind = s.kind /\ u.setup = s.setup /\ u.dead = s.dead
  /\ u.carried = s.carried /\ u.warn = s.warn

Controls(u, s) == u.line = s.line /\ u.dat = s.dat /\ u.ints = s.ints

Driven(u, s) ==
  /\ u.cmd = s.cmd /\ u.data_cmd = s.data_cmd /\ u.data = s.data
  /\ u.data_early = s.data_early /\ u.pending_reset = s.pending_reset
  /\ u.mrqs_done = s.mrqs_done /\ u.cmd_done = s.cmd_done

(* What is known of the requests. *)
Known(u, s) ==
  u.kind = s.kind /\ u.setup = s.setup /\ u.carried = s.carried

Same(u, s) == Frame(u, s) /\ Controls(u, s) /\ Driven(u, s) /\ u.err = s.err

Forgets(c, m) == IF c # None /\ c[1] = m THEN None ELSE c

(* sdhci_finish_mrq() *)
Fin(s, u, m) ==
  /\ Frame(u, s) /\ Controls(u, s)
  /\ u.cmd = Forgets(s.cmd, m) /\ u.data_cmd = Forgets(s.data_cmd, m)
  /\ u.data = IF s.data = m THEN NoMrq ELSE s.data
  /\ u.data_early = s.data_early /\ u.cmd_done = s.cmd_done /\ u.err = s.err
  /\ u.pending_reset = (s.pending_reset \/ sdhci_needs_reset(s, m))
  /\ Waiting(u) = Waiting(s) \cup {m}
  /\ u.mrqs_done[1] = u.mrqs_done[2] => u.mrqs_done[1] = NoMrq

(* sdhci_send_command() *)
Snd(s, u, c) ==
  /\ Frame(u, s) /\ u.line = c /\ u.ints = s.ints /\ u.cmd = c
  /\ u.data_cmd = IF sdhci_data_line_cmd(s, c) THEN c ELSE s.data_cmd
  /\ u.dat = IF sdhci_data_line_cmd(s, c) THEN c ELSE s.dat
  /\ u.data = IF HasData(s, c) THEN c[1] ELSE s.data
  /\ u.data_early = IF HasData(s, c) THEN FALSE ELSE s.data_early
  /\ u.pending_reset = s.pending_reset /\ u.mrqs_done = s.mrqs_done
  /\ u.cmd_done = s.cmd_done /\ u.err = s.err \ {c}

(* The fields of a host that sends. *)
Sends(u, s, c, dc, d, y, w, ts, dt) ==
  /\ s \in HostRec /\ c \in MaybeCmd /\ dc \in MaybeCmd /\ d \in MaybeMrq
  /\ y \in BOOLEAN /\ w \in Warnings /\ ts \in TimerSets /\ dt \in MaybeCmd
  /\ u = [s EXCEPT !.cmd = c, !.data_cmd = dc, !.data = d,
                   !.data_early = y, !.warn = w, !.timers = ts,
                   !.line = c, !.dat = dt]

(* They keep their types. *)
LEMMA SendsType ==
  ASSUME NEW u, NEW s, NEW c, NEW dc, NEW d, NEW y, NEW w, NEW ts, NEW dt,
         Sends(u, s, c, dc, d, y, w, ts, dt)
  PROVE  u \in HostRec
BY DEF Sends, HostRec

(* A slot is free for a request that is not in one. *)
LEMMA FinishMrqIs ==
  ASSUME NEW s \in HostRec, NEW m \in Mrqs, m \notin Waiting(s),
         s.mrqs_done[1] = s.mrqs_done[2] => s.mrqs_done[1] = NoMrq,
         s.mrqs_done[1] = NoMrq \/ s.mrqs_done[2] = NoMrq,
         NEW u, u = sdhci_finish_mrq(s, m)
  PROVE  Fin(s, u, m)
<1>1. /\ s.cmd \in MaybeCmd /\ s.data_cmd \in MaybeCmd /\ s.data \in MaybeMrq
      /\ s.mrqs_done \in Done /\ s.pending_reset \in BOOLEAN /\ m # NoMrq
      /\ m \in MaybeMrq
  BY MrqsAssumption DEF HostRec, MaybeMrq
<1>2. DOMAIN s.mrqs_done = {1, 2} /\ Slots = {1, 2}
  BY <1>1 DEF Done, Slots
<1>3. PICK f : f = {i \in Slots : s.mrqs_done[i] = NoMrq}
  OBVIOUS
<1>4. f \subseteq {1, 2} /\ f # {}
  BY <1>2, <1>3
<1>5. PICK i \in {1, 2} : i = Min(f) /\ s.mrqs_done[i] = NoMrq
  BY <1>3, <1>4, MinIs
<1>6. m \notin Range(s.mrqs_done)
  BY <1>1, <1>2 DEF Range, Waiting
<1>7. PICK c1 \in MaybeCmd : c1 = Forgets(s.cmd, m)
  BY <1>1, Values DEF Forgets
<1>8. PICK c2 \in MaybeCmd : c2 = Forgets(s.data_cmd, m)
  BY <1>1, Values DEF Forgets
<1>9. PICK d \in MaybeMrq : d = IF s.data = m THEN NoMrq ELSE s.data
  BY <1>1, Values
<1>10. PICK p \in BOOLEAN :
         p = (s.pending_reset \/ sdhci_needs_reset(s, m))
  OBVIOUS
<1>11. PICK s1 : s1 = [s EXCEPT !.cmd = c1, !.data_cmd = c2, !.data = d,
                                !.pending_reset = p]
  OBVIOUS
<1>12. /\ Frame(s1, s) /\ Controls(s1, s) /\ s1.cmd = c1 /\ s1.data_cmd = c2
       /\ s1.data = d /\ s1.data_early = s.data_early /\ s1.pending_reset = p
       /\ s1.mrqs_done = s.mrqs_done /\ s1.cmd_done = s.cmd_done
       /\ s1.err = s.err
  <2>1. s1 \in HostRec
    BY <1>11 DEF HostRec
  <2> QED BY <1>11, <2>1 DEF HostRec, Frame, Controls
<1>13. PICK e \in Done : e = [s.mrqs_done EXCEPT ![i] = m]
  BY <1>1, <1>2 DEF Done
<1>14. u = [s1 EXCEPT !.mrqs_done = e, !.tasklet = TRUE]
  <2>1. s1 = [s EXCEPT !.cmd = Forgets(@, m), !.data_cmd = Forgets(@, m),
                       !.data = IF @ = m THEN NoMrq ELSE @,
                       !.pending_reset = @ \/ sdhci_needs_reset(s, m)]
    BY <1>7, <1>8, <1>9, <1>10, <1>11
  <2>2. u = [s1 EXCEPT !.mrqs_done[i] = m, !.tasklet = TRUE]
    BY <1>3, <1>4, <1>5, <1>6, <2>1 DEF sdhci_finish_mrq, Forgets
  <2> QED BY <1>12, <1>13, <2>2 DEF HostRec, Frame
<1>15. /\ Frame(u, s1) /\ Controls(u, s1) /\ u.cmd = s1.cmd
       /\ u.data_cmd = s1.data_cmd /\ u.data = s1.data
       /\ u.data_early = s1.data_early /\ u.pending_reset = s1.pending_reset
       /\ u.mrqs_done = e /\ u.cmd_done = s1.cmd_done /\ u.err = s1.err
  <2>1. s1 \in HostRec
    BY <1>12 DEF Frame
  <2>2. u \in HostRec
    BY <1>14, <2>1 DEF HostRec
  <2> QED BY <1>14, <2>1, <2>2 DEF HostRec, Frame, Controls
<1>16. /\ Waiting(u) = Waiting(s) \cup {m}
       /\ u.mrqs_done[1] = u.mrqs_done[2] => u.mrqs_done[1] = NoMrq
  <2>1. CASE i = 1
    <3>1. e[1] = m /\ e[2] = s.mrqs_done[2]
      BY <1>2, <1>13, <2>1
    <3> QED BY <1>1, <1>5, <1>15, <2>1, <3>1 DEF Waiting
  <2>2. CASE i = 2
    <3>1. e[2] = m /\ e[1] = s.mrqs_done[1]
      BY <1>2, <1>13, <2>2
    <3> QED BY <1>1, <1>5, <1>15, <2>2, <3>1 DEF Waiting
  <2> QED BY <1>5, <2>1, <2>2
<1> QED
  BY <1>7, <1>8, <1>9, <1>10, <1>12, <1>15, <1>16 DEF Fin, Frame, Controls

(* The lines are free: no warning. *)
LEMMA SendIs ==
  ASSUME NEW s \in HostRec, NEW c \in Cmds, s.cmd = None, s.line = None,
         sdhci_data_line_cmd(s, c) =>
           s.data_cmd = None /\ s.data = NoMrq /\ s.dat = None,
         NEW u, u = sdhci_send_command(s, c)
  PROVE  Snd(s, u, c)
<1>1. PICK l \in BOOLEAN : l = sdhci_data_line_cmd(s, c)
  BY DEF sdhci_data_line_cmd
<1>2. PICK b \in BOOLEAN : b = HasData(s, c)
  BY DEF HasData
<1>3. b => l
  BY <1>1, <1>2 DEF sdhci_data_line_cmd
<1>4. PICK t \in {"timer", "data_timer"} : t = TimerOf(s, c[1])
  BY DEF TimerOf
<1>5. PICK e \in Errors : e = s.err \ {c}
  BY DEF HostRec, Errors
<1>6. PICK s1 : s1 = [s EXCEPT !.err = e]
  OBVIOUS
<1>7. /\ Frame(s1, s) /\ Controls(s1, s) /\ s1.cmd = s.cmd
      /\ s1.data_cmd = s.data_cmd /\ s1.data = s.data
      /\ s1.data_early = s.data_early /\ s1.pending_reset = s.pending_reset
      /\ s1.mrqs_done = s.mrqs_done /\ s1.cmd_done = s.cmd_done /\ s1.err = e
  <2>1. s1 \in HostRec
    BY <1>6 DEF HostRec
  <2> QED BY <1>6, <2>1 DEF HostRec, Frame, Controls
<1>8. s1 = [s EXCEPT !.err = @ \ {c},
                     !.warn = @ \cup (IF s.cmd # None THEN {"cmd"} ELSE {})]
  BY <1>5, <1>6 DEF HostRec
<1>9. PICK w : w = {v \in {"data_cmd"} : l /\ s.data_cmd # None}
                     \cup {v \in {"data"} : b /\ s.data # NoMrq}
  OBVIOUS
<1>10. w = {}
  BY <1>1, <1>2, <1>3, <1>9
<1>11. PICK dc \in MaybeCmd : dc = IF l THEN c ELSE s.data_cmd
  BY Values DEF HostRec
<1>12. PICK d \in MaybeMrq : d = IF b THEN c[1] ELSE s.data
  BY CmdIs, Values DEF HostRec
<1>13. PICK y \in BOOLEAN : y = IF b THEN FALSE ELSE s.data_early
  BY DEF HostRec
<1>14. PICK dt \in MaybeCmd : dt = IF l THEN c ELSE s.dat
  BY Values DEF HostRec
<1>15. PICK ts \in TimerSets : ts = s1.timers \cup {t}
  BY <1>7 DEF HostRec, Frame, TimerSets
<1>16. PICK v \in Warnings : /\ v = s1.warn
         /\ u = [s1 EXCEPT !.cmd = c, !.data_cmd = dc, !.data = d,
                           !.data_early = y, !.warn = v, !.timers = ts,
                           !.line = c, !.dat = dt]
  <2>1. ~(s.line # None \/ (l /\ c[2] # "stop" /\ s.dat # None))
    BY <1>1
  <2>2. u = [s1 EXCEPT
              !.cmd = c,
              !.data_cmd = IF l THEN c ELSE @,
              !.data = IF b THEN c[1] ELSE @,
              !.data_early = IF b THEN FALSE ELSE @,
              !.warn = @ \cup {v \in {"data_cmd"} : l /\ s.data_cmd # None}
                         \cup {v \in {"data"} : b /\ s.data # NoMrq},
              !.timers = @ \cup {t},
              !.line = c,
              !.dat = IF l THEN c ELSE @]
    BY <1>1, <1>2, <1>4, <1>8, <2>1 DEF sdhci_send_command
  <2>3. s1.warn \cup {v \in {"data_cmd"} : l /\ s.data_cmd # None}
          \cup {v \in {"data"} : b /\ s.data # NoMrq} = s1.warn
    BY <1>9, <1>10
  <2>4. u = [s1 EXCEPT !.cmd = c, !.data_cmd = dc, !.data = d,
                       !.data_early = y, !.warn = s1.warn, !.timers = ts,
                       !.line = c, !.dat = dt]
    BY <1>7, <1>11, <1>12, <1>13, <1>14, <1>15, <2>2, <2>3 DEF Frame, Controls
  <2>5. s1.warn \in Warnings
    BY <1>7 DEF Frame, HostRec
  <2> QED BY <2>4, <2>5
<1>17. /\ Frame(u, s1) /\ u.ints = s1.ints /\ u.cmd = c /\ u.data_cmd = dc
       /\ u.data = d /\ u.data_early = y /\ u.pending_reset = s1.pending_reset
       /\ u.mrqs_done = s1.mrqs_done /\ u.cmd_done = s1.cmd_done
       /\ u.err = s1.err /\ u.line = c /\ u.dat = dt
  <2>1. c \in MaybeCmd
    BY DEF MaybeCmd
  <2>2. s1 \in HostRec
    BY <1>7 DEF Frame
  <2>3. u \in HostRec
    <3>1. Sends(u, s1, c, dc, d, y, v, ts, dt)
      BY <1>16, <2>1, <2>2 DEF Sends
    <3> QED BY <3>1, SendsType
  <2> QED BY <1>16, <2>1, <2>2, <2>3 DEF HostRec, Frame
<1> QED
  BY <1>1, <1>2, <1>5, <1>7, <1>11, <1>12, <1>13, <1>14, <1>17
     DEF Snd, Frame, Controls

-----------------------------------------------------------------------------
(* How the invariants go through the functions.                            *)

(* They read the kind of a request, and what the card has done. *)
LEMMA FrameReads ==
  ASSUME NEW s, NEW u, Frame(u, s)
  PROVE  /\ \A c : /\ HasData(u, c) <=> HasData(s, c)
                   /\ Busy(u, c) <=> Busy(s, c)
                   /\ sdhci_data_line_cmd(u, c) <=> sdhci_data_line_cmd(s, c)
                   /\ Rsp(u, c) <=> Rsp(s, c)
                   /\ End(u, c) <=> End(s, c)
                   /\ PartDone(u, c) <=> PartDone(s, c)
         /\ \A m : /\ CountDone(u, m) <=> CountDone(s, m)
                   /\ AllDone(u, m) <=> AllDone(s, m)
<1>1. \A c : /\ HasData(u, c) <=> HasData(s, c)
             /\ Busy(u, c) <=> Busy(s, c)
             /\ Rsp(u, c) <=> Rsp(s, c)
             /\ End(u, c) <=> End(s, c)
  BY DEF Frame, HasData, Busy, Rsp, End
<1>2. \A c : sdhci_data_line_cmd(u, c) <=> sdhci_data_line_cmd(s, c)
  BY <1>1 DEF sdhci_data_line_cmd
<1>3. \A c : PartDone(u, c) <=> PartDone(s, c)
  BY <1>1, <1>2 DEF PartDone
<1>4. \A m : CountDone(u, m) <=> CountDone(s, m)
  BY <1>1 DEF Frame, CountDone, CountSent
<1>5. \A m : AllDone(u, m) <=> AllDone(s, m)
  BY <1>3, <1>4 DEF AllDone, StopSent, Frame
<1> QED BY <1>1, <1>2, <1>3, <1>4, <1>5

(* Fields they do not read. *)
LEMMA SameKeeps ==
  ASSUME NEW s, NEW o, NEW x, NEW u, Good(s, o, x), Same(u, s)
  PROVE  /\ Good(u, o, x)
         /\ EarlyInv(s) => EarlyInv(u)
         /\ DeadInv(s) => DeadInv(u)
<1>1. /\ u \in HostRec /\ u.warn = {} /\ Frame(u, s)
      /\ u.kind = s.kind /\ u.dead = s.dead /\ u.setup = s.setup
      /\ u.carried = s.carried /\ u.cmd = s.cmd /\ u.data_cmd = s.data_cmd
      /\ u.data = s.data /\ u.data_early = s.data_early
      /\ u.pending_reset = s.pending_reset /\ u.mrqs_done = s.mrqs_done
      /\ u.cmd_done = s.cmd_done /\ u.err = s.err /\ u.line = s.line
      /\ u.dat = s.dat /\ u.ints = s.ints
  BY DEF Good, Same, Frame, Controls, Driven
<1>2. Waiting(u) = Waiting(s)
  BY <1>1 DEF Waiting
<1>3. \A m : sdhci_needs_reset(u, m) <=> sdhci_needs_reset(s, m)
  BY <1>1 DEF sdhci_needs_reset
<1>4. \A m : /\ Dirty(u, m) <=> Dirty(s, m)
             /\ Active(u, o, x, m) <=> Active(s, o, x, m)
             /\ Failed(u, m) <=> Failed(s, m)
  BY <1>1, <1>2, <1>3 DEF Dirty, Active, Failed
<1>5. ReqInv(u, o, x)
  BY <1>1, <1>2 DEF Good, ReqInv, Pair
<1>6. CmdInv(u, o, x) /\ DataInv(u, o, x)
  BY <1>1, <1>4, FrameReads DEF Good, CmdInv, DataInv
<1>7. LineInv(u)
  BY <1>1, <1>4, FrameReads DEF Good, LineInv
<1>8. ResultInv(u, o, x)
  BY <1>1, <1>2, <1>4, FrameReads DEF Good, ResultInv
<1>9. StepInv(u)
  BY <1>1, <1>4, FrameReads DEF Good, StepInv
<1> QED
  BY <1>1, <1>5, <1>6, <1>7, <1>8, <1>9 DEF Good, EarlyInv, DeadInv

(* The command of the transfer. *)
LEMMA TransferIs ==
  ASSUME NEW s, NEW o, NEW x, Good(s, o, x), s.data # NoMrq
  PROVE  /\ s.data \in Mrqs /\ s.data_cmd \in Cmds /\ s.data_cmd # None
         /\ s.data_cmd = <<s.data, "cmd">>
         /\ s.data_cmd[1] = s.data /\ s.data_cmd[2] = "cmd"
         /\ s.kind[s.data].data /\ Active(s, o, x, s.data)
         /\ HasData(s, s.data_cmd) /\ ~s.kind[s.data].busy
<1>1. s.data \in Mrqs /\ s.data_cmd = <<s.data, "cmd">> /\ s.kind[s.data].data
  BY Fields DEF Good, DataInv
<1>2. s.data_cmd \in Cmds /\ s.data_cmd # None
  BY <1>1, IsCmd, CmdIs
<1>3. s.data_cmd[1] = s.data /\ s.data_cmd[2] = "cmd"
  BY <1>1
<1>4. Active(s, o, x, s.data)
  BY <1>2, <1>3 DEF Good, DataInv
<1> QED
  BY <1>1, <1>2, <1>3, <1>4 DEF HasData, Active, Good, ReqInv, Legal

(* Something of the request is left in the controller. *)
Loose(s, m) ==
  \/ s.line # None /\ s.line[1] = m
  \/ s.dat # None /\ s.dat[1] = m
  \/ s.cmd # None /\ s.cmd[1] = m /\ s.ints \cap CmdInts # {}
  \/ s.data_cmd # None /\ s.data_cmd[1] = m /\ s.ints \cap DataInts # {}

(* A request is handed to the tasklet: with an error or carried out, and   *)
(* with nothing left behind unless the tasklet resets the lines.           *)
LEMMA FinKeeps ==
  ASSUME NEW s, NEW o, NEW x, NEW m, NEW u, Good(s, o, x),
         Active(s, o, x, m), Loose(s, m) => sdhci_needs_reset(s, m),
         Failed(s, m) \/ AllDone(s, m), Fin(s, u, m)
  PROVE  /\ Good(u, o, x)
         /\ EarlyInv(s) => EarlyInv(u)
         /\ DeadInv(s) => DeadInv(u)
<1>1. /\ u \in HostRec /\ u.warn = {} /\ Frame(u, s) /\ s \in HostRec
      /\ u.kind = s.kind /\ u.dead = s.dead /\ u.setup = s.setup
      /\ u.carried = s.carried
      /\ u.cmd = Forgets(s.cmd, m) /\ u.data_cmd = Forgets(s.data_cmd, m)
      /\ u.data = IF s.data = m THEN NoMrq ELSE s.data
      /\ u.data_early = s.data_early /\ u.cmd_done = s.cmd_done
      /\ u.err = s.err /\ u.line = s.line /\ u.dat = s.dat /\ u.ints = s.ints
      /\ u.pending_reset = (s.pending_reset \/ sdhci_needs_reset(s, m))
      /\ Waiting(u) = Waiting(s) \cup {m}
      /\ u.mrqs_done[1] = u.mrqs_done[2] => u.mrqs_done[1] = NoMrq
      /\ m \in o /\ m \notin Waiting(s) /\ m # x /\ m \in Mrqs /\ m # NoMrq
  BY MrqsAssumption DEF Good, Fin, Frame, Controls, Active, ReqInv
<1>2. \A n : /\ sdhci_needs_reset(u, n) <=> sdhci_needs_reset(s, n)
             /\ Failed(u, n) <=> Failed(s, n)
  BY <1>1 DEF sdhci_needs_reset, Failed
<1>3. /\ \A n : Dirty(s, n) => Dirty(u, n)
      /\ sdhci_needs_reset(s, m) => Dirty(u, m) /\ u.pending_reset
      /\ \A n : Active(s, o, x, n) /\ n # m => Active(u, o, x, n)
      /\ s.pending_reset => u.pending_reset
  BY <1>1, <1>2 DEF Dirty, Active
<1>4. /\ s.cmd # None => s.cmd \in Cmds
      /\ s.data_cmd # None => s.data_cmd \in Cmds
      /\ s.line # None => s.line \in Cmds
      /\ s.dat # None => s.dat \in Cmds
  BY <1>1, Fields
<1>5. /\ s.cmd # None /\ s.cmd[1] = m => u.cmd = None
      /\ s.cmd = None \/ s.cmd[1] # m => u.cmd = s.cmd
      /\ s.data_cmd # None /\ s.data_cmd[1] = m => u.data_cmd = None
      /\ s.data_cmd = None \/ s.data_cmd[1] # m => u.data_cmd = s.data_cmd
  BY <1>1 DEF Forgets
<1>6. ReqInv(u, o, x)
  BY <1>1 DEF Good, ReqInv, Pair
<1>7. CmdInv(u, o, x)
  BY <1>1, <1>3, <1>4, <1>5 DEF Good, CmdInv
<1>8. DataInv(u, o, x)
  <2>1. s.data # NoMrq /\ s.data # m => s.data_cmd # None /\ s.data_cmd[1] # m
    BY TransferIs
  <2> QED BY <1>1, <1>3, <1>4, <1>5, <2>1, FrameReads DEF Good, DataInv
<1>9. LineInv(u)
  <2>1. ASSUME u.line # None, u.line # u.cmd
        PROVE  /\ u.pending_reset /\ Dirty(u, u.line[1])
               /\ u.line[1] \notin u.cmd_done
    <3>1. CASE s.line = s.cmd
      BY <1>1, <1>3, <1>5, <2>1, <3>1 DEF Loose, Good, CmdInv
    <3>2. CASE s.line # s.cmd
      BY <1>1, <1>3, <2>1, <3>2 DEF Good, LineInv
    <3> QED BY <3>1, <3>2
  <2>2. u.dat # None /\ u.dat # u.data_cmd => Dirty(u, u.dat[1])
    BY <1>1, <1>3, <1>5 DEF Good, LineInv, Loose
  <2>3. ASSUME u.ints \cap CmdInts # {}, u.cmd = None
        PROVE  /\ u.pending_reset
               /\ \E n \in Mrqs : Dirty(u, n) /\ n \notin u.cmd_done
    <3>1. CASE s.cmd = None
      BY <1>1, <1>3, <2>3, <3>1 DEF Good, LineInv
    <3>2. CASE s.cmd # None
      <4>1. s.cmd[1] = m
        BY <1>5, <2>3, <3>2
      <4> QED BY <1>1, <1>3, <2>3, <3>2, <4>1 DEF Loose, Good, CmdInv
    <3> QED BY <3>1, <3>2
  <2>4. ASSUME u.ints \cap DataInts # {}, u.data_cmd = None
        PROVE  \E n \in Mrqs : Dirty(u, n)
    <3>1. CASE s.data_cmd = None
      BY <1>1, <1>3, <2>4, <3>1 DEF Good, LineInv
    <3>2. CASE s.data_cmd # None
      <4>1. s.data_cmd[1] = m
        BY <1>5, <2>4, <3>2
      <4> QED BY <1>1, <1>3, <2>4, <3>2, <4>1 DEF Loose
    <3> QED BY <3>1, <3>2
  <2>5. /\ u.dat # None => sdhci_data_line_cmd(u, u.dat)
        /\ u.ints \cap CmdInts # {} => u.line = None
        /\ u.ints \cap DataInts # {} => u.dat = None
    BY <1>1, FrameReads DEF Good, LineInv
  <2> QED BY <2>1, <2>2, <2>3, <2>4, <2>5 DEF LineInv
<1>10. ResultInv(u, o, x)
  BY <1>1, <1>2, FrameReads DEF Good, ResultInv
<1>11. StepInv(u)
  <2>1. /\ u.cmd # None => u.cmd = s.cmd
        /\ u.data_cmd # None => u.data_cmd = s.data_cmd
        /\ u.data # NoMrq => u.data = s.data /\ u.data_cmd = s.data_cmd
        /\ u.data_cmd # None /\ u.data_cmd # u.cmd => s.data_cmd # s.cmd
        /\ u.cmd # None /\ u.data_cmd # u.cmd => s.data_cmd # s.cmd
    BY <1>1, <1>4, <1>5 DEF Good, DataInv
  <2> QED BY <1>1, <2>1, FrameReads DEF Good, StepInv
<1>12. EarlyInv(s) => EarlyInv(u)
  <2>1. u.data # NoMrq => u.data = s.data /\ u.data_cmd = s.data_cmd
    BY <1>1, <1>4, <1>5 DEF Good, DataInv
  <2> QED BY <1>1, <1>5, <2>1 DEF EarlyInv
<1>13. DeadInv(s) => DeadInv(u)
  BY <1>1, <1>5 DEF DeadInv
<1> QED
  BY <1>1, <1>6, <1>7, <1>8, <1>9, <1>10, <1>11, <1>12, <1>13 DEF Good

(* An error is noted. *)
LEMMA MarkKeeps ==
  ASSUME NEW s, NEW o, NEW x, NEW m \in Mrqs,
         NEW r \in {"sbc", "cmd", "stop", "data"}, NEW u, Good(s, o, x),
         u = [s EXCEPT !.err = @ \cup {<<m, r>>}]
  PROVE  /\ Frame(u, s) /\ Controls(u, s) /\ Driven(u, s)
         /\ u.err = s.err \cup {<<m, r>>} /\ Failed(u, m)
         /\ r # "data" /\ ~s.dead => sdhci_needs_reset(u, m)
         /\ Good(u, o, x)
         /\ EarlyInv(s) => EarlyInv(u)
         /\ DeadInv(s) => DeadInv(u)
<1>1. s \in HostRec /\ s.err \in Errors
  BY DEF Good, HostRec
<1>2. PICK e \in Errors : e = s.err \cup {<<m, r>>}
  <2>1. PICK c : c = <<m, r>>
    OBVIOUS
  <2>2. c \in Mrqs \X {"sbc", "cmd", "stop", "data"}
    BY <2>1
  <2>3. s.err \cup {c} \in Errors
    BY <1>1, <2>2 DEF Errors
  <2> QED BY <2>1, <2>3
<1>3. u = [s EXCEPT !.err = e]
  BY <1>2
<1>4. /\ u \in HostRec /\ u.warn = s.warn /\ u.kind = s.kind
      /\ u.dead = s.dead /\ u.setup = s.setup
      /\ u.carried = s.carried /\ u.cmd = s.cmd /\ u.data_cmd = s.data_cmd
      /\ u.data = s.data /\ u.data_early = s.data_early
      /\ u.pending_reset = s.pending_reset /\ u.mrqs_done = s.mrqs_done
      /\ u.cmd_done = s.cmd_done /\ u.err = e /\ u.line = s.line
      /\ u.dat = s.dat /\ u.ints = s.ints
  BY <1>1, <1>3 DEF HostRec
<1>5. /\ Frame(u, s) /\ Controls(u, s) /\ Driven(u, s)
      /\ u.err = s.err \cup {<<m, r>>}
  BY <1>2, <1>4 DEF Frame, Controls, Driven
<1>6. /\ Failed(u, m)
      /\ r # "data" /\ ~s.dead => sdhci_needs_reset(u, m)
  BY <1>4, <1>5 DEF Failed, sdhci_needs_reset
<1>7. \A n : /\ sdhci_needs_reset(s, n) => sdhci_needs_reset(u, n)
             /\ Failed(s, n) => Failed(u, n)
  BY <1>4, <1>5 DEF Failed, sdhci_needs_reset
<1>8. Waiting(u) = Waiting(s)
  BY <1>4 DEF Waiting
<1>9. \A n : /\ Dirty(s, n) => Dirty(u, n)
             /\ Active(u, o, x, n) <=> Active(s, o, x, n)
  BY <1>7, <1>8 DEF Dirty, Active
<1>10. ReqInv(u, o, x)
  BY <1>4, <1>8 DEF Good, ReqInv, Pair
<1>11. CmdInv(u, o, x) /\ DataInv(u, o, x)
  BY <1>4, <1>5, <1>9, FrameReads DEF Good, CmdInv, DataInv
<1>12. LineInv(u)
  BY <1>4, <1>5, <1>9, FrameReads DEF Good, LineInv
<1>13. ResultInv(u, o, x)
  BY <1>4, <1>5, <1>7, <1>8, FrameReads DEF Good, ResultInv
<1>14. StepInv(u)
  BY <1>4, <1>5, FrameReads DEF Good, StepInv
<1>15. u.warn = {}
  BY <1>4 DEF Good
<1> QED
  BY <1>4, <1>5, <1>6, <1>10, <1>11, <1>12, <1>13, <1>14, <1>15
     DEF Good, EarlyInv, DeadInv

(* The lines are reset. *)
LEMMA LessKeeps ==
  ASSUME NEW s, NEW o, NEW x, NEW u, Good(s, o, x), Frame(u, s), Driven(u, s),
         u.err = s.err, u.line \in {s.line, None}, u.dat \in {s.dat, None},
         u.ints \subseteq s.ints
  PROVE  /\ Good(u, o, x)
         /\ EarlyInv(s) => EarlyInv(u)
         /\ DeadInv(s) => DeadInv(u)
<1>1. /\ u \in HostRec /\ u.warn = {} /\ s \in HostRec
      /\ u.kind = s.kind /\ u.dead = s.dead /\ u.setup = s.setup
      /\ u.carried = s.carried /\ u.cmd = s.cmd /\ u.data_cmd = s.data_cmd
      /\ u.data = s.data /\ u.data_early = s.data_early
      /\ u.pending_reset = s.pending_reset /\ u.mrqs_done = s.mrqs_done
      /\ u.cmd_done = s.cmd_done
  BY DEF Good, Frame, Driven
<1>2. Waiting(u) = Waiting(s)
  BY <1>1 DEF Waiting
<1>3. \A m : /\ sdhci_needs_reset(u, m) <=> sdhci_needs_reset(s, m)
             /\ Failed(u, m) <=> Failed(s, m)
  BY <1>1 DEF sdhci_needs_reset, Failed
<1>4. \A m : /\ Dirty(u, m) <=> Dirty(s, m)
             /\ Active(u, o, x, m) <=> Active(s, o, x, m)
  BY <1>2, <1>3 DEF Dirty, Active
<1>5. ReqInv(u, o, x)
  BY <1>1, <1>2 DEF Good, ReqInv, Pair
<1>6. CmdInv(u, o, x) /\ DataInv(u, o, x)
  BY <1>1, <1>4, FrameReads DEF Good, CmdInv, DataInv
<1>7. LineInv(u)
  BY <1>1, <1>4, FrameReads DEF Good, LineInv
<1>8. ResultInv(u, o, x)
  BY <1>1, <1>2, <1>3, FrameReads DEF Good, ResultInv
<1>9. StepInv(u)
  BY <1>1, FrameReads DEF Good, StepInv
<1> QED
  BY <1>1, <1>5, <1>6, <1>7, <1>8, <1>9 DEF Good, EarlyInv, DeadInv

(* SDHCI_RESET_DATA, alone or with SDHCI_RESET_CMD. *)
LEMMA ResetIs ==
  ASSUME NEW s \in HostRec, NEW u
  PROVE  /\ u = ResetData(s) =>
              /\ Frame(u, s) /\ Driven(u, s) /\ u.err = s.err
              /\ u.line = s.line /\ u.dat = None
              /\ u.ints = s.ints \ DataInts
         /\ u = ResetData(ResetCmd(s)) =>
              /\ Frame(u, s) /\ Driven(u, s) /\ u.err = s.err
              /\ u.line = None /\ u.dat = None /\ u.ints = {}
<1>1. \A t \in HostRec : \A v : v = ResetData(t) =>
        /\ Frame(v, t) /\ Driven(v, t) /\ v.err = t.err
        /\ v.line = t.line /\ v.dat = None
        /\ v.ints = t.ints \ DataInts
  <2>1. SUFFICES ASSUME NEW t \in HostRec, NEW v, v = ResetData(t)
                 PROVE  /\ Frame(v, t) /\ Driven(v, t) /\ v.err = t.err
                        /\ v.line = t.line /\ v.dat = None
                        /\ v.ints = t.ints \ DataInts
    OBVIOUS
  <2>2. PICK g \in Hangs : g = t.hung \ {"dat"}
    BY DEF HostRec, Hangs
  <2>3. PICK i \in IntSets : i = t.ints \ DataInts
    BY DEF HostRec, IntSets
  <2>4. v = [t EXCEPT !.dat = None, !.hung = g, !.ints = i]
    BY <2>1, <2>2, <2>3 DEF ResetData
  <2> QED BY <2>3, <2>4, Values DEF HostRec, Frame, Driven
<1>2. PICK t : t = ResetCmd(s)
  OBVIOUS
<1>3. /\ Frame(t, s) /\ Driven(t, s) /\ t.err = s.err
      /\ t.line = None /\ t.dat = s.dat /\ t.ints = s.ints \ CmdInts
  <2>1. PICK g \in Hangs : g = s.hung \ {"line"}
    BY DEF HostRec, Hangs
  <2>2. PICK i \in IntSets : i = s.ints \ CmdInts
    BY DEF HostRec, IntSets
  <2>3. t = [s EXCEPT !.line = None, !.hung = g, !.ints = i]
    BY <1>2, <2>1, <2>2 DEF ResetCmd
  <2> QED BY <2>2, <2>3, Values DEF HostRec, Frame, Driven
<1>4. ASSUME u = ResetData(t)
      PROVE  /\ Frame(u, s) /\ Driven(u, s) /\ u.err = s.err
             /\ u.line = None /\ u.dat = None /\ u.ints = {}
  <2>1. /\ Frame(u, t) /\ Driven(u, t) /\ u.err = t.err
        /\ u.line = t.line /\ u.dat = None /\ u.ints = t.ints \ DataInts
    BY <1>1, <1>3, <1>4 DEF Frame
  <2>2. u.ints = {}
    BY <1>3, <2>1, Fields
  <2> QED BY <1>3, <2>1, <2>2 DEF Frame, Driven
<1> QED BY <1>1, <1>2, <1>4

-----------------------------------------------------------------------------
(* Finishing requests and sending commands.                                *)

(* At most two requests are out, so one that is worked on finds a slot.    *)
LEMMA SlotFree ==
  ASSUME NEW s, NEW o, NEW x, NEW m, Good(s, o, x), Active(s, o, x, m)
  PROVE  /\ m \in Mrqs /\ m \notin Waiting(s) /\ m \in o /\ s \in HostRec
         /\ s.mrqs_done[1] = s.mrqs_done[2] => s.mrqs_done[1] = NoMrq
         /\ s.mrqs_done[1] = NoMrq \/ s.mrqs_done[2] = NoMrq
<1>1. /\ m \in Mrqs /\ m \notin Waiting(s) /\ m \in o /\ s \in HostRec
      /\ s.mrqs_done[1] = s.mrqs_done[2] => s.mrqs_done[1] = NoMrq
  BY DEF Active, Good, ReqInv
<1>2. ~Plain.cap
  BY DEF Plain
<1>3. ASSUME s.mrqs_done[1] # NoMrq, s.mrqs_done[2] # NoMrq
      PROVE  FALSE
  <2>1. PICK a \in o : a = s.mrqs_done[1]
    BY <1>3 DEF Good, ReqInv, Waiting
  <2>2. PICK b \in o : b = s.mrqs_done[2]
    BY <1>3 DEF Good, ReqInv, Waiting
  <2>3. a # b /\ a # m /\ b # m
    BY <1>1, <1>3, <2>1, <2>2 DEF Waiting
  <2>4. /\ Pair(s, a, b) \/ Pair(s, b, a)
        /\ Pair(s, a, m) \/ Pair(s, m, a)
        /\ Pair(s, b, m) \/ Pair(s, m, b)
    BY <1>1, <2>3 DEF Good, ReqInv
  <2> QED BY <1>2, <2>4 DEF Pair
<1> QED BY <1>1, <1>3

(* t is s but for references to m. *)
Almost(t, s, m) ==
  /\ Frame(t, s) /\ Controls(t, s) /\ t.err = s.err
  /\ t.mrqs_done = s.mrqs_done /\ t.cmd_done = s.cmd_done
  /\ t.pending_reset = s.pending_reset /\ t.data_early = s.data_early
  /\ t.cmd \in {s.cmd, Forgets(s.cmd, m)}
  /\ t.data_cmd \in {s.data_cmd, Forgets(s.data_cmd, m)}
  /\ t.data = s.data \/ (t.data = NoMrq /\ s.data = m)

(* sdhci_finish_mrq() of a request the host works on. *)
LEMMA Finishes ==
  ASSUME NEW s, NEW o, NEW x, NEW m, NEW t, NEW u, Good(s, o, x),
         Active(s, o, x, m), Loose(s, m) => sdhci_needs_reset(s, m),
         Failed(s, m) \/ AllDone(s, m), Almost(t, s, m),
         u = sdhci_finish_mrq(t, m)
  PROVE  /\ Fin(s, u, m) /\ Good(u, o, x)
         /\ EarlyInv(s) => EarlyInv(u)
         /\ DeadInv(s) => DeadInv(u)
<1>1. /\ t \in HostRec /\ Waiting(t) = Waiting(s) /\ t.mrqs_done = s.mrqs_done
  BY DEF Almost, Frame, Waiting
<1>2. Fin(t, u, m)
  BY <1>1, SlotFree, FinishMrqIs
<1>3. sdhci_needs_reset(t, m) <=> sdhci_needs_reset(s, m)
  BY DEF Almost, Frame, sdhci_needs_reset
<1>4. /\ Forgets(t.cmd, m) = Forgets(s.cmd, m)
      /\ Forgets(t.data_cmd, m) = Forgets(s.data_cmd, m)
  BY DEF Almost, Forgets
<1>5. (IF t.data = m THEN NoMrq ELSE t.data) =
        (IF s.data = m THEN NoMrq ELSE s.data)
  BY DEF Almost
<1>6. /\ Frame(u, s) /\ Controls(u, s)
      /\ u.cmd = Forgets(s.cmd, m) /\ u.data_cmd = Forgets(s.data_cmd, m)
      /\ u.data_early = s.data_early /\ u.cmd_done = s.cmd_done
      /\ u.err = s.err
      /\ u.pending_reset = (s.pending_reset \/ sdhci_needs_reset(s, m))
  BY <1>2, <1>3, <1>4 DEF Fin, Almost, Frame, Controls
<1>7. u.data = IF s.data = m THEN NoMrq ELSE s.data
  BY <1>2, <1>5 DEF Fin
<1>8. /\ Waiting(u) = Waiting(s) \cup {m}
      /\ u.mrqs_done[1] = u.mrqs_done[2] => u.mrqs_done[1] = NoMrq
  BY <1>1, <1>2 DEF Fin
<1>9. Fin(s, u, m)
  BY <1>6, <1>7, <1>8 DEF Fin
<1> QED BY <1>9, FinKeeps

(* A command is sent on free lines, for a request that comes to it. *)
LEMMA SndKeeps ==
  ASSUME NEW s, NEW o, NEW x, NEW c \in Cmds, NEW u, Good(s, o, x),
         Snd(s, u, c), Active(s, o, x, c[1]), c[1] \notin s.cmd_done,
         s.cmd = None, s.line = None, s.ints \cap CmdInts = {},
         sdhci_data_line_cmd(s, c) =>
           s.data_cmd = None /\ s.dat = None /\ s.ints \cap DataInts = {},
         s.data_cmd # None => s.data_cmd[1] # c[1],
         c[2] = "sbc" => s.kind[c[1]].data /\ s.data_cmd = None,
         c[2] = "cmd" => CountDone(s, c[1]),
         c[2] = "stop" =>
           /\ s.kind[c[1]].stop /\ s.data_cmd = None
           /\ \/ <<c[1], "cmd">> \in s.err \/ <<c[1], "data">> \in s.err
              \/ CountDone(s, c[1]) /\ PartDone(s, <<c[1], "cmd">>)
  PROVE  Good(u, o, x)
<1>1. /\ u \in HostRec /\ u.warn = {} /\ Frame(u, s) /\ s \in HostRec
      /\ u.kind = s.kind /\ u.dead = s.dead /\ u.setup = s.setup
      /\ u.carried = s.carried /\ u.line = c /\ u.cmd = c /\ u.ints = s.ints
      /\ u.pending_reset = s.pending_reset /\ u.mrqs_done = s.mrqs_done
      /\ u.cmd_done = s.cmd_done /\ u.err = s.err \ {c}
  BY DEF Good, Snd, Frame
<1>2. /\ sdhci_data_line_cmd(s, c) => u.data_cmd = c /\ u.dat = c
      /\ ~sdhci_data_line_cmd(s, c) => u.data_cmd = s.data_cmd /\ u.dat = s.dat
      /\ HasData(s, c) => u.data = c[1] /\ u.data_early = FALSE
      /\ ~HasData(s, c) => u.data = s.data /\ u.data_early = s.data_early
      /\ HasData(s, c) => sdhci_data_line_cmd(s, c)
  BY DEF Snd, sdhci_data_line_cmd
<1>3. /\ c # None /\ c[1] \in Mrqs /\ c[2] \in {"sbc", "cmd", "stop"}
      /\ c = <<c[1], c[2]>> /\ c[1] # NoMrq
  BY CmdIs
<1>4. Waiting(u) = Waiting(s)
  BY <1>1 DEF Waiting
<1>5. \A n : n # c[1] => /\ sdhci_needs_reset(u, n) <=> sdhci_needs_reset(s, n)
                         /\ Failed(u, n) <=> Failed(s, n)
  <2>1. \A n, r : n # c[1] => (<<n, r>> \in u.err <=> <<n, r>> \in s.err)
    BY <1>1, <1>3
  <2> QED BY <1>1, <2>1 DEF sdhci_needs_reset, Failed
<1>6. /\ c[1] \in o /\ c[1] \notin Waiting(s) /\ c[1] # x
      /\ \A n : Active(u, o, x, n) <=> Active(s, o, x, n)
  BY <1>4 DEF Active
<1>7. \A n : Dirty(u, n) <=> Dirty(s, n)
  BY <1>4, <1>5, <1>6 DEF Dirty
<1>8. s.data # NoMrq => s.data_cmd # None /\ s.data # c[1]
  BY TransferIs
<1>9. ReqInv(u, o, x)
  BY <1>1, <1>4 DEF Good, ReqInv, Pair
<1>10. CmdInv(u, o, x)
  <2>1. u.cmd[2] = "sbc" => u.kind[u.cmd[1]].data /\ u.data_cmd = None
    BY <1>1, <1>2 DEF sdhci_data_line_cmd, HasData, Busy
  <2>2. u.cmd[2] = "cmd" /\ u.kind[u.cmd[1]].data => u.data = u.cmd[1]
    BY <1>1, <1>2 DEF HasData
  <2>3. u.cmd[2] = "stop" => /\ u.kind[u.cmd[1]].stop /\ u.data = NoMrq
                             /\ u.data_cmd \in {None, u.cmd}
    BY <1>1, <1>2, <1>8 DEF HasData
  <2> QED BY <1>1, <1>6, <2>1, <2>2, <2>3 DEF CmdInv, Active
<1>11. DataInv(u, o, x)
  <2>1. CASE sdhci_data_line_cmd(s, c)
    <3>1. u.data_cmd = c
      BY <1>2, <2>1
    <3>2. HasData(s, c) => u.data = c[1] /\ c[2] = "cmd" /\ s.kind[c[1]].data
      BY <1>2 DEF HasData
    <3>3. ~HasData(s, c) => u.data = NoMrq
      BY <1>2, <1>8, <2>1
    <3> QED
      BY <1>1, <1>3, <1>6, <2>1, <3>1, <3>2, <3>3, FrameReads
         DEF DataInv, Active
  <2>2. CASE ~sdhci_data_line_cmd(s, c)
    BY <1>1, <1>2, <1>6, <2>2, FrameReads DEF Good, DataInv
  <2> QED BY <2>1, <2>2
<1>12. LineInv(u)
  <2>1. u.dat # None => sdhci_data_line_cmd(u, u.dat)
    BY <1>1, <1>2, FrameReads DEF Good, LineInv
  <2>2. u.dat # None /\ u.dat # u.data_cmd => Dirty(u, u.dat[1])
    BY <1>1, <1>2, <1>7 DEF Good, LineInv
  <2>3. u.ints \cap CmdInts = {}
    BY <1>1
  <2>4. u.ints \cap DataInts # {} =>
          /\ u.dat = None
          /\ u.data_cmd = None => \E n \in Mrqs : Dirty(u, n)
    BY <1>1, <1>2, <1>7 DEF Good, LineInv
  <2> QED BY <1>1, <2>1, <2>2, <2>3, <2>4 DEF LineInv
<1>13. ResultInv(u, o, x)
  BY <1>1, <1>4, <1>5, <1>6, FrameReads DEF Good, ResultInv
<1>14. StepInv(u)
  <2>1. "RESPONSE" \notin u.ints
    BY <1>1 DEF CmdInts
  <2>2. "DATA_END" \in u.ints /\ u.data_cmd # None => End(u, u.data_cmd)
    BY <1>1, <1>2, FrameReads DEF Good, StepInv, DataInts
  <2>3. u.data # NoMrq /\ u.data_early => End(u, u.data_cmd)
    <3>1. CASE HasData(s, c)
      BY <1>2, <3>1
    <3>2. CASE ~HasData(s, c)
      BY <1>1, <1>2, <1>8, <3>2, FrameReads DEF Good, StepInv
    <3> QED BY <3>1, <3>2
  <2>4. Busy(u, u.cmd) => u.data_cmd = u.cmd
    BY <1>1, <1>2, FrameReads DEF sdhci_data_line_cmd
  <2>5. ASSUME u.data_cmd # None, u.data_cmd # u.cmd
        PROVE  /\ u.data_cmd = s.data_cmd /\ s.data_cmd[1] # c[1]
               /\ Rsp(u, u.data_cmd) \/ u.data_cmd \in u.err
    BY <1>1, <1>2, <2>5, FrameReads DEF Good, StepInv
  <2>6. /\ c[2] = "cmd" => CountDone(u, c[1])
        /\ c[2] = "stop" =>
             \/ <<c[1], "cmd">> \in u.err \/ <<c[1], "data">> \in u.err
             \/ CountDone(u, c[1]) /\ PartDone(u, <<c[1], "cmd">>)
    BY <1>1, <1>3, FrameReads
  <2>7. ASSUME u.data_cmd # None, u.data_cmd # u.cmd
        PROVE  LET d == u.data_cmd IN
               /\ d[2] = "cmd" => CountDone(u, d[1])
               /\ d[2] = "stop" =>
                    \/ <<d[1], "cmd">> \in u.err \/ <<d[1], "data">> \in u.err
                    \/ CountDone(u, d[1]) /\ PartDone(u, <<d[1], "cmd">>)
    <3>1. PICK d : d = s.data_cmd
      OBVIOUS
    <3>2. d \in {s.cmd, s.data_cmd} \ {None} /\ u.data_cmd = d /\ d[1] # c[1]
      BY <2>5, <2>7, <3>1
    <3>3. /\ d[2] = "cmd" => CountDone(s, d[1])
          /\ d[2] = "stop" =>
               \/ <<d[1], "cmd">> \in s.err \/ <<d[1], "data">> \in s.err
               \/ CountDone(s, d[1]) /\ PartDone(s, <<d[1], "cmd">>)
      BY <3>2 DEF Good, StepInv
    <3>4. \A r : <<d[1], r>> \in s.err => <<d[1], r>> \in u.err
      BY <1>1, <1>3, <3>2
    <3> QED BY <1>1, <3>2, <3>3, <3>4, FrameReads
  <2> QED BY <1>1, <2>1, <2>2, <2>3, <2>4, <2>5, <2>6, <2>7 DEF StepInv
<1> QED BY <1>1, <1>9, <1>10, <1>11, <1>12, <1>13, <1>14 DEF Good

(* A request has one command under way. *)
LEMMA OneCommand ==
  ASSUME NEW s, NEW o, NEW x, Good(s, o, x), s.cmd # None, s.data_cmd # None,
         s.cmd[1] = s.data_cmd[1]
  PROVE  s.cmd = s.data_cmd
<1>1. s.cmd \in Cmds /\ s.data_cmd \in Cmds
  BY Fields DEF Good
<1>2. /\ s.cmd = <<s.cmd[1], s.cmd[2]>> /\ s.cmd[2] \in {"sbc", "cmd", "stop"}
      /\ s.data_cmd = <<s.data_cmd[1], s.data_cmd[2]>>
      /\ s.data_cmd[2] \in {"sbc", "cmd", "stop"}
  BY <1>1, CmdIs
<1>3. s.data_cmd[2] # "sbc" /\ s.cmd[2] # "sbc"
  BY DEF Good, DataInv, CmdInv, sdhci_data_line_cmd, HasData, Busy
<1>4. s.cmd[2] = "stop" => s.cmd = s.data_cmd
  BY DEF Good, CmdInv
<1>5. ASSUME s.cmd[2] = "cmd", s.data_cmd[2] = "stop"
      PROVE  FALSE
  <2>1. s.kind[s.cmd[1]].stop /\ s.cmd[1] \in o
    BY <1>5 DEF Good, DataInv, Active
  <2>2. s.data = s.cmd[1] /\ s.kind[s.cmd[1]].data
    BY <1>5, <2>1 DEF Good, CmdInv, ReqInv, Legal
  <2>3. s.data # NoMrq
    BY <1>1, <2>2, CmdIs
  <2> QED BY <1>5, <2>3, TransferIs
<1> QED BY <1>2, <1>3, <1>4, <1>5

(* With data to move, and not one that others may run beside. *)
LEMMA Alone ==
  ASSUME NEW s, NEW o, NEW x, NEW m, Good(s, o, x), Active(s, o, x, m),
         s.kind[m].data, ~s.kind[m].cap \/ m \notin s.cmd_done
  PROVE  o = {m} /\ Waiting(s) = {} /\ \A n : ~Dirty(s, n)
<1>1. m \in o /\ m \notin Waiting(s)
  BY DEF Active
<1>2. ASSUME NEW n \in o, n # m
      PROVE  FALSE
  <2>1. Pair(s, m, n) \/ Pair(s, n, m)
    BY <1>1, <1>2 DEF Good, ReqInv
  <2>2. ~Pair(s, m, n)
    BY DEF Pair
  <2>3. ~Pair(s, n, m)
    <3>1. s.kind[m] # Plain
      BY DEF Plain
    <3> QED BY <3>1 DEF Pair
  <2> QED BY <2>1, <2>2, <2>3
<1>3. o = {m}
  BY <1>1, <1>2
<1>4. Waiting(s) = {}
  BY <1>1, <1>3 DEF Good, ReqInv
<1> QED BY <1>3, <1>4 DEF Dirty

(* Nothing is under way. *)
LEMMA IdleKeeps ==
  ASSUME NEW s, NEW o, NEW x, NEW u, Good(s, o, x), Frame(u, s),
         u.cmd = None, u.data_cmd = None, u.data = NoMrq, u.line = None,
         u.dat = None, u.ints = {}, u.err = s.err,
         u.mrqs_done = s.mrqs_done, u.cmd_done = s.cmd_done
  PROVE  Good(u, o, x)
<1>1. /\ u \in HostRec /\ u.warn = {} /\ u.kind = s.kind
      /\ u.carried = s.carried /\ Waiting(u) = Waiting(s)
  BY DEF Good, Frame, Waiting
<1>2. \A m : Failed(u, m) <=> Failed(s, m)
  BY DEF Failed
<1>3. ReqInv(u, o, x)
  BY <1>1 DEF Good, ReqInv, Pair
<1>4. ResultInv(u, o, x)
  BY <1>1, <1>2, FrameReads DEF Good, ResultInv
<1>5. CmdInv(u, o, x) /\ DataInv(u, o, x) /\ LineInv(u) /\ StepInv(u)
  BY DEF CmdInv, DataInv, LineInv, StepInv
<1> QED BY <1>1, <1>3, <1>4, <1>5 DEF Good

(* The transfer's request has been forgotten by the data handler. *)
LEMMA NoTransfer ==
  ASSUME NEW s \in HostRec, NEW u,
         u = [s EXCEPT !.data = NoMrq, !.data_cmd = None]
  PROVE  /\ Frame(u, s) /\ Controls(u, s) /\ u.cmd = s.cmd
         /\ u.data = NoMrq /\ u.data_cmd = None /\ u.data_early = s.data_early
         /\ u.pending_reset = s.pending_reset /\ u.mrqs_done = s.mrqs_done
         /\ u.cmd_done = s.cmd_done /\ u.err = s.err
<1>1. u \in HostRec
  BY Values DEF HostRec
<1> QED BY <1>1 DEF HostRec, Frame, Controls

(* What sdhci_finish_data() does with an open-ended or failed transfer. *)
LEMMA StopKeeps ==
  ASSUME NEW s, NEW o, NEW x, NEW m, NEW v, NEW c, NEW u, Good(s, o, x),
         s.data = m, m # NoMrq, s.kind[m].stop, ~s.kind[m].cap,
         <<m, "data">> \notin s.err =>
           s.cmd # s.data_cmd /\ End(s, s.data_cmd),
         Frame(v, s), v.err = s.err, v.mrqs_done = s.mrqs_done,
         v.cmd_done = s.cmd_done, v.line = None, v.dat = None, v.ints = {},
         v.cmd = None, v.data_cmd = None, v.data = NoMrq,
         c = <<m, "stop">>, u = sdhci_send_command(v, c)
  PROVE  Good(u, o, x) /\ Frame(u, s) /\ u.data = NoMrq
<1>1. /\ m \in Mrqs /\ s.data_cmd \in Cmds /\ s.data_cmd # None
      /\ s.data_cmd = <<m, "cmd">> /\ s.data_cmd[1] = m
      /\ s.data_cmd[2] = "cmd" /\ Active(s, o, x, m)
  BY TransferIs
<1>2. Good(v, o, x)
  BY IdleKeeps
<1>3. c \in Cmds /\ c[1] = m /\ c[2] = "stop"
  BY <1>1, IsCmd
<1>4. v \in HostRec
  BY DEF Frame
<1>5. Snd(v, u, c)
  BY <1>3, <1>4, SendIs
<1>6. Active(v, o, x, m)
  BY <1>1 DEF Active, Waiting
<1>7. m \notin v.cmd_done /\ v.kind[m].stop
  BY DEF Good, ReqInv, Frame
<1>8. \/ <<m, "cmd">> \in v.err \/ <<m, "data">> \in v.err
      \/ CountDone(v, m) /\ PartDone(v, <<m, "cmd">>)
  <2>1. CASE <<m, "data">> \in s.err
    BY <2>1
  <2>2. CASE <<m, "data">> \notin s.err
    <3>1. Rsp(s, s.data_cmd) \/ s.data_cmd \in s.err
      BY <1>1, <2>2 DEF Good, StepInv
    <3>2. CountDone(s, m)
      BY <1>1 DEF Good, StepInv
    <3>3. End(s, s.data_cmd)
      BY <2>2
    <3> QED BY <1>1, <3>1, <3>2, <3>3, FrameReads DEF PartDone
  <2> QED BY <2>1, <2>2
<1>9. Good(u, o, x)
  BY <1>2, <1>3, <1>5, <1>6, <1>7, <1>8, SndKeeps
<1>10. Frame(u, s) /\ u.data = NoMrq
  BY <1>3, <1>5 DEF Snd, Frame, HasData
<1> QED BY <1>9, <1>10

(* sdhci_finish_data(), after an error or when the data is through. *)
LEMMA FinishDataKeeps ==
  ASSUME NEW s, NEW o, NEW x, NEW u, Good(s, o, x), s.data # NoMrq, ~s.dead,
         <<s.data, "data">> \notin s.err =>
           /\ s.ints = {} /\ s.dat = None /\ s.cmd # s.data_cmd
           /\ End(s, s.data_cmd),
         u = sdhci_finish_data(s)
  PROVE  /\ Good(u, o, x) /\ Frame(u, s) /\ u.data = NoMrq
         /\ EarlyInv(u) /\ DeadInv(u)
<1>1. PICK m \in Mrqs : m = s.data
  BY TransferIs
<1>2. /\ s.data_cmd \in Cmds /\ s.data_cmd # None
      /\ s.data_cmd = <<m, "cmd">> /\ s.data_cmd[1] = m
      /\ s.data_cmd[2] = "cmd" /\ s.kind[m].data /\ Active(s, o, x, m)
      /\ HasData(s, s.data_cmd) /\ m # NoMrq /\ s \in HostRec
  BY <1>1, TransferIs DEF Good
<1>3. PICK failed \in BOOLEAN : failed <=> <<m, "data">> \in s.err
  OBVIOUS
<1>4. PICK s1 : s1 = [s EXCEPT !.data = NoMrq, !.data_cmd = None]
  OBVIOUS
<1>5. /\ Frame(s1, s) /\ Controls(s1, s) /\ s1.cmd = s.cmd
      /\ s1.data = NoMrq /\ s1.data_cmd = None
      /\ s1.data_early = s.data_early
      /\ s1.pending_reset = s.pending_reset /\ s1.mrqs_done = s.mrqs_done
      /\ s1.cmd_done = s.cmd_done /\ s1.err = s.err /\ s1 \in HostRec
  <2>1. s \in HostRec
    BY <1>2
  <2>2. /\ Frame(s1, s) /\ Controls(s1, s) /\ s1.cmd = s.cmd
        /\ s1.data = NoMrq /\ s1.data_cmd = None
        /\ s1.data_early = s.data_early
        /\ s1.pending_reset = s.pending_reset /\ s1.mrqs_done = s.mrqs_done
        /\ s1.cmd_done = s.cmd_done /\ s1.err = s.err
    BY <1>4, <2>1, NoTransfer
  <2> QED BY <2>2 DEF Frame
<1>6. PICK s2 : s2 = IF ~failed THEN s1
                     ELSE IF s.cmd = None \/ s.cmd = s.data_cmd
                          THEN ResetData(ResetCmd(s1)) ELSE ResetData(s1)
  OBVIOUS
<1>7. s.cmd # None /\ s.cmd # s.data_cmd => s.cmd[1] # m
  BY <1>2, OneCommand
<1>8. s.cmd # s.data_cmd /\ s.line # None => s.line[1] # m
  BY <1>2, <1>7 DEF Good, LineInv, Dirty, Active
<1>9. ~failed => /\ s.ints = {} /\ s.dat = None /\ s.cmd # s.data_cmd
                 /\ End(s, s.data_cmd)
  BY <1>1, <1>3
<1>10. ~failed =>
         \/ Failed(s, m)
         \/ CountDone(s, m) /\ PartDone(s, <<m, "cmd">>)
  <2>1. CountDone(s, m)
    BY <1>2 DEF Good, StepInv
  <2>2. ~failed => Rsp(s, s.data_cmd) \/ s.data_cmd \in s.err
    BY <1>2, <1>9 DEF Good, StepInv
  <2>3. s.data_cmd \in s.err => Failed(s, m)
    BY <1>2 DEF Failed
  <2>4. ~failed /\ Rsp(s, s.data_cmd) => PartDone(s, s.data_cmd)
    BY <1>9 DEF PartDone
  <2>5. PartDone(s, s.data_cmd) => PartDone(s, <<m, "cmd">>)
    BY <1>2
  <2> QED BY <2>1, <2>2, <2>3, <2>4, <2>5
<1>11. failed => Failed(s, m)
  BY <1>3 DEF Failed
<1>12. Forgets(s.data_cmd, m) = None
  BY <1>2 DEF Forgets
<1>13. Almost(s1, s, m)
  BY <1>1, <1>5, <1>12 DEF Almost
<1>14. /\ s1.err = s.err /\ s1.kind = s.kind
  BY <1>5 DEF Frame
<1>15. CASE ~(s.kind[m].stop /\ (failed \/ ~s.kind[m].sbc))
  <2>1. u = sdhci_finish_mrq(s1, m)
    BY <1>1, <1>3, <1>4, <1>15 DEF sdhci_finish_data
  <2>2. Loose(s, m) => sdhci_needs_reset(s, m)
    <3>1. CASE failed
      BY <1>3, <1>15, <3>1 DEF sdhci_needs_reset
    <3>2. CASE ~failed
      BY <1>2, <1>8, <1>9, <3>2 DEF Loose
    <3> QED BY <3>1, <3>2
  <2>3. Failed(s, m) \/ AllDone(s, m)
    BY <1>10, <1>11, <1>15 DEF AllDone, StopSent
  <2>4. Fin(s, u, m) /\ Good(u, o, x)
    BY <1>2, <1>13, <2>1, <2>2, <2>3, Finishes
  <2>5. Frame(u, s) /\ u.data = NoMrq
    BY <1>1, <2>4 DEF Fin
  <2> QED BY <2>4, <2>5 DEF EarlyInv, DeadInv, Frame
<1>16. CASE s.kind[m].stop /\ (failed \/ ~s.kind[m].sbc) /\ s.kind[m].cap
  <2>1. u = sdhci_finish_mrq(s2, m)
    BY <1>1, <1>3, <1>4, <1>6, <1>16 DEF sdhci_finish_data
  <2>2. PICK r : r = IF ~failed THEN s
                     ELSE IF s.cmd = None \/ s.cmd = s.data_cmd
                          THEN ResetData(ResetCmd(s)) ELSE ResetData(s)
    OBVIOUS
  <2>3. CASE ~failed
    <3>1. s2 = s1
      BY <1>6, <2>3
    <3>2. ~Loose(s, m)
      BY <1>2, <1>8, <1>9, <2>3 DEF Loose
    <3>3. Failed(s, m) \/ AllDone(s, m)
      BY <1>10, <1>16, <2>3 DEF AllDone, StopSent
    <3>4. Fin(s, u, m) /\ Good(u, o, x)
      BY <1>2, <1>13, <2>1, <3>1, <3>2, <3>3, Finishes
    <3>5. Frame(u, s) /\ u.data = NoMrq
      BY <1>1, <3>4 DEF Fin
    <3> QED BY <3>4, <3>5 DEF EarlyInv, DeadInv, Frame
  <2>4. CASE failed
    <3>1. /\ Frame(r, s) /\ Driven(r, s) /\ r.err = s.err
          /\ r.line \in {s.line, None} /\ r.dat = None
          /\ r.ints \subseteq s.ints /\ r.ints \cap DataInts = {}
          /\ s.cmd = None \/ s.cmd = s.data_cmd => r.line = None /\ r.ints = {}
      BY <1>2, <2>2, <2>4, ResetIs
    <3>2. /\ Frame(s2, s1) /\ Driven(s2, s1) /\ s2.err = s1.err
          /\ s2.line = r.line /\ s2.dat = r.dat /\ s2.ints = r.ints
      <4>1. CASE s.cmd = None \/ s.cmd = s.data_cmd
        <5>1. s2 = ResetData(ResetCmd(s1)) /\ r = ResetData(ResetCmd(s))
          BY <1>6, <2>2, <2>4, <4>1
        <5>2. /\ Frame(s2, s1) /\ Driven(s2, s1) /\ s2.err = s1.err
              /\ s2.line = None /\ s2.dat = None /\ s2.ints = {}
          BY <1>5, <5>1, ResetIs
        <5>3. r.line = None /\ r.dat = None /\ r.ints = {}
          BY <1>2, <5>1, ResetIs
        <5> QED BY <5>2, <5>3
      <4>2. CASE ~(s.cmd = None \/ s.cmd = s.data_cmd)
        <5>1. s2 = ResetData(s1) /\ r = ResetData(s)
          BY <1>6, <2>2, <2>4, <4>2
        <5>2. s1.line = s.line /\ s1.ints = s.ints
          BY <1>5 DEF Controls
        <5>3. /\ Frame(s2, s1) /\ Driven(s2, s1) /\ s2.err = s1.err
              /\ s2.line = s1.line /\ s2.dat = None
              /\ s2.ints = s1.ints \ DataInts
          BY <1>5, <5>1, ResetIs
        <5>4. r.line = s.line /\ r.dat = None /\ r.ints = s.ints \ DataInts
          BY <1>2, <5>1, ResetIs
        <5> QED BY <5>2, <5>3, <5>4
      <4> QED BY <4>1, <4>2
    <3>3. Good(r, o, x)
      BY <3>1, LessKeeps
    <3>4. Almost(s2, r, m)
      <4>1. /\ Frame(s2, r) /\ Controls(s2, r) /\ s2.err = r.err
            /\ s2.mrqs_done = r.mrqs_done /\ s2.cmd_done = r.cmd_done
            /\ s2.pending_reset = r.pending_reset
            /\ s2.data_early = r.data_early /\ s2.cmd = r.cmd
            /\ s2.data_cmd = None /\ s2.data = NoMrq /\ r.data = m
            /\ r.data_cmd = s.data_cmd
        BY <1>1, <1>5, <3>1, <3>2 DEF Frame, Driven, Controls
      <4> QED BY <1>12, <4>1 DEF Almost
    <3>5. Active(r, o, x, m)
      BY <1>2, <3>1 DEF Active, Waiting, Driven
    <3>6. ~Loose(r, m)
      <4>1. r.cmd = s.cmd /\ r.data_cmd = s.data_cmd
        BY <3>1 DEF Driven
      <4> QED BY <1>7, <1>8, <3>1, <4>1 DEF Loose
    <3>7. Failed(r, m)
      BY <1>11, <2>4, <3>1 DEF Failed
    <3>8. Fin(r, u, m) /\ Good(u, o, x)
      BY <2>1, <3>3, <3>4, <3>5, <3>6, <3>7, Finishes
    <3>9. r.data = m
      BY <1>1, <3>1 DEF Driven
    <3>10. Frame(u, s) /\ u.data = NoMrq
      BY <3>1, <3>8, <3>9 DEF Fin, Frame
    <3> QED BY <3>8, <3>10 DEF EarlyInv, DeadInv, Frame
  <2> QED BY <2>3, <2>4
<1>17. CASE s.kind[m].stop /\ (failed \/ ~s.kind[m].sbc) /\ ~s.kind[m].cap
  <2>1. PICK v : v = [s2 EXCEPT !.cmd = None]
    OBVIOUS
  <2>2. PICK c : c = <<m, "stop">>
    OBVIOUS
  <2>3. u = sdhci_send_command(v, c)
    BY <1>1, <1>3, <1>4, <1>6, <1>17, <2>1, <2>2 DEF sdhci_finish_data
  <2>4. o = {m} /\ \A n : ~Dirty(s, n)
    BY <1>2, <1>17, Alone
  <2>5. s.cmd = None \/ s.cmd = s.data_cmd
    BY <1>7, <2>4 DEF Good, CmdInv, Active
  <2>6. /\ Frame(s2, s) /\ s2.err = s.err /\ s2.mrqs_done = s.mrqs_done
        /\ s2.cmd_done = s.cmd_done /\ s2.line = None /\ s2.dat = None
        /\ s2.ints = {} /\ s2.data_cmd = None /\ s2.data = NoMrq
    <3>1. CASE ~failed
      <4>1. s.line = None
        BY <1>9, <2>4, <2>5, <3>1 DEF Good, LineInv
      <4> QED BY <1>5, <1>6, <1>9, <3>1, <4>1 DEF Controls
    <3>2. CASE failed
      <4>1. s2 = ResetData(ResetCmd(s1))
        BY <1>6, <2>5, <3>2
      <4>2. /\ Frame(s2, s1) /\ Driven(s2, s1) /\ s2.err = s1.err
            /\ s2.line = None /\ s2.dat = None /\ s2.ints = {}
        BY <1>5, <4>1, ResetIs
      <4> QED BY <1>5, <4>2 DEF Frame, Driven
    <3> QED BY <3>1, <3>2
  <2>7. /\ Frame(v, s) /\ v.err = s.err /\ v.mrqs_done = s.mrqs_done
        /\ v.cmd_done = s.cmd_done /\ v.line = None /\ v.dat = None
        /\ v.ints = {} /\ v.cmd = None /\ v.data_cmd = None /\ v.data = NoMrq
    BY <2>1, <2>6, Values DEF HostRec, Frame
  <2>8. Good(u, o, x) /\ Frame(u, s) /\ u.data = NoMrq
    <3>1. /\ s.data = m /\ s.kind[m].stop /\ ~s.kind[m].cap
          /\ <<m, "data">> \notin s.err =>
               s.cmd # s.data_cmd /\ End(s, s.data_cmd)
      BY <1>1, <1>17
    <3> QED BY <1>2, <2>2, <2>3, <2>7, <3>1, StopKeeps
  <2> QED BY <2>8 DEF EarlyInv, DeadInv, Frame
<1> QED BY <1>3, <1>15, <1>16, <1>17

-----------------------------------------------------------------------------
(* The interrupts.                                                         *)

(* The command's response is here: the driver no longer waits for it. *)
LEMMA CmdGone ==
  ASSUME NEW s, NEW o, NEW x, NEW u, Good(s, o, x), s.cmd # None,
         s.line = None, s.ints = {}, Frame(u, s), Controls(u, s),
         u.cmd = None, u.data_cmd = s.data_cmd, u.data = s.data,
         u.data_early = s.data_early, u.pending_reset = s.pending_reset,
         u.mrqs_done = s.mrqs_done,
         \/ u.cmd_done = s.cmd_done
         \/ u.cmd_done = s.cmd_done \cup {s.cmd[1]} /\ s.kind[s.cmd[1]].cap,
         u.err = s.err \/ u.err = s.err \cup {s.cmd},
         Rsp(s, s.cmd) \/ s.cmd \in u.err
  PROVE  Good(u, o, x)
<1>1. /\ u \in HostRec /\ u.warn = {} /\ u.kind = s.kind /\ u.dead = s.dead
      /\ u.carried = s.carried /\ u.line = None /\ u.dat = s.dat
      /\ u.ints = {} /\ Waiting(u) = Waiting(s)
  BY DEF Good, Frame, Controls, Waiting
<1>2. \A m : /\ Failed(s, m) => Failed(u, m)
             /\ Dirty(s, m) => Dirty(u, m)
             /\ Active(s, o, x, m) => Active(u, o, x, m)
  BY <1>1 DEF Failed, Dirty, Active, sdhci_needs_reset
<1>3. ReqInv(u, o, x)
  <2>1. s.cmd[1] \in o
    BY DEF Good, CmdInv, Active
  <2>2. \A m \in u.cmd_done : m \in o /\ u.kind[m].cap
    BY <1>1, <2>1 DEF Good, ReqInv
  <2>3. \A m, n : Pair(s, m, n) => Pair(u, m, n)
    BY <1>1 DEF Pair
  <2> QED BY <1>1, <2>2, <2>3 DEF Good, ReqInv
<1>4. CmdInv(u, o, x)
  BY DEF CmdInv
<1>5. DataInv(u, o, x)
  BY <1>1, <1>2, FrameReads DEF Good, DataInv
<1>6. LineInv(u)
  BY <1>1, <1>2, FrameReads DEF Good, LineInv
<1>7. ResultInv(u, o, x)
  BY <1>1, <1>2, FrameReads DEF Good, ResultInv
<1>8. StepInv(u)
  <2>1. u.data # NoMrq /\ u.data_early => End(u, u.data_cmd)
    BY FrameReads DEF Good, StepInv
  <2>2. u.data_cmd # None => Rsp(u, u.data_cmd) \/ u.data_cmd \in u.err
    BY FrameReads DEF Good, StepInv
  <2>3. ASSUME NEW c \in {u.cmd, u.data_cmd} \ {None}
        PROVE  /\ c[2] = "cmd" => CountDone(u, c[1])
               /\ c[2] = "stop" =>
                    \/ <<c[1], "cmd">> \in u.err \/ <<c[1], "data">> \in u.err
                    \/ CountDone(u, c[1]) /\ PartDone(u, <<c[1], "cmd">>)
    <3>1. c \in {s.cmd, s.data_cmd} \ {None}
      OBVIOUS
    <3>2. /\ c[2] = "cmd" => CountDone(s, c[1])
          /\ c[2] = "stop" =>
               \/ <<c[1], "cmd">> \in s.err \/ <<c[1], "data">> \in s.err
               \/ CountDone(s, c[1]) /\ PartDone(s, <<c[1], "cmd">>)
      BY <3>1 DEF Good, StepInv
    <3> QED BY <3>2, FrameReads
  <2> QED BY <1>1, <2>1, <2>2, <2>3 DEF StepInv
<1> QED BY <1>1, <1>3, <1>4, <1>5, <1>6, <1>7, <1>8 DEF Good

(* The data interrupts in hand belong to the command on the data line. *)
MaskOk(s, mask) ==
  mask # {} =>
    /\ s.ints = {} /\ s.dat = None
    /\ "DATA_END" \in mask /\ s.data_cmd # None => End(s, s.data_cmd)

(* What holds between the two handlers. *)
Served(u, s, o, x, mask) ==
  Good(u, o, x) /\ EarlyInv(u) /\ Frame(u, s) /\ MaskOk(u, mask)

(* A request is finished by the command handler. *)
LEMMA ServedBy ==
  ASSUME NEW s, NEW o, NEW x, NEW m, NEW t, NEW u, NEW mask, Fin(t, u, m),
         Good(u, o, x), EarlyInv(u), Frame(t, s), Controls(t, s), Driven(t, s),
         MaskOk(s, mask)
  PROVE  Served(u, s, o, x, mask)
<1>1. Frame(u, s)
  BY DEF Fin, Frame
<1>2. MaskOk(u, mask)
  <2>1. /\ u.ints = s.ints /\ u.dat = s.dat
        /\ u.data_cmd \in {None, s.data_cmd}
    BY DEF Fin, Frame, Controls, Driven, Forgets
  <2> QED BY <1>1, <2>1, FrameReads DEF MaskOk
<1> QED BY <1>1, <1>2 DEF Served

(* A request without data that has its response, and its busy end. *)
LEMMA ResponseEnds ==
  ASSUME NEW s, NEW o, NEW x, Good(s, o, x), s.cmd # None,
         s.line = None, s.ints = {}, Rsp(s, s.cmd), s.cmd[2] # "sbc",
         ~HasData(s, s.cmd), ~(Busy(s, s.cmd) /\ s.cmd = s.data_cmd)
  PROVE  /\ ~Loose(s, s.cmd[1])
         /\ Failed(s, s.cmd[1]) \/ AllDone(s, s.cmd[1])
         /\ s.cmd[2] = "cmd" => ~s.kind[s.cmd[1]].cap
<1>1. PICK c \in Cmds : c = s.cmd
  BY Fields DEF Good
<1>2. PICK m \in Mrqs : m = c[1]
  BY CmdIs
<1>3. /\ c # None /\ c[2] \in {"cmd", "stop"} /\ c = <<m, c[2]>>
  BY <1>1, <1>2, CmdIs
<1>4. /\ m \in o /\ m \notin Waiting(s) /\ Legal(s.kind[m])
  BY <1>1, <1>2 DEF Good, CmdInv, Active, ReqInv
<1>5. c[2] = "cmd" => /\ ~s.kind[m].data /\ ~s.kind[m].stop /\ ~s.kind[m].cap
  BY <1>1, <1>2, <1>4 DEF HasData, Legal
<1>6. ~Loose(s, m)
  <2>1. ASSUME s.dat # None, s.dat[1] = m
        PROVE  FALSE
    <3>1. s.dat = s.data_cmd
      BY <1>4, <2>1 DEF Good, LineInv, Dirty
    <3>2. s.cmd = s.data_cmd
      BY <1>1, <1>2, <1>3, <2>1, <3>1, OneCommand
    <3>3. sdhci_data_line_cmd(s, s.cmd)
      BY <2>1, <3>1, <3>2 DEF Good, LineInv
    <3> QED BY <3>2, <3>3 DEF sdhci_data_line_cmd
  <2> QED BY <2>1 DEF Loose
<1>7. PartDone(s, c)
  BY <1>1, <1>3 DEF PartDone, sdhci_data_line_cmd, Good, StepInv
<1>8. c \in {s.cmd, s.data_cmd} \ {None}
  BY <1>1, <1>3
<1>9. CASE c[2] = "cmd"
  <2>1. CountDone(s, m) /\ ~StopSent(s, m)
    BY <1>2, <1>5, <1>8, <1>9 DEF Good, StepInv, StopSent
  <2>2. PartDone(s, <<m, "cmd">>)
    BY <1>3, <1>7, <1>9
  <2>3. AllDone(s, m)
    BY <2>1, <2>2 DEF AllDone
  <2> QED BY <1>1, <1>2, <1>5, <1>6, <2>3
<1>10. CASE c[2] = "stop"
  <2>1. \/ <<m, "cmd">> \in s.err \/ <<m, "data">> \in s.err
        \/ CountDone(s, m) /\ PartDone(s, <<m, "cmd">>)
    BY <1>2, <1>8, <1>10 DEF Good, StepInv
  <2>2. PartDone(s, <<m, "stop">>)
    BY <1>3, <1>7, <1>10
  <2>3. Failed(s, m) \/ AllDone(s, m)
    BY <2>1, <2>2 DEF AllDone, Failed
  <2> QED BY <1>1, <1>2, <1>6, <1>10, <2>3
<1> QED BY <1>3, <1>9, <1>10

(* sdhci_finish_command() *)
LEMMA FinishCommandKeeps ==
  ASSUME NEW s, NEW o, NEW x, NEW mask, NEW u, Good(s, o, x), EarlyInv(s),
         ~s.dead, s.cmd # None, s.line = None, s.ints = {}, Rsp(s, s.cmd),
         MaskOk(s, mask), s.cmd[2] = "sbc" => mask = {},
         s.data # NoMrq /\ s.data_early => mask = {},
         u = sdhci_finish_command(s)
  PROVE  Served(u, s, o, x, mask)
<1>1. PICK c \in Cmds : c = s.cmd
  BY Fields DEF Good
<1>2. PICK m \in Mrqs : m = c[1]
  BY CmdIs
<1>3. /\ c # None /\ c[2] \in {"sbc", "cmd", "stop"} /\ c = <<m, c[2]>>
      /\ m # NoMrq
  BY <1>1, <1>2, CmdIs
<1>4. /\ s \in HostRec /\ Active(s, o, x, m) /\ m \notin s.cmd_done
      /\ m \in o /\ Legal(s.kind[m])
  BY <1>1, <1>2 DEF Good, CmdInv, Active, ReqInv
<1>5. PICK q \in MrqSets : q = IF s.kind[m].cap /\ c[2] = "cmd"
                               THEN s.cmd_done \cup {m} ELSE s.cmd_done
  BY <1>4 DEF HostRec, MrqSets
<1>6. PICK s1 : s1 = [s EXCEPT !.cmd = None, !.cmd_done = q]
  OBVIOUS
<1>7. s1 = [s EXCEPT !.cmd = None,
                     !.cmd_done = IF s.kind[m].cap /\ c[2] = "cmd"
                                  THEN @ \cup {m} ELSE @]
  BY <1>5, <1>6
<1>8. /\ Frame(s1, s) /\ Controls(s1, s) /\ s1.cmd = None
      /\ s1.data_cmd = s.data_cmd /\ s1.data = s.data
      /\ s1.data_early = s.data_early /\ s1.pending_reset = s.pending_reset
      /\ s1.mrqs_done = s.mrqs_done /\ s1.cmd_done = q /\ s1.err = s.err
      /\ s1 \in HostRec
  BY <1>4, <1>6, Values DEF HostRec, Frame, Controls
<1>9. /\ q = s.cmd_done \/ (q = s.cmd_done \cup {m} /\ s.kind[m].cap)
      /\ ~(s.kind[m].cap /\ c[2] = "cmd") => q = s.cmd_done
  BY <1>5
<1>10. Good(s1, o, x)
  BY <1>1, <1>2, <1>8, <1>9, CmdGone
<1>11. MaskOk(s1, mask)
  BY <1>8, FrameReads DEF MaskOk, Controls
<1>12. PICK s2 : s2 = IF s1.data # NoMrq /\ s1.data_early
                      THEN sdhci_finish_data(s1) ELSE s1
  OBVIOUS
<1>13. CASE Busy(s, c) /\ c = s.data_cmd
  <2>1. u = s1
    BY <1>1, <1>2, <1>7, <1>13 DEF sdhci_finish_command
  <2>2. ~HasData(s, c)
    BY <1>2, <1>4, <1>13 DEF HasData, Busy, Legal
  <2>3. s.data = NoMrq
    BY <1>13, <2>2, TransferIs
  <2> QED BY <1>8, <1>10, <1>11, <2>1, <2>3 DEF Served, EarlyInv
<1>14. CASE ~(Busy(s, c) /\ c = s.data_cmd) /\ c[2] = "sbc"
  <2>1. PICK d : d = <<m, "cmd">>
    OBVIOUS
  <2>2. u = sdhci_send_command(s1, d)
    BY <1>1, <1>2, <1>7, <1>14, <2>1 DEF sdhci_finish_command
  <2>3. d \in Cmds /\ d[1] = m /\ d[2] = "cmd"
    BY <2>1, IsCmd
  <2>4. s.kind[m].data /\ s.data_cmd = None
    BY <1>1, <1>2, <1>14 DEF Good, CmdInv
  <2>5. \A n : ~Dirty(s, n)
    BY <1>4, <2>4, Alone
  <2>6. s.dat = None /\ s.data = NoMrq
    BY <2>4, <2>5, TransferIs DEF Good, LineInv
  <2>7. s1.line = None /\ s1.dat = None /\ s1.ints = {}
    BY <1>8, <2>6 DEF Controls
  <2>8. Snd(s1, u, d)
    BY <1>8, <2>2, <2>3, <2>4, <2>6, <2>7, SendIs
  <2>9. Active(s1, o, x, m) /\ m \notin s1.cmd_done
    BY <1>4, <1>8, <1>9, <1>14 DEF Active, Waiting
  <2>10. CountDone(s1, m)
    <3>1. Rsp(s, <<m, "sbc">>)
      BY <1>1, <1>3, <1>14
    <3> QED BY <1>8, <3>1, FrameReads DEF CountDone
  <2>11. Good(u, o, x)
    <3>1. /\ d \in Cmds /\ Good(s1, o, x) /\ Snd(s1, u, d)
          /\ Active(s1, o, x, d[1]) /\ d[1] \notin s1.cmd_done
          /\ s1.cmd = None /\ s1.line = None /\ s1.ints \cap CmdInts = {}
          /\ s1.data_cmd = None /\ s1.dat = None
          /\ s1.ints \cap DataInts = {}
          /\ d[2] = "cmd" /\ CountDone(s1, d[1])
      BY <1>8, <1>10, <2>3, <2>4, <2>7, <2>8, <2>9, <2>10
    <3> QED BY <3>1, SndKeeps
  <2>12. HasData(s1, d)
    BY <1>8, <2>3, <2>4 DEF HasData, Frame
  <2>13. Frame(u, s) /\ u.data_early = FALSE
    BY <1>8, <2>8, <2>12 DEF Snd, Frame
  <2>14. MaskOk(u, mask)
    BY <1>1, <1>14 DEF MaskOk
  <2> QED BY <2>11, <2>13, <2>14 DEF Served, EarlyInv
<1>15. CASE ~(Busy(s, c) /\ c = s.data_cmd) /\ c[2] # "sbc" /\ ~HasData(s, c)
  <2>1. u = sdhci_finish_mrq(s2, m)
    BY <1>1, <1>2, <1>7, <1>12, <1>15 DEF sdhci_finish_command
  <2>2. ~(s1.data # NoMrq /\ s1.data_early)
    <3>1. SUFFICES ASSUME s.data # NoMrq, s.data_early PROVE FALSE
      BY <1>8
    <3>2. c = s.data_cmd
      BY <1>1, <1>3, <3>1 DEF EarlyInv
    <3> QED BY <1>15, <3>1, <3>2, TransferIs
  <2>3. s2 = s1
    BY <1>12, <2>2
  <2>4. /\ ~Loose(s, m)
        /\ Failed(s, m) \/ AllDone(s, m)
        /\ c[2] = "cmd" => ~s.kind[m].cap
    BY <1>1, <1>2, <1>15, ResponseEnds
  <2>5. Forgets(s.cmd, m) = None
    BY <1>1, <1>2 DEF Forgets
  <2>6. Almost(s1, s, m)
    BY <1>8, <1>9, <2>4, <2>5 DEF Almost
  <2>7. Fin(s, u, m) /\ Good(u, o, x) /\ EarlyInv(u)
    BY <1>4, <2>1, <2>3, <2>4, <2>6, Finishes
  <2>8. Frame(s, s) /\ Controls(s, s) /\ Driven(s, s)
    BY <1>4 DEF Frame, Controls, Driven
  <2> QED BY <2>7, <2>8, ServedBy
<1>16. CASE ~(Busy(s, c) /\ c = s.data_cmd) /\ c[2] # "sbc" /\ HasData(s, c)
  <2>1. u = s2
    BY <1>1, <1>2, <1>7, <1>12, <1>16 DEF sdhci_finish_command
  <2>2. CASE s1.data # NoMrq /\ s1.data_early
    <3>1. u = sdhci_finish_data(s1)
      BY <1>12, <2>1, <2>2
    <3>2. /\ s1.ints = {} /\ s1.dat = None /\ s1.cmd # s1.data_cmd
          /\ End(s1, s1.data_cmd) /\ ~s1.dead
      <4>1. s.dat = None /\ End(s, s.data_cmd) /\ s.data_cmd # None
        BY <1>8, <2>2, TransferIs DEF EarlyInv, Good, StepInv
      <4> QED BY <1>8, <4>1, FrameReads DEF Controls, Frame
    <3>3. Good(u, o, x) /\ Frame(u, s1) /\ EarlyInv(u)
      BY <1>10, <2>2, <3>1, <3>2, FinishDataKeeps
    <3>4. mask = {}
      BY <1>8, <2>2
    <3> QED BY <1>8, <3>3, <3>4 DEF Served, MaskOk, Frame
  <2>3. CASE ~(s1.data # NoMrq /\ s1.data_early)
    <3>1. u = s1
      BY <1>12, <2>1, <2>3
    <3> QED BY <1>8, <1>10, <1>11, <2>3, <3>1 DEF Served, EarlyInv
  <2> QED BY <2>2, <2>3
<1> QED BY <1>13, <1>14, <1>15, <1>16

(* An error ends a command under way. *)
LEMMA ErrorEnds ==
  ASSUME NEW s, NEW o, NEW x, NEW c \in Cmds, NEW t, NEW v, NEW u,
         Good(s, o, x), Active(s, o, x, c[1]),
         ~s.dead \/ ~Loose(s, c[1]), t = [s EXCEPT !.err = @ \cup {c}],
         Almost(v, t, c[1]), u = sdhci_finish_mrq(v, c[1])
  PROVE  /\ Frame(t, s) /\ Controls(t, s) /\ Driven(t, s)
         /\ t.err = s.err \cup {c}
         /\ Fin(t, u, c[1]) /\ Good(u, o, x) /\ Frame(u, s)
         /\ EarlyInv(s) => EarlyInv(u)
         /\ DeadInv(s) => DeadInv(u)
<1>1. PICK m \in Mrqs, r \in {"sbc", "cmd", "stop"} : c = <<m, r>>
  BY CmdIs
<1>2. r \in {"sbc", "cmd", "stop", "data"} /\ r # "data" /\ c[1] = m
  BY <1>1
<1>3. t = [s EXCEPT !.err = @ \cup {<<m, r>>}]
  BY <1>1
<1>4. /\ Frame(t, s) /\ Controls(t, s) /\ Driven(t, s)
      /\ t.err = s.err \cup {c} /\ Failed(t, m)
      /\ ~s.dead => sdhci_needs_reset(t, m)
      /\ Good(t, o, x)
      /\ EarlyInv(s) => EarlyInv(t)
      /\ DeadInv(s) => DeadInv(t)
  BY <1>1, <1>2, <1>3, MarkKeeps
<1>5. Active(t, o, x, m)
  BY <1>2, <1>4 DEF Active, Waiting, Driven
<1>6. Loose(t, m) => sdhci_needs_reset(t, m)
  BY <1>2, <1>4 DEF Loose, Controls, Driven
<1>7. /\ Fin(t, u, m) /\ Good(u, o, x)
      /\ EarlyInv(t) => EarlyInv(u)
      /\ DeadInv(t) => DeadInv(u)
  BY <1>2, <1>4, <1>5, <1>6, Finishes
<1>8. Frame(u, s)
  BY <1>4, <1>7 DEF Fin, Frame
<1> QED BY <1>2, <1>4, <1>7, <1>8

(* A state is almost itself. *)
LEMMA AlmostSame ==
  ASSUME NEW s \in HostRec, NEW m
  PROVE  Almost(s, s, m)
BY DEF Almost, Frame, Controls

(* sdhci_finish_mrq() of the request of a command that failed. *)
LEMMA CmdFails ==
  ASSUME NEW s, NEW o, NEW x, NEW c \in Cmds, NEW u, Good(s, o, x),
         Active(s, o, x, c[1]), ~s.dead \/ ~Loose(s, c[1]),
         u = sdhci_finish_mrq([s EXCEPT !.err = @ \cup {c}], c[1])
  PROVE  /\ \E t : /\ Frame(t, s) /\ Controls(t, s) /\ Driven(t, s)
                   /\ t.err = s.err \cup {c} /\ Fin(t, u, c[1])
         /\ Good(u, o, x) /\ Frame(u, s)
         /\ EarlyInv(s) => EarlyInv(u)
         /\ DeadInv(s) => DeadInv(u)
<1>1. PICK t : t = [s EXCEPT !.err = @ \cup {c}]
  OBVIOUS
<1>2. t \in HostRec
  <2>1. PICK m \in Mrqs, r \in {"sbc", "cmd", "stop", "data"} : c = <<m, r>>
    BY CmdIs
  <2>2. t = [s EXCEPT !.err = @ \cup {<<m, r>>}]
    BY <1>1, <2>1
  <2> QED BY <2>2, MarkKeeps DEF Good
<1>3. Almost(t, t, c[1])
  BY <1>2, AlmostSame
<1>4. u = sdhci_finish_mrq(t, c[1])
  BY <1>1
<1> QED BY <1>1, <1>3, <1>4, ErrorEnds

(* sdhci_cmd_irq() *)
LEMMA CmdIrqKeeps ==
  ASSUME NEW s, NEW o, NEW x, NEW cmask, NEW mask, NEW u, Good(s, o, x),
         EarlyInv(s), ~s.dead, s.ints = {}, cmask \subseteq CmdInts,
         cmask # {} => s.line = None,
         "RESPONSE" \in cmask /\ s.cmd # None => Rsp(s, s.cmd),
         MaskOk(s, mask), s.cmd # None /\ s.cmd[2] = "sbc" => mask = {},
         s.data # NoMrq /\ s.data_early => mask = {},
         u = sdhci_cmd_irq(s, cmask)
  PROVE  Served(u, s, o, x, mask)
<1>1. PICK c : c = s.cmd
  OBVIOUS
<1>2. s \in HostRec /\ Frame(s, s)
  BY DEF Good, Frame
<1>3. Served(s, s, o, x, mask)
  BY <1>2 DEF Served
<1>4. CASE c = None
  BY <1>1, <1>3, <1>4 DEF sdhci_cmd_irq
<1>5. CASE c # None /\ cmask \cap BadResponse # {}
  <2>1. c \in Cmds /\ Active(s, o, x, c[1]) /\ s.line = None
    BY <1>1, <1>2, <1>5, Fields DEF Good, CmdInv
  <2>2. PICK t : t = [s EXCEPT !.err = @ \cup {c}]
    OBVIOUS
  <2>3. CASE HasData(s, c) /\ cmask \cap {"CRC", "TIMEOUT"} = {"CRC"}
    <3>1. u = [t EXCEPT !.cmd = None]
      BY <1>1, <1>5, <2>2, <2>3 DEF sdhci_cmd_irq
    <3>2. PICK m \in Mrqs : c = <<m, "cmd">>
      BY <2>1, <2>3, CmdIs DEF HasData
    <3>3. /\ Frame(t, s) /\ Controls(t, s) /\ Driven(t, s)
          /\ t.err = s.err \cup {c}
      <4>1. t = [s EXCEPT !.err = @ \cup {<<m, "cmd">>}]
        BY <2>2, <3>2
      <4> QED BY <3>2, <4>1, MarkKeeps
    <3>4. /\ Frame(u, t) /\ Controls(u, t) /\ u.cmd = None
          /\ u.data_cmd = t.data_cmd /\ u.data = t.data
          /\ u.data_early = t.data_early /\ u.pending_reset = t.pending_reset
          /\ u.mrqs_done = t.mrqs_done /\ u.cmd_done = t.cmd_done
          /\ u.err = t.err
      BY <3>1, <3>3, Values DEF HostRec, Frame, Controls
    <3>5. /\ Frame(u, s) /\ Controls(u, s) /\ u.cmd = None
          /\ u.data_cmd = s.data_cmd /\ u.data = s.data
          /\ u.data_early = s.data_early /\ u.pending_reset = s.pending_reset
          /\ u.mrqs_done = s.mrqs_done /\ u.cmd_done = s.cmd_done
          /\ u.err = s.err \cup {c} /\ c \in u.err
      BY <3>3, <3>4 DEF Frame, Controls, Driven
    <3>6. Good(u, o, x)
      BY <1>1, <1>5, <2>1, <3>5, CmdGone
    <3>7. MaskOk(u, mask)
      BY <3>5, FrameReads DEF MaskOk, Controls
    <3>8. EarlyInv(u)
      BY <3>5 DEF EarlyInv, Controls
    <3> QED BY <3>5, <3>6, <3>7, <3>8 DEF Served
  <2>4. CASE ~(HasData(s, c) /\ cmask \cap {"CRC", "TIMEOUT"} = {"CRC"})
    <3>1. u = sdhci_finish_mrq([s EXCEPT !.err = @ \cup {c}], c[1])
      <4>1. u = IF HasData(s, c) /\ cmask \cap {"CRC", "TIMEOUT"} = {"CRC"}
                THEN [[s EXCEPT !.err = @ \cup {c}] EXCEPT !.cmd = None]
                ELSE sdhci_finish_mrq([s EXCEPT !.err = @ \cup {c}], c[1])
        <5>1. cmask # {"RESPONSE"}
          BY <1>5 DEF BadResponse
        <5> QED BY <1>1, <1>5, <5>1 DEF sdhci_cmd_irq
      <4> QED BY <2>4, <4>1, Zenon
    <3>2. PICK v : /\ Frame(v, s) /\ Controls(v, s) /\ Driven(v, s)
                   /\ Fin(v, u, c[1]) /\ Good(u, o, x) /\ EarlyInv(u)
      BY <2>1, <3>1, CmdFails
    <3> QED BY <3>2, ServedBy
  <2> QED BY <2>3, <2>4
<1>6. CASE c # None /\ cmask = {"RESPONSE"}
  <2>1. u = sdhci_finish_command(s)
    BY <1>1, <1>6 DEF sdhci_cmd_irq, BadResponse
  <2>2. s.line = None /\ Rsp(s, s.cmd)
    BY <1>1, <1>6
  <2> QED BY <1>1, <1>6, <2>1, <2>2, FinishCommandKeeps
<1>7. CASE /\ c # None /\ cmask \cap BadResponse = {}
           /\ cmask # {"RESPONSE"}
  BY <1>1, <1>3, <1>7 DEF sdhci_cmd_irq
<1> QED BY <1>4, <1>5, <1>6, <1>7

(* The state of a busy command whose end came before its response. *)
LEMMA BusyEnds ==
  ASSUME NEW s, NEW o, NEW x, NEW u, Good(s, o, x), s.data = NoMrq,
         s.cmd = s.data_cmd, s.data_cmd # None, s.dat = None, s.ints = {},
         End(s, s.data_cmd), u = [s EXCEPT !.data_cmd = None]
  PROVE  Good(u, o, x) /\ Frame(u, s) /\ u.data = NoMrq
<1>1. /\ s \in HostRec /\ u \in HostRec /\ u.warn = {} /\ Frame(u, s)
      /\ Controls(u, s)
      /\ u.kind = s.kind /\ u.dead = s.dead /\ u.carried = s.carried
      /\ u.cmd = s.cmd /\ u.data_cmd = None /\ u.data = s.data
      /\ u.pending_reset = s.pending_reset /\ u.mrqs_done = s.mrqs_done
      /\ u.cmd_done = s.cmd_done /\ u.err = s.err /\ u.line = s.line
      /\ u.dat = None /\ u.ints = {} /\ Waiting(u) = Waiting(s)
  BY Values DEF Good, HostRec, Frame, Controls, Waiting
<1>2. \A m : /\ Failed(u, m) <=> Failed(s, m)
             /\ Dirty(u, m) <=> Dirty(s, m)
             /\ Active(u, o, x, m) <=> Active(s, o, x, m)
  BY <1>1 DEF Failed, Dirty, Active, sdhci_needs_reset
<1>3. ReqInv(u, o, x)
  BY <1>1 DEF Good, ReqInv, Pair
<1>4. CmdInv(u, o, x) /\ DataInv(u, o, x)
  BY <1>1, <1>2, FrameReads DEF Good, CmdInv, DataInv
<1>5. LineInv(u)
  BY <1>1, <1>2 DEF Good, LineInv
<1>6. ResultInv(u, o, x)
  BY <1>1, <1>2, FrameReads DEF Good, ResultInv
<1>7. StepInv(u)
  <2>1. End(u, u.cmd)
    BY <1>1, FrameReads
  <2>2. {u.cmd, u.data_cmd} \ {None} = {s.cmd, s.data_cmd} \ {None}
    BY <1>1
  <2>3. ASSUME NEW c \in {u.cmd, u.data_cmd} \ {None}
        PROVE  /\ c[2] = "cmd" => CountDone(u, c[1])
               /\ c[2] = "stop" =>
                    \/ <<c[1], "cmd">> \in u.err \/ <<c[1], "data">> \in u.err
                    \/ CountDone(u, c[1]) /\ PartDone(u, <<c[1], "cmd">>)
    <3>1. c \in {s.cmd, s.data_cmd} \ {None}
      BY <2>2
    <3>2. /\ c[2] = "cmd" => CountDone(s, c[1])
          /\ c[2] = "stop" =>
               \/ <<c[1], "cmd">> \in s.err \/ <<c[1], "data">> \in s.err
               \/ CountDone(s, c[1]) /\ PartDone(s, <<c[1], "cmd">>)
      BY <3>1 DEF Good, StepInv
    <3>3. /\ CountDone(u, c[1]) <=> CountDone(s, c[1])
          /\ PartDone(u, <<c[1], "cmd">>) <=> PartDone(s, <<c[1], "cmd">>)
          /\ u.err = s.err
      BY <1>1, FrameReads
    <3> QED BY <3>2, <3>3
  <2> QED BY <1>1, <2>1, <2>3 DEF StepInv
<1> QED BY <1>1, <1>3, <1>4, <1>5, <1>6, <1>7 DEF Good

(* The data is through before the response of its command. *)
LEMMA DataFirst ==
  ASSUME NEW s, NEW o, NEW x, NEW u, Good(s, o, x), s.data # NoMrq,
         s.cmd = s.data_cmd, s.dat = None, s.ints = {}, End(s, s.data_cmd),
         u = [s EXCEPT !.data_early = TRUE]
  PROVE  Good(u, o, x) /\ Frame(u, s) /\ EarlyInv(u)
<1>1. /\ s \in HostRec /\ u \in HostRec /\ u.warn = {} /\ Frame(u, s)
      /\ u.kind = s.kind /\ u.dead = s.dead /\ u.carried = s.carried
      /\ u.cmd = s.cmd /\ u.data_cmd = s.data_cmd /\ u.data = s.data
      /\ u.pending_reset = s.pending_reset /\ u.mrqs_done = s.mrqs_done
      /\ u.cmd_done = s.cmd_done /\ u.err = s.err /\ u.line = s.line
      /\ u.dat = None /\ u.ints = {} /\ Waiting(u) = Waiting(s)
  BY DEF Good, HostRec, Frame, Waiting
<1>2. \A m : /\ Failed(u, m) <=> Failed(s, m)
             /\ Dirty(u, m) <=> Dirty(s, m)
             /\ Active(u, o, x, m) <=> Active(s, o, x, m)
  BY <1>1 DEF Failed, Dirty, Active, sdhci_needs_reset
<1>3. ReqInv(u, o, x)
  BY <1>1 DEF Good, ReqInv, Pair
<1>4. CmdInv(u, o, x) /\ DataInv(u, o, x)
  BY <1>1, <1>2, FrameReads DEF Good, CmdInv, DataInv
<1>5. LineInv(u)
  BY <1>1, <1>2 DEF Good, LineInv
<1>6. ResultInv(u, o, x)
  BY <1>1, <1>2, FrameReads DEF Good, ResultInv
<1>7. StepInv(u)
  <2>1. End(u, u.data_cmd) /\ u.cmd = u.data_cmd
    BY <1>1, FrameReads
  <2>2. ASSUME NEW c \in {u.cmd, u.data_cmd} \ {None}
        PROVE  /\ c[2] = "cmd" => CountDone(u, c[1])
               /\ c[2] = "stop" =>
                    \/ <<c[1], "cmd">> \in u.err \/ <<c[1], "data">> \in u.err
                    \/ CountDone(u, c[1]) /\ PartDone(u, <<c[1], "cmd">>)
    <3>1. c \in {s.cmd, s.data_cmd} \ {None}
      BY <1>1
    <3>2. /\ c[2] = "cmd" => CountDone(s, c[1])
          /\ c[2] = "stop" =>
               \/ <<c[1], "cmd">> \in s.err \/ <<c[1], "data">> \in s.err
               \/ CountDone(s, c[1]) /\ PartDone(s, <<c[1], "cmd">>)
      BY <3>1 DEF Good, StepInv
    <3> QED BY <1>1, <3>2, FrameReads
  <2> QED BY <1>1, <2>1, <2>2 DEF StepInv
<1>8. s.data \notin s.cmd_done
  BY TransferIs DEF Good, CmdInv
<1>9. EarlyInv(u)
  BY <1>1, <1>8 DEF EarlyInv
<1> QED BY <1>1, <1>3, <1>4, <1>5, <1>6, <1>7, <1>9 DEF Good

(* The end of the busy state, after the response. *)
LEMMA BusyDone ==
  ASSUME NEW s, NEW o, NEW x, Good(s, o, x), s.data = NoMrq,
         s.data_cmd # None, s.cmd # s.data_cmd, s.dat = None, s.ints = {},
         Busy(s, s.data_cmd), End(s, s.data_cmd)
  PROVE  /\ ~Loose(s, s.data_cmd[1])
         /\ Failed(s, s.data_cmd[1]) \/ AllDone(s, s.data_cmd[1])
<1>1. PICK c \in Cmds : c = s.data_cmd
  BY Fields DEF Good
<1>2. PICK m \in Mrqs : m = c[1]
  BY CmdIs
<1>3. /\ c # None /\ c[2] \in {"cmd", "stop"} /\ c = <<m, c[2]>>
  BY <1>1, <1>2, CmdIs DEF Busy
<1>4. /\ m \in o /\ m \notin Waiting(s) /\ Legal(s.kind[m])
  BY <1>1, <1>2 DEF Good, DataInv, Active, ReqInv
<1>5. ~Loose(s, m)
  <2>1. s.cmd # None => s.cmd[1] # m
    BY <1>1, <1>2, OneCommand
  <2>2. s.line # None => s.line[1] # m
    BY <1>4, <2>1 DEF Good, LineInv, Dirty
  <2> QED BY <2>2 DEF Loose
<1>6. Rsp(s, c) \/ c \in s.err
  BY <1>1 DEF Good, StepInv
<1>7. c \in s.err => Failed(s, m)
  BY <1>3 DEF Failed
<1>8. Rsp(s, c) => PartDone(s, c)
  BY <1>1 DEF PartDone
<1>9. c \in {s.cmd, s.data_cmd} \ {None}
  BY <1>1, <1>3
<1>10. CASE c[2] = "cmd"
  <2>1. CountDone(s, m)
    BY <1>2, <1>9, <1>10 DEF Good, StepInv
  <2>2. ~StopSent(s, m)
    BY <1>1, <1>2, <1>4, <1>10 DEF Busy, Legal, StopSent
  <2>3. PartDone(s, c) => AllDone(s, m)
    BY <1>3, <1>10, <2>1, <2>2 DEF AllDone
  <2> QED BY <1>1, <1>2, <1>5, <1>6, <1>7, <1>8, <2>3
<1>11. CASE c[2] = "stop"
  <2>1. \/ <<m, "cmd">> \in s.err \/ <<m, "data">> \in s.err
        \/ CountDone(s, m) /\ PartDone(s, <<m, "cmd">>)
    BY <1>2, <1>9, <1>11 DEF Good, StepInv
  <2>2. PartDone(s, c) => PartDone(s, <<m, "stop">>)
    BY <1>3, <1>11
  <2>3. PartDone(s, c) => Failed(s, m) \/ AllDone(s, m)
    BY <2>1, <2>2 DEF AllDone, Failed
  <2> QED BY <1>1, <1>2, <1>5, <1>6, <1>7, <1>8, <2>3
<1> QED BY <1>3, <1>10, <1>11

(* sdhci_data_irq() *)
LEMMA DataIrqKeeps ==
  ASSUME NEW s, NEW o, NEW x, NEW mask, NEW u, Good(s, o, x), EarlyInv(s),
         ~s.dead, mask \subseteq DataInts, MaskOk(s, mask),
         u = sdhci_data_irq(s, mask)
  PROVE  Good(u, o, x) /\ EarlyInv(u) /\ Frame(u, s)
<1>1. PICK c : c = s.data_cmd
  OBVIOUS
<1>2. s \in HostRec /\ Frame(s, s)
  BY DEF Good, Frame
<1>3. PICK s1 : s1 = [s EXCEPT !.data_cmd = None]
  OBVIOUS
<1>4. CASE s.data = NoMrq /\ (c = None \/ ~Busy(s, c))
  BY <1>1, <1>2, <1>4 DEF sdhci_data_irq
<1>5. CASE s.data = NoMrq /\ c # None /\ Busy(s, c) /\ "DATA_ERR" \in mask
  <2>1. PICK t : t = [s EXCEPT !.err = @ \cup {c}]
    OBVIOUS
  <2>2. PICK v : v = [s1 EXCEPT !.err = @ \cup {c}]
    OBVIOUS
  <2>3. u = sdhci_finish_mrq(v, c[1])
    BY <1>1, <1>3, <1>5, <2>2 DEF sdhci_data_irq
  <2>4. c \in Cmds /\ Active(s, o, x, c[1])
    BY <1>1, <1>2, <1>5, Fields DEF Good, DataInv
  <2>5. /\ Frame(t, s) /\ Driven(t, s) /\ t.err = s.err \cup {c}
    <3>1. PICK m \in Mrqs, r \in {"sbc", "cmd", "stop", "data"} : c = <<m, r>>
      BY <2>4, CmdIs
    <3>2. t = [s EXCEPT !.err = @ \cup {<<m, r>>}]
      BY <2>1, <3>1
    <3> QED BY <3>1, <3>2, MarkKeeps
  <2>6. v = [t EXCEPT !.data_cmd = None]
    BY <1>2, <1>3, <2>1, <2>2 DEF HostRec
  <2>7. Almost(v, t, c[1])
    <3>1. /\ Frame(v, t) /\ Controls(v, t) /\ v.err = t.err
          /\ v.mrqs_done = t.mrqs_done /\ v.cmd_done = t.cmd_done
          /\ v.pending_reset = t.pending_reset
          /\ v.data_early = t.data_early /\ v.cmd = t.cmd
          /\ v.data_cmd = None /\ v.data = t.data
      BY <2>5, <2>6, Values DEF HostRec, Frame, Controls
    <3>2. Forgets(t.data_cmd, c[1]) = None
      BY <1>1, <1>5, <2>5 DEF Forgets, Driven
    <3> QED BY <3>1, <3>2 DEF Almost
  <2> QED BY <2>1, <2>3, <2>4, <2>7, ErrorEnds
<1>6. CASE s.data = NoMrq /\ c # None /\ Busy(s, c) /\ mask = {"DATA_END"}
  <2>1. s.ints = {} /\ s.dat = None /\ End(s, c)
    BY <1>1, <1>6 DEF MaskOk
  <2>2. CASE s.cmd = c
    <3>1. u = s1
      BY <1>1, <1>3, <1>6, <2>2 DEF sdhci_data_irq
    <3>2. Good(u, o, x) /\ Frame(u, s) /\ u.data = NoMrq
      BY <1>1, <1>3, <1>6, <2>1, <2>2, <3>1, BusyEnds
    <3> QED BY <3>2 DEF EarlyInv
  <2>3. CASE s.cmd # c
    <3>1. u = sdhci_finish_mrq(s1, c[1])
      BY <1>1, <1>3, <1>6, <2>3 DEF sdhci_data_irq
    <3>2. /\ ~Loose(s, c[1])
          /\ Failed(s, c[1]) \/ AllDone(s, c[1])
      BY <1>1, <1>6, <2>1, <2>3, BusyDone
    <3>3. Active(s, o, x, c[1])
      BY <1>1, <1>6 DEF Good, DataInv
    <3>4. Almost(s1, s, c[1])
      <4>1. /\ Frame(s1, s) /\ Controls(s1, s) /\ s1.err = s.err
            /\ s1.mrqs_done = s.mrqs_done /\ s1.cmd_done = s.cmd_done
            /\ s1.pending_reset = s.pending_reset
            /\ s1.data_early = s.data_early /\ s1.cmd = s.cmd
            /\ s1.data_cmd = None /\ s1.data = s.data
        BY <1>2, <1>3, Values DEF HostRec, Frame, Controls
      <4>2. Forgets(s.data_cmd, c[1]) = None
        BY <1>1, <1>6 DEF Forgets
      <4> QED BY <4>1, <4>2 DEF Almost
    <3>5. Fin(s, u, c[1]) /\ Good(u, o, x) /\ EarlyInv(u)
      BY <3>1, <3>2, <3>3, <3>4, Finishes
    <3> QED BY <3>5 DEF Fin
  <2> QED BY <2>2, <2>3
<1>7. CASE s.data # NoMrq /\ "DATA_ERR" \in mask
  <2>1. PICK m \in Mrqs : m = s.data
    BY <1>7, TransferIs
  <2>2. PICK t : t = [s EXCEPT !.err = @ \cup {<<m, "data">>}]
    OBVIOUS
  <2>3. u = sdhci_finish_data(t)
    BY <1>7, <2>1, <2>2 DEF sdhci_data_irq
  <2>4. /\ Frame(t, s) /\ Driven(t, s) /\ Good(t, o, x)
        /\ t.err = s.err \cup {<<m, "data">>}
    BY <2>2, MarkKeeps
  <2>5. t.data = m /\ t.data # NoMrq /\ ~t.dead /\ <<m, "data">> \in t.err
    BY <1>7, <2>1, <2>4 DEF Frame, Driven
  <2>6. Good(u, o, x) /\ Frame(u, t) /\ EarlyInv(u)
    BY <2>3, <2>4, <2>5, FinishDataKeeps
  <2> QED BY <2>4, <2>6 DEF Frame
<1>8. CASE s.data # NoMrq /\ mask = {"DATA_END"}
  <2>1. s.ints = {} /\ s.dat = None /\ End(s, s.data_cmd)
    BY <1>8, TransferIs DEF MaskOk
  <2>2. CASE s.cmd = c
    <3>1. u = [s EXCEPT !.data_early = TRUE]
      BY <1>1, <1>8, <2>2 DEF sdhci_data_irq
    <3> QED BY <1>1, <1>8, <2>1, <2>2, <3>1, DataFirst
  <2>3. CASE s.cmd # c
    <3>1. u = sdhci_finish_data(s)
      BY <1>1, <1>8, <2>3 DEF sdhci_data_irq
    <3> QED BY <1>1, <1>8, <2>1, <2>3, <3>1, FinishDataKeeps
  <2> QED BY <2>2, <2>3
<1>9. CASE /\ ~(s.data = NoMrq /\ (c = None \/ ~Busy(s, c)))
           /\ "DATA_ERR" \notin mask /\ mask # {"DATA_END"}
  BY <1>1, <1>2, <1>9 DEF sdhci_data_irq
<1> QED BY <1>4, <1>5, <1>6, <1>7, <1>8, <1>9

(* One round of the interrupt handler. *)
LEMMA IrqKeeps ==
  ASSUME IInv, sdhci_irq
  PROVE  IInv' /\ Known(h', h)
<1>1. /\ Good(h, out, completing) /\ EarlyInv(h) /\ DeadInv(h) /\ h.ints # {}
      /\ h \in HostRec
  BY DEF IInv, sdhci_irq, Good
<1>2. ~h.dead
  BY <1>1 DEF DeadInv
<1>3. PICK s1 : s1 = [h EXCEPT !.ints = {}]
  OBVIOUS
<1>4. PICK cmask : cmask = h.ints \cap CmdInts
  OBVIOUS
<1>5. PICK mask : mask = h.ints \cap DataInts
  OBVIOUS
<1>6. PICK s2 : s2 = sdhci_cmd_irq(s1, cmask)
  OBVIOUS
<1>7. h' = sdhci_data_irq(s2, mask)
  BY <1>3, <1>4, <1>5, <1>6 DEF sdhci_irq
<1>8. /\ Frame(s1, h) /\ Driven(s1, h) /\ s1.err = h.err
      /\ s1.line = h.line /\ s1.dat = h.dat /\ s1.ints = {}
  BY <1>1, <1>3, Values DEF HostRec, Frame, Driven
<1>9. Good(s1, out, completing) /\ EarlyInv(s1)
  <2>1. s1.ints \subseteq h.ints
    BY <1>8
  <2> QED BY <1>1, <1>8, <2>1, LessKeeps
<1>10. /\ cmask # {} => s1.line = None
       /\ "RESPONSE" \in cmask /\ s1.cmd # None => Rsp(s1, s1.cmd)
       /\ cmask \subseteq CmdInts /\ mask \subseteq DataInts
  BY <1>1, <1>4, <1>5, <1>8, FrameReads
     DEF Good, LineInv, StepInv, Driven
<1>11. MaskOk(s1, mask)
  <2>1. mask # {} => s1.dat = None
    BY <1>1, <1>5, <1>8 DEF Good, LineInv
  <2>2. "DATA_END" \in mask /\ s1.data_cmd # None => End(s1, s1.data_cmd)
    BY <1>1, <1>5, <1>8, FrameReads DEF Good, StepInv, Driven
  <2> QED BY <1>8, <2>1, <2>2 DEF MaskOk
<1>12. s1.data # NoMrq /\ s1.data_early => mask = {}
  BY <1>1, <1>5, <1>8 DEF EarlyInv, Driven
<1>13. s1.cmd # None /\ s1.cmd[2] = "sbc" => mask = {}
  <2>1. SUFFICES ASSUME h.cmd # None, h.cmd[2] = "sbc" PROVE mask = {}
    BY <1>8 DEF Driven
  <2>2. PICK m : m = h.cmd[1]
    OBVIOUS
  <2>3. /\ Active(h, out, completing, m) /\ m \notin h.cmd_done
        /\ h.kind[m].data /\ h.data_cmd = None
    BY <1>1, <2>1, <2>2 DEF Good, CmdInv
  <2>4. \A n : ~Dirty(h, n)
    BY <1>1, <2>3, Alone
  <2> QED BY <1>1, <1>5, <2>3, <2>4 DEF Good, LineInv
<1>14. ~s1.dead
  BY <1>2, <1>8 DEF Frame
<1>15. Served(s2, s1, out, completing, mask)
  BY <1>6, <1>8, <1>9, <1>10, <1>11, <1>12, <1>13, <1>14, CmdIrqKeeps
<1>16. /\ Good(s2, out, completing) /\ EarlyInv(s2) /\ MaskOk(s2, mask)
       /\ Frame(s2, s1) /\ ~s2.dead
  BY <1>14, <1>15 DEF Served, Frame
<1>17. PICK u : u = sdhci_data_irq(s2, mask)
  OBVIOUS
<1>18. Good(u, out, completing) /\ EarlyInv(u) /\ Frame(u, s2)
  BY <1>10, <1>16, <1>17, DataIrqKeeps
<1>19. h' = u /\ ~u.dead
  BY <1>7, <1>16, <1>17, <1>18 DEF Frame
<1>20. Known(u, h)
  BY <1>8, <1>16, <1>18 DEF Frame, Known
<1> QED
  BY <1>18, <1>19, <1>20 DEF sdhci_irq, IInv, RestType, DeadInv

-----------------------------------------------------------------------------
(* Errors that end everything, and timers.                                 *)

(* Both lines have been reset. *)
Quiet(s, o, x) ==
  Good(s, o, x) /\ s.line = None /\ s.dat = None /\ s.ints = {}

(* One request is given up. *)
GivenUp(u, s, c) ==
  /\ u.cmd = Forgets(s.cmd, c[1]) /\ u.data_cmd = Forgets(s.data_cmd, c[1])
  /\ Known(u, s)
  /\ EarlyInv(s) => EarlyInv(u)

(* sdhci_finish_mrq() of a request whose lines have been reset. *)
LEMMA GiveUpKeeps ==
  ASSUME NEW s, NEW o, NEW x, NEW c \in Cmds, NEW u, Quiet(s, o, x),
         Active(s, o, x, c[1]),
         u = sdhci_finish_mrq([s EXCEPT !.err = @ \cup {c}], c[1])
  PROVE  Quiet(u, o, x) /\ GivenUp(u, s, c)
<1>1. Good(s, o, x) /\ ~Loose(s, c[1])
  BY DEF Quiet, Loose
<1>2. PICK t : /\ Controls(t, s) /\ Driven(t, s) /\ Fin(t, u, c[1])
               /\ Good(u, o, x) /\ Frame(u, s)
               /\ EarlyInv(s) => EarlyInv(u)
  BY <1>1, CmdFails
<1> QED BY <1>2 DEF Fin, Controls, Driven, Frame, Known, Quiet, GivenUp

(* sdhci_error_out_mrqs(), once the lines have been reset. *)
LEMMA ErrorOutKeeps ==
  ASSUME NEW s, NEW o, NEW x, NEW u, Good(s, o, x), s.line = None,
         s.dat = None, s.ints = {}, u = sdhci_error_out_mrqs(s)
  PROVE  /\ Good(u, o, x) /\ DeadInv(u) /\ Known(u, s)
         /\ EarlyInv(s) => EarlyInv(u)
<1>1. PICK s1 :
        s1 = IF s.data_cmd = None THEN s
             ELSE sdhci_finish_mrq([s EXCEPT !.err = @ \cup {s.data_cmd}],
                                   s.data_cmd[1])
  OBVIOUS
<1>2. u = IF s1.cmd = None THEN s1
          ELSE sdhci_finish_mrq([s1 EXCEPT !.err = @ \cup {s1.cmd}], s1.cmd[1])
  BY <1>1 DEF sdhci_error_out_mrqs
<1>3. Quiet(s, o, x)
  BY DEF Quiet
<1>4. /\ Quiet(s1, o, x) /\ s1.data_cmd = None /\ Known(s1, s)
      /\ EarlyInv(s) => EarlyInv(s1)
  <2>1. CASE s.data_cmd = None
    BY <1>1, <1>3, <2>1 DEF Known
  <2>2. CASE s.data_cmd # None
    <3>1. PICK c \in Cmds : c = s.data_cmd
      BY <2>2, Fields DEF Good
    <3>2. s1 = sdhci_finish_mrq([s EXCEPT !.err = @ \cup {c}], c[1])
      BY <1>1, <2>2, <3>1
    <3>3. Active(s, o, x, c[1])
      BY <2>2, <3>1 DEF Good, DataInv
    <3>4. Quiet(s1, o, x) /\ GivenUp(s1, s, c)
      BY <1>3, <3>2, <3>3, GiveUpKeeps
    <3> QED BY <2>2, <3>1, <3>4 DEF GivenUp, Forgets
  <2> QED BY <2>1, <2>2
<1>5. /\ Quiet(u, o, x) /\ u.cmd = None /\ u.data_cmd = None /\ Known(u, s1)
      /\ EarlyInv(s1) => EarlyInv(u)
  <2>1. CASE s1.cmd = None
    BY <1>2, <1>4, <2>1 DEF Known
  <2>2. CASE s1.cmd # None
    <3>1. PICK c \in Cmds : c = s1.cmd
      BY <1>4, <2>2, Fields DEF Quiet, Good
    <3>2. u = sdhci_finish_mrq([s1 EXCEPT !.err = @ \cup {c}], c[1])
      BY <1>2, <2>2, <3>1
    <3>3. Active(s1, o, x, c[1])
      BY <1>4, <2>2, <3>1 DEF Quiet, Good, CmdInv
    <3>4. Quiet(u, o, x) /\ GivenUp(u, s1, c)
      BY <1>4, <3>2, <3>3, GiveUpKeeps
    <3> QED BY <1>4, <2>2, <3>1, <3>4 DEF GivenUp, Forgets
  <2> QED BY <2>1, <2>2
<1>6. Known(u, s)
  BY <1>4, <1>5 DEF Known
<1> QED BY <1>4, <1>5, <1>6 DEF DeadInv, Quiet

(* A controller that is gone: nothing is left of it. *)
LEMMA LossKeeps ==
  ASSUME NEW s, NEW o, NEW x, NEW u, Good(s, o, x), s.line = None,
         s.dat = None, s.ints = {}, u = [s EXCEPT !.dead = TRUE]
  PROVE  /\ Good(u, o, x) /\ u.line = None /\ u.dat = None /\ u.ints = {}
         /\ Known(u, s)
         /\ EarlyInv(s) => EarlyInv(u)
<1>1. /\ u \in HostRec /\ u.warn = {} /\ s \in HostRec /\ u.setup = s.setup
      /\ u.kind = s.kind /\ u.carried = s.carried
      /\ u.cmd = s.cmd /\ u.data_cmd = s.data_cmd
      /\ u.data = s.data /\ u.data_early = s.data_early
      /\ u.pending_reset = s.pending_reset /\ u.mrqs_done = s.mrqs_done
      /\ u.cmd_done = s.cmd_done /\ u.err = s.err /\ u.line = None
      /\ u.dat = None /\ u.ints = {} /\ Waiting(u) = Waiting(s)
  BY DEF Good, HostRec, Waiting
<1>2. /\ \A c : /\ HasData(u, c) <=> HasData(s, c)
                /\ Busy(u, c) <=> Busy(s, c)
                /\ sdhci_data_line_cmd(u, c) <=> sdhci_data_line_cmd(s, c)
                /\ Rsp(u, c) <=> Rsp(s, c)
                /\ End(u, c) <=> End(s, c)
                /\ PartDone(u, c) <=> PartDone(s, c)
  <2>1. \A c : /\ HasData(u, c) <=> HasData(s, c)
               /\ Busy(u, c) <=> Busy(s, c)
               /\ Rsp(u, c) <=> Rsp(s, c)
               /\ End(u, c) <=> End(s, c)
    BY <1>1 DEF HasData, Busy, Rsp, End
  <2>2. \A c : sdhci_data_line_cmd(u, c) <=> sdhci_data_line_cmd(s, c)
    BY <2>1 DEF sdhci_data_line_cmd
  <2> QED BY <2>1, <2>2 DEF PartDone
<1>3. \A m : CountDone(u, m) <=> CountDone(s, m)
  BY <1>1, <1>2 DEF CountDone, CountSent
<1>4. \A m : AllDone(u, m) <=> AllDone(s, m)
  BY <1>1, <1>2, <1>3 DEF AllDone, StopSent
<1>5. \A m : /\ Failed(u, m) <=> Failed(s, m)
             /\ Active(u, o, x, m) <=> Active(s, o, x, m)
  BY <1>1 DEF Failed, Active
<1>6. ReqInv(u, o, x)
  BY <1>1 DEF Good, ReqInv, Pair
<1>7. CmdInv(u, o, x) /\ DataInv(u, o, x)
  BY <1>1, <1>2, <1>5 DEF Good, CmdInv, DataInv
<1>8. LineInv(u)
  BY <1>1 DEF LineInv
<1>9. ResultInv(u, o, x)
  BY <1>1, <1>4, <1>5 DEF Good, ResultInv
<1>10. StepInv(u)
  BY <1>1, <1>2, <1>3 DEF Good, StepInv
<1> QED
  BY <1>1, <1>6, <1>7, <1>8, <1>9, <1>10 DEF Good, EarlyInv, Known

(* The card is gone: both lines are reset. *)
LEMMA CardEventKeeps ==
  ASSUME IInv, sdhci_card_event
  PROVE  IInv' /\ Known(h', h)
<1>1. /\ Good(h, out, completing) /\ EarlyInv(h) /\ DeadInv(h) /\ h \in HostRec
  BY DEF IInv, Good
<1>2. CASE h.cmd # None \/ h.data_cmd # None
  <2>1. PICK r : r = ResetData(ResetCmd(h))
    OBVIOUS
  <2>2. /\ Frame(r, h) /\ Driven(r, h) /\ r.err = h.err
        /\ r.line = None /\ r.dat = None /\ r.ints = {}
    BY <1>1, <2>1, ResetIs
  <2>3. Good(r, out, completing) /\ EarlyInv(r)
    <3>1. r.ints \subseteq h.ints
      BY <2>2
    <3> QED BY <1>1, <2>2, <3>1, LessKeeps
  <2>4. PICK u : u = sdhci_error_out_mrqs(r)
    OBVIOUS
  <2>5. /\ Good(u, out, completing) /\ EarlyInv(u) /\ DeadInv(u)
        /\ Known(u, r)
    BY <2>2, <2>3, <2>4, ErrorOutKeeps
  <2>6. h' = u
    BY <1>2, <2>1, <2>4 DEF sdhci_card_event
  <2>7. Known(u, h)
    BY <2>2, <2>5 DEF Frame, Known
  <2> QED BY <2>5, <2>6, <2>7 DEF sdhci_card_event, IInv, RestType
<1>3. CASE ~(h.cmd # None \/ h.data_cmd # None)
  <2>1. h' = h
    BY <1>3 DEF sdhci_card_event
  <2> QED BY <1>1, <2>1 DEF sdhci_card_event, IInv, RestType, Known
<1> QED BY <1>2, <1>3

(* The controller is gone. *)
LEMMA RemoveHostKeeps ==
  ASSUME IInv, sdhci_remove_host
  PROVE  IInv' /\ Known(h', h)
<1>1. /\ Good(h, out, completing) /\ EarlyInv(h) /\ h \in HostRec
  BY DEF IInv, Good
<1>2. PICK r : r = ResetData(ResetCmd(h))
  OBVIOUS
<1>3. /\ Frame(r, h) /\ Driven(r, h) /\ r.err = h.err
      /\ r.line = None /\ r.dat = None /\ r.ints = {}
  BY <1>1, <1>2, ResetIs
<1>4. Good(r, out, completing) /\ EarlyInv(r)
  <2>1. r.ints \subseteq h.ints
    BY <1>3
  <2> QED BY <1>1, <1>3, <2>1, LessKeeps
<1>5. PICK v : v = [r EXCEPT !.dead = TRUE]
  OBVIOUS
<1>6. /\ Good(v, out, completing) /\ v.line = None /\ v.dat = None
      /\ v.ints = {} /\ EarlyInv(v) /\ Known(v, r)
  BY <1>3, <1>4, <1>5, LossKeeps
<1>7. PICK u : u = sdhci_error_out_mrqs(v)
  OBVIOUS
<1>8. /\ Good(u, out, completing) /\ EarlyInv(u) /\ DeadInv(u)
      /\ Known(u, v)
  BY <1>6, <1>7, ErrorOutKeeps
<1>9. h' = u
  BY <1>2, <1>5, <1>7 DEF sdhci_remove_host
<1>10. Known(u, h)
  BY <1>3, <1>6, <1>8 DEF Frame, Known
<1> QED BY <1>8, <1>9, <1>10 DEF sdhci_remove_host, IInv, RestType

(* sdhci_timeout_timer() *)
LEMMA TimerKeeps ==
  ASSUME IInv, sdhci_timeout_timer
  PROVE  IInv' /\ Known(h', h)
<1>1. Good(h, out, completing) /\ EarlyInv(h) /\ DeadInv(h) /\ h \in HostRec
  BY DEF IInv, Good
<1>2. /\ Good(h', out, completing) /\ EarlyInv(h') /\ DeadInv(h')
      /\ Known(h', h)
  <2>1. CASE h.cmd # None /\ ~sdhci_data_line_cmd(h, h.cmd)
    <3>1. PICK c \in Cmds : c = h.cmd
      BY <1>1, <2>1, Fields
    <3>2. Active(h, out, completing, c[1]) /\ ~h.dead
      BY <1>1, <2>1, <3>1 DEF Good, CmdInv, DeadInv
    <3>3. PICK u : u = sdhci_finish_mrq([h EXCEPT !.err = @ \cup {c}], c[1])
      OBVIOUS
    <3>4. /\ Good(u, out, completing) /\ EarlyInv(u) /\ DeadInv(u)
          /\ Frame(u, h)
      BY <1>1, <3>2, <3>3, CmdFails
    <3>5. h' = u
      BY <2>1, <3>1, <3>3 DEF sdhci_timeout_timer
    <3> QED BY <3>4, <3>5 DEF Frame, Known
  <2>2. CASE ~(h.cmd # None /\ ~sdhci_data_line_cmd(h, h.cmd))
    <3>1. h' = h
      BY <2>2 DEF sdhci_timeout_timer
    <3> QED BY <1>1, <3>1 DEF Known
  <2> QED BY <2>1, <2>2
<1> QED BY <1>2 DEF IInv, RestType, sdhci_timeout_timer, TimerSets

(* sdhci_timeout_data_timer() *)
LEMMA DataTimerKeeps ==
  ASSUME IInv, sdhci_timeout_data_timer
  PROVE  IInv' /\ Known(h', h)
<1>1. Good(h, out, completing) /\ EarlyInv(h) /\ DeadInv(h) /\ h \in HostRec
  BY DEF IInv, Good
<1>2. ASSUME NEW c \in Cmds, c = h.cmd \/ c = h.data_cmd, NEW u,
             u = sdhci_finish_mrq([h EXCEPT !.err = @ \cup {c}], c[1])
      PROVE  /\ Good(u, out, completing) /\ EarlyInv(u) /\ DeadInv(u)
             /\ Known(u, h)
  <2>1. c # None
    BY CmdIs
  <2>2. Active(h, out, completing, c[1]) /\ ~h.dead
    BY <1>1, <1>2, <2>1 DEF Good, CmdInv, DataInv, DeadInv
  <2>3. /\ Good(u, out, completing) /\ EarlyInv(u) /\ DeadInv(u)
        /\ Frame(u, h)
    BY <1>1, <1>2, <2>2, CmdFails
  <2> QED BY <2>3 DEF Frame, Known
<1>3. /\ Good(h', out, completing) /\ EarlyInv(h') /\ DeadInv(h')
      /\ Known(h', h)
  <2>1. CASE h.data # NoMrq
    <3>1. PICK m \in Mrqs : m = h.data
      BY <1>1, <2>1, TransferIs
    <3>2. PICK t : t = [h EXCEPT !.err = @ \cup {<<m, "data">>}]
      OBVIOUS
    <3>3. PICK u : u = sdhci_finish_data(t)
      OBVIOUS
    <3>4. /\ Frame(t, h) /\ Driven(t, h) /\ Good(t, out, completing)
          /\ t.err = h.err \cup {<<m, "data">>}
      BY <1>1, <3>2, MarkKeeps
    <3>5. ~h.dead
      BY <1>1, <2>1, TransferIs DEF DeadInv
    <3>6. t.data = m /\ t.data # NoMrq /\ ~t.dead /\ <<m, "data">> \in t.err
      BY <2>1, <3>1, <3>4, <3>5 DEF Frame, Driven
    <3>7. /\ Good(u, out, completing) /\ EarlyInv(u) /\ DeadInv(u)
          /\ Frame(u, t)
      BY <3>3, <3>4, <3>6, FinishDataKeeps
    <3>8. h' = u
      BY <2>1, <3>1, <3>2, <3>3 DEF sdhci_timeout_data_timer
    <3> QED BY <3>4, <3>7, <3>8 DEF Frame, Known
  <2>2. CASE h.data = NoMrq /\ h.data_cmd # None
    <3>1. PICK c \in Cmds : c = h.data_cmd
      BY <1>1, <2>2, Fields
    <3>2. PICK u : u = sdhci_finish_mrq([h EXCEPT !.err = @ \cup {c}], c[1])
      OBVIOUS
    <3>3. h' = u
      BY <2>2, <3>1, <3>2 DEF sdhci_timeout_data_timer
    <3> QED BY <1>2, <3>1, <3>2, <3>3
  <2>3. CASE /\ h.data = NoMrq /\ h.data_cmd = None /\ h.cmd # None
             /\ sdhci_data_line_cmd(h, h.cmd)
    <3>1. PICK c \in Cmds : c = h.cmd
      BY <1>1, <2>3, Fields
    <3>2. PICK u : u = sdhci_finish_mrq([h EXCEPT !.err = @ \cup {c}], c[1])
      OBVIOUS
    <3>3. h' = u
      BY <2>3, <3>1, <3>2 DEF sdhci_timeout_data_timer
    <3> QED BY <1>2, <3>1, <3>2, <3>3
  <2>4. CASE /\ h.data = NoMrq /\ h.data_cmd = None
             /\ ~(h.cmd # None /\ sdhci_data_line_cmd(h, h.cmd))
    <3>1. h' = h
      BY <2>4 DEF sdhci_timeout_data_timer
    <3> QED BY <1>1, <3>1 DEF Known
  <2> QED BY <2>1, <2>2, <2>3, <2>4
<1> QED BY <1>3 DEF IInv, RestType, sdhci_timeout_data_timer, TimerSets

(* Steps that only touch fields outside the invariants. *)
LEMMA SmallSteps ==
  ASSUME IInv,
         \/ sdhci_thread_irq \/ TaskletRuns \/ Hang \/ CardRemoved
         \/ \E t \in {"timer", "data_timer"} : TimerExpires(t)
  PROVE  IInv' /\ Same(h', h) /\ UNCHANGED <<out, completing, good>>
<1>1. Good(h, out, completing) /\ EarlyInv(h) /\ DeadInv(h) /\ h \in HostRec
  BY DEF IInv, Good
<1>2. PICK u : u = h'
  OBVIOUS
<1>3. Same(u, h)
  <2>1. CASE sdhci_thread_irq
    <3>1. u = [h EXCEPT !.thread_isr = FALSE]
      BY <1>2, <2>1 DEF sdhci_thread_irq
    <3> QED BY <1>1, <3>1 DEF HostRec, Same, Frame, Controls, Driven
  <2>2. CASE TaskletRuns
    <3>1. u = [h EXCEPT !.tasklet = FALSE]
      BY <1>2, <2>2 DEF TaskletRuns
    <3> QED BY <1>1, <3>1 DEF HostRec, Same, Frame, Controls, Driven
  <2>3. CASE Hang
    <3>1. PICK g \in Hangs : u = [h EXCEPT !.hung = g]
      <4>1. h.hung \cup {"line"} \in Hangs /\ h.hung \cup {"dat"} \in Hangs
        BY <1>1 DEF HostRec, Hangs
      <4> QED BY <1>2, <2>3, <4>1 DEF Hang
    <3> QED BY <1>1, <3>1 DEF HostRec, Same, Frame, Controls, Driven
  <2>4. CASE CardRemoved
    <3>1. u = [h EXCEPT !.thread_isr = TRUE]
      BY <1>2, <2>4 DEF CardRemoved
    <3> QED BY <1>1, <3>1 DEF HostRec, Same, Frame, Controls, Driven
  <2>5. ASSUME NEW t \in {"timer", "data_timer"}, TimerExpires(t)
        PROVE  Same(u, h)
    <3>1. PICK g \in TimerSets : u = [h EXCEPT !.timers = g]
      <4>1. h.timers \ {t} \in TimerSets
        BY <1>1 DEF HostRec, TimerSets
      <4> QED BY <1>2, <2>5, <4>1 DEF TimerExpires
    <3> QED BY <1>1, <3>1 DEF HostRec, Same, Frame, Controls, Driven
  <2> QED BY <2>1, <2>2, <2>3, <2>4, <2>5
<1>4. Good(u, out, completing) /\ EarlyInv(u) /\ DeadInv(u)
  BY <1>1, <1>3, SameKeeps
<1>5. UNCHANGED <<out, completing, good, meanwhile>>
  BY DEF sdhci_thread_irq, TaskletRuns, Hang, CardRemoved, TimerExpires
<1>6. task' \in BOOLEAN /\ card' \in BOOLEAN /\ gone' \in BOOLEAN
  BY DEF IInv, RestType, sdhci_thread_irq, TaskletRuns, Hang, CardRemoved,
         TimerExpires
<1>7. firing' \in TimerSets
  BY DEF IInv, RestType, sdhci_thread_irq, TaskletRuns, Hang, CardRemoved,
         TimerExpires, TimerSets
<1>8. RestType'
  BY <1>5, <1>6, <1>7 DEF IInv, RestType
<1> QED BY <1>2, <1>3, <1>4, <1>5, <1>8 DEF IInv

-----------------------------------------------------------------------------
(* The controller and the card.                                            *)

(* The same is known of every request but x. *)
Elsewhere(u, s, x) ==
  /\ u.setup = s.setup
  /\ \A n \in Mrqs : n # x => u.kind[n] = s.kind[n]
  /\ \A n \in Mrqs : \A r, e : n # x =>
       (<<n, r, e>> \in u.carried <=> <<n, r, e>> \in s.carried)

(* The card has done no less than before, and more only of x. *)
Progress(u, s, x) ==
  /\ u.kind = s.kind /\ u.setup = s.setup /\ s.carried \subseteq u.carried
  /\ Elsewhere(u, s, x)

(* What the card has done stays done. *)
LEMMA CarryReads ==
  ASSUME NEW s, NEW u, u.kind = s.kind, u.setup = s.setup,
         s.carried \subseteq u.carried
  PROVE  /\ \A c : /\ HasData(u, c) <=> HasData(s, c)
                   /\ Busy(u, c) <=> Busy(s, c)
                   /\ sdhci_data_line_cmd(u, c) <=> sdhci_data_line_cmd(s, c)
                   /\ Rsp(s, c) => Rsp(u, c)
                   /\ End(s, c) => End(u, c)
                   /\ PartDone(s, c) => PartDone(u, c)
         /\ \A m : /\ CountDone(s, m) => CountDone(u, m)
                   /\ AllDone(s, m) => AllDone(u, m)
<1>1. \A c : /\ HasData(u, c) <=> HasData(s, c)
             /\ Busy(u, c) <=> Busy(s, c)
             /\ Rsp(s, c) => Rsp(u, c)
             /\ End(s, c) => End(u, c)
  BY DEF HasData, Busy, Rsp, End
<1>2. \A c : sdhci_data_line_cmd(u, c) <=> sdhci_data_line_cmd(s, c)
  BY <1>1 DEF sdhci_data_line_cmd
<1>3. \A c : PartDone(s, c) => PartDone(u, c)
  BY <1>1, <1>2 DEF PartDone
<1>4. \A m : CountDone(s, m) => CountDone(u, m)
  BY <1>1 DEF CountDone, CountSent
<1>5. \A m : AllDone(s, m) => AllDone(u, m)
  BY <1>3, <1>4 DEF AllDone, StopSent
<1> QED BY <1>1, <1>2, <1>3, <1>4, <1>5

(* An interrupt is raised, with what the card has done. *)
LEMMA CarryKeeps ==
  ASSUME NEW s, NEW o, NEW x, NEW u, Good(s, o, x), u \in HostRec,
         u.kind = s.kind, u.setup = s.setup, u.dead = s.dead,
         u.warn = s.warn, Driven(u, s), u.err = s.err,
         s.carried \subseteq u.carried, \A c \in u.carried : c[1] \in o,
         LineInv(u),
         "RESPONSE" \in u.ints /\ u.cmd # None => Rsp(u, u.cmd),
         "DATA_END" \in u.ints /\ u.data_cmd # None => End(u, u.data_cmd)
  PROVE  Good(u, o, x)
<1>1. /\ u.warn = {} /\ u.cmd = s.cmd /\ u.data_cmd = s.data_cmd
      /\ u.data = s.data /\ u.data_early = s.data_early
      /\ u.pending_reset = s.pending_reset /\ u.mrqs_done = s.mrqs_done
      /\ u.cmd_done = s.cmd_done /\ Waiting(u) = Waiting(s)
  BY DEF Good, Driven, Waiting
<1>2. \A m : /\ Failed(u, m) <=> Failed(s, m)
             /\ Active(u, o, x, m) <=> Active(s, o, x, m)
  BY <1>1 DEF Failed, Active
<1>3. ReqInv(u, o, x)
  BY <1>1 DEF Good, ReqInv, Pair
<1>4. CmdInv(u, o, x) /\ DataInv(u, o, x)
  BY <1>1, <1>2, CarryReads DEF Good, CmdInv, DataInv
<1>5. ResultInv(u, o, x)
  BY <1>1, <1>2, CarryReads DEF Good, ResultInv
<1>6. StepInv(u)
  <2>1. /\ u.data # NoMrq /\ u.data_early => End(u, u.data_cmd)
        /\ u.cmd # None /\ Busy(u, u.cmd) /\ u.data_cmd # u.cmd =>
             End(u, u.cmd)
        /\ u.data_cmd # None /\ u.data_cmd # u.cmd =>
             Rsp(u, u.data_cmd) \/ u.data_cmd \in u.err
    BY <1>1, CarryReads DEF Good, StepInv
  <2>2. ASSUME NEW c \in {u.cmd, u.data_cmd} \ {None}
        PROVE  /\ c[2] = "cmd" => CountDone(u, c[1])
               /\ c[2] = "stop" =>
                    \/ <<c[1], "cmd">> \in u.err \/ <<c[1], "data">> \in u.err
                    \/ CountDone(u, c[1]) /\ PartDone(u, <<c[1], "cmd">>)
    <3>1. c \in {s.cmd, s.data_cmd} \ {None}
      BY <1>1
    <3>2. /\ c[2] = "cmd" => CountDone(s, c[1])
          /\ c[2] = "stop" =>
               \/ <<c[1], "cmd">> \in s.err \/ <<c[1], "data">> \in s.err
               \/ CountDone(s, c[1]) /\ PartDone(s, <<c[1], "cmd">>)
      BY <3>1 DEF Good, StepInv
    <3> QED BY <3>2, CarryReads
  <2> QED BY <2>1, <2>2 DEF StepInv
<1> QED BY <1>1, <1>3, <1>4, <1>5, <1>6 DEF Good

(* A command leaves the command line with a response or an error. *)
LEMMA RespondKeeps ==
  ASSUME IInv, Respond
  PROVE  IInv' /\ \E m \in out : Progress(h', h, m)
<1>1. Good(h, out, completing) /\ EarlyInv(h) /\ DeadInv(h) /\ h \in HostRec
  BY DEF IInv, Good
<1>2. PICK c \in Cmds : c = h.line /\ h.line # None
  BY <1>1, Fields DEF Respond
<1>3. PICK m \in Mrqs, r \in Roles : c = <<m, r>> /\ c[1] = m /\ c[2] = r
  BY <1>2, CmdIs DEF Roles
<1>4. m \in out
  BY <1>1, <1>2, <1>3 DEF Good, LineInv, Dirty, ReqInv, CmdInv, Active
<1>5. PICK i \in SUBSET CmdInts, t \in Carried :
        /\ h' = [h EXCEPT !.line = None, !.ints = @ \cup i, !.carried = t]
        /\ h.carried \subseteq t /\ t \subseteq h.carried \cup {<<m, r, "rsp">>}
        /\ "RESPONSE" \in i => <<m, r, "rsp">> \in t
  <2>1. h.carried \in Carried
    BY <1>1 DEF HostRec
  <2>2. PICK d : d = <<m, r, "rsp">>
    OBVIOUS
  <2>3. d \in Mrqs \X Roles \X {"rsp", "end"}
    BY <2>2
  <2>4. h.carried \cup {d} \in Carried
    BY <2>1, <2>3 DEF Carried
  <2>5. CASE h' = [h EXCEPT !.line = None, !.ints = @ \cup {"RESPONSE"},
                            !.carried = @ \cup {<<c[1], c[2], "rsp">>}]
    <3>1. h' = [h EXCEPT !.line = None, !.ints = @ \cup {"RESPONSE"},
                         !.carried = h.carried \cup {d}]
      BY <1>3, <2>2, <2>5
    <3>2. {"RESPONSE"} \in SUBSET CmdInts
      BY DEF CmdInts
    <3> QED BY <2>2, <2>4, <3>1, <3>2
  <2>6. ASSUME NEW i \in SUBSET BadResponse,
               h' = [h EXCEPT !.line = None, !.ints = @ \cup i]
        PROVE  /\ i \in SUBSET CmdInts /\ "RESPONSE" \notin i
               /\ h' = [h EXCEPT !.line = None, !.ints = @ \cup i,
                                 !.carried = h.carried]
    BY <1>1, <2>6 DEF CmdInts, BadResponse, HostRec
  <2>7. \/ h' = [h EXCEPT !.line = None, !.ints = @ \cup {"RESPONSE"},
                          !.carried = @ \cup {<<c[1], c[2], "rsp">>}]
        \/ \E i \in SUBSET BadResponse :
             h' = [h EXCEPT !.line = None, !.ints = @ \cup i]
    BY <1>2 DEF Respond, BadResponse
  <2> QED BY <2>1, <2>5, <2>6, <2>7
<1>6. PICK u : u = h'
  OBVIOUS
<1>7. PICK j \in IntSets : j = h.ints \cup i
  BY <1>1 DEF HostRec, IntSets
<1>8. /\ u \in HostRec /\ u.kind = h.kind /\ u.setup = h.setup
      /\ u.dead = h.dead /\ u.warn = h.warn /\ Driven(u, h)
      /\ u.err = h.err /\ u.carried = t /\ u.line = None /\ u.dat = h.dat
      /\ u.ints = h.ints \cup i
  <2>1. u = [h EXCEPT !.line = None, !.ints = j, !.carried = t]
    BY <1>5, <1>6, <1>7
  <2> QED BY <1>1, <1>7, <2>1, Values DEF HostRec, Driven
<1>9. h.ints \cap CmdInts = {}
  BY <1>1, <1>2 DEF Good, LineInv
<1>10. h.cmd # None => h.cmd = c
  <2>1. SUFFICES ASSUME h.cmd # None, h.cmd # c PROVE FALSE
    OBVIOUS
  <2>2. PICK n : n = h.cmd[1]
    OBVIOUS
  <2>3. n \in out /\ n \notin Waiting(h) /\ n \notin h.cmd_done
    BY <1>1, <2>1, <2>2 DEF Good, CmdInv, Active
  <2>4. m \in Waiting(h) /\ m \notin h.cmd_done
    BY <1>1, <1>2, <1>3, <2>1 DEF Good, LineInv, Dirty
  <2>5. Pair(h, m, n) \/ Pair(h, n, m)
    BY <1>1, <1>4, <2>3, <2>4 DEF Good, ReqInv
  <2> QED BY <2>3, <2>4, <2>5 DEF Pair
<1>11. /\ Waiting(u) = Waiting(h)
       /\ \A n : Dirty(u, n) <=> Dirty(h, n)
  BY <1>8 DEF Waiting, Dirty, Driven, sdhci_needs_reset
<1>12. u.ints \cap DataInts = h.ints \cap DataInts
  BY <1>8 DEF CmdInts, BadResponse, DataInts
<1>13. LineInv(u)
  <2>1. /\ u.dat # None => sdhci_data_line_cmd(u, u.dat)
        /\ u.dat # None /\ u.dat # u.data_cmd => Dirty(u, u.dat[1])
    BY <1>1, <1>5, <1>8, <1>11, CarryReads DEF Good, LineInv, Driven
  <2>2. u.cmd = None =>
          u.pending_reset /\ \E n \in Mrqs : Dirty(u, n) /\ n \notin u.cmd_done
    BY <1>1, <1>2, <1>3, <1>8, <1>11 DEF Good, LineInv, Driven
  <2>3. u.ints \cap DataInts # {} =>
          /\ u.dat = None
          /\ u.data_cmd = None => \E n \in Mrqs : Dirty(u, n)
    BY <1>1, <1>8, <1>11, <1>12 DEF Good, LineInv, Driven
  <2> QED BY <1>8, <2>1, <2>2, <2>3 DEF LineInv
<1>14. "RESPONSE" \in u.ints /\ u.cmd # None => Rsp(u, u.cmd)
  <2>1. SUFFICES ASSUME "RESPONSE" \in u.ints, u.cmd # None PROVE Rsp(u, u.cmd)
    OBVIOUS
  <2>2. u.cmd = c
    BY <1>8, <1>10, <2>1 DEF Driven
  <2>3. "RESPONSE" \in i
    BY <1>8, <1>9, <2>1 DEF CmdInts
  <2> QED BY <1>3, <1>5, <1>8, <2>2, <2>3 DEF Rsp
<1>15. "DATA_END" \in u.ints /\ u.data_cmd # None => End(u, u.data_cmd)
  <2>1. "DATA_END" \in u.ints => "DATA_END" \in h.ints
    BY <1>8 DEF CmdInts, BadResponse
  <2> QED BY <1>1, <1>5, <1>8, <2>1, CarryReads DEF Good, StepInv, Driven
<1>16. \A e \in u.carried : e[1] \in out
  BY <1>1, <1>4, <1>5, <1>8 DEF Good, ResultInv
<1>17. Good(u, out, completing)
  BY <1>1, <1>5, <1>8, <1>13, <1>14, <1>15, <1>16, CarryKeeps
<1>18. EarlyInv(u) /\ DeadInv(u)
  BY <1>1, <1>2, <1>8, <1>12 DEF EarlyInv, DeadInv, Driven
<1>19. Elsewhere(u, h, m)
  BY <1>5, <1>8 DEF Elsewhere
<1>20. Progress(u, h, m)
  BY <1>5, <1>8, <1>19 DEF Progress
<1>21. IInv'
  BY <1>6, <1>17, <1>18 DEF IInv, RestType, Respond
<1> QED BY <1>4, <1>6, <1>20, <1>21

(* A command leaves the data line. *)
LEMMA DataPhaseKeeps ==
  ASSUME IInv, DataPhase
  PROVE  IInv' /\ \E m \in out : Progress(h', h, m)
<1>1. Good(h, out, completing) /\ EarlyInv(h) /\ DeadInv(h) /\ h \in HostRec
  BY DEF IInv, Good
<1>2. PICK c \in Cmds : c = h.dat /\ h.dat # None
  BY <1>1, Fields DEF DataPhase
<1>3. PICK m \in Mrqs, r \in Roles : c = <<m, r>> /\ c[1] = m /\ c[2] = r
  BY <1>2, CmdIs DEF Roles
<1>4. m \in out
  BY <1>1, <1>2, <1>3 DEF Good, LineInv, Dirty, ReqInv, DataInv, Active
<1>5. PICK i \in DataInts, t \in Carried :
        /\ h' = [h EXCEPT !.dat = None, !.ints = @ \cup {i}, !.carried = t]
        /\ h.carried \subseteq t /\ t \subseteq h.carried \cup {<<m, r, "end">>}
        /\ i = "DATA_END" => <<m, r, "end">> \in t
  <2>1. h.carried \in Carried
    BY <1>1 DEF HostRec
  <2>2. PICK d : d = <<m, r, "end">>
    OBVIOUS
  <2>3. d \in Mrqs \X Roles \X {"rsp", "end"}
    BY <2>2
  <2>4. h.carried \cup {d} \in Carried
    BY <2>1, <2>3 DEF Carried
  <2>5. CASE h' = [h EXCEPT !.dat = None, !.ints = @ \cup {"DATA_END"},
                            !.carried = @ \cup {<<c[1], c[2], "end">>}]
    <3>1. h' = [h EXCEPT !.dat = None, !.ints = @ \cup {"DATA_END"},
                         !.carried = h.carried \cup {d}]
      BY <1>3, <2>2, <2>5
    <3>2. "DATA_END" \in DataInts
      BY DEF DataInts
    <3> QED BY <2>2, <2>4, <3>1, <3>2
  <2>6. CASE h' = [h EXCEPT !.dat = None, !.ints = @ \cup {"DATA_ERR"}]
    <3>1. h' = [h EXCEPT !.dat = None, !.ints = @ \cup {"DATA_ERR"},
                         !.carried = h.carried]
      BY <1>1, <2>6 DEF HostRec
    <3>2. "DATA_ERR" \in DataInts
      BY DEF DataInts
    <3> QED BY <2>1, <3>1, <3>2
  <2> QED BY <1>2, <2>5, <2>6 DEF DataPhase
<1>6. PICK u : u = h'
  OBVIOUS
<1>7. PICK j \in IntSets : j = h.ints \cup {i}
  BY <1>1 DEF HostRec, IntSets
<1>8. /\ u \in HostRec /\ u.kind = h.kind /\ u.setup = h.setup
      /\ u.dead = h.dead /\ u.warn = h.warn /\ Driven(u, h)
      /\ u.err = h.err /\ u.carried = t /\ u.dat = None /\ u.line = h.line
      /\ u.ints = h.ints \cup {i}
  <2>1. u = [h EXCEPT !.dat = None, !.ints = j, !.carried = t]
    BY <1>5, <1>6, <1>7
  <2> QED BY <1>1, <1>7, <2>1, Values DEF HostRec, Driven
<1>9. h.ints \cap DataInts = {}
  BY <1>1, <1>2 DEF Good, LineInv
<1>10. h.data_cmd # None => h.data_cmd = c
  <2>1. SUFFICES ASSUME h.data_cmd # None, h.data_cmd # c PROVE FALSE
    OBVIOUS
  <2>2. PICK n : n = h.data_cmd[1]
    OBVIOUS
  <2>3. n \in out /\ n \notin Waiting(h)
    BY <1>1, <2>1, <2>2 DEF Good, DataInv, Active
  <2>4. m \in Waiting(h)
    BY <1>1, <1>2, <1>3, <2>1 DEF Good, LineInv, Dirty
  <2>5. Pair(h, m, n) \/ Pair(h, n, m)
    BY <1>1, <1>4, <2>3, <2>4 DEF Good, ReqInv
  <2>6. h.kind[m] # Plain
    BY <1>1, <1>2, <1>3
       DEF Good, LineInv, sdhci_data_line_cmd, HasData, Busy, Plain
  <2>7. h.kind[n] # Plain
    BY <1>1, <2>1, <2>2
       DEF Good, DataInv, sdhci_data_line_cmd, HasData, Busy, Plain
  <2> QED BY <2>5, <2>6, <2>7 DEF Pair
<1>11. /\ Waiting(u) = Waiting(h)
       /\ \A n : Dirty(u, n) <=> Dirty(h, n)
  BY <1>8 DEF Waiting, Dirty, Driven, sdhci_needs_reset
<1>12. u.ints \cap CmdInts = h.ints \cap CmdInts
  BY <1>8 DEF CmdInts, BadResponse, DataInts
<1>13. LineInv(u)
  <2>1. u.line # None /\ u.line # u.cmd =>
          u.pending_reset /\ Dirty(u, u.line[1]) /\ u.line[1] \notin u.cmd_done
    BY <1>1, <1>8, <1>11 DEF Good, LineInv, Driven
  <2>2. u.ints \cap CmdInts # {} =>
          /\ u.line = None
          /\ u.cmd = None =>
               /\ u.pending_reset
               /\ \E n \in Mrqs : Dirty(u, n) /\ n \notin u.cmd_done
    BY <1>1, <1>8, <1>11, <1>12 DEF Good, LineInv, Driven
  <2>3. u.data_cmd = None => \E n \in Mrqs : Dirty(u, n)
    BY <1>1, <1>2, <1>3, <1>8, <1>11 DEF Good, LineInv, Driven
  <2> QED BY <1>8, <2>1, <2>2, <2>3 DEF LineInv
<1>14. "DATA_END" \in u.ints /\ u.data_cmd # None => End(u, u.data_cmd)
  <2>1. SUFFICES ASSUME "DATA_END" \in u.ints, u.data_cmd # None
                 PROVE  End(u, u.data_cmd)
    OBVIOUS
  <2>2. u.data_cmd = c
    BY <1>8, <1>10, <2>1 DEF Driven
  <2>3. i = "DATA_END"
    BY <1>8, <1>9, <2>1 DEF DataInts
  <2> QED BY <1>3, <1>5, <1>8, <2>2, <2>3 DEF End
<1>15. "RESPONSE" \in u.ints /\ u.cmd # None => Rsp(u, u.cmd)
  <2>1. "RESPONSE" \in u.ints => "RESPONSE" \in h.ints
    BY <1>8 DEF DataInts
  <2> QED BY <1>1, <1>5, <1>8, <2>1, CarryReads DEF Good, StepInv, Driven
<1>16. \A e \in u.carried : e[1] \in out
  BY <1>1, <1>4, <1>5, <1>8 DEF Good, ResultInv
<1>17. Good(u, out, completing)
  BY <1>1, <1>5, <1>8, <1>13, <1>14, <1>15, <1>16, CarryKeeps
<1>18. EarlyInv(u) /\ DeadInv(u)
  BY <1>1, <1>2, <1>8 DEF EarlyInv, DeadInv, Driven
<1>19. Elsewhere(u, h, m)
  BY <1>5, <1>8 DEF Elsewhere
<1>20. Progress(u, h, m)
  BY <1>5, <1>8, <1>19 DEF Progress
<1>21. IInv'
  BY <1>6, <1>17, <1>18 DEF IInv, RestType, DataPhase
<1> QED BY <1>4, <1>6, <1>20, <1>21

-----------------------------------------------------------------------------
(* The tasklet and the core.                                               *)

(* A request leaves its slot for the core: after the reset, or with        *)
(* nothing on the lines that would need one.                               *)
LEMMA TakeKeeps ==
  ASSUME NEW s, NEW o, NEW m, NEW u, Good(s, o, NoMrq), m \in Waiting(s),
         Frame(u, s), u.cmd = s.cmd, u.data_cmd = s.data_cmd,
         u.data = s.data, u.data_early = s.data_early,
         u.cmd_done = s.cmd_done, u.err = s.err,
         Waiting(u) = Waiting(s) \ {m},
         u.mrqs_done[1] = u.mrqs_done[2] => u.mrqs_done[1] = NoMrq,
         \/ /\ Controls(u, s) /\ u.pending_reset = s.pending_reset
            /\ ~sdhci_needs_reset(s, m)
         \/ /\ u.line = None /\ u.dat = None /\ u.ints = {}
            /\ s.cmd = None /\ s.data_cmd = None
  PROVE  /\ Good(u, o, m)
         /\ EarlyInv(s) => EarlyInv(u)
         /\ DeadInv(s) => DeadInv(u)
<1>1. /\ u \in HostRec /\ u.warn = {} /\ s \in HostRec /\ u.kind = s.kind
      /\ u.dead = s.dead /\ u.carried = s.carried /\ m \in o /\ m # NoMrq
      /\ u.ints \subseteq s.ints /\ u.dat \in {s.dat, None}
  BY DEF Good, ReqInv, Frame, Waiting, Controls
<1>2. \A n : /\ Failed(u, n) <=> Failed(s, n)
             /\ Active(s, o, NoMrq, n) => Active(u, o, m, n)
             /\ sdhci_needs_reset(u, n) <=> sdhci_needs_reset(s, n)
             /\ n # m /\ Dirty(s, n) => Dirty(u, n)
  BY <1>1 DEF Failed, Active, Dirty, sdhci_needs_reset
<1>3. ReqInv(u, o, m)
  BY <1>1 DEF Good, ReqInv, Pair
<1>4. CmdInv(u, o, m) /\ DataInv(u, o, m)
  BY <1>1, <1>2, FrameReads DEF Good, CmdInv, DataInv
<1>5. LineInv(u)
  <2>1. CASE u.line = None /\ u.dat = None /\ u.ints = {}
    BY <2>1 DEF LineInv
  <2>2. CASE /\ Controls(u, s) /\ u.pending_reset = s.pending_reset
             /\ ~sdhci_needs_reset(s, m)
    <3>1. \A n : Dirty(s, n) => Dirty(u, n)
      BY <1>2, <2>2 DEF Dirty
    <3> QED BY <2>2, <3>1, FrameReads DEF Good, LineInv, Controls
  <2> QED BY <2>1, <2>2
<1>6. ResultInv(u, o, m)
  BY <1>1, <1>2, FrameReads DEF Good, ResultInv
<1>7. StepInv(u)
  BY <1>1, FrameReads DEF Good, StepInv
<1>8. DeadInv(s) => DeadInv(u)
  BY <1>1 DEF DeadInv, Controls
<1>9. EarlyInv(s) => EarlyInv(u)
  BY <1>1 DEF EarlyInv
<1> QED
  BY <1>1, <1>3, <1>4, <1>5, <1>6, <1>7, <1>8, <1>9 DEF Good

(* sdhci_request_done() *)
LEMMA RequestDoneKeeps ==
  ASSUME IInv, sdhci_request_done
  PROVE  IInv' /\ Frame(h', h) /\ h'.err = h.err /\ h'.cmd_done = h.cmd_done
<1>1. /\ Good(h, out, completing) /\ EarlyInv(h) /\ DeadInv(h) /\ h \in HostRec
      /\ completing = NoMrq /\ RestType
  BY DEF IInv, Good, sdhci_request_done
<1>2. PICK used : used = {i \in Slots : h.mrqs_done[i] # NoMrq}
  OBVIOUS
<1>3. CASE used = {}
  <2>1. h' = h /\ completing' = completing /\ task' = FALSE
    BY <1>2, <1>3 DEF sdhci_request_done
  <2> QED
    BY <1>1, <2>1 DEF sdhci_request_done, IInv, RestType, Frame
<1>4. CASE used # {}
  <2>1. PICK i \in {1, 2} : i = Min(used) /\ h.mrqs_done[i] # NoMrq
    <3>1. used \subseteq {1, 2}
      BY <1>2 DEF Slots
    <3> QED BY <1>2, <1>4, <3>1, MinIs
  <2>2. PICK m : m = h.mrqs_done[i]
    OBVIOUS
  <2>3. /\ m \in Waiting(h) /\ m \in Mrqs /\ m # NoMrq /\ h.mrqs_done \in Done
        /\ DOMAIN h.mrqs_done = {1, 2}
    BY <1>1, <2>1, <2>2 DEF Waiting, HostRec, Done, MaybeMrq, Slots
  <2>4. PICK ts \in TimerSets : ts = h.timers \ {TimerOf(h, m)}
    BY <1>1 DEF HostRec, TimerSets
  <2>5. PICK s1 : s1 = [h EXCEPT !.timers = ts]
    OBVIOUS
  <2>6. Same(s1, h)
    BY <1>1, <2>5 DEF HostRec, Same, Frame, Controls, Driven
  <2>7. PICK b \in BOOLEAN :
          b <=> (sdhci_needs_reset(h, m) /\ (h.cmd # None \/ h.data_cmd # None))
    OBVIOUS
  <2>8. CASE b
    <3>1. h' = s1 /\ completing' = completing /\ task' = FALSE
      BY <1>2, <1>4, <2>1, <2>2, <2>4, <2>5, <2>7, <2>8
         DEF sdhci_request_done
    <3>2. Good(s1, out, completing) /\ EarlyInv(s1) /\ DeadInv(s1)
      BY <1>1, <2>6, SameKeeps
    <3> QED
      BY <1>1, <2>6, <3>1, <3>2
         DEF sdhci_request_done, IInv, RestType, Same, Driven
  <2>9. CASE ~b
    <3>1. PICK r : r = ResetData(ResetCmd(s1))
      OBVIOUS
    <3>2. PICK s2 : s2 = IF sdhci_needs_reset(h, m)
                         THEN [r EXCEPT !.pending_reset = FALSE] ELSE s1
      OBVIOUS
    <3>3. PICK e \in Done : e = [h.mrqs_done EXCEPT ![i] = NoMrq]
      BY <2>1, <2>3 DEF Done, MaybeMrq
    <3>4. PICK u : u = [s2 EXCEPT !.mrqs_done = e]
      OBVIOUS
    <3>5. s1 \in HostRec /\ s1.mrqs_done = h.mrqs_done
      BY <2>6 DEF Same, Frame, Driven
    <3>6. /\ Frame(s2, h) /\ s2.cmd = h.cmd /\ s2.data_cmd = h.data_cmd
          /\ s2.data = h.data /\ s2.data_early = h.data_early
          /\ s2.cmd_done = h.cmd_done /\ s2.err = h.err
          /\ s2.mrqs_done = h.mrqs_done
          /\ \/ /\ s2.line = h.line /\ s2.dat = h.dat /\ s2.ints = h.ints
                /\ s2.pending_reset = h.pending_reset
                /\ ~sdhci_needs_reset(h, m)
             \/ /\ s2.line = None /\ s2.dat = None /\ s2.ints = {}
                /\ h.cmd = None /\ h.data_cmd = None
      <4>1. CASE sdhci_needs_reset(h, m)
        <5>1. /\ Frame(r, s1) /\ Driven(r, s1) /\ r.err = s1.err
              /\ r.line = None /\ r.dat = None /\ r.ints = {}
          BY <3>1, <3>5, ResetIs
        <5>2. s2 = [r EXCEPT !.pending_reset = FALSE]
          BY <3>2, <4>1
        <5>3. /\ Frame(s2, r) /\ s2.cmd = r.cmd /\ s2.data_cmd = r.data_cmd
              /\ s2.data = r.data /\ s2.data_early = r.data_early
              /\ s2.cmd_done = r.cmd_done /\ s2.err = r.err
              /\ s2.mrqs_done = r.mrqs_done
              /\ s2.line = r.line /\ s2.dat = r.dat /\ s2.ints = r.ints
          BY <5>1, <5>2 DEF HostRec, Frame
        <5>4. h.cmd = None /\ h.data_cmd = None
          BY <2>7, <2>9, <4>1
        <5>5. /\ Frame(s2, h) /\ s2.cmd = h.cmd /\ s2.data_cmd = h.data_cmd
              /\ s2.data = h.data /\ s2.data_early = h.data_early
              /\ s2.cmd_done = h.cmd_done /\ s2.err = h.err
              /\ s2.mrqs_done = h.mrqs_done
          BY <2>6, <5>1, <5>3 DEF Same, Frame, Driven
        <5> QED BY <5>1, <5>3, <5>4, <5>5
      <4>2. CASE ~sdhci_needs_reset(h, m)
        BY <2>6, <3>2, <4>2 DEF Same, Frame, Driven, Controls
      <4> QED BY <4>1, <4>2
    <3>7. /\ Frame(u, h) /\ u.cmd = h.cmd /\ u.data_cmd = h.data_cmd
          /\ u.data = h.data /\ u.data_early = h.data_early
          /\ u.cmd_done = h.cmd_done /\ u.err = h.err /\ u.mrqs_done = e
          /\ u.line = s2.line /\ u.dat = s2.dat /\ u.ints = s2.ints
          /\ u.pending_reset = s2.pending_reset
      BY <3>4, <3>6 DEF HostRec, Frame
    <3>8. /\ Waiting(u) = Waiting(h) \ {m}
          /\ u.mrqs_done[1] = u.mrqs_done[2] => u.mrqs_done[1] = NoMrq
      <4>1. h.mrqs_done[1] = h.mrqs_done[2] => h.mrqs_done[1] = NoMrq
        BY <1>1 DEF Good, ReqInv
      <4>2. CASE i = 1
        <5>1. e[1] = NoMrq /\ e[2] = h.mrqs_done[2]
          BY <2>3, <3>3, <4>2
        <5> QED BY <2>1, <2>2, <3>7, <4>1, <4>2, <5>1 DEF Waiting
      <4>3. CASE i = 2
        <5>1. e[2] = NoMrq /\ e[1] = h.mrqs_done[1]
          BY <2>3, <3>3, <4>3
        <5> QED BY <2>1, <2>2, <3>7, <4>1, <4>3, <5>1 DEF Waiting
      <4> QED BY <2>1, <4>2, <4>3
    <3>9. Good(u, out, m) /\ EarlyInv(u) /\ DeadInv(u)
      <4>1. \/ /\ Controls(u, h) /\ u.pending_reset = h.pending_reset
               /\ ~sdhci_needs_reset(h, m)
            \/ /\ u.line = None /\ u.dat = None /\ u.ints = {}
               /\ h.cmd = None /\ h.data_cmd = None
        BY <3>6, <3>7 DEF Controls
      <4> QED BY <1>1, <2>3, <3>7, <3>8, <4>1, TakeKeeps
    <3>10. h' = u /\ completing' = m /\ task' = task
      <4>1. s1 = [h EXCEPT !.timers = @ \ {TimerOf(h, m)}]
        BY <2>4, <2>5
      <4>2. u = [s2 EXCEPT !.mrqs_done[i] = NoMrq]
        BY <3>3, <3>4, <3>6 DEF HostRec, Frame
      <4>3. ~(sdhci_needs_reset(h, m) /\ (h.cmd # None \/ h.data_cmd # None))
        BY <2>7, <2>9
      <4> QED
        BY <1>2, <1>4, <2>1, <2>2, <3>1, <3>2, <4>1, <4>2, <4>3
           DEF sdhci_request_done
    <3>11. RestType'
      <4>1. m \in MaybeMrq
        BY <2>3 DEF MaybeMrq
      <4> QED BY <1>1, <3>10, <4>1 DEF sdhci_request_done, RestType
    <3>12. out' = out
      BY DEF sdhci_request_done
    <3> QED BY <3>7, <3>9, <3>10, <3>11, <3>12 DEF IInv
  <2> QED BY <2>8, <2>9
<1> QED BY <1>3, <1>4

(* What is kept of one request does not matter to the others. *)
LEMMA OtherReads ==
  ASSUME NEW s, NEW u, NEW x, Elsewhere(u, s, x)
  PROVE  /\ \A c \in Cmds : c[1] # x =>
              /\ HasData(u, c) <=> HasData(s, c)
              /\ Busy(u, c) <=> Busy(s, c)
              /\ sdhci_data_line_cmd(u, c) <=> sdhci_data_line_cmd(s, c)
              /\ Rsp(u, c) <=> Rsp(s, c)
              /\ End(u, c) <=> End(s, c)
              /\ PartDone(u, c) <=> PartDone(s, c)
         /\ \A m \in Mrqs : m # x =>
              /\ PartDone(u, <<m, "cmd">>) <=> PartDone(s, <<m, "cmd">>)
              /\ CountDone(u, m) <=> CountDone(s, m)
              /\ AllDone(u, m) <=> AllDone(s, m)
<1>1. ASSUME NEW c \in Cmds, c[1] # x
      PROVE  /\ HasData(u, c) <=> HasData(s, c)
             /\ Busy(u, c) <=> Busy(s, c)
             /\ Rsp(u, c) <=> Rsp(s, c)
             /\ End(u, c) <=> End(s, c)
  <2>1. c[1] \in Mrqs
    BY CmdIs
  <2> QED BY <1>1, <2>1 DEF Elsewhere, HasData, Busy, Rsp, End
<1>2. \A c \in Cmds : c[1] # x =>
        (sdhci_data_line_cmd(u, c) <=> sdhci_data_line_cmd(s, c))
  BY <1>1 DEF sdhci_data_line_cmd
<1>3. \A c \in Cmds : c[1] # x => (PartDone(u, c) <=> PartDone(s, c))
  BY <1>1, <1>2 DEF PartDone
<1>4. ASSUME NEW m \in Mrqs, m # x
      PROVE  /\ PartDone(u, <<m, "cmd">>) <=> PartDone(s, <<m, "cmd">>)
             /\ CountDone(u, m) <=> CountDone(s, m)
             /\ AllDone(u, m) <=> AllDone(s, m)
  <2>1. PICK c, d, e : c = <<m, "cmd">> /\ d = <<m, "sbc">> /\ e = <<m, "stop">>
    OBVIOUS
  <2>2. /\ c \in Cmds /\ d \in Cmds /\ e \in Cmds
        /\ c[1] # x /\ d[1] # x /\ e[1] # x
    BY <1>4, <2>1, IsCmd
  <2>3. /\ PartDone(u, c) <=> PartDone(s, c)
        /\ PartDone(u, e) <=> PartDone(s, e)
    BY <1>3, <2>2
  <2>4. Rsp(u, d) <=> Rsp(s, d)
    BY <1>1, <2>2
  <2>5. CountDone(u, m) <=> CountDone(s, m)
    BY <1>4, <2>1, <2>4 DEF Elsewhere, CountDone, CountSent
  <2>6. StopSent(u, m) <=> StopSent(s, m)
    BY <1>4 DEF Elsewhere, StopSent
  <2> QED BY <2>1, <2>3, <2>5, <2>6 DEF AllDone
<1> QED BY <1>1, <1>2, <1>3, <1>4

(* Whose the commands and lines are. *)
LEMMA Owners ==
  ASSUME NEW s, NEW o, NEW x, Good(s, o, x)
  PROVE  /\ s.cmd # None => /\ s.cmd \in Cmds /\ s.cmd[1] \in Mrqs
                            /\ s.cmd[1] \in o /\ s.cmd[1] # x
         /\ s.data_cmd # None =>
              /\ s.data_cmd \in Cmds /\ s.data_cmd[1] \in Mrqs
              /\ s.data_cmd[1] \in o /\ s.data_cmd[1] # x
         /\ s.line # None => /\ s.line \in Cmds /\ s.line[1] \in Mrqs
                             /\ s.line[1] \in o /\ s.line[1] # x
         /\ s.dat # None => /\ s.dat \in Cmds /\ s.dat[1] \in Mrqs
                            /\ s.dat[1] \in o /\ s.dat[1] # x
         /\ s.data # NoMrq => s.data \in Mrqs /\ s.data \in o /\ s.data # x
         /\ \A m : Dirty(s, m) => m \in Mrqs /\ m \in o /\ m # x
<1>1. /\ s.cmd # None => s.cmd \in Cmds
      /\ s.data_cmd # None => s.data_cmd \in Cmds
      /\ s.line # None => s.line \in Cmds
      /\ s.dat # None => s.dat \in Cmds
      /\ NoMrq \notin Waiting(s)
  BY Fields DEF Good
<1>2. \A m : Dirty(s, m) => m \in Mrqs /\ m \in o /\ m # x
  BY <1>1 DEF Good, ReqInv, Dirty
<1>3. o \subseteq Mrqs
  BY DEF Good, ReqInv
<1>4. /\ s.cmd # None => s.cmd[1] \in o /\ s.cmd[1] # x
      /\ s.data_cmd # None => s.data_cmd[1] \in o /\ s.data_cmd[1] # x
  BY DEF Good, CmdInv, DataInv, Active
<1>5. s.line # None => s.line[1] \in o /\ s.line[1] # x
  BY <1>2, <1>4 DEF Good, LineInv
<1>6. s.dat # None => s.dat[1] \in o /\ s.dat[1] # x
  BY <1>2, <1>4 DEF Good, LineInv
<1>7. s.data # NoMrq => s.data \in o /\ s.data # x
  BY TransferIs DEF Active
<1> QED BY <1>1, <1>2, <1>3, <1>4, <1>5, <1>6, <1>7

(* The fields of a host that keeps nothing of a request. *)
Keeps(u, s, k, e, q, t) ==
  /\ s \in HostRec /\ k \in AllKinds /\ e \in Errors /\ q \in MrqSets
  /\ t \in Carried
  /\ u = [s EXCEPT !.kind = k, !.err = e, !.cmd_done = q, !.carried = t]

(* They keep their types. *)
LEMMA KeepsType ==
  ASSUME NEW u, NEW s, NEW k, NEW e, NEW q, NEW t, Keeps(u, s, k, e, q, t)
  PROVE  u \in HostRec
BY DEF Keeps, HostRec

(* The core has the request back. *)
LEMMA ForgetKeeps ==
  ASSUME NEW s, NEW o, NEW x, NEW u, NEW p, Good(s, o, x), x # NoMrq,
         u = Forget(s, x), p = o \ {x}
  PROVE  /\ Good(u, p, NoMrq) /\ u.kind[x] = Plain
         /\ EarlyInv(s) => EarlyInv(u)
         /\ DeadInv(s) => DeadInv(u)
<1>1. /\ s \in HostRec /\ x \in o /\ x \notin Waiting(s) /\ x \in Mrqs
      /\ s.warn = {}
  BY DEF Good, ReqInv
<1>2. PICK k \in AllKinds : k = [s.kind EXCEPT ![x] = Plain]
  <2>1. s.kind \in AllKinds
    BY <1>1 DEF HostRec
  <2> QED BY <1>1, <2>1, Values DEF AllKinds
<1>3. PICK e \in Errors : e = {f \in s.err : f[1] # x}
  BY <1>1 DEF HostRec, Errors
<1>4. PICK q \in MrqSets : q = s.cmd_done \ {x}
  BY <1>1 DEF HostRec, MrqSets
<1>5. PICK t \in Carried : t = {c \in s.carried : c[1] # x}
  BY <1>1 DEF HostRec, Carried
<1>6. u = [s EXCEPT !.kind = k, !.err = e, !.cmd_done = q, !.carried = t]
  <2>1. u = [s EXCEPT !.kind[x] = Plain, !.err = e, !.cmd_done = q,
                      !.carried = t]
    BY <1>3, <1>4, <1>5 DEF Forget
  <2> QED BY <1>2, <2>1
<1>7. /\ u \in HostRec /\ u.warn = {} /\ u.setup = s.setup /\ u.dead = s.dead
      /\ u.kind = k /\ u.carried = t /\ u.err = e /\ u.cmd_done = q
      /\ u.cmd = s.cmd /\ u.data_cmd = s.data_cmd /\ u.data = s.data
      /\ u.data_early = s.data_early /\ u.pending_reset = s.pending_reset
      /\ u.mrqs_done = s.mrqs_done /\ u.line = s.line /\ u.dat = s.dat
      /\ u.ints = s.ints /\ Waiting(u) = Waiting(s)
  <2>1. u \in HostRec
    <3>1. Keeps(u, s, k, e, q, t)
      BY <1>1, <1>6 DEF Keeps
    <3> QED BY <3>1, KeepsType
  <2> QED BY <1>1, <1>6, <2>1 DEF HostRec, Waiting
<1>8. /\ \A n \in Mrqs : n # x => u.kind[n] = s.kind[n]
      /\ u.kind[x] = Plain
  <2>1. DOMAIN s.kind = Mrqs
    BY <1>1 DEF HostRec, AllKinds
  <2> QED BY <1>1, <1>2, <1>7, <2>1
<1>9. /\ \A n \in Mrqs : \A r, f : n # x =>
           (<<n, r, f>> \in u.carried <=> <<n, r, f>> \in s.carried)
      /\ \A n, r : n # x => (<<n, r>> \in u.err <=> <<n, r>> \in s.err)
      /\ \A n : n # x => (n \in u.cmd_done <=> n \in s.cmd_done)
  BY <1>3, <1>4, <1>5, <1>7
<1>10. \A n \in Mrqs : n # x =>
         /\ Failed(u, n) <=> Failed(s, n)
         /\ Dirty(u, n) <=> Dirty(s, n)
         /\ Active(s, o, x, n) => Active(u, p, NoMrq, n)
  <2>1. \A n \in Mrqs : n # x => (Failed(u, n) <=> Failed(s, n))
    BY <1>9 DEF Failed
  <2>2. \A n \in Mrqs : n # x => (Dirty(u, n) <=> Dirty(s, n))
    BY <1>7, <1>8, <1>9 DEF Dirty, sdhci_needs_reset
  <2>3. \A n \in Mrqs : n # x /\ Active(s, o, x, n) => Active(u, p, NoMrq, n)
    BY <1>7, MrqsAssumption DEF Active
  <2> QED BY <2>1, <2>2, <2>3
<1>11. ReqInv(u, p, NoMrq)
  <2>1. \A m, n \in p : m = n \/ Pair(u, m, n) \/ Pair(u, n, m)
    BY <1>8, <1>9 DEF Good, ReqInv, Pair
  <2>2. /\ \A m \in u.cmd_done : m \in p /\ u.kind[m].cap
        /\ \A m \in p : Legal(u.kind[m])
    BY <1>4, <1>7, <1>8 DEF Good, ReqInv
  <2> QED BY <1>1, <1>7, <2>1, <2>2 DEF Good, ReqInv
<1>12. Elsewhere(u, s, x)
  BY <1>7, <1>8, <1>9 DEF Elsewhere
<1>13. \A c \in Cmds : c[1] # x =>
         /\ HasData(u, c) <=> HasData(s, c)
         /\ Busy(u, c) <=> Busy(s, c)
         /\ sdhci_data_line_cmd(u, c) <=> sdhci_data_line_cmd(s, c)
         /\ Rsp(u, c) <=> Rsp(s, c)
         /\ End(u, c) <=> End(s, c)
  BY <1>12, OtherReads
<1>14. \A m \in Mrqs : m # x =>
         /\ PartDone(u, <<m, "cmd">>) <=> PartDone(s, <<m, "cmd">>)
         /\ CountDone(u, m) <=> CountDone(s, m)
         /\ AllDone(u, m) <=> AllDone(s, m)
  BY <1>12, OtherReads
<1>15. CmdInv(u, p, NoMrq)
  <2>1. SUFFICES ASSUME s.cmd # None PROVE CmdInv(u, p, NoMrq)
    BY <1>7 DEF CmdInv
  <2>2. PICK m \in Mrqs : m = s.cmd[1] /\ m # x
    BY <2>1, Owners
  <2>3. Active(u, p, NoMrq, m) /\ u.kind[m] = s.kind[m] /\ m \notin u.cmd_done
    BY <1>8, <1>9, <1>10, <2>1, <2>2 DEF Good, CmdInv
  <2> QED BY <1>7, <2>1, <2>2, <2>3 DEF Good, CmdInv
<1>16. DataInv(u, p, NoMrq)
  <2>1. CASE s.data_cmd = None
    BY <1>7, <2>1, TransferIs DEF DataInv
  <2>2. CASE s.data_cmd # None
    <3>1. PICK c \in Cmds : c = s.data_cmd /\ c[1] # x /\ c[1] \in Mrqs
      BY <2>2, Owners
    <3>2. Active(u, p, NoMrq, c[1]) /\ u.kind[c[1]] = s.kind[c[1]]
      BY <1>8, <1>10, <2>2, <3>1 DEF Good, DataInv
    <3>3. s.data # NoMrq => s.data = c[1]
      BY <3>1, TransferIs
    <3> QED BY <1>7, <1>13, <2>2, <3>1, <3>2, <3>3 DEF Good, DataInv
  <2> QED BY <2>1, <2>2
<1>17. LineInv(u)
  <2>1. u.line # None /\ u.line # u.cmd =>
          u.pending_reset /\ Dirty(u, u.line[1]) /\ u.line[1] \notin u.cmd_done
    BY <1>7, <1>9, <1>10, Owners DEF Good, LineInv
  <2>2. /\ u.dat # None => sdhci_data_line_cmd(u, u.dat)
        /\ u.dat # None /\ u.dat # u.data_cmd => Dirty(u, u.dat[1])
    BY <1>7, <1>10, <1>13, Owners DEF Good, LineInv
  <2>3. u.ints \cap CmdInts # {} =>
          /\ u.line = None
          /\ u.cmd = None =>
               /\ u.pending_reset
               /\ \E m \in Mrqs : Dirty(u, m) /\ m \notin u.cmd_done
    <3>1. \A m \in Mrqs : Dirty(s, m) /\ m \notin s.cmd_done =>
                            Dirty(u, m) /\ m \notin u.cmd_done
      BY <1>9, <1>10, Owners
    <3> QED BY <1>7, <3>1 DEF Good, LineInv
  <2>4. u.ints \cap DataInts # {} =>
          /\ u.dat = None
          /\ u.data_cmd = None => \E m \in Mrqs : Dirty(u, m)
    <3>1. \A m \in Mrqs : Dirty(s, m) => Dirty(u, m)
      BY <1>10, Owners
    <3> QED BY <1>7, <3>1 DEF Good, LineInv
  <2> QED BY <2>1, <2>2, <2>3, <2>4 DEF LineInv
<1>18. ResultInv(u, p, NoMrq)
  <2>1. \A c \in u.carried : c[1] \in p
    BY <1>5, <1>7 DEF Good, ResultInv
  <2>2. ASSUME NEW m \in p, m \in Waiting(u)
        PROVE  Failed(u, m) \/ AllDone(u, m)
    <3>1. m \in o /\ m # x /\ m \in Mrqs /\ m \in Waiting(s)
      BY <1>7, <2>2 DEF Good, ReqInv
    <3>2. Failed(s, m) \/ AllDone(s, m)
      BY <3>1 DEF Good, ResultInv
    <3> QED BY <1>10, <1>14, <3>1, <3>2
  <2>3. NoMrq \notin p
    BY MrqsAssumption DEF Good, ReqInv
  <2> QED BY <2>1, <2>2, <2>3 DEF ResultInv
<1>19. StepInv(u)
  <2>1. /\ "RESPONSE" \in u.ints /\ u.cmd # None => Rsp(u, u.cmd)
        /\ "DATA_END" \in u.ints /\ u.data_cmd # None => End(u, u.data_cmd)
        /\ u.cmd # None /\ Busy(u, u.cmd) /\ u.data_cmd # u.cmd =>
             End(u, u.cmd)
    BY <1>7, <1>13, Owners DEF Good, StepInv
  <2>2. u.data # NoMrq /\ u.data_early => End(u, u.data_cmd)
    BY <1>7, <1>13, Owners, TransferIs DEF Good, StepInv
  <2>3. ASSUME u.data_cmd # None, u.data_cmd # u.cmd
        PROVE  Rsp(u, u.data_cmd) \/ u.data_cmd \in u.err
    <3>1. PICK c \in Cmds : c = s.data_cmd /\ c[1] # x
      BY <1>7, <2>3, Owners
    <3>2. c = <<c[1], c[2]>>
      BY CmdIs
    <3>3. Rsp(s, c) \/ c \in s.err
      BY <1>7, <2>3, <3>1 DEF Good, StepInv
    <3>4. c \in s.err => c \in u.err
      BY <1>9, <3>1, <3>2
    <3> QED BY <1>7, <1>13, <3>1, <3>3, <3>4
  <2>4. ASSUME NEW c \in {u.cmd, u.data_cmd} \ {None}
        PROVE  /\ c[2] = "cmd" => CountDone(u, c[1])
               /\ c[2] = "stop" =>
                    \/ <<c[1], "cmd">> \in u.err \/ <<c[1], "data">> \in u.err
                    \/ CountDone(u, c[1]) /\ PartDone(u, <<c[1], "cmd">>)
    <3>1. PICK m \in Mrqs : m = c[1] /\ m # x
      BY <1>7, Owners
    <3>2. c \in {s.cmd, s.data_cmd} \ {None}
      BY <1>7
    <3>3. /\ c[2] = "cmd" => CountDone(s, m)
          /\ c[2] = "stop" =>
               \/ <<m, "cmd">> \in s.err \/ <<m, "data">> \in s.err
               \/ CountDone(s, m) /\ PartDone(s, <<m, "cmd">>)
      BY <3>1, <3>2 DEF Good, StepInv
    <3> QED BY <1>9, <1>14, <3>1, <3>3
  <2> QED BY <2>1, <2>2, <2>3, <2>4 DEF StepInv
<1>20. EarlyInv(s) => EarlyInv(u)
  BY <1>4, <1>7 DEF EarlyInv
<1>21. DeadInv(s) => DeadInv(u)
  BY <1>7 DEF DeadInv
<1> QED
  BY <1>7, <1>8, <1>11, <1>15, <1>16, <1>17, <1>18, <1>19, <1>20, <1>21
     DEF Good

(* mmc_request_done() *)
LEMMA MmcRequestDoneKeeps ==
  ASSUME IInv, mmc_request_done
  PROVE  IInv'
<1>1. /\ Good(h, out, completing) /\ EarlyInv(h) /\ DeadInv(h) /\ RestType
      /\ completing # NoMrq
  BY DEF IInv, mmc_request_done
<1>2. PICK u : u = Forget(h, completing)
  OBVIOUS
<1>3. PICK p : p = out \ {completing}
  OBVIOUS
<1>4. Good(u, p, NoMrq) /\ EarlyInv(u) /\ DeadInv(u)
  BY <1>1, <1>2, <1>3, ForgetKeeps
<1>5. h' = u /\ out' = p /\ completing' = NoMrq
  BY <1>2, <1>3 DEF mmc_request_done
<1>6. good' \in MaybeMrq /\ NoMrq \in MaybeMrq
  BY <1>1, Values DEF mmc_request_done, RestType
<1>7. meanwhile' \in 0 .. MaxMeanwhile
  BY <1>1, MaxMeanwhileAssumption DEF mmc_request_done, RestType
<1>8. RestType'
  BY <1>1, <1>3, <1>5, <1>6, <1>7 DEF mmc_request_done, RestType
<1> QED BY <1>4, <1>5, <1>8 DEF IInv

(* The requests out are ongoing transfers, beside which k may run. *)
Beside(s, o, k) ==
  \A n \in o : s.kind[n].cap /\ n \in s.cmd_done /\ k = Plain

(* A request m is to be sent. *)
Enters(s, u, o, p, m, k) ==
  /\ m \in Mrqs /\ k \in KindType /\ m \notin o /\ Legal(k)
  /\ Beside(s, o, k) /\ p = o \cup {m}
  /\ u = [s EXCEPT !.kind = [s.kind EXCEPT ![m] = k]]

(* The host gets a request. *)
LEMMA EnterKeeps ==
  ASSUME NEW s, NEW o, NEW x, NEW m, NEW k, NEW u, NEW p, Good(s, o, x),
         Enters(s, u, o, p, m, k)
  PROVE  /\ Good(u, p, x) /\ Controls(u, s) /\ Driven(u, s)
         /\ u.kind[m] = k /\ u.setup = s.setup /\ u.dead = s.dead
         /\ u.carried = s.carried /\ u.err = s.err
         /\ Active(u, p, x, m) /\ ~Loose(u, m) /\ m \notin u.cmd_done
         /\ Elsewhere(u, s, m)
<1>1. /\ s \in HostRec /\ s.warn = {} /\ o \subseteq Mrqs
      /\ Waiting(s) \subseteq o /\ m \notin Waiting(s)
      /\ m \in Mrqs /\ k \in KindType /\ m \notin o /\ Legal(k)
      /\ Beside(s, o, k) /\ p = o \cup {m}
  BY DEF Good, ReqInv, Enters
<1>2. PICK f \in AllKinds : f = [s.kind EXCEPT ![m] = k]
  BY <1>1 DEF HostRec, AllKinds
<1>3. /\ u \in HostRec /\ u.warn = {} /\ u.setup = s.setup /\ u.dead = s.dead
      /\ u.kind = f /\ u.carried = s.carried /\ u.err = s.err
      /\ u.cmd_done = s.cmd_done
      /\ u.cmd = s.cmd /\ u.data_cmd = s.data_cmd /\ u.data = s.data
      /\ u.data_early = s.data_early /\ u.pending_reset = s.pending_reset
      /\ u.mrqs_done = s.mrqs_done /\ u.line = s.line /\ u.dat = s.dat
      /\ u.ints = s.ints /\ Waiting(u) = Waiting(s)
  <2>1. u = [s EXCEPT !.kind = f]
    BY <1>2 DEF Enters
  <2> QED BY <1>1, <2>1 DEF HostRec, Waiting
<1>4. /\ \A n \in Mrqs : n # m => u.kind[n] = s.kind[n]
      /\ u.kind[m] = k
  <2>1. DOMAIN s.kind = Mrqs
    BY <1>1 DEF HostRec, AllKinds
  <2> QED BY <1>1, <1>2, <1>3, <2>1
<1>5. Elsewhere(u, s, m)
  BY <1>3, <1>4 DEF Elsewhere
<1>6. x # m /\ m \notin s.cmd_done
  BY <1>1, MrqsAssumption DEF Good, ReqInv
<1>7. \A n \in Mrqs : n # m =>
        /\ Failed(u, n) <=> Failed(s, n)
        /\ Dirty(u, n) <=> Dirty(s, n)
        /\ Active(s, o, x, n) => Active(u, p, x, n)
  <2>1. \A n \in Mrqs : Failed(u, n) <=> Failed(s, n)
    BY <1>3 DEF Failed
  <2>2. \A n \in Mrqs : n # m => (Dirty(u, n) <=> Dirty(s, n))
    BY <1>3, <1>4 DEF Dirty, sdhci_needs_reset
  <2>3. \A n \in Mrqs : Active(s, o, x, n) => Active(u, p, x, n)
    BY <1>1, <1>3 DEF Active
  <2> QED BY <2>1, <2>2, <2>3
<1>8. ReqInv(u, p, x)
  <2>1. ASSUME NEW n \in o
        PROVE  Pair(u, n, m)
    BY <1>1, <1>3, <1>4, <2>1 DEF Pair, Beside
  <2>2. ASSUME NEW n \in o, NEW l \in o
        PROVE  n = l \/ Pair(u, n, l) \/ Pair(u, l, n)
    BY <1>1, <1>3, <1>4 DEF Good, ReqInv, Pair
  <2>3. \A n, l \in p : n = l \/ Pair(u, n, l) \/ Pair(u, l, n)
    BY <1>1, <2>1, <2>2
  <2>4. /\ \A n \in u.cmd_done : n \in p /\ u.kind[n].cap
        /\ \A n \in p : Legal(u.kind[n])
    BY <1>1, <1>3, <1>4 DEF Good, ReqInv
  <2> QED BY <1>1, <1>3, <2>3, <2>4 DEF Good, ReqInv
<1>9. \A c \in Cmds : c[1] # m =>
        /\ HasData(u, c) <=> HasData(s, c)
        /\ Busy(u, c) <=> Busy(s, c)
        /\ sdhci_data_line_cmd(u, c) <=> sdhci_data_line_cmd(s, c)
        /\ Rsp(u, c) <=> Rsp(s, c)
        /\ End(u, c) <=> End(s, c)
  BY <1>5, OtherReads
<1>10. \A n \in Mrqs : n # m =>
         /\ PartDone(u, <<n, "cmd">>) <=> PartDone(s, <<n, "cmd">>)
         /\ CountDone(u, n) <=> CountDone(s, n)
         /\ AllDone(u, n) <=> AllDone(s, n)
  BY <1>5, OtherReads
<1>11. CmdInv(u, p, x)
  <2>1. SUFFICES ASSUME s.cmd # None PROVE CmdInv(u, p, x)
    BY <1>3 DEF CmdInv
  <2>2. PICK n \in Mrqs : n = s.cmd[1] /\ n # m
    BY <1>1, <2>1, Owners
  <2>3. Active(u, p, x, n) /\ u.kind[n] = s.kind[n]
    BY <1>4, <1>7, <2>1, <2>2 DEF Good, CmdInv
  <2> QED BY <1>3, <2>1, <2>2, <2>3 DEF Good, CmdInv
<1>12. DataInv(u, p, x)
  <2>1. CASE s.data_cmd = None
    BY <1>3, <2>1, TransferIs DEF DataInv
  <2>2. CASE s.data_cmd # None
    <3>1. PICK c \in Cmds : c = s.data_cmd /\ c[1] # m /\ c[1] \in Mrqs
      BY <1>1, <2>2, Owners
    <3>2. Active(u, p, x, c[1]) /\ u.kind[c[1]] = s.kind[c[1]]
      BY <1>4, <1>7, <2>2, <3>1 DEF Good, DataInv
    <3>3. s.data # NoMrq => s.data = c[1]
      BY <3>1, TransferIs
    <3> QED BY <1>3, <1>9, <2>2, <3>1, <3>2, <3>3 DEF Good, DataInv
  <2> QED BY <2>1, <2>2
<1>13. LineInv(u)
  <2>1. u.line # None /\ u.line # u.cmd =>
          u.pending_reset /\ Dirty(u, u.line[1]) /\ u.line[1] \notin u.cmd_done
    BY <1>1, <1>3, <1>7, Owners DEF Good, LineInv
  <2>2. /\ u.dat # None => sdhci_data_line_cmd(u, u.dat)
        /\ u.dat # None /\ u.dat # u.data_cmd => Dirty(u, u.dat[1])
    BY <1>1, <1>3, <1>7, <1>9, Owners DEF Good, LineInv
  <2>3. \A n \in Mrqs : Dirty(s, n) => Dirty(u, n)
    BY <1>1, <1>7, Owners
  <2>4. u.ints \cap CmdInts # {} =>
          /\ u.line = None
          /\ u.cmd = None =>
               /\ u.pending_reset
               /\ \E n \in Mrqs : Dirty(u, n) /\ n \notin u.cmd_done
    BY <1>3, <2>3 DEF Good, LineInv
  <2>5. u.ints \cap DataInts # {} =>
          /\ u.dat = None
          /\ u.data_cmd = None => \E n \in Mrqs : Dirty(u, n)
    BY <1>3, <2>3 DEF Good, LineInv
  <2> QED BY <2>1, <2>2, <2>4, <2>5 DEF LineInv
<1>14. ResultInv(u, p, x)
  <2>1. \A c \in u.carried : c[1] \in p
    BY <1>1, <1>3 DEF Good, ResultInv
  <2>2. ASSUME NEW n \in p, n = x \/ n \in Waiting(u)
        PROVE  Failed(u, n) \/ AllDone(u, n)
    <3>1. n \in o /\ n # m /\ n \in Mrqs
      BY <1>1, <1>3, <1>6, <2>2
    <3>2. Failed(s, n) \/ AllDone(s, n)
      BY <1>3, <2>2, <3>1 DEF Good, ResultInv
    <3> QED BY <1>7, <1>10, <3>1, <3>2
  <2> QED BY <2>1, <2>2 DEF ResultInv
<1>15. StepInv(u)
  <2>1. /\ "RESPONSE" \in u.ints /\ u.cmd # None => Rsp(u, u.cmd)
        /\ "DATA_END" \in u.ints /\ u.data_cmd # None => End(u, u.data_cmd)
        /\ u.cmd # None /\ Busy(u, u.cmd) /\ u.data_cmd # u.cmd =>
             End(u, u.cmd)
        /\ u.data_cmd # None /\ u.data_cmd # u.cmd =>
             Rsp(u, u.data_cmd) \/ u.data_cmd \in u.err
    BY <1>1, <1>3, <1>9, Owners DEF Good, StepInv
  <2>2. u.data # NoMrq /\ u.data_early => End(u, u.data_cmd)
    BY <1>1, <1>3, <1>9, Owners, TransferIs DEF Good, StepInv
  <2>3. ASSUME NEW c \in {u.cmd, u.data_cmd} \ {None}
        PROVE  /\ c[2] = "cmd" => CountDone(u, c[1])
               /\ c[2] = "stop" =>
                    \/ <<c[1], "cmd">> \in u.err \/ <<c[1], "data">> \in u.err
                    \/ CountDone(u, c[1]) /\ PartDone(u, <<c[1], "cmd">>)
    <3>1. PICK n \in Mrqs : n = c[1] /\ n # m
      BY <1>1, <1>3, Owners
    <3>2. c \in {s.cmd, s.data_cmd} \ {None}
      BY <1>3
    <3>3. /\ c[2] = "cmd" => CountDone(s, n)
          /\ c[2] = "stop" =>
               \/ <<n, "cmd">> \in s.err \/ <<n, "data">> \in s.err
               \/ CountDone(s, n) /\ PartDone(s, <<n, "cmd">>)
      BY <3>1, <3>2 DEF Good, StepInv
    <3> QED BY <1>3, <1>10, <3>1, <3>3
  <2> QED BY <2>1, <2>2, <2>3 DEF StepInv
<1>16. ~Loose(u, m)
  BY <1>1, <1>3, Owners DEF Loose
<1>17. Active(u, p, x, m)
  BY <1>1, <1>3, <1>6 DEF Active
<1>18. Controls(u, s) /\ Driven(u, s)
  BY <1>3 DEF Controls, Driven
<1> QED
  BY <1>3, <1>4, <1>5, <1>6, <1>8, <1>11, <1>12, <1>13, <1>14, <1>15, <1>16,
     <1>17, <1>18 DEF Good

(* The lines are free when the core starts a request. *)
LEMMA LinesFree ==
  ASSUME NEW s, NEW o, NEW x, Good(s, o, x),
         \A n \in o : s.kind[n].cap /\ n \in s.cmd_done
  PROVE  /\ s.cmd = None /\ s.line = None /\ s.ints \cap CmdInts = {}
         /\ EarlyInv(s) => ~(s.data # NoMrq /\ s.data_early)
         /\ o = {} => /\ s.data_cmd = None /\ s.dat = None /\ s.data = NoMrq
                      /\ s.ints \cap DataInts = {}
<1>1. s.cmd = None
  BY DEF Good, CmdInv, Active
<1>2. s.line = None
  BY <1>1, Owners DEF Good, LineInv
<1>3. s.ints \cap CmdInts = {}
  BY <1>1, Owners DEF Good, LineInv
<1>4. EarlyInv(s) => ~(s.data # NoMrq /\ s.data_early)
  BY Owners DEF EarlyInv
<1>5. o = {} => s.data_cmd = None /\ s.dat = None /\ s.data = NoMrq
  BY Owners
<1>6. o = {} => s.ints \cap DataInts = {}
  BY <1>5, Owners DEF Good, LineInv
<1> QED BY <1>1, <1>2, <1>3, <1>4, <1>5, <1>6

(* sdhci_request() *)
LEMMA RequestKeeps ==
  ASSUME IInv, NEW m \in Mrqs, NEW k \in Kinds[m], NEW present \in BOOLEAN,
         sdhci_request(m, k, present)
  PROVE  /\ IInv'
         /\ h'.carried = h.carried /\ m \notin out /\ Elsewhere(h', h, m)
<1>1. /\ Good(h, out, completing) /\ EarlyInv(h) /\ DeadInv(h) /\ h \in HostRec
      /\ RestType /\ m \notin out
      /\ \A n \in out : h.kind[n].cap /\ n \in h.cmd_done /\ k = Plain
  BY DEF IInv, Good, sdhci_request, MayStart
<1>2. PICK a \in BOOLEAN : a <=> ("cmd12" \in h.setup.auto /\ ~k.sbc /\ ~k.cap)
  OBVIOUS
<1>3. k \in KindType /\ Legal(k)
  <2>1. Kinds \in [Mrqs -> SUBSET KindType] /\ DOMAIN Kinds = Mrqs
    BY KindsAssumption
  <2>2. Kinds[m] \in Range(Kinds)
    BY <2>1 DEF Range
  <2>3. k \in UNION Range(Kinds)
    BY <2>2
  <2> QED BY <2>1, <2>3, KindsAssumption DEF Legal
<1>4. PICK k2 : k2 = [k EXCEPT !.stop = @ /\ ~a, !.stopbusy = @ /\ ~a]
  OBVIOUS
<1>5. /\ k2 \in KindType /\ k2.sbc = k.sbc /\ k2.data = k.data
      /\ k2.cap = k.cap /\ k2.busy = k.busy
      /\ k2.stop => k.stop
      /\ k2.stop \in BOOLEAN /\ k2.stopbusy \in BOOLEAN
      /\ k2.stopbusy => k.stopbusy
  BY <1>2, <1>3, <1>4 DEF KindType
<1>6. Legal(k2)
  BY <1>3, <1>5 DEF Legal
<1>7. k = Plain => k2 = Plain
  <2>1. SUFFICES ASSUME k = Plain PROVE k2 = Plain
    OBVIOUS
  <2>2. k.stop = FALSE /\ k.stopbusy = FALSE
    BY <2>1 DEF Plain
  <2>3. k2.stop = FALSE /\ k2.stopbusy = FALSE
    BY <1>5, <2>2
  <2> QED BY <1>5, <2>1, <2>3 DEF Plain, KindType
<1>8. PICK s : s = [h EXCEPT !.kind = [h.kind EXCEPT ![m] = k2]]
  OBVIOUS
<1>9. PICK p : p = out \cup {m}
  OBVIOUS
<1>10. /\ Good(s, p, completing) /\ Controls(s, h) /\ Driven(s, h)
       /\ s.kind[m] = k2 /\ s.setup = h.setup /\ s.dead = h.dead
       /\ s.carried = h.carried /\ s.err = h.err
       /\ Active(s, p, completing, m) /\ ~Loose(s, m) /\ m \notin s.cmd_done
       /\ Elsewhere(s, h, m) /\ s \in HostRec
  <2>1. Beside(h, out, k2)
    BY <1>1, <1>7 DEF Beside
  <2>2. Enters(h, s, out, p, m, k2)
    BY <1>1, <1>5, <1>6, <1>8, <1>9, <2>1 DEF Enters
  <2>3. /\ Good(s, p, completing) /\ Controls(s, h) /\ Driven(s, h)
        /\ s.kind[m] = k2 /\ s.setup = h.setup /\ s.dead = h.dead
        /\ s.carried = h.carried /\ s.err = h.err
        /\ Active(s, p, completing, m) /\ ~Loose(s, m) /\ m \notin s.cmd_done
        /\ Elsewhere(s, h, m)
    BY <1>1, <2>2, EnterKeeps
  <2> QED BY <2>3 DEF Good
<1>11. /\ h.cmd = None /\ h.line = None /\ h.ints \cap CmdInts = {}
       /\ ~(h.data # NoMrq /\ h.data_early)
       /\ out = {} => /\ h.data_cmd = None /\ h.dat = None /\ h.data = NoMrq
                      /\ h.ints \cap DataInts = {}
  BY <1>1, LinesFree
<1>12. /\ s.cmd = None /\ s.line = None /\ s.ints = h.ints
       /\ s.data_cmd = h.data_cmd /\ s.dat = h.dat /\ s.data = h.data
       /\ s.data_early = h.data_early
  BY <1>10, <1>11 DEF Controls, Driven
<1>13. k2 # Plain => out = {}
  BY <1>1, <1>7
<1>14. EarlyInv(s) /\ DeadInv(s)
  BY <1>1, <1>10, <1>11, <1>12 DEF EarlyInv, DeadInv
<1>15. s.data_cmd # None => s.data_cmd[1] # m
  BY <1>1, <1>12, Owners
<1>16. ASSUME NEW r \in {"sbc", "cmd"}, r = "sbc" => k.sbc,
              r = "cmd" => ~(k.sbc /\ "cmd23" \notin h.setup.auto), ~h.dead,
              NEW u, u = sdhci_send_command(s, <<m, r>>)
       PROVE  /\ Good(u, p, completing) /\ EarlyInv(u) /\ DeadInv(u)
              /\ Frame(u, s)
  <2>1. PICK c \in Cmds : c = <<m, r>> /\ c[1] = m /\ c[2] = r
    BY IsCmd
  <2>2. sdhci_data_line_cmd(s, c) => out = {}
    <3>1. sdhci_data_line_cmd(s, c) => k2 # Plain
      BY <1>10, <2>1 DEF sdhci_data_line_cmd, HasData, Busy, Plain
    <3> QED BY <1>13, <3>1
  <2>3. sdhci_data_line_cmd(s, c) =>
          /\ s.data_cmd = None /\ s.data = NoMrq /\ s.dat = None
          /\ s.ints \cap DataInts = {}
    BY <1>11, <1>12, <2>2
  <2>4. u = sdhci_send_command(s, c)
    BY <1>16, <2>1
  <2>5. Snd(s, u, c)
    BY <1>10, <1>12, <2>3, <2>4, SendIs
  <2>6. c[2] = "sbc" => s.kind[m].data /\ s.data_cmd = None
    <3>1. SUFFICES ASSUME r = "sbc"
                   PROVE  s.kind[m].data /\ s.data_cmd = None
      BY <2>1
    <3>2. k2.sbc /\ k2.data
      BY <1>5, <1>6, <1>16, <3>1 DEF Legal
    <3>3. out = {}
      BY <1>13, <3>2 DEF Plain
    <3> QED BY <1>10, <1>11, <1>12, <3>2, <3>3
  <2>7. c[2] = "cmd" => CountDone(s, m)
    BY <1>5, <1>10, <1>16, <2>1 DEF CountDone, CountSent
  <2>8. c[2] # "stop" /\ s.ints \cap CmdInts = {}
    BY <1>11, <1>12, <2>1
  <2>9. Good(u, p, completing)
    BY <1>10, <1>12, <1>15, <2>1, <2>3, <2>5, <2>6, <2>7, <2>8, SndKeeps
  <2>10. Frame(u, s) /\ ~u.dead
    BY <1>10, <1>16, <2>5 DEF Snd, Frame
  <2>11. EarlyInv(u)
    <3>1. CASE HasData(s, c)
      BY <2>5, <3>1 DEF Snd, EarlyInv
    <3>2. CASE ~HasData(s, c)
      BY <1>11, <1>12, <2>5, <3>2 DEF Snd, EarlyInv
    <3> QED BY <3>1, <3>2
  <2> QED BY <2>9, <2>10, <2>11 DEF DeadInv
<1>17. PICK u : u = h'
  OBVIOUS
<1>18. Good(u, p, completing) /\ EarlyInv(u) /\ DeadInv(u) /\ Frame(u, s)
  <2>1. s = [h EXCEPT !.kind[m] =
               [k EXCEPT !.stop = @ /\ ~("cmd12" \in h.setup.auto
                                         /\ ~k.sbc /\ ~k.cap),
                         !.stopbusy = @ /\ ~("cmd12" \in h.setup.auto
                                             /\ ~k.sbc /\ ~k.cap)]]
    BY <1>2, <1>4, <1>8
  <2>2. CASE ~present \/ h.dead
    <3>1. PICK c \in Cmds : c = <<m, "cmd">> /\ c[1] = m
      BY IsCmd
    <3>2. u = sdhci_finish_mrq([s EXCEPT !.err = @ \cup {c}], c[1])
      BY <1>17, <2>1, <2>2, <3>1 DEF sdhci_request
    <3> QED BY <1>10, <1>14, <3>1, <3>2, CmdFails
  <2>3. CASE present /\ ~h.dead /\ k.sbc /\ "cmd23" \notin h.setup.auto
    <3>1. u = sdhci_send_command(s, <<m, "sbc">>)
      BY <1>17, <2>1, <2>3 DEF sdhci_request
    <3> QED BY <1>16, <2>3, <3>1
  <2>4. CASE present /\ ~h.dead /\ ~(k.sbc /\ "cmd23" \notin h.setup.auto)
    <3>1. u = sdhci_send_command(s, <<m, "cmd">>)
      BY <1>17, <2>1, <2>4 DEF sdhci_request
    <3> QED BY <1>16, <2>4, <3>1
  <2> QED BY <2>2, <2>3, <2>4
<1>19. RestType'
  <2>1. meanwhile' \in 0 .. MaxMeanwhile
    BY <1>1, MaxMeanwhileAssumption DEF sdhci_request, MayStart, RestType
  <2>2. /\ out' \subseteq Mrqs /\ good' \in MaybeMrq
    BY <1>1, Values DEF sdhci_request, RestType
  <2> QED BY <1>1, <2>1, <2>2 DEF sdhci_request, RestType
<1>20. out' = p /\ completing' = completing
  BY <1>9 DEF sdhci_request
<1>21. u.carried = h.carried /\ Elsewhere(u, h, m)
  BY <1>10, <1>18 DEF Frame, Elsewhere
<1> QED BY <1>1, <1>17, <1>18, <1>19, <1>20, <1>21 DEF IInv

-----------------------------------------------------------------------------
(* The theorems.                                                           *)

(* At first the host has nothing to do. *)
LEMMA InitHolds == Init => IInv
<1> SUFFICES ASSUME Init PROVE IInv
  OBVIOUS
<1>1. /\ out = {} /\ completing = NoMrq /\ good = NoMrq
      /\ task = FALSE /\ firing = {} /\ card = TRUE /\ gone = FALSE
      /\ meanwhile = 0
  BY DEF Init
<1>2. /\ h.kind = [m \in Mrqs |-> Plain] /\ h.setup \in Setups
      /\ h.dead = FALSE /\ h.cmd = None /\ h.data_cmd = None
      /\ h.data = NoMrq /\ h.data_early = FALSE /\ h.pending_reset = FALSE
      /\ h.mrqs_done = [i \in Slots |-> NoMrq] /\ h.tasklet = FALSE
      /\ h.timers = {} /\ h.thread_isr = FALSE /\ h.cmd_done = {}
      /\ h.err = {} /\ h.line = None /\ h.dat = None /\ h.hung = {}
      /\ h.ints = {} /\ h.carried = {} /\ h.warn = {}
      /\ h = [kind |-> h.kind, setup |-> h.setup, dead |-> h.dead,
              cmd |-> h.cmd, data_cmd |-> h.data_cmd, data |-> h.data,
              data_early |-> h.data_early, pending_reset |-> h.pending_reset,
              mrqs_done |-> h.mrqs_done, tasklet |-> h.tasklet,
              timers |-> h.timers, thread_isr |-> h.thread_isr,
              cmd_done |-> h.cmd_done, err |-> h.err, line |-> h.line,
              dat |-> h.dat, hung |-> h.hung, ints |-> h.ints,
              carried |-> h.carried, warn |-> h.warn]
  BY DEF Init
<1>3. h.kind \in AllKinds /\ h.mrqs_done \in Done
  BY <1>2, Values DEF AllKinds, Done
<1>4. h \in HostRec
  BY <1>2, <1>3, Values DEF HostRec
<1>5. RestType
  <2>1. meanwhile \in 0 .. MaxMeanwhile
    BY <1>1, MaxMeanwhileAssumption
  <2>2. /\ out \subseteq Mrqs /\ completing \in MaybeMrq
        /\ good \in MaybeMrq /\ firing \in TimerSets
    BY <1>1, Values
  <2> QED BY <1>1, <2>1, <2>2 DEF RestType
<1>6. h.mrqs_done[1] = NoMrq /\ h.mrqs_done[2] = NoMrq /\ Waiting(h) = {}
  BY <1>2 DEF Slots, Waiting
<1>7. ReqInv(h, out, completing)
  BY <1>1, <1>2, <1>6 DEF ReqInv
<1>8. CmdInv(h, out, completing) /\ DataInv(h, out, completing)
  BY <1>2 DEF CmdInv, DataInv
<1>9. LineInv(h) /\ EarlyInv(h) /\ DeadInv(h)
  BY <1>2 DEF LineInv, EarlyInv, DeadInv
<1>10. ResultInv(h, out, completing) /\ StepInv(h)
  BY <1>1, <1>2 DEF ResultInv, StepInv
<1> QED BY <1>2, <1>4, <1>5, <1>7, <1>8, <1>9, <1>10 DEF IInv, Good

(* Every step keeps the invariant. *)
LEMMA NextHolds == IInv /\ [Next]_vars => IInv'
<1> SUFFICES ASSUME IInv, [Next]_vars PROVE IInv'
  OBVIOUS
<1>1. CASE UNCHANGED vars
  <2>1. /\ h' = h /\ out' = out /\ completing' = completing /\ good' = good
        /\ task' = task /\ firing' = firing /\ card' = card /\ gone' = gone
        /\ meanwhile' = meanwhile
    BY <1>1 DEF vars
  <2>2. RestType'
    BY <2>1 DEF IInv, RestType
  <2>3. Good(h, out, completing)' /\ EarlyInv(h)' /\ DeadInv(h)'
    BY <2>1 DEF IInv
  <2> QED BY <2>2, <2>3 DEF IInv
<1>2. CASE \E m \in Mrqs : \E k \in Kinds[m], present \in BOOLEAN :
             sdhci_request(m, k, present)
  BY <1>2, RequestKeeps
<1>3. CASE Environment
  BY <1>3, RespondKeeps, DataPhaseKeeps, SmallSteps DEF Environment
<1>4. CASE sdhci_tasklet_finish
  BY <1>4, SmallSteps, RequestDoneKeeps, MmcRequestDoneKeeps
     DEF sdhci_tasklet_finish
<1>5. CASE Driver
  BY <1>4, <1>5, IrqKeeps, SmallSteps, CardEventKeeps, TimerKeeps,
     DataTimerKeeps DEF Driver
<1>6. CASE sdhci_remove_host
  BY <1>6, RemoveHostKeeps
<1> QED BY <1>1, <1>2, <1>3, <1>5, <1>6 DEF Next

(* The invariant holds in every state that the host can reach. *)
THEOREM Invariance == Spec => []IInv
BY InitHolds, NextHolds, PTL DEF Spec

(* Every variable keeps its type, in every host and with any faults: the   *)
(* struct sdhci_host always refers to commands of requests of the core.    *)
THEOREM TypeCorrect == Spec => []TypeOK
<1>1. IInv => TypeOK
  BY TypeParts DEF IInv, Good
<1> QED BY <1>1, Invariance, PTL

(* Late interrupts, expired timers, card removal and the loss of the       *)
(* controller included, the host never refers to a request that was given  *)
(* back, and no request that was finished is worked on.                    *)
THEOREM LiveRequestsOnly == Spec => []OnlyLiveRequests
<1>1. IInv => OnlyLiveRequests
  <2> SUFFICES ASSUME IInv PROVE OnlyLiveRequests
    OBVIOUS
  <2> DEFINE used == {c[1] : c \in {h.cmd, h.data_cmd, h.line, h.dat} \ {None}}
  <2> DEFINE waiting == Range(h.mrqs_done) \ {NoMrq}
  <2>1. h \in HostRec /\ Good(h, out, completing)
    BY DEF IInv, Good
  <2>2. waiting = Waiting(h)
    <3>1. h.mrqs_done \in [{1, 2} -> MaybeMrq]
      <4>1. h.mrqs_done \in Done
        BY <2>1 DEF HostRec
      <4> QED BY <4>1 DEF Done, Slots
    <3>2. DOMAIN h.mrqs_done = {1, 2}
      BY <3>1
    <3> QED BY <3>2 DEF Waiting, Range
  <2>3. /\ h.cmd # None => h.cmd[1] \in out /\ h.cmd[1] \notin Waiting(h)
        /\ h.data_cmd # None =>
             h.data_cmd[1] \in out /\ h.data_cmd[1] \notin Waiting(h)
    BY <2>1 DEF Good, CmdInv, DataInv, Active
  <2>4. /\ h.line # None => h.line[1] \in out
        /\ h.dat # None => h.dat[1] \in out
        /\ h.data # NoMrq => h.data \in out
    BY <2>1, Owners
  <2>5. used \subseteq out
    BY <2>3, <2>4
  <2>6. {h.data, completing} \ {NoMrq} \subseteq out
    BY <2>1, <2>4 DEF Good, ReqInv
  <2>7. Waiting(h) \subseteq out /\ completing \notin Waiting(h)
    BY <2>1, Fields DEF Good, ReqInv
  <2>8. {c[1] : c \in {h.cmd, h.data_cmd} \ {None}} \cap waiting = {}
    BY <2>2, <2>3
  <2> QED BY <2>2, <2>5, <2>6, <2>7, <2>8 DEF OnlyLiveRequests
<1> QED BY <1>1, Invariance, PTL

(* No warning of the request path is ever printed: the lines are free when *)
(* sdhci_send_command() sends, the two slots of mrqs_done suffice, and     *)
(* sdhci_finish_mrq() never finds its request finished.                    *)
THEOREM WarningNever == Spec => []NoWarning
<1>1. IInv => NoWarning
  BY DEF IInv, Good, NoWarning
<1> QED BY <1>1, Invariance, PTL

(* A command interrupt without a command is the rest of a failed request   *)
(* whose reset is still to come: sdhci_cmd_irq() never takes the branch    *)
(* that dumps the registers.                                               *)
THEOREM StrayInterruptNever == Spec => []NoStrayInterrupt
<1>1. IInv => NoStrayInterrupt
  BY DEF IInv, Good, LineInv, NoStrayInterrupt
<1> QED BY <1>1, Invariance, PTL

-----------------------------------------------------------------------------
(* The host does what the core expects.                                    *)

(* MmcHost without its fairness. *)
HostSafe == Host!Init /\ [][Host!Next]_(Host!vars)

(* The requests the card has carried out. *)
DoneSet == {m \in out : CarriedOut(m)}

(* CarriedOut spelled out for the three commands of a request. *)
LEMMA CarriedIs ==
  ASSUME NEW m
  PROVE  /\ CarriedOut(m) <=> AllDone(h, m)
         /\ CarriedOut(m)' <=> AllDone(h', m)
<1>1. /\ Sent(h.kind[m], "cmd")
      /\ Sent(h.kind[m], "sbc") <=> CountSent(h, m)
      /\ Sent(h.kind[m], "stop") <=> StopSent(h, m)
  BY DEF Sent, CountSent, StopSent
<1>2. /\ Sent(h.kind[m], "cmd")'
      /\ Sent(h.kind[m], "sbc")' <=> CountSent(h', m)
      /\ Sent(h.kind[m], "stop")' <=> StopSent(h', m)
  BY DEF Sent, CountSent, StopSent
<1>3. \A s : ~sdhci_data_line_cmd(s, <<m, "sbc">>)
  BY DEF sdhci_data_line_cmd, HasData, Busy
<1>4. \A s, r : PartDone(s, <<m, r>>) <=>
        /\ <<m, r, "rsp">> \in s.carried
        /\ sdhci_data_line_cmd(s, <<m, r>>) => <<m, r, "end">> \in s.carried
  BY DEF PartDone, Rsp, End
<1>5. \A s : CountDone(s, m) <=> (CountSent(s, m) => PartDone(s, <<m, "sbc">>))
  BY <1>3 DEF CountDone, PartDone
<1>6. CarriedOut(m) <=>
        \A r \in Roles : Sent(h.kind[m], r) => PartDone(h, <<m, r>>)
  BY <1>4 DEF CarriedOut
<1>7. CarriedOut(m)' <=>
        \A r \in Roles : Sent(h.kind[m], r)' => PartDone(h', <<m, r>>)
  BY <1>4 DEF CarriedOut
<1>8. CarriedOut(m) <=> AllDone(h, m)
  BY <1>1, <1>5, <1>6 DEF AllDone, Roles
<1>9. CarriedOut(m)' <=> AllDone(h', m)
  BY <1>2, <1>5, <1>7 DEF AllDone, Roles
<1> QED BY <1>8, <1>9

(* The same for all requests. *)
LEMMA DoneSets ==
  /\ DoneSet = {m \in out : AllDone(h, m)}
  /\ DoneSet' = {m \in out' : AllDone(h', m)}
<1>1. DoneSet' = {m \in out' : CarriedOut(m)'}
  BY DEF DoneSet
<1> QED BY <1>1, CarriedIs DEF DoneSet

(* A handler of the host is not seen by the core. *)
LEMMA HandlerRefines ==
  ASSUME Known(h', h), UNCHANGED <<out, good>>
  PROVE  UNCHANGED Host!vars
<1>1. PICK u, s : u = h' /\ s = h
  OBVIOUS
<1>2. \A m : AllDone(u, m) <=> AllDone(s, m)
  <2>1. /\ u.kind = s.kind /\ u.setup = s.setup
        /\ s.carried \subseteq u.carried /\ u.carried \subseteq s.carried
    BY <1>1 DEF Known
  <2>2. \A m : AllDone(s, m) => AllDone(u, m)
    BY <2>1, CarryReads
  <2>3. \A m : AllDone(u, m) => AllDone(s, m)
    BY <2>1, CarryReads
  <2> QED BY <2>2, <2>3
<1>3. DoneSet' = DoneSet
  BY <1>1, <1>2, DoneSets
<1> QED BY <1>3 DEF DoneSet, Host!vars

(* What the card does carries out one request, or is only a part of it. *)
LEMMA CardRefines ==
  ASSUME IInv, UNCHANGED <<out, good>>, NEW m \in out, Progress(h', h, m)
  PROVE  [Host!Next]_(Host!vars)
<1>1. PICK u, s : u = h' /\ s = h
  OBVIOUS
<1>2. Progress(u, s, m) /\ Elsewhere(u, s, m) /\ out \subseteq Mrqs
  BY <1>1 DEF Progress, IInv, RestType
<1>3. \A n \in Mrqs : n # m => (AllDone(u, n) <=> AllDone(s, n))
  BY <1>2, OtherReads
<1>4. AllDone(s, m) => AllDone(u, m)
  BY <1>2, CarryReads DEF Progress
<1>5. /\ DoneSet = {n \in out : AllDone(s, n)}
      /\ DoneSet' = {n \in out : AllDone(u, n)}
  BY <1>1, DoneSets
<1>6. DoneSet' = DoneSet \/ (m \notin DoneSet /\ DoneSet' = DoneSet \cup {m})
  BY <1>2, <1>3, <1>4, <1>5
<1>7. CASE DoneSet' = DoneSet
  BY <1>7 DEF DoneSet, Host!vars
<1>8. CASE m \notin DoneSet /\ DoneSet' = DoneSet \cup {m}
  <2>1. Host!Carry(m)
    BY <1>8 DEF DoneSet, Host!Carry
  <2>2. m \in Mrqs
    BY <1>2
  <2> QED BY <2>1, <2>2 DEF Host!Next
<1> QED BY <1>6, <1>7, <1>8

(* A request that the core starts is new to the card. *)
LEMMA RequestRefines ==
  ASSUME IInv, NEW m \in Mrqs, NEW k \in Kinds[m], NEW present \in BOOLEAN,
         sdhci_request(m, k, present)
  PROVE  Host!request(m)
<1>1. PICK u, s : u = h' /\ s = h
  OBVIOUS
<1>2. /\ u.carried = s.carried /\ m \notin out /\ Elsewhere(u, s, m)
  BY <1>1, RequestKeeps
<1>3. out' = out \cup {m} /\ good' = NoMrq /\ out \subseteq Mrqs
  BY DEF sdhci_request, IInv, RestType
<1>4. \A n \in Mrqs : n # m => (AllDone(u, n) <=> AllDone(s, n))
  BY <1>2, OtherReads
<1>5. ~AllDone(u, m)
  <2>1. \A c \in s.carried : c[1] \in out
    BY <1>1 DEF IInv, Good, ResultInv
  <2>2. <<m, "cmd", "rsp">> \notin u.carried
    BY <1>2, <2>1
  <2> QED BY <2>2 DEF AllDone, PartDone, Rsp
<1>6. /\ DoneSet = {n \in out : AllDone(s, n)}
      /\ DoneSet' = {n \in out \cup {m} : AllDone(u, n)}
  BY <1>1, <1>3, DoneSets
<1>7. DoneSet' = DoneSet
  BY <1>2, <1>3, <1>4, <1>5, <1>6
<1> QED BY <1>2, <1>3, <1>7 DEF DoneSet, Host!request

(* A request comes back as a success only if the card carried it out. *)
LEMMA DoneRefines ==
  ASSUME IInv, mmc_request_done
  PROVE  [Host!Next]_(Host!vars)
<1>1. PICK u, s, x : u = h' /\ s = h /\ x = completing
  OBVIOUS
<1>2. /\ Good(s, out, x) /\ x # NoMrq /\ x \in out /\ x \in Mrqs
      /\ out \subseteq Mrqs
  BY <1>1 DEF IInv, RestType, Good, ReqInv, mmc_request_done
<1>3. /\ out' = out \ {x} /\ u = Forget(s, x)
      /\ good' = IF Failed(s, x) THEN NoMrq ELSE x
  BY <1>1 DEF mmc_request_done
<1>4. Elsewhere(u, s, x)
  <2>1. /\ s \in HostRec
        /\ \A c \in s.carried : c \in Mrqs \X Roles \X {"rsp", "end"}
    BY <1>2 DEF Good, HostRec, Carried
  <2>2. /\ u.setup = s.setup /\ u.kind = [s.kind EXCEPT ![x] = Plain]
        /\ u.carried = {c \in s.carried : c[1] # x}
    BY <1>3, <2>1 DEF Forget, HostRec
  <2>3. s.kind \in [Mrqs -> KindType]
    BY <2>1 DEF HostRec, AllKinds
  <2>4. \A n \in Mrqs : n # x => u.kind[n] = s.kind[n]
    BY <2>2, <2>3
  <2>5. \A n \in Mrqs : \A r, e : n # x =>
          (<<n, r, e>> \in u.carried <=> <<n, r, e>> \in s.carried)
    BY <2>2
  <2> QED BY <2>2, <2>4, <2>5 DEF Elsewhere
<1>5. \A n \in Mrqs : n # x => (AllDone(u, n) <=> AllDone(s, n))
  BY <1>4, OtherReads
<1>6. /\ DoneSet = {n \in out : AllDone(s, n)}
      /\ DoneSet' = {n \in out \ {x} : AllDone(u, n)}
  BY <1>1, <1>3, DoneSets
<1>7. DoneSet' = DoneSet \ {x}
  BY <1>2, <1>5, <1>6
<1>8. ~Failed(s, x) => x \in DoneSet
  BY <1>2, <1>6 DEF Good, ResultInv
<1>9. PICK ok \in BOOLEAN : ok <=> ~Failed(s, x)
  OBVIOUS
<1>10. Host!mmc_request_done(x, ok)
  <2>1. good' = IF ok THEN x ELSE NoMrq
    BY <1>3, <1>9
  <2>2. ok => x \in DoneSet
    BY <1>8, <1>9
  <2> QED BY <1>2, <1>3, <1>7, <2>1, <2>2 DEF DoneSet, Host!mmc_request_done
<1> QED BY <1>2, <1>10 DEF Host!Next

(* Every step is one that the core expects, or one it does not see. *)
LEMMA NextRefines ==
  ASSUME IInv, [Next]_vars
  PROVE  [Host!Next]_(Host!vars)
<1>1. CASE Known(h', h) /\ UNCHANGED <<out, good>>
  BY <1>1, HandlerRefines
<1>2. CASE UNCHANGED vars
  BY <1>1, <1>2 DEF vars, Known
<1>3. CASE \E m \in Mrqs : \E k \in Kinds[m], present \in BOOLEAN :
             sdhci_request(m, k, present)
  BY <1>3, RequestRefines DEF Host!Next
<1>4. CASE Respond
  BY <1>4, RespondKeeps, CardRefines DEF Respond
<1>5. CASE DataPhase
  BY <1>5, DataPhaseKeeps, CardRefines DEF DataPhase
<1>6. CASE \/ sdhci_thread_irq \/ TaskletRuns \/ Hang \/ CardRemoved
           \/ \E t \in {"timer", "data_timer"} : TimerExpires(t)
  BY <1>1, <1>6, SmallSteps DEF Same, Frame, Known
<1>7. CASE sdhci_irq
  BY <1>1, <1>7, IrqKeeps DEF sdhci_irq
<1>8. CASE sdhci_card_event
  BY <1>1, <1>8, CardEventKeeps DEF sdhci_card_event
<1>9. CASE sdhci_remove_host
  BY <1>1, <1>9, RemoveHostKeeps DEF sdhci_remove_host
<1>10. CASE sdhci_timeout_timer
  BY <1>1, <1>10, TimerKeeps DEF sdhci_timeout_timer
<1>11. CASE sdhci_timeout_data_timer
  BY <1>1, <1>11, DataTimerKeeps DEF sdhci_timeout_data_timer
<1>12. CASE sdhci_request_done
  <2>1. UNCHANGED <<out, good>>
    BY <1>12 DEF sdhci_request_done
  <2>2. Known(h', h)
    BY <1>12, RequestDoneKeeps DEF Frame, Known
  <2> QED BY <1>1, <2>1, <2>2
<1>13. CASE mmc_request_done
  BY <1>13, DoneRefines
<1>14. CASE Driver
  BY <1>6, <1>7, <1>8, <1>10, <1>11, <1>12, <1>13, <1>14
     DEF Driver, sdhci_tasklet_finish
<1>15. CASE Environment
  BY <1>4, <1>5, <1>6, <1>15 DEF Environment
<1> QED BY <1>2, <1>3, <1>9, <1>14, <1>15 DEF Next

(* For any requests, hosts and faults: sdhci_request(), the interrupts,    *)
(* the timers, card removal, the loss of the controller and the tasklet    *)
(* together give a request back only once, and as a success only if the    *)
(* card carried out every command and the data of it.                      *)
THEOREM Refinement == Spec => HostSafe
<1>1. Init => Host!Init
  BY DEF Init, Host!Init
<1>2. IInv /\ [Next]_vars => [Host!Next]_(Host!vars)
  BY NextRefines
<1> QED BY <1>1, <1>2, InitHolds, NextHolds, PTL DEF Spec, HostSafe
=============================================================================
