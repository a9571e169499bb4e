-------------------------- MODULE ModuleLifeProofs --------------------------
(***************************************************************************)
(* Proofs about ModuleLife for any set of users.  What a driver's table    *)
(* must satisfy is stated once (Sound) and shown of the five tables; the   *)
(* rest of the proof is about the kernel that runs a sound table.          *)
(***************************************************************************)
EXTENDS ModuleLife, TLAPS

(* The resources that lines a to b of a list name. *)
Names(list, a, b) == {list[i] : i \in a .. b}

(* The resource that a line of a list names is named by no other line. *)
Distinct(list) == \A i, j \in 1 .. Len(list) : list[i] = list[j] => i = j

(* When line k of init is refused, the label init jumps to is the line of  *)
(* the error path from which exactly what the lines before k obtained is   *)
(* given back.                                                             *)
LabelsMatch(t, leaks) ==
  \A k \in 1 .. Len(t.init) :
    t.init[k] \notin t.unchecked \cup NeverRefused =>
      LET l == t.label[t.init[k]] IN
        /\ l \in 1 .. Len(t.undo) + 1
        /\ Names(t.undo, l, Len(t.undo)) = Names(t.init, 1, k - 1) \ leaks
        /\ Names(t.init, 1, k - 1) \cap t.unchecked = {}

(* Exit gives back what init obtains. *)
ExitMatches(t, leaks) ==
  Names(t.exit, 1, Len(t.exit)) = Names(t.init, 1, Len(t.init)) \ leaks

(* When the last line of init lets users in, the error path does not give  *)
(* its resource back, and by then there is what the file operations need.  *)
EntryLast(t, leaks) ==
  t.init[Len(t.init)] \in t.entry =>
    /\ t.init[Len(t.init)] \notin leaks
    /\ t.init[Len(t.init)] \notin Names(t.undo, 1, Len(t.undo))
    /\ t.uses \subseteq Names(t.init, 1, Len(t.init)) \ t.unchecked

Sound(t, leaks) ==
  /\ Len(t.init) \in 1 .. 6 /\ Len(t.undo) \in 1 .. 6
  /\ Len(t.exit) \in 1 .. 6
  /\ \A i \in 1 .. Len(t.init) : t.init[i] \in Resources
  /\ Distinct(t.init) /\ Distinct(t.undo) /\ Distinct(t.exit)
  /\ LabelsMatch(t, leaks) /\ ExitMatches(t, leaks) /\ EntryLast(t, leaks)

(* While init runs the module holds what it was granted, *)
InitInv ==
  phase = "init" =>
    /\ step \in 1 .. Len(D.init) + 1
    /\ Names(D.init, 1, step - 1) \ D.unchecked \subseteq held
    /\ held \subseteq Names(D.init, 1, step - 1) \cup Unfreed

(* all of it when init has returned, *)
LiveInv ==
  phase = "live" =>
    /\ Names(D.init, 1, Len(D.init)) \ D.unchecked \subseteq held
    /\ held \subseteq Names(D.init, 1, Len(D.init)) \cup Unfreed

(* and on its way out what the rest of the way gives back. *)
UndoInv ==
  phase = "undo" =>
    /\ step \in 1 .. Len(D.undo) + 1
    /\ Names(D.undo, step, Len(D.undo)) \subseteq held
    /\ held \subseteq Names(D.undo, step, Len(D.undo)) \cup Unfreed

ExitInv ==
  phase = "exit" =>
    /\ step \in 1 .. Len(D.exit) + 1
    /\ Names(D.exit, step, Len(D.exit)) \ D.unchecked \subseteq held
    /\ held \subseteq Names(D.exit, step, Len(D.exit)) \cup Unfreed

(* The last thing init does is to let users in. *)
EntersLast == D.init[Len(D.init)] \in D.entry

(* A file of a driver that lets users in last exists only on a module that *)
(* is live or has asked for everything.                                    *)
FilesInv ==
  EntersLast =>
    /\ phase \in {"undo", "exit", "out"} => files = {}
    /\ phase = "init" /\ files # {} => step = Len(D.init) + 1

IInv ==
  /\ TypeOK /\ InitInv /\ LiveInv /\ UndoInv /\ ExitInv /\ NothingLeft
  /\ FilesInv

-----------------------------------------------------------------------------
(* Lines added to and taken from a part of a list. *)
LEMMA NamesFacts ==
  ASSUME NEW list, NEW a \in Nat, NEW b \in Nat
  PROVE  /\ a > b => Names(list, a, b) = {}
         /\ a <= b + 1 =>
              Names(list, a, b + 1) = Names(list, a, b) \cup {list[b + 1]}
         /\ a <= b =>
              Names(list, a, b) = {list[a]} \cup Names(list, a + 1, b)
<1>1. a > b => a .. b = {}
  OBVIOUS
<1>2. a <= b + 1 => a .. (b + 1) = (a .. b) \cup {b + 1}
  OBVIOUS
<1>3. a <= b => a .. b = {a} \cup ((a + 1) .. b)
  OBVIOUS
<1>4. QED
  BY <1>1, <1>2, <1>3 DEF Names

(* The parts of a list of at most six lines. *)
LEMMA ShortList ==
  ASSUME NEW list
  PROVE  /\ Names(list, 1, 0) = {}
         /\ Names(list, 1, 1) = {list[1]}
         /\ Names(list, 1, 2) = {list[1], list[2]}
         /\ Names(list, 1, 3) = {list[1], list[2], list[3]}
         /\ Names(list, 1, 4) = {list[1], list[2], list[3], list[4]}
         /\ Names(list, 1, 5) = {list[1], list[2], list[3], list[4], list[5]}
         /\ Names(list, 1, 6)
              = {list[1], list[2], list[3], list[4], list[5], list[6]}
<1>1. /\ 1 .. 0 = {} /\ 1 .. 1 = {1} /\ 1 .. 2 = {1, 2} /\ 1 .. 3 = {1, 2, 3}
      /\ 1 .. 4 = {1, 2, 3, 4} /\ 1 .. 5 = {1, 2, 3, 4, 5}
      /\ 1 .. 6 = {1, 2, 3, 4, 5, 6}
  OBVIOUS
<1>2. QED
  BY <1>1 DEF Names

(* The table of adc-drv.c is sound. *)
LEMMA Sound_adc == Sound(adc, {})
<1> DEFINE t == adc
<1>1. /\ Len(t.init) = 6 /\ Len(t.undo) = 5 /\ Len(t.exit) = 6
      /\ t.init[1] = "number" /\ t.init[2] = "cdev" /\ t.init[3] = "class"
      /\ t.init[4] = "node" /\ t.init[5] = "region" /\ t.init[6] = "map"
      /\ t.undo[1] = "region" /\ t.undo[2] = "node" /\ t.undo[3] = "class"
      /\ t.undo[4] = "cdev" /\ t.undo[5] = "number"
      /\ t.exit[1] = "map" /\ t.exit[2] = "region" /\ t.exit[3] = "node"
      /\ t.exit[4] = "class" /\ t.exit[5] = "cdev" /\ t.exit[6] = "number"
  BY DEF adc, adc_init, adc_undo, adc_label, adc_exit
<1>2. /\ \A i \in 1 .. 5 : i = 1 \/ i = 2 \/ i = 3 \/ i = 4 \/ i = 5
      /\ \A i \in 1 .. 6 : i = 1 \/ i = 2 \/ i = 3 \/ i = 4 \/ i = 5 \/ i = 6
  OBVIOUS
<1>3. /\ \A i \in 1 .. Len(t.init) : t.init[i] \in Resources
      /\ Distinct(t.init) /\ Distinct(t.undo) /\ Distinct(t.exit)
  BY <1>1, <1>2 DEF Distinct, Resources
<1>4. /\ Names(t.init, 1, 0) = {}
      /\ Names(t.init, 1, 1) = {"number"}
      /\ Names(t.init, 1, 2) = {"number", "cdev"}
      /\ Names(t.init, 1, 3) = {"number", "cdev", "class"}
      /\ Names(t.init, 1, 4) = {"number", "cdev", "class", "node"}
      /\ Names(t.init, 1, 5) = {"number", "cdev", "class", "node", "region"}
      /\ Names(t.init, 1, 6)
           = {"number", "cdev", "class", "node", "region", "map"}
  BY <1>1, ShortList
<1>5. /\ Names(t.undo, 1, 5) = {"region", "node", "class", "cdev", "number"}
      /\ Names(t.undo, 2, 5) = {"node", "class", "cdev", "number"}
      /\ Names(t.undo, 3, 5) = {"class", "cdev", "number"}
      /\ Names(t.undo, 4, 5) = {"cdev", "number"}
      /\ Names(t.undo, 5, 5) = {"number"}
      /\ Names(t.undo, 6, 5) = {}
  BY <1>1 DEF Names
<1>6. Names(t.exit, 1, 6)
        = {"map", "region", "node", "class", "cdev", "number"}
  BY <1>1, ShortList
<1>7. /\ t.unchecked = {} /\ t.entry = {"cdev", "node"} /\ t.uses = {"map"}
      /\ t.label["number"] = 6 /\ t.label["cdev"] = 5 /\ t.label["class"] = 4
      /\ t.label["node"] = 3 /\ t.label["region"] = 2 /\ t.label["map"] = 1
  BY DEF adc, adc_label
<1> HIDE DEF t
<1>8. LabelsMatch(t, {})
  <2> DEFINE Row(l, i) ==
              /\ l \in 1 .. 5 + 1
              /\ Names(t.undo, l, 5) = Names(t.init, 1, i) \ {}
              /\ Names(t.init, 1, i) \cap t.unchecked = {}
  <2>1. Row(6, 0)
    BY <1>4, <1>5, <1>7
  <2>2. Row(5, 1)
    BY <1>4, <1>5, <1>7
  <2>3. Row(4, 2)
    BY <1>4, <1>5, <1>7
  <2>4. Row(3, 3)
    BY <1>4, <1>5, <1>7
  <2>5. Row(2, 4)
    BY <1>4, <1>5, <1>7
  <2>6. Row(1, 5)
    BY <1>4, <1>5, <1>7
  <2> HIDE DEF Row
  <2>7. SUFFICES ASSUME NEW k \in 1 .. 6,
                       t.init[k] \notin t.unchecked \cup NeverRefused
                PROVE  Row(t.label[t.init[k]], k - 1)
    BY <1>1 DEF LabelsMatch, Row
  <2>8. CASE k = 1
    BY <1>1, <1>7, <2>1, <2>8
  <2>9. CASE k = 2
    BY <1>1, <1>7, <2>2, <2>9
  <2>10. CASE k = 3
    BY <1>1, <1>7, <2>3, <2>10
  <2>11. CASE k = 4
    BY <1>1, <1>7, <2>4, <2>11
  <2>12. CASE k = 5
    BY <1>1, <1>7, <2>5, <2>12
  <2>13. CASE k = 6
    BY <1>1, <1>7, <2>6, <2>13
  <2>14. QED
    BY <1>2, <2>8, <2>9, <2>10, <2>11, <2>12, <2>13
<1>9. ExitMatches(t, {})
  BY <1>1, <1>4, <1>6 DEF ExitMatches
<1>10. EntryLast(t, {})
  BY <1>1, <1>4, <1>5, <1>7 DEF EntryLast
<1>11. /\ Len(t.init) \in 1 .. 6 /\ Len(t.undo) \in 1 .. 6
       /\ Len(t.exit) \in 1 .. 6
  BY <1>1
<1>12. QED
  BY <1>3, <1>8, <1>9, <1>10, <1>11 DEF Sound, t

(* The table of auto-create-node/led_drv.c is sound. *)
LEMMA Sound_led == Sound(led, {})
<1> DEFINE t == led
<1>1. /\ Len(t.init) = 4 /\ Len(t.undo) = 3 /\ Len(t.exit) = 4
      /\ t.init[1] = "number" /\ t.init[2] = "cdev" /\ t.init[3] = "class"
      /\ t.init[4] = "node"
      /\ t.undo[1] = "class" /\ t.undo[2] = "cdev" /\ t.undo[3] = "number"
      /\ t.exit[1] = "node" /\ t.exit[2] = "class" /\ t.exit[3] = "cdev"
      /\ t.exit[4] = "number"
  BY DEF led, led_init, led_undo, led_label, led_exit
<1>2. /\ \A i \in 1 .. 3 : i = 1 \/ i = 2 \/ i = 3
      /\ \A i \in 1 .. 4 : i = 1 \/ i = 2 \/ i = 3 \/ i = 4
  OBVIOUS
<1>3. /\ \A i \in 1 .. Len(t.init) : t.init[i] \in Resources
      /\ Distinct(t.init) /\ Distinct(t.undo) /\ Distinct(t.exit)
  BY <1>1, <1>2 DEF Distinct, Resources
<1>4. /\ Names(t.init, 1, 0) = {}
      /\ Names(t.init, 1, 1) = {"number"}
      /\ Names(t.init, 1, 2) = {"number", "cdev"}
      /\ Names(t.init, 1, 3) = {"number", "cdev", "class"}
      /\ Names(t.init, 1, 4) = {"number", "cdev", "class", "node"}
  BY <1>1, ShortList
<1>5. /\ Names(t.undo, 1, 3) = {"class", "cdev", "number"}
      /\ Names(t.undo, 2, 3) = {"cdev", "number"}
      /\ Names(t.undo, 3, 3) = {"number"}
      /\ Names(t.undo, 4, 3) = {}
  BY <1>1 DEF Names
<1>6. Names(t.exit, 1, 4) = {"node", "class", "cdev", "number"}
  BY <1>1, ShortList
<1>7. /\ t.unchecked = {} /\ t.entry = {"cdev", "node"} /\ t.uses = {}
      /\ t.label["number"] = 4 /\ t.label["cdev"] = 3 /\ t.label["class"] = 2
      /\ t.label["node"] = 1
  BY DEF led, led_label
<1> HIDE DEF t
<1>8. LabelsMatch(t, {})
  <2> DEFINE Row(l, i) ==
              /\ l \in 1 .. 3 + 1
              /\ Names(t.undo, l, 3) = Names(t.init, 1, i) \ {}
              /\ Names(t.init, 1, i) \cap t.unchecked = {}
  <2>1. Row(4, 0)
    BY <1>4, <1>5, <1>7
  <2>2. Row(3, 1)
    BY <1>4, <1>5, <1>7
  <2>3. Row(2, 2)
    BY <1>4, <1>5, <1>7
  <2>4. Row(1, 3)
    BY <1>4, <1>5, <1>7
  <2> HIDE DEF Row
  <2>5. SUFFICES ASSUME NEW k \in 1 .. 4,
                       t.init[k] \notin t.unchecked \cup NeverRefused
                PROVE  Row(t.label[t.init[k]], k - 1)
    BY <1>1 DEF LabelsMatch, Row
  <2>6. CASE k = 1
    BY <1>1, <1>7, <2>1, <2>6
  <2>7. CASE k = 2
    BY <1>1, <1>7, <2>2, <2>7
  <2>8. CASE k = 3
    BY <1>1, <1>7, <2>3, <2>8
  <2>9. CASE k = 4
    BY <1>1, <1>7, <2>4, <2>9
  <2>10. QED
    BY <1>2, <2>6, <2>7, <2>8, <2>9
<1>9. ExitMatches(t, {})
  BY <1>1, <1>4, <1>6 DEF ExitMatches
<1>10. EntryLast(t, {})
  BY <1>1, <1>4, <1>5, <1>7 DEF EntryLast
<1>11. /\ Len(t.init) \in 1 .. 6 /\ Len(t.undo) \in 1 .. 6
       /\ Len(t.exit) \in 1 .. 6
  BY <1>1
<1>12. QED
  BY <1>3, <1>8, <1>9, <1>10, <1>11 DEF Sound, t

(* The table of kern_user_communication/led_drv.c is sound. *)
LEMMA Sound_chat == Sound(chat, {})
<1> DEFINE t == chat
<1>1. /\ Len(t.init) = 2 /\ Len(t.undo) = 1 /\ Len(t.exit) = 2
      /\ t.init[1] = "number" /\ t.init[2] = "cdev"
      /\ t.undo[1] = "number"
      /\ t.exit[1] = "cdev" /\ t.exit[2] = "number"
  BY DEF chat, chat_init, chat_undo, chat_exit
<1>2. /\ \A i \in 1 .. 1 : i = 1
      /\ \A i \in 1 .. 2 : i = 1 \/ i = 2
  OBVIOUS
<1>3. /\ \A i \in 1 .. Len(t.init) : t.init[i] \in Resources
      /\ Distinct(t.init) /\ Distinct(t.undo) /\ Distinct(t.exit)
  BY <1>1, <1>2 DEF Distinct, Resources
<1>4. /\ Names(t.init, 1, 0) = {}
      /\ Names(t.init, 1, 1) = {"number"}
      /\ Names(t.init, 1, 2) = {"number", "cdev"}
  BY <1>1, ShortList
<1>5. /\ Names(t.undo, 1, 1) = {"number"}
      /\ Names(t.undo, 2, 1) = {}
  BY <1>1 DEF Names
<1>6. Names(t.exit, 1, 2) = {"cdev", "number"}
  BY <1>1, ShortList
<1>7. /\ t.unchecked = {} /\ t.entry = {"cdev"} /\ t.uses = {}
      /\ t.label["number"] = 2 /\ t.label["cdev"] = 1
  BY DEF chat
<1> HIDE DEF t
<1>8. LabelsMatch(t, {})
  <2> SUFFICES ASSUME NEW k \in 1 .. 2,
                      t.init[k] \notin t.unchecked \cup NeverRefused
               PROVE  LET l == t.label[t.init[k]] IN
                        /\ l \in 1 .. 1 + 1
                        /\ Names(t.undo, l, 1) = Names(t.init, 1, k - 1) \ {}
                        /\ Names(t.init, 1, k - 1) \cap t.unchecked = {}
    BY <1>1 DEF LabelsMatch
  <2>1. CASE k = 1
    BY <1>1, <1>4, <1>5, <1>7, <2>1 DEF NeverRefused
  <2>2. CASE k = 2
    BY <1>1, <1>4, <1>5, <1>7, <2>2 DEF NeverRefused
  <2>3. QED
    BY <1>2, <2>1, <2>2
<1>9. ExitMatches(t, {})
  BY <1>1, <1>4, <1>6 DEF ExitMatches
<1>10. EntryLast(t, {})
  BY <1>1, <1>4, <1>5, <1>7 DEF EntryLast
<1>11. /\ Len(t.init) \in 1 .. 6 /\ Len(t.undo) \in 1 .. 6
       /\ Len(t.exit) \in 1 .. 6
  BY <1>1
<1>12. QED
  BY <1>3, <1>8, <1>9, <1>10, <1>11 DEF Sound, t

(* The table of the lkm_memory family is sound. *)
LEMMA Sound_lkm == Sound(lkm, {"memory"})
<1> DEFINE t == lkm
<1>1. /\ Len(t.init) = 6 /\ Len(t.undo) = 3 /\ Len(t.exit) = 5
      /\ t.init[1] = "dev" /\ t.init[2] = "name" /\ t.init[3] = "chrdev"
      /\ t.init[4] = "memory" /\ t.init[5] = "class" /\ t.init[6] = "node"
      /\ t.undo[1] = "chrdev" /\ t.undo[2] = "name" /\ t.undo[3] = "dev"
      /\ t.exit[1] = "node" /\ t.exit[2] = "class" /\ t.exit[3] = "chrdev"
      /\ t.exit[4] = "name" /\ t.exit[5] = "dev"
  BY DEF lkm, lkm_init, lkm_undo, lkm_label, lkm_exit
<1>2. /\ \A i \in 1 .. 3 : i = 1 \/ i = 2 \/ i = 3
      /\ \A i \in 1 .. 5 : i = 1 \/ i = 2 \/ i = 3 \/ i = 4 \/ i = 5
      /\ \A i \in 1 .. 6 : i = 1 \/ i = 2 \/ i = 3 \/ i = 4 \/ i = 5 \/ i = 6
  OBVIOUS
<1>3. /\ \A i \in 1 .. Len(t.init) : t.init[i] \in Resources
      /\ Distinct(t.init) /\ Distinct(t.undo) /\ Distinct(t.exit)
  BY <1>1, <1>2 DEF Distinct, Resources
<1>4. /\ Names(t.init, 1, 0) = {}
      /\ Names(t.init, 1, 1) = {"dev"}
      /\ Names(t.init, 1, 2) = {"dev", "name"}
      /\ Names(t.init, 1, 3) = {"dev", "name", "chrdev"}
      /\ Names(t.init, 1, 4) = {"dev", "name", "chrdev", "memory"}
      /\ Names(t.init, 1, 5) = {"dev", "name", "chrdev", "memory", "class"}
      /\ Names(t.init, 1, 6)
           = {"dev", "name", "chrdev", "memory", "class", "node"}
  BY <1>1, ShortList
<1>5. /\ Names(t.undo, 1, 3) = {"chrdev", "name", "dev"}
      /\ Names(t.undo, 2, 3) = {"name", "dev"}
      /\ Names(t.undo, 3, 3) = {"dev"}
      /\ Names(t.undo, 4, 3) = {}
  BY <1>1 DEF Names
<1>6. Names(t.exit, 1, 5) = {"node", "class", "chrdev", "name", "dev"}
  BY <1>1, ShortList
<1>7. /\ t.unchecked = {"node"} /\ t.entry = {"chrdev", "node"}
      /\ t.uses = {"dev", "memory"}
      /\ t.label["dev"] = 4 /\ t.label["name"] = 3 /\ t.label["chrdev"] = 2
      /\ t.label["class"] = 1
  BY DEF lkm, lkm_label
<1> HIDE DEF t
<1>8. LabelsMatch(t, {"memory"})
  <2> DEFINE Row(l, i) ==
              /\ l \in 1 .. 3 + 1
              /\ Names(t.undo, l, 3) = Names(t.init, 1, i) \ {"memory"}
              /\ Names(t.init, 1, i) \cap t.unchecked = {}
  <2>1. Row(4, 0)
    BY <1>4, <1>5, <1>7
  <2>2. Row(3, 1)
    BY <1>4, <1>5, <1>7
  <2>3. Row(2, 2)
    BY <1>4, <1>5, <1>7
  <2>4. Row(1, 4)
    BY <1>4, <1>5, <1>7
  <2> HIDE DEF Row
  <2>5. SUFFICES ASSUME NEW k \in 1 .. 6,
                       t.init[k] \notin t.unchecked \cup NeverRefused
                PROVE  Row(t.label[t.init[k]], k - 1)
    BY <1>1 DEF LabelsMatch, Row
  <2>6. CASE k = 1
    BY <1>1, <1>7, <2>1, <2>6
  <2>7. CASE k = 2
    BY <1>1, <1>7, <2>2, <2>7
  <2>8. CASE k = 3
    BY <1>1, <1>7, <2>3, <2>8
  <2>9. CASE k = 4
    BY <1>1, <1>7, <2>5, <2>9 DEF NeverRefused
  <2>10. CASE k = 5
    BY <1>1, <1>7, <2>4, <2>10
  <2>11. CASE k = 6
    BY <1>1, <1>7, <2>5, <2>11 DEF NeverRefused
  <2>12. QED
    BY <1>2, <2>6, <2>7, <2>8, <2>9, <2>10, <2>11
<1>9. ExitMatches(t, {"memory"})
  BY <1>1, <1>4, <1>6 DEF ExitMatches
<1>10. EntryLast(t, {"memory"})
  BY <1>1, <1>4, <1>5, <1>7 DEF EntryLast
<1>11. /\ Len(t.init) \in 1 .. 6 /\ Len(t.undo) \in 1 .. 6
       /\ Len(t.exit) \in 1 .. 6
  BY <1>1
<1>12. QED
  BY <1>3, <1>8, <1>9, <1>10, <1>11 DEF Sound, t

(* The table of second.c is sound. *)
LEMMA Sound_second == Sound(second, {})
<1> DEFINE t == second
<1>1. /\ Len(t.init) = 3 /\ Len(t.undo) = 1 /\ Len(t.exit) = 3
      /\ t.init[1] = "number" /\ t.init[2] = "dev" /\ t.init[3] = "cdev"
      /\ t.undo[1] = "number"
      /\ t.exit[1] = "cdev" /\ t.exit[2] = "dev" /\ t.exit[3] = "number"
  BY DEF second, second_init, second_undo, second_exit
<1>2. /\ \A i \in 1 .. 1 : i = 1
      /\ \A i \in 1 .. 3 : i = 1 \/ i = 2 \/ i = 3
  OBVIOUS
<1>3. /\ \A i \in 1 .. Len(t.init) : t.init[i] \in Resources
      /\ Distinct(t.init) /\ Distinct(t.undo) /\ Distinct(t.exit)
  BY <1>1, <1>2 DEF Distinct, Resources
<1>4. /\ Names(t.init, 1, 0) = {}
      /\ Names(t.init, 1, 1) = {"number"}
      /\ Names(t.init, 1, 2) = {"number", "dev"}
      /\ Names(t.init, 1, 3) = {"number", "dev", "cdev"}
  BY <1>1, ShortList
<1>5. /\ Names(t.undo, 1, 1) = {"number"}
      /\ Names(t.undo, 2, 1) = {}
  BY <1>1 DEF Names
<1>6. Names(t.exit, 1, 3) = {"cdev", "dev", "number"}
  BY <1>1, ShortList
<1>7. /\ t.unchecked = {"cdev"} /\ t.entry = {"cdev"} /\ t.uses = {"dev"}
      /\ t.label["number"] = 2 /\ t.label["dev"] = 1
  BY DEF second
<1> HIDE DEF t
<1>8. LabelsMatch(t, {})
  <2> SUFFICES ASSUME NEW k \in 1 .. 3,
                      t.init[k] \notin t.unchecked \cup NeverRefused
               PROVE  LET l == t.label[t.init[k]] IN
                        /\ l \in 1 .. 1 + 1
                        /\ Names(t.undo, l, 1) = Names(t.init, 1, k - 1) \ {}
                        /\ Names(t.init, 1, k - 1) \cap t.unchecked = {}
    BY <1>1 DEF LabelsMatch
  <2>1. CASE k = 1
    BY <1>1, <1>4, <1>5, <1>7, <2>1 DEF NeverRefused
  <2>2. CASE k = 2
    BY <1>1, <1>4, <1>5, <1>7, <2>2 DEF NeverRefused
  <2>3. CASE k = 3
    BY <1>1, <1>4, <1>5, <1>7, <2>3 DEF NeverRefused
  <2>4. QED
    BY <1>2, <2>1, <2>2, <2>3
<1>9. ExitMatches(t, {})
  BY <1>1, <1>4, <1>6 DEF ExitMatches
<1>10. EntryLast(t, {})
  BY <1>1, <1>4, <1>5, <1>7 DEF EntryLast
<1>11. /\ Len(t.init) \in 1 .. 6 /\ Len(t.undo) \in 1 .. 6
       /\ Len(t.exit) \in 1 .. 6
  BY <1>1
<1>12. QED
  BY <1>3, <1>8, <1>9, <1>10, <1>11 DEF Sound, t

(* Whatever driver is loaded, its table is sound. *)
LEMMA SoundTable == driver \in Drivers => Sound(D, Unfreed)
<1> SUFFICES ASSUME driver \in Drivers PROVE Sound(D, Unfreed)
  OBVIOUS
<1>1. driver \in {"adc", "led", "chat", "lkm", "second"}
  BY DriversAssumption
<1>2. CASE driver = "adc"
  BY <1>2, Sound_adc DEF D, Table, Unfreed
<1>3. CASE driver = "led"
  BY <1>3, Sound_led DEF D, Table, Unfreed
<1>4. CASE driver = "chat"
  BY <1>4, Sound_chat DEF D, Table, Unfreed
<1>5. CASE driver = "lkm"
  BY <1>5, Sound_lkm DEF D, Table, Unfreed
<1>6. CASE driver = "second"
  BY <1>6, Sound_second DEF D, Table, Unfreed
<1>7. QED
  BY <1>1, <1>2, <1>3, <1>4, <1>5, <1>6

(* In every driver but adc-drv.c the last line of init lets users in. *)
LEMMA LastEnters == driver \in Drivers /\ driver # "adc" => EntersLast
<1> SUFFICES ASSUME driver \in Drivers, driver # "adc" PROVE EntersLast
  OBVIOUS
<1>1. driver \in {"led", "chat", "lkm", "second"}
  BY DriversAssumption
<1>2. CASE driver = "led"
  <2>1. led.init[Len(led.init)] = "node" /\ led.entry = {"cdev", "node"}
    BY DEF led, led_init
  <2>2. QED
    BY <1>2, <2>1 DEF EntersLast, D, Table
<1>3. CASE driver = "chat"
  <2>1. chat.init[Len(chat.init)] = "cdev" /\ chat.entry = {"cdev"}
    BY DEF chat, chat_init
  <2>2. QED
    BY <1>3, <2>1 DEF EntersLast, D, Table
<1>4. CASE driver = "lkm"
  <2>1. lkm.init[Len(lkm.init)] = "node" /\ lkm.entry = {"chrdev", "node"}
    BY DEF lkm, lkm_init
  <2>2. QED
    BY <1>4, <2>1 DEF EntersLast, D, Table
<1>5. CASE driver = "second"
  <2>1. second.init[Len(second.init)] = "cdev" /\ second.entry = {"cdev"}
    BY DEF second, second_init
  <2>2. QED
    BY <1>5, <2>1 DEF EntersLast, D, Table
<1>6. QED
  BY <1>1, <1>2, <1>3, <1>4, <1>5

(* The driver of a behaviour, and with it the table, never changes. *)
LEMMA SameDriver ==
  [Next]_vars => driver' = driver /\ D' = D /\ Unfreed' = Unfreed
                  /\ EntersLast' = EntersLast
<1>1. [Next]_vars => driver' = driver
  BY DEF Next, vars, Load, Granted, Refused, Loaded, Undo, Failed, Unload,
         Exit, Unloaded, Open, Close, Run
<1>2. QED
  BY <1>1 DEF D, Unfreed, EntersLast

-----------------------------------------------------------------------------
(* Asking for a resource: granted, it is held; refused unnoticed, init     *)
(* goes on without it; refused, the rest of the error path gives back what *)
(* was obtained before.                                                    *)
LEMMA AskStep ==
  ASSUME IInv, Granted \/ Refused
  PROVE  IInv'
<1> DEFINE n == Len(D.init)  r == D.init[step]
<1>1. /\ Sound(D, Unfreed) /\ phase = "init" /\ step \in 1 .. n /\ n \in 1 .. 6
      /\ step - 1 \in Nat /\ step \in Nat
  <2>1. /\ Sound(D, Unfreed) /\ phase = "init" /\ step \in 1 .. 7 /\ step <= n
    BY SoundTable DEF IInv, TypeOK, Granted, Refused
  <2>2. n \in 1 .. 6
    BY <2>1 DEF Sound
  <2>3. QED
    BY <2>1, <2>2
<1>2. UNCHANGED <<driver, files>> /\ D' = D /\ Unfreed' = Unfreed
        /\ EntersLast' = EntersLast
  BY SameDriver DEF Granted, Refused, Run, Next
<1>3. /\ Names(D.init, 1, step) = Names(D.init, 1, step - 1) \cup {r}
  <2>1. (step - 1) + 1 = step /\ 1 <= (step - 1) + 1
    BY <1>1
  <2>2. QED
    BY <1>1, <2>1, NamesFacts
<1>4. r \in Resources
  BY <1>1 DEF Sound
<1>5. EntersLast => files = {}
  <2>1. step # n + 1
    BY <1>1
  <2>2. QED
    BY <1>1, <2>1 DEF IInv, FilesInv
<1>6. CASE Granted \/ (Refused /\ r \in D.unchecked)
  <2>1. /\ phase' = "init" /\ step' = step + 1 /\ step' - 1 = step
        /\ held \subseteq held' /\ held' \subseteq held \cup {r}
        /\ r \in held' \cup D.unchecked
    BY <1>1, <1>6 DEF Granted, Refused, Run
  <2>2. TypeOK'
    BY <1>1, <1>2, <1>4, <2>1 DEF IInv, TypeOK
  <2>3. InitInv'
    BY <1>1, <1>2, <1>3, <2>1 DEF IInv, InitInv
  <2>4. QED
    BY <1>2, <1>5, <2>1, <2>2, <2>3 DEF IInv, LiveInv, UndoInv, ExitInv,
       NothingLeft, FilesInv
<1>7. CASE Refused /\ r \notin D.unchecked
  <2> DEFINE l == D.label[r]
  <2>1. phase' = "undo" /\ step' = l /\ held' = held
    BY <1>7 DEF Refused, Run
  <2>2. /\ l \in 1 .. Len(D.undo) + 1
        /\ Names(D.undo, l, Len(D.undo)) = Names(D.init, 1, step - 1) \ Unfreed
        /\ Names(D.init, 1, step - 1) \cap D.unchecked = {}
    BY <1>1, <1>7 DEF Refused, Sound, LabelsMatch
  <2>3. Len(D.undo) \in 1 .. 6
    BY <1>1 DEF Sound
  <2>4. TypeOK'
    <3>1. l \in 1 .. 7
      <4> DEFINE m == Len(D.undo)
      <4>1. l \in 1 .. m + 1 /\ m \in 1 .. 6
        BY <2>2, <2>3
      <4> HIDE DEF m, l
      <4>2. QED
        BY <4>1
    <3>2. QED
      BY <1>2, <2>1, <3>1 DEF IInv, TypeOK
  <2>5. UndoInv'
    BY <1>1, <1>2, <2>1, <2>2 DEF IInv, InitInv, UndoInv
  <2>6. QED
    BY <1>2, <1>5, <2>1, <2>4, <2>5 DEF IInv, InitInv, LiveInv, ExitInv,
       NothingLeft, FilesInv
<1>8. QED
  BY <1>6, <1>7

(* One line of the error path: its resource is named by no line after it. *)
LEMMA UndoStep ==
  ASSUME IInv, Undo
  PROVE  IInv'
<1> DEFINE n == Len(D.undo)  r == D.undo[step]
<1>1. /\ Sound(D, Unfreed) /\ phase = "undo" /\ step \in 1 .. n /\ n \in 1 .. 6
      /\ step \in Nat /\ n \in Nat
  <2>1. /\ Sound(D, Unfreed) /\ phase = "undo" /\ step \in 1 .. 7 /\ step <= n
    BY SoundTable DEF IInv, TypeOK, Undo
  <2>2. n \in 1 .. 6
    BY <2>1 DEF Sound
  <2>3. QED
    BY <2>1, <2>2
<1>2. UNCHANGED <<driver, files>> /\ D' = D /\ Unfreed' = Unfreed
        /\ EntersLast' = EntersLast
  BY SameDriver DEF Undo, Run, Next
<1>3. Names(D.undo, step, n) = {r} \cup Names(D.undo, step + 1, n)
  BY <1>1, NamesFacts
<1>4. r \notin Names(D.undo, step + 1, n)
  BY <1>1 DEF Sound, Distinct, Names
<1>5. phase' = "undo" /\ step' = step + 1 /\ held' = held \ {r}
  BY <1>1 DEF Undo, Run
<1>6. TypeOK'
  <2>1. step \in 1 .. 6
    <3>1. step \in 1 .. n /\ n \in 1 .. 6
      BY <1>1
    <3> HIDE DEF n
    <3>2. QED
      BY <3>1
  <2>2. step' \in 1 .. 7
    BY <1>5, <2>1
  <2>3. QED
    BY <1>2, <1>5, <2>2 DEF IInv, TypeOK
<1>7. UndoInv'
  <2>1. step + 1 \in 1 .. n + 1
    BY <1>1
  <2>2. QED
    BY <1>1, <1>2, <1>3, <1>4, <1>5, <2>1 DEF IInv, UndoInv
<1>8. QED
  BY <1>1, <1>2, <1>5, <1>6, <1>7 DEF IInv, InitInv, LiveInv, ExitInv,
     NothingLeft, FilesInv

(* One line of the exit function. *)
LEMMA ExitStep ==
  ASSUME IInv, Exit
  PROVE  IInv'
<1> DEFINE n == Len(D.exit)  r == D.exit[step]
<1>1. /\ Sound(D, Unfreed) /\ phase = "exit" /\ step \in 1 .. n /\ n \in 1 .. 6
      /\ step \in Nat /\ n \in Nat
  <2>1. /\ Sound(D, Unfreed) /\ phase = "exit" /\ step \in 1 .. 7 /\ step <= n
    BY SoundTable DEF IInv, TypeOK, Exit
  <2>2. n \in 1 .. 6
    BY <2>1 DEF Sound
  <2>3. QED
    BY <2>1, <2>2
<1>2. UNCHANGED <<driver, files>> /\ D' = D /\ Unfreed' = Unfreed
        /\ EntersLast' = EntersLast
  BY SameDriver DEF Exit, Run, Next
<1>3. Names(D.exit, step, n) = {r} \cup Names(D.exit, step + 1, n)
  BY <1>1, NamesFacts
<1>4. r \notin Names(D.exit, step + 1, n)
  BY <1>1 DEF Sound, Distinct, Names
<1>5. phase' = "exit" /\ step' = step + 1 /\ held' = held \ {r}
  BY <1>1 DEF Exit, Run
<1>6. TypeOK'
  <2>1. step \in 1 .. 6
    <3>1. step \in 1 .. n /\ n \in 1 .. 6
      BY <1>1
    <3> HIDE DEF n
    <3>2. QED
      BY <3>1
  <2>2. step' \in 1 .. 7
    BY <1>5, <2>1
  <2>3. QED
    BY <1>2, <1>5, <2>2 DEF IInv, TypeOK
<1>7. ExitInv'
  <2>1. step + 1 \in 1 .. n + 1
    BY <1>1
  <2>2. QED
    BY <1>1, <1>2, <1>3, <1>4, <1>5, <2>1 DEF IInv, ExitInv
<1>8. QED
  BY <1>1, <1>2, <1>5, <1>6, <1>7 DEF IInv, InitInv, LiveInv, UndoInv,
     NothingLeft, FilesInv

(* The turns: insmod, the ends of init, of the error path and of exit, and *)
(* rmmod.                                                                  *)
LEMMA TurnStep ==
  ASSUME IInv, Load \/ Loaded \/ Failed \/ Unload \/ Unloaded
  PROVE  IInv'
<1>1. Sound(D, Unfreed) /\ held \subseteq Resources /\ step \in 1 .. 7
  BY SoundTable DEF IInv, TypeOK
<1>2. /\ Len(D.init) \in 1 .. 6 /\ Len(D.undo) \in 1 .. 6
      /\ Len(D.exit) \in 1 .. 6 /\ ExitMatches(D, Unfreed)
  BY <1>1 DEF Sound
<1>3. /\ UNCHANGED <<driver, files, held>> /\ D' = D /\ Unfreed' = Unfreed
      /\ EntersLast' = EntersLast
  BY SameDriver DEF Load, Loaded, Failed, Unload, Unloaded, Run, Next
<1>4. step' = 1 /\ phase' \in {"out", "init", "live", "exit"}
  BY DEF Load, Loaded, Failed, Unload, Unloaded, Run
<1>5. TypeOK'
  BY <1>3, <1>4 DEF IInv, TypeOK
<1>6. CASE Load
  <2>1. phase = "out" /\ phase' = "init" /\ step' = 1
    BY <1>6 DEF Load, Run
  <2>2. Names(D.init, 1, 1 - 1) = {} /\ 1 \in 1 .. Len(D.init) + 1
    BY <1>2 DEF Names
  <2>3. QED
    BY <1>3, <1>5, <2>1, <2>2 DEF IInv, InitInv, LiveInv, UndoInv, ExitInv,
       NothingLeft, FilesInv
<1>7. CASE Loaded
  <2>1. phase = "init" /\ phase' = "live" /\ step - 1 = Len(D.init)
    BY <1>1, <1>2, <1>7 DEF Loaded, Run
  <2>2. QED
    BY <1>3, <1>5, <2>1 DEF IInv, InitInv, LiveInv, UndoInv, ExitInv,
       NothingLeft, FilesInv
<1>8. CASE Failed
  <2>1. phase = "undo" /\ phase' = "out" /\ step = Len(D.undo) + 1
    BY <1>8 DEF Failed, Run
  <2>2. Names(D.undo, step, Len(D.undo)) = {}
    BY <1>2, <2>1 DEF Names
  <2>3. QED
    BY <1>3, <1>5, <2>1, <2>2 DEF IInv, InitInv, LiveInv, UndoInv, ExitInv,
       NothingLeft, FilesInv
<1>9. CASE Unload
  <2>1. phase = "live" /\ phase' = "exit" /\ step' = 1 /\ files = {}
    BY <1>9 DEF Unload, Run
  <2>2. /\ Names(D.exit, 1, Len(D.exit))
             = Names(D.init, 1, Len(D.init)) \ Unfreed
        /\ 1 \in 1 .. Len(D.exit) + 1
    BY <1>2 DEF ExitMatches
  <2>3. QED
    BY <1>3, <1>5, <2>1, <2>2 DEF IInv, InitInv, LiveInv, UndoInv, ExitInv,
       NothingLeft, FilesInv
<1>10. CASE Unloaded
  <2>1. phase = "exit" /\ phase' = "out" /\ step = Len(D.exit) + 1
    BY <1>10 DEF Unloaded, Run
  <2>2. Names(D.exit, step, Len(D.exit)) = {}
    BY <1>2, <2>1 DEF Names
  <2>3. QED
    BY <1>3, <1>5, <2>1, <2>2 DEF IInv, InitInv, LiveInv, UndoInv, ExitInv,
       NothingLeft, FilesInv
<1>11. QED
  BY <1>6, <1>7, <1>8, <1>9, <1>10

(* A file opened before init returned: where users are let in last, init   *)
(* has nothing left to ask for, and the error path never lets them in.     *)
LEMMA FileStep ==
  ASSUME IInv, NEW p \in Procs, Open(p) \/ Close(p)
  PROVE  IInv'
<1> DEFINE n == Len(D.init)
<1>1. /\ UNCHANGED <<driver, phase, step, held>> /\ D' = D
      /\ Unfreed' = Unfreed /\ EntersLast' = EntersLast
  BY SameDriver DEF Open, Close, Next
<1>2. TypeOK'
  BY <1>1 DEF IInv, TypeOK, Open, Close
<1>3. InitInv' /\ LiveInv' /\ UndoInv' /\ ExitInv' /\ NothingLeft'
  BY <1>1 DEF IInv, InitInv, LiveInv, UndoInv, ExitInv, NothingLeft
<1>4. CASE Close(p)
  BY <1>1, <1>2, <1>3, <1>4 DEF Close, IInv, FilesInv
<1>5. CASE Open(p) /\ EntersLast
  <2>1. /\ Sound(D, Unfreed) /\ phase \in {"init", "undo", "live"}
        /\ D.init[n] \in held
    BY <1>5, SoundTable DEF IInv, TypeOK, Open, EntersLast
  <2>2. /\ n \in 1 .. 6 /\ Distinct(D.init) /\ D.init[n] \notin Unfreed
        /\ D.init[n] \notin Names(D.undo, 1, Len(D.undo))
        /\ Len(D.undo) \in 1 .. 6
    BY <1>5, <2>1 DEF Sound, EntryLast, EntersLast
  <2>3. CASE phase = "undo"
    <3>1. D.init[n] \in Names(D.undo, step, Len(D.undo)) /\ step >= 1
            /\ step \in Nat
      BY <2>1, <2>2, <2>3 DEF IInv, UndoInv
    <3>2. Names(D.undo, step, Len(D.undo))
            \subseteq Names(D.undo, 1, Len(D.undo))
      BY <2>2, <3>1 DEF Names
    <3>3. QED
      BY <2>2, <3>1, <3>2
  <2>4. CASE phase = "init"
    <3>1. D.init[n] \in Names(D.init, 1, step - 1) /\ step \in 1 .. n + 1
      BY <2>1, <2>2, <2>4 DEF IInv, InitInv
    <3>2. PICK i \in 1 .. step - 1 : D.init[n] = D.init[i]
      BY <3>1 DEF Names
    <3>3. i = n
      BY <2>2, <3>1, <3>2 DEF Distinct
    <3>4. step = n + 1
      BY <2>2, <3>1, <3>2, <3>3
    <3>5. QED
      BY <1>1, <1>2, <1>3, <2>4, <3>4 DEF IInv, FilesInv
  <2>5. CASE phase = "live"
    BY <1>1, <1>2, <1>3, <2>5 DEF IInv, FilesInv
  <2>6. QED
    BY <2>1, <2>3, <2>4, <2>5
<1>6. CASE ~EntersLast
  BY <1>1, <1>2, <1>3, <1>6 DEF IInv, FilesInv
<1>7. QED
  BY <1>4, <1>5, <1>6

-----------------------------------------------------------------------------
(* The inductive invariant holds in every reachable state. *)
THEOREM Invariance == Spec => []IInv
<1>1. Init => IInv
  BY DEF Init, IInv, TypeOK, InitInv, LiveInv, UndoInv, ExitInv, NothingLeft,
         FilesInv
<1>2. IInv /\ [Next]_vars => IInv'
  <2> SUFFICES ASSUME IInv, [Next]_vars PROVE IInv'
    OBVIOUS
  <2>1. CASE UNCHANGED vars
    <3>1. /\ UNCHANGED <<phase, step, held, files, driver>> /\ D' = D
          /\ Unfreed' = Unfreed /\ EntersLast' = EntersLast
      BY <2>1, SameDriver DEF vars
    <3>2. QED
      BY <3>1 DEF IInv, TypeOK, InitInv, LiveInv, UndoInv, ExitInv,
         NothingLeft, FilesInv
  <2>2. QED
    BY <2>1, AskStep, UndoStep, ExitStep, TurnStep, FileStep DEF Next
<1>3. QED
  BY <1>1, <1>2, PTL DEF Spec

(* The state always has its type. *)
THEOREM TypeCorrect == Spec => []TypeOK
<1>1. IInv => TypeOK
  BY DEF IInv
<1>2. QED
  BY Invariance, <1>1, PTL

(* Whatever was refused and however often the driver is loaded, it leaves  *)
(* nothing behind.                                                         *)
THEOREM NothingLeftHolds == Spec => []NothingLeft
<1>1. IInv => NothingLeft
  BY DEF IInv
<1>2. QED
  BY Invariance, <1>1, PTL

(* Nothing is released that is not held. *)
THEOREM ReleasesHeldHolds == Spec => []ReleasesHeld
<1>1. IInv => ReleasesHeld
  <2> SUFFICES ASSUME IInv PROVE ReleasesHeld
    OBVIOUS
  <2>1. /\ Len(D.undo) \in 1 .. 6 /\ Len(D.exit) \in 1 .. 6 /\ step \in 1 .. 7
    BY SoundTable DEF IInv, TypeOK, Sound
  <2>2. /\ step <= Len(D.undo) =>
             D.undo[step] \in Names(D.undo, step, Len(D.undo))
        /\ step <= Len(D.exit) =>
             D.exit[step] \in Names(D.exit, step, Len(D.exit))
    BY <2>1 DEF Names
  <2>3. QED
    BY <2>2 DEF IInv, UndoInv, ExitInv, ReleasesHeld
<1>2. QED
  BY Invariance, <1>1, PTL

(* In the drivers other than adc-drv.c every open file finds what its      *)
(* operations work on, and init does not fail under it.                    *)
THEOREM FilesServedHolds == Spec => []FilesServed
<1>1. IInv => FilesServed
  <2> SUFFICES ASSUME IInv, driver # "adc", files # {}
               PROVE  D.uses \subseteq held /\ phase \in {"init", "live"}
    BY DEF FilesServed, Served
  <2>0. EntersLast
    BY LastEnters DEF IInv, TypeOK
  <2>1. phase \in {"init", "live"}
    BY <2>0 DEF IInv, TypeOK, FilesInv
  <2>2. /\ Len(D.init) \in 1 .. 6
        /\ D.uses \subseteq Names(D.init, 1, Len(D.init)) \ D.unchecked
    BY <2>0, SoundTable DEF IInv, TypeOK, Sound, EntryLast, EntersLast
  <2>3. phase = "init" => step - 1 = Len(D.init)
    BY <2>0, <2>2 DEF IInv, FilesInv
  <2>4. QED
    BY <2>1, <2>2, <2>3 DEF IInv, InitInv, LiveInv
<1>2. QED
  BY Invariance, <1>1, PTL
=============================================================================
