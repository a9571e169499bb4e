----------------------------- MODULE ModuleLife -----------------------------
(***************************************************************************)
(* Loading and unloading a character driver.  Its init function takes the  *)
(* resources it needs one by one; when one is refused it jumps to a label  *)
(* of its error path and runs from there to the end; its exit function     *)
(* gives everything back.  All the while the device is open to users from  *)
(* the moment its entry (a cdev, or a node in /dev) exists, which is       *)
(* before init has returned.                                               *)
(*                                                                         *)
(* A driver is a table (its order of calls and its labels), and the kernel *)
(* runs it:                                                                *)
(*   adc     adc-drv/adc-drv.c                                             *)
(*   led     auto-create-node/led_drv.c                                    *)
(*   chat    kern_user_communication/led_drv.c and led_drv/led_drv.c       *)
(*   lkm     the lkm_memory family: component, poll, async, spinlock       *)
(*   second  rasp-driver/timer/second/second.c                             *)
(*                                                                         *)
(* Definitions named Bad... are slips that test the properties.            *)
(***************************************************************************)
EXTENDS Naturals, Sequences

CONSTANTS Procs,      \* the users of the device
          Drivers     \* the drivers to be loaded

ASSUME DriversAssumption ==
  Drivers \subseteq {"adc", "led", "chat", "lkm", "second"}

-----------------------------------------------------------------------------
(* The tables.                                                             *)
(*   init       the resources in the order they are asked for              *)
(*   unchecked  those whose refusal init does not notice                   *)
(*   undo       the error path, from its first label to its return         *)
(*   label      label[r]: where in undo init goes on when r is refused     *)
(*   exit       what exit gives back, in order                             *)
(*   entry      what a user needs in order to open the device              *)
(*   uses       what the file operations work on                           *)

BadAdcLabel ==
  [number |-> 6, cdev |-> 5, class |-> 4, node |-> 2, region |-> 2, map |-> 1]
adc_init == <<"number", "cdev", "class", "node", "region", "map">>
adc_undo == <<"region", "node", "class", "cdev", "number">>
adc_label ==
  [number |-> 6, cdev |-> 5, class |-> 4, node |-> 3, region |-> 2, map |-> 1]
adc_exit == <<"map", "region", "node", "class", "cdev", "number">>
adc == [init |-> adc_init, unchecked |-> {}, undo |-> adc_undo,
        label |-> adc_label, exit |-> adc_exit,
        entry |-> {"cdev", "node"}, uses |-> {"map"}]

led_init == <<"number", "cdev", "class", "node">>
led_undo == <<"class", "cdev", "number">>
led_label == [number |-> 4, cdev |-> 3, class |-> 2, node |-> 1]
led_exit == <<"node", "class", "cdev", "number">>
led == [init |-> led_init, unchecked |-> {}, undo |-> led_undo,
        label |-> led_label, exit |-> led_exit,
        entry |-> {"cdev", "node"}, uses |-> {}]

(* The node is made by hand (mknod), the major number is fixed. *)
chat_init == <<"number", "cdev">>
chat_undo == <<"number">>
chat_exit == <<"cdev", "number">>
chat == [init |-> chat_init, unchecked |-> {}, undo |-> chat_undo,
         label |-> [number |-> 2, cdev |-> 1], exit |-> chat_exit,
         entry |-> {"cdev"}, uses |-> {}]

(* register_chrdev() takes the number and adds the cdev.  dev->memory is   *)
(* asked for in setup_dev(), which always reports success, and nobody      *)
(* looks at what device_create() returns.                                  *)
lkm_init == <<"dev", "name", "chrdev", "memory", "class", "node">>
lkm_undo == <<"chrdev", "name", "dev">>
lkm_label == [dev |-> 4, name |-> 3, chrdev |-> 2, class |-> 1]
lkm_exit == <<"node", "class", "chrdev", "name", "dev">>
lkm == [init |-> lkm_init, unchecked |-> {"node"}, undo |-> lkm_undo,
        label |-> lkm_label, exit |-> lkm_exit,
        entry |-> {"chrdev", "node"}, uses |-> {"dev", "memory"}]

BadSecondInit == <<"number", "cdev", "dev">>
second_init == <<"number", "dev", "cdev">>
second_undo == <<"number">>
second_exit == <<"cdev", "dev", "number">>
second == [init |-> second_init, unchecked |-> {"cdev"}, undo |-> second_undo,
           label |-> [number |-> 2, dev |-> 1], exit |-> second_exit,
           entry |-> {"cdev"}, uses |-> {"dev"}]

Table == [adc |-> adc, led |-> led, chat |-> chat, lkm |-> lkm, second |-> second]

(* The kernel does not refuse an allocation of 1 KiB that may sleep. *)
NeverRefused == {"memory"}

-----------------------------------------------------------------------------
VARIABLES driver,     \* the driver of this behaviour
          phase,      \* "out", "init", "undo" (the error path), "live", "exit"
          step,       \* the next line of the table the module runs
          held,       \* the resources the module holds
          files       \* the users that have the device open

vars == <<driver, phase, step, held, files>>

D == Table[driver]
Resources == {"number", "cdev", "chrdev", "class", "node", "region", "map",
              "dev", "name", "memory"}

TypeOK ==
  /\ driver \in Drivers
  /\ phase \in {"out", "init", "undo", "live", "exit"}
  /\ step \in 1 .. 7
  /\ held \subseteq Resources
  /\ files \subseteq Procs

Init ==
  /\ driver \in Drivers
  /\ phase = "out" /\ step = 1
  /\ held = {}
  /\ files = {}

Run(ph, n) == phase' = ph /\ step' = n /\ UNCHANGED <<driver, files>>

(* insmod *)
Load == phase = "out" /\ Run("init", 1) /\ UNCHANGED held

(* The next resource is granted, or refused. *)
Granted ==
  /\ phase = "init" /\ step <= Len(D.init)
  /\ held' = held \cup {D.init[step]}
  /\ Run("init", step + 1)

BadRefused ==
  /\ phase = "init" /\ step <= Len(D.init)
  /\ D.init[step] \notin NeverRefused
  /\ Run("out", 1)
  /\ UNCHANGED held

Refused ==
  /\ phase = "init" /\ step <= Len(D.init)
  /\ D.init[step] \notin NeverRefused
  /\ IF D.init[step] \in D.unchecked
     THEN Run("init", step + 1)
     ELSE Run("undo", D.label[D.init[step]])
  /\ UNCHANGED held

Loaded ==
  /\ phase = "init" /\ step = Len(D.init) + 1
  /\ Run("live", 1)
  /\ UNCHANGED held

Undo ==
  /\ phase = "undo" /\ step <= Len(D.undo)
  /\ held' = held \ {D.undo[step]}
  /\ Run("undo", step + 1)

(* init returns its error and the module is gone, open files or not. *)
Failed ==
  /\ phase = "undo" /\ step = Len(D.undo) + 1
  /\ Run("out", 1)
  /\ UNCHANGED held

(* rmmod, refused while a file of the module is open. *)
Unload ==
  /\ phase = "live"
  /\ files = {}
  /\ Run("exit", 1)
  /\ UNCHANGED held

Exit ==
  /\ phase = "exit" /\ step <= Len(D.exit)
  /\ held' = held \ {D.exit[step]}
  /\ Run("exit", step + 1)

Unloaded ==
  /\ phase = "exit" /\ step = Len(D.exit) + 1
  /\ Run("out", 1)
  /\ UNCHANGED held

(* A user opens the device as soon as it can be found: the kernel grants a *)
(* reference to a module that is still loading, not to one on its way out. *)
Open(p) ==
  /\ p \notin files
  /\ phase \in {"init", "undo", "live"}
  /\ D.entry \subseteq held
  /\ files' = files \cup {p}
  /\ UNCHANGED <<driver, phase, step, held>>

Close(p) ==
  /\ p \in files
  /\ files' = files \ {p}
  /\ UNCHANGED <<driver, phase, step, held>>

Next ==
  \/ Load \/ Granted \/ Refused \/ Loaded \/ Undo \/ Failed
  \/ Unload \/ Exit \/ Unloaded
  \/ \E p \in Procs : Open(p) \/ Close(p)

Spec == Init /\ [][Next]_vars

-----------------------------------------------------------------------------
(* Whatever was refused, and after every unload, the module leaves nothing *)
(* behind.  The one exception is dev->memory of the lkm_memory family,     *)
(* which neither lkm_mem_exit() nor its error path frees.                  *)
Unfreed == IF driver = "lkm" THEN {"memory"} ELSE {}
NothingLeft == phase = "out" => held \subseteq Unfreed

(* The error path and the exit function give back only what they have:     *)
(* no number, class, region or memory is released twice or before it was   *)
(* obtained.  (cdev_del() and device_destroy() accept what was never       *)
(* added, where init did not notice.)                                      *)
ReleasesHeld ==
  /\ phase = "undo" /\ step <= Len(D.undo) => D.undo[step] \in held
  /\ phase = "exit" /\ step <= Len(D.exit) =>
       D.exit[step] \in held \cup D.unchecked

(* An open file finds what the file operations work on, also one that was  *)
(* opened before init returned; and init does not fail under an open file. *)
Served ==
  files # {} =>
    /\ D.uses \subseteq held
    /\ phase \in {"init", "live"}

(* That is so in every driver but adc-drv.c, which creates its node before *)
(* it maps the registers its ioctl reads and may still fail afterwards: it *)
(* takes an order of init in which what lets users in comes last, an error *)
(* path that such an order never enters under a file, and an exit that     *)
(* waits for the last close.                                               *)
FilesServed == driver # "adc" => Served
=============================================================================
