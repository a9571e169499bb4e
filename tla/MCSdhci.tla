------------------------------ MODULE MCSdhci -------------------------------
(***************************************************************************)
(* Instances of Sdhci for TLC.                                             *)
(***************************************************************************)
EXTENDS Sdhci, TLC

Busied == [Plain EXCEPT !.busy = TRUE]
Single == [Plain EXCEPT !.data = TRUE]
OpenRead == [Single EXCEPT !.stop = TRUE]
OpenWrite == [OpenRead EXCEPT !.stopbusy = TRUE]
Counted == [OpenWrite EXCEPT !.sbc = TRUE]
Ongoing == [OpenRead EXCEPT !.cap = TRUE]

CONSTANTS m1, m2

(* every kind of request the core and mmc_test build; m2 is the command    *)
(* that mmc_test sends during an ongoing transfer                          *)
AllKinds == {Busied, OpenRead, OpenWrite, Counted, Ongoing}
CommandMeanwhile == (m1 :> AllKinds) @@ (m2 :> {Plain})
OneFault ==
  [auto : {{}}, faults : {{"hang"}, {"card"}, {"dead"}}]
    \cup [auto : {{"cmd12", "cmd23"}}, faults : {{"hang"}}]

(* a read of several blocks, counted or open-ended, on a host that hangs   *)
ReadsOnly == (m1 :> {OpenRead, Counted}) @@ (m2 :> {Plain})
Hanging == [auto : {{}}, faults : {{"hang"}}]
=============================================================================
