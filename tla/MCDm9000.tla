------------------------------ MODULE MCDm9000 ------------------------------
(***************************************************************************)
(* Instances of Dm9000 for TLC.                                            *)
(***************************************************************************)
EXTENDS Dm9000

Board(t, s, w, m) == [type |-> t, simple |-> s, wol |-> w, smp |-> m]

(* The old chip with the simple link query, which also reads the PHY, on   *)
(* several processors, and a newer one with the MII query on one;          *)
(* wake-on-LAN is on, so suspend leaves the chip running.                  *)
SafeBoards == {Board("E", TRUE, TRUE, TRUE), Board("A", FALSE, TRUE, FALSE)}

(* wake-on-LAN is off: suspend shuts the chip down *)
SuspendBoards == {Board("E", TRUE, FALSE, FALSE)}

(* a newer chip on several processors *)
NewerBoards == {Board("A", FALSE, TRUE, TRUE)}

(* the old chip with the simple link query alone *)
OldBoards == {Board("E", TRUE, TRUE, TRUE)}
=============================================================================
