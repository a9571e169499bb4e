------------------------------ MODULE MCDwMmc -------------------------------
(***************************************************************************)
(* Instances of DwMmc for TLC.                                             *)
(***************************************************************************)
EXTENDS DwMmc

Kind(sbc, dir, stop) ==
  [sbc |-> sbc, dir |-> dir, stop |-> stop, mute |-> FALSE]

(* a command without a response, the read of a register *)
MuteKinds ==
  {[NoKind EXCEPT !.mute = TRUE],
   [Kind(FALSE, "read", FALSE) EXCEPT !.mute = TRUE]}

(* these, a command, single, open-ended and counted transfers *)
AllKinds ==
  MuteKinds \cup
  {NoKind, Kind(FALSE, "read", FALSE), Kind(FALSE, "read", TRUE),
   Kind(FALSE, "write", TRUE), Kind(TRUE, "read", TRUE),
   Kind(TRUE, "write", TRUE)}
=============================================================================
