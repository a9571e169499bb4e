---------------------------- MODULE MCGlobalFifo ----------------------------
(***************************************************************************)
(* Instances of GlobalFifo for TLC: which task makes which calls.          *)
(***************************************************************************)
EXTENDS GlobalFifo, TLC

CONSTANTS r1, r2, w1, w2, nobody

Blocking(op, n) == [op |-> op, count |-> n, nonblock |-> FALSE]
Nonblocking(op, n) == [op |-> op, count |-> n, nonblock |-> TRUE]
Polling(op) == Blocking(op, 0)

(* Two readers, one of which also polls and takes signals, that compete    *)
(* for what one writer supplies.                                           *)
ReadersRequests ==
  r1 :> {Blocking("read", 1), Polling("pollin")}
    @@ r2 :> {Blocking("read", Size + 1)}
    @@ w1 :> {Blocking("write", 1), Nonblocking("write", Size),
              Polling("pollout")}
ReadersOther == r1 :> {"signal"} @@ r2 :> {} @@ w1 :> {}

(* One reader and one writer, every kind of call each. *)
PairRequests ==
  r1 :> {Blocking("read", 1), Nonblocking("read", Size + 1),
         Blocking("read", 0), Polling("pollin")}
    @@ w1 :> {Blocking("write", 1), Nonblocking("write", Size + 1),
              Blocking("write", 0), Polling("pollout")}
PairOther == r1 :> {"signal", "fasync"} @@ w1 :> {"signal", "fasync", "clear"}

(* A blocking reader, a blocking writer, and a third task that may clear. *)
ClearRequests ==
  r1 :> {Blocking("read", 1)} @@ w1 :> {Blocking("write", Size)} @@ w2 :> {}
ClearOther == r1 :> {} @@ w1 :> {} @@ w2 :> {"clear"}
=============================================================================
