------------------------------ MODULE MCLkmMem ------------------------------
(***************************************************************************)
(* Instances of LkmMem for TLC: the programs that open the file.           *)
(***************************************************************************)
EXTENDS LkmMem, TLC

CONSTANTS t1, t2, t3, nobody

Ask(op, n) == [op |-> op, count |-> n]

(* A blocking file: a reader, a writer and a thread that reads or polls. *)
Blocking ==
  [requests |-> t1 :> {Ask("read", 1)}
                  @@ t2 :> {Ask("write", 1), Ask("write", Size + 1)}
                  @@ t3 :> {Ask("read", Size + 1), Ask("pollin", 0)},
   nonblock |-> FALSE, async |-> FALSE, signals |-> {}]

(* An O_NONBLOCK file: two threads, every kind of call each, and signals. *)
Nonblocking ==
  [requests |-> t1 :> {Ask("read", 1), Ask("read", Size + 1), Ask("write", 0),
                       Ask("pollin", 0)}
                  @@ t2 :> {Ask("write", 1), Ask("write", Size + 1),
                            Ask("pollout", 0)}
                  @@ t3 :> {},
   nonblock |-> TRUE, async |-> TRUE, signals |-> {t1, t2}]

BothOwners == {Blocking, Nonblocking}

(* One reader and one writer on a blocking file with FASYNC. *)
AsyncOwner ==
  {[requests |-> t1 :> {Ask("read", 1)} @@ t2 :> {Ask("write", 1)},
    nonblock |-> FALSE, async |-> TRUE, signals |-> {}]}

(* The same without FASYNC on an O_NONBLOCK file. *)
SimpleOwner == {[o EXCEPT !.nonblock = TRUE, !.async = FALSE] : o \in AsyncOwner}
=============================================================================
