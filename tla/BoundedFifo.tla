---------------------------- MODULE BoundedFifo ----------------------------
(***************************************************************************)
(* What the FIFO character devices of this repository promise to the       *)
(* processes that share them: one bounded queue of bytes on which every    *)
(* transfer takes effect at a single instant.  A write appends a prefix of *)
(* the caller's buffer, a read removes a prefix of the queue and hands     *)
(* exactly those bytes to its caller, a clear empties the queue.           *)
(***************************************************************************)
EXTENDS Naturals, Sequences

CONSTANTS Procs,      \* the processes that use the device
          Bytes,      \* the values a byte can take
          Size        \* the capacity of the queue

VARIABLES queue,      \* the bytes in the device, oldest first
          last        \* last[p]: the bytes p's current or last call moved

vars == <<queue, last>>

Init ==
  /\ queue = <<>>
  /\ last = [p \in Procs |-> <<>>]

(* A process begins a call: it has moved nothing yet. *)
Call(p) ==
  /\ last' = [last EXCEPT ![p] = <<>>]
  /\ UNCHANGED queue

(* A write moves the bytes it takes from its caller to the tail. *)
Put(p) ==
  /\ Len(last'[p]) + Len(queue) <= Size
  /\ queue' = queue \o last'[p]
  /\ last' = [last EXCEPT ![p] = last'[p]]
  /\ last'[p] \in Seq(Bytes)

(* A read moves n bytes from the head to its caller. *)
Take(p) ==
  \E n \in 0 .. Len(queue) :
    /\ queue' = SubSeq(queue, n + 1, Len(queue))
    /\ last' = [last EXCEPT ![p] = SubSeq(queue, 1, n)]

Clear ==
  /\ queue' = <<>>
  /\ UNCHANGED last

Next ==
  \/ \E p \in Procs : Call(p) \/ Put(p) \/ Take(p)
  \/ Clear

Spec == Init /\ [][Next]_vars
=============================================================================
