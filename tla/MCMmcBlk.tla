------------------------------ MODULE MCMmcBlk ------------------------------
(***************************************************************************)
(* Instances of MmcBlk for TLC.                                            *)
(***************************************************************************)
EXTENDS MmcBlk

CONSTANTS r1, r2

Setup(m, ops, f, n, k) ==
  [mode |-> m, ops |-> ops, faulty |-> f, submits |-> n, rounds |-> k]

(* transfers that fail next to others and to the other task; tags used     *)
(* again at once                                                           *)
AllSetups ==
  {Setup("poll", {"discard", "secdiscard"}, {}, 2, 0)}
    \cup UNION {{Setup(m, {"read", "flush"}, {r1}, 2, 0),
                 Setup(m, {"read", "flush"}, {r1}, 1, 1),
                 Setup(m, {"write"}, {r1}, 2, 0),
                 Setup(m, {"write", "flush"}, {}, 3, 0),
                 Setup(m, {"write", "flush"}, {}, 2, 1)} :
                  m \in {"poll", "done"}}

SingleSetups == {Setup("done", {"read"}, {r1}, 1, 0)}
=============================================================================
