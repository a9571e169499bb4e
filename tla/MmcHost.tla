------------------------------- MODULE MmcHost -------------------------------
(***************************************************************************)
(* What the MMC core expects of a host driver (mmc/core/core.c): a request *)
(* that was handed to it is given back once, by mmc_request_done(), and    *)
(* it is given back as a success only if the card carried it out.  Sdhci   *)
(* and DwMmc implement this specification.                                 *)
(***************************************************************************)

CONSTANTS Mrqs,     \* the struct mmc_request of the callers
          NoMrq

VARIABLES
  pending,          \* requests the host driver has
  carried,          \* those of them the card has carried out
  good              \* the request just given back as a success, or NoMrq

vars == <<pending, carried, good>>

Init == pending = {} /\ carried = {} /\ good = NoMrq

(* host->ops->request() *)
request(m) ==
  /\ m \notin pending
  /\ pending' = pending \cup {m}
  /\ good' = NoMrq
  /\ UNCHANGED carried

Carry(m) ==
  /\ m \in pending \ carried
  /\ carried' = carried \cup {m}
  /\ UNCHANGED <<pending, good>>

(* mmc_request_done(), with or without an error *)
mmc_request_done(m, ok) ==
  /\ m \in pending
  /\ ok => m \in carried
  /\ pending' = pending \ {m}
  /\ carried' = carried \ {m}
  /\ good' = IF ok THEN m ELSE NoMrq

Next ==
  \E m \in Mrqs :
    \/ request(m) \/ Carry(m)
    \/ \E ok \in BOOLEAN : mmc_request_done(m, ok)

(* Every request is given back. *)
Spec ==
  /\ Init /\ [][Next]_vars
  /\ \A m \in Mrqs : WF_vars(\E ok \in BOOLEAN : mmc_request_done(m, ok))
=============================================================================
