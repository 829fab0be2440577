---------------------------- MODULE HumanDecisions ----------------------------
(***************************************************************************)
(* What the HITL queue promises of every pause, with nothing of ledger,    *)
(* locks or threads (HitlStatus of contracts/hitl.py and the fail-closed   *)
(* errors of ledger/hitl.py): a pause is created once and leaves "pending" *)
(* once, towards one of three states it never leaves.                      *)
(***************************************************************************)
CONSTANT Pause
VARIABLE outcome

HInit == outcome = [p \in Pause |-> "unknown"]

Becomes(p, before, after) ==
    outcome[p] = before /\ outcome' = [outcome EXCEPT ![p] = after]

HNext == \E p \in Pause : \/ Becomes(p, "unknown", "pending")
                          \/ \E end \in {"approved", "rejected", "expired"} :
                                Becomes(p, "pending", end)

HSpec == HInit /\ [][HNext]_outcome
===============================================================================
