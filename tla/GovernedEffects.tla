--------------------------- MODULE GovernedEffects ---------------------------
(***************************************************************************)
(* What the kernel promises about governed effects, with nothing of how    *)
(* the runner does it (docs/architecture/kernel.md, "Flujo de un efecto    *)
(* gobernado" and invariant 3): an effect is requested, at most one        *)
(* request is open at a time, only an open request that was approved may   *)
(* be performed, and a closed request is never performed again.            *)
(***************************************************************************)
VARIABLES
    requested,  \* the intents sealed so far
    approved,   \* those a human approved
    performed,  \* those whose effect was started or recorded
    closed      \* those that are over: dispatched, rejected or withdrawn

gvars == <<requested, approved, performed, closed>>

Open == requested \ closed

GInit == requested = {} /\ approved = {} /\ performed = {} /\ closed = {}

Request(i) ==
    /\ Open = {} /\ i \notin requested
    /\ requested' = requested \cup {i}
    \* a budget exhausted by this very step withdraws the request
    /\ closed' \in {closed, closed \cup {i}}
    /\ UNCHANGED <<approved, performed>>

Approve(i) ==
    /\ i \in Open \ performed
    /\ approved' = approved \cup {i}
    /\ UNCHANGED <<requested, performed, closed>>

Perform(i) ==
    /\ i \in Open \cap approved
    /\ performed' = performed \cup {i}
    /\ closed' \in {closed, closed \cup {i}}
    /\ UNCHANGED <<requested, approved>>

Close(i) ==
    /\ i \in Open
    /\ closed' = closed \cup {i}
    /\ UNCHANGED <<requested, approved, performed>>

\* Ids are arbitrary: a step concerns one intent that has been requested by its
\* end.
GNext == \E i \in requested' : Request(i) \/ Approve(i) \/ Perform(i) \/ Close(i)

GSpec == GInit /\ [][GNext]_gvars
=============================================================================
