------------------------------ MODULE SessionLog ------------------------------
(***************************************************************************)
(* What the ledger may say of one session, whoever drives it: the promise  *)
(* that services/sessions.py makes to the readers of the log.  A run opens *)
(* with "running", its first report is that the harness was spawned, and   *)
(* it is closed by the state its last report stands for, or cut short by   *)
(* an exception or a crash and then never closed.                          *)
(*                                                                         *)
(* Sessions implements it with a child process and a pipe; Rpc puts it     *)
(* behind the JSON-RPC loop.                                               *)
(***************************************************************************)
EXTENDS Sequences, Integers

VARIABLES
    record,  \* the event types about the session, in the order of the ledger
    open     \* TRUE while a run is under way

slvars == <<record, open>>

Reports == {"harness.spawned", "harness.message", "harness.tool_call", "harness.tool_result",
            "harness.usage", "harness.hitl_required",
            "harness.completed", "harness.failed", "harness.cancelled"}

Newest == record[Len(record)]
Says(type) == record' = Append(record, type)

SLInit == record \in {<<>>, <<"session.created">>} /\ open = FALSE

Creates == record = <<>> /\ Says("session.created") /\ UNCHANGED open

Opens == record # <<>> /\ ~open /\ Says("session.state.running") /\ open' = TRUE

Adds(report) ==
    /\ open
    /\ Newest = "session.state.running" => report = "harness.spawned"
    /\ Says(report) /\ UNCHANGED open

Closes ==
    /\ open /\ open' = FALSE
    /\ \/ Newest = "harness.completed" /\ Says("session.state.completed")
       \/ /\ Newest \in {"harness.failed", "harness.cancelled", "session.state.running"}
          /\ Says("session.state.failed")

CutShort == open /\ open' = FALSE /\ UNCHANGED record

SLNext == Creates \/ Opens \/ Closes \/ CutShort \/ \E report \in Reports : Adds(report)
SLSpec == SLInit /\ [][SLNext]_slvars
===============================================================================
