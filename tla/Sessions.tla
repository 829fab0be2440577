------------------------------- MODULE Sessions -------------------------------
(***************************************************************************)
(* SessionService.run (services/sessions.py) of one session, called again  *)
(* and again by the single-threaded RPC loop: it drives the harness, puts  *)
(* every event in the ledger, hands it to on_event (an RPC notification)   *)
(* and, at the end, puts the outcome in the ledger.  The ledger's appends  *)
(* are atomic (ChainValid of HitlProperties), so here it is the log of     *)
(* what was appended for this session.                                     *)
(*                                                                         *)
(* svc says where run() stands: "idle", about to resume the generator      *)
(* ("driving"), holding an event to append ("holding"), having appended it *)
(* and called on_event ("notifying"), or about to append the outcome       *)
(* ("settling").                                                           *)
(***************************************************************************)
EXTENDS Harness

CONSTANTS
    MayRaise,  \* TRUE: append, on_event or spawning may raise
    MaxRuns    \* bound: runs of the session

ASSUME SessionsAssumption == MayRaise \in BOOLEAN /\ MaxRuns \in Nat

VARIABLES
    svc,
    events,   \* run()'s list of events: their kinds
    log,      \* the event types in the ledger about this session
    runs,
    outcome   \* how the last run ended; an observation

svars == <<svc, events, log, runs, outcome>>
vars  == <<hvars, svars>>

Init ==
    /\ HarnessInit
    /\ svc = "idle" /\ events = <<>> /\ log = <<"session.created">>
    /\ runs = 0 /\ outcome = "none"

Appends(type) == log' = Append(log, type)
State(s) == CASE s = "running"   -> "session.state.running"
              [] s = "completed" -> "session.state.completed"
              [] s = "failed"    -> "session.state.failed"
Harnessed(kind) == CASE kind = "spawned"   -> "harness.spawned"
                     [] kind = "message"   -> "harness.message"
                     [] kind = "tool_call" -> "harness.tool_call"
                     [] kind = "tool_result" -> "harness.tool_result"
                     [] kind = "usage" -> "harness.usage"
                     [] kind = "hitl_required" -> "harness.hitl_required"
                     [] kind = "completed" -> "harness.completed"
                     [] kind = "failed"    -> "harness.failed"
                     [] kind = "cancelled" -> "harness.cancelled"

\* An exception other than ScopeViolation leaves run(), which does not touch the
\* session's state any more.
Escapes == svc' = "idle" /\ outcome' = "raised" /\ UNCHANGED <<log, runs>>

-----------------------------------------------------------------------------

\* run(): the state becomes running whatever it was, and the harness is built.  When
\* that first append raises nothing has happened.
RunSession ==
    /\ svc = "idle" /\ runs < MaxRuns
    /\ Appends(State("running"))
    /\ svc' = "driving" /\ events' = <<>> /\ runs' = runs + 1 /\ outcome' = "none"
    /\ NewGenerator

\* next(): the generator runs until it yields, ends, or blocks on the child.
Resumes == Spawn \/ ResumeSpawned \/ ResumeReading \/ ResumeExceeded
Reads   == ReadLine \/ ReadEof \/ ReadRaises \/ Collect

Drive ==
    /\ svc = "driving" /\ (Resumes \/ Reads)
    /\ svc' = IF at' \in {"suspended", "final"} THEN "holding" ELSE "driving"
    /\ UNCHANGED <<events, log, runs, outcome>>

DriveRaises ==
    /\ MayRaise /\ svc = "driving" /\ SpawnFails
    /\ Escapes /\ UNCHANGED events

\* A ScopeViolation is the only exception run() settles (sessions.py:99).  Nothing in the
\* repository raises one inside the loop; here an adapter may, when it is asked for the
\* child's arguments.  An append or an on_event that raised one is left out.
ScopeRefused ==
    /\ svc = "driving" /\ SpawnFails
    /\ Appends(State("failed"))
    /\ svc' = "idle" /\ outcome' = "refused"
    /\ UNCHANGED <<events, runs>>

Record ==
    /\ svc = "holding"
    /\ Appends(Harnessed(event.kind))
    /\ events' = Append(events, event.kind)
    /\ svc' = "notifying"
    /\ UNCHANGED <<hvars, runs, outcome>>

\* on_event may cancel a harness it shares before it returns.
HostCancels ==
    /\ svc = "notifying" /\ ~cancelled /\ Cancel
    /\ UNCHANGED svars

Notified ==
    /\ svc = "notifying" /\ at = "suspended"
    /\ svc' = "driving"
    /\ UNCHANGED <<hvars, events, log, runs, outcome>>

NotifiedLast ==
    /\ svc = "notifying" /\ Finish
    /\ svc' = "settling"
    /\ UNCHANGED <<events, log, runs, outcome>>

\* append or on_event raises inside the loop.
LoopRaises ==
    /\ MayRaise /\ svc \in {"holding", "notifying"}
    /\ Abandon
    /\ Escapes /\ UNCHANGED events

Last(kinds) == kinds[Len(kinds)]
FirstVerdict(kinds) == \* mutant: the first verdict found, be it the child's
    kinds[CHOOSE i \in 1..Len(kinds) :
              /\ kinds[i] \in Verdicts
              /\ \A j \in 1..(i - 1) : kinds[j] \notin Verdicts]
terminal_kind(kinds) == Last(kinds)

Settle ==
    /\ svc = "settling"
    /\ \/ terminal_kind(events) = "completed" /\ Appends(State("completed"))
       \/ terminal_kind(events) \in {"failed", "cancelled"} /\ Appends(State("failed"))
    /\ svc' = "idle" /\ outcome' = "returned"
    /\ UNCHANGED <<hvars, events, runs>>

SettleRaises ==
    /\ MayRaise /\ svc = "settling"
    /\ Escapes /\ UNCHANGED <<hvars, events>>

\* The kernel process dies; the ledger stays, and so does the child, which is in
\* a session of its own.
KernelDies ==
    /\ svc # "idle"
    /\ svc' = "idle" /\ outcome' = "died" /\ events' = <<>>
    /\ at' = "over" /\ held' = FALSE /\ open' = FALSE
    /\ UNCHANGED <<turns, started, cancelled, event, process, now, log, runs>>

-----------------------------------------------------------------------------

Service == \/ Drive \/ DriveRaises \/ ScopeRefused \/ Record \/ Notified \/ NotifiedLast
           \/ LoopRaises \/ Settle \/ SettleRaises

Next == \/ RunSession \/ Service \/ HostCancels \/ KernelDies
        \/ (Child \/ Passes) /\ UNCHANGED svars

\* Fairness: the kernel's thread runs unless it is blocked, and time passes.  The
\* child need not do anything; ChildFair adds that it exits some day.
Spec      == Init /\ [][Next]_vars /\ WF_vars(Service) /\ WF_vars(Passes /\ UNCHANGED svars)
ChildFair == Spec /\ WF_vars(\E how \in {"ok", "error"} : Exits(how) /\ UNCHANGED svars)
===============================================================================
