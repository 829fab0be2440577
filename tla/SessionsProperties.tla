-------------------------- MODULE SessionsProperties --------------------------
(***************************************************************************)
(* What a run of a session must get right.                                 *)
(***************************************************************************)
EXTENDS Sessions, FiniteSets

HarnessKinds == Turns \cup Verdicts \cup {"spawned", "tool_result", "usage", "hitl_required"}

\* Every variable has its type, and the generator, its process and run() fit
\* together: whoever drives has a generator, whoever reads has a child.
TypeOK ==
    /\ svc \in {"idle", "driving", "holding", "notifying", "settling"}
    /\ at \in {"new", "suspended", "reading", "waiting", "final", "over"}
    /\ events \in Seq(HarnessKinds) /\ runs \in 0..MaxRuns
    /\ turns \in 0..MaxLines /\ now \in 0..MaxNow /\ started \in 0..now
    /\ svc = "driving" => at \notin {"final", "over"}
    /\ svc \in {"holding", "notifying"} => at \in {"suspended", "final"}
    /\ svc \in {"idle", "settling"} => at = "over"
    /\ at \in {"suspended", "reading", "waiting"} => child # "none"
    /\ at = "over" => ~held /\ ~open

\* The turns of a run that reach the ledger never exceed the budget, however fast
\* the child prints (process.py: budgets are enforced in kernel code).
Count(S, kinds) == Cardinality({i \in 1..Len(kinds) : kinds[i] \in S})
TurnsWithinBudget == max_turns # 0 => Count(Turns, events) <= max_turns

\* The state a finished run leaves in the ledger is the truth: "completed" exactly
\* when the child ended by itself with exit code 0 and was reported so, whatever it
\* claims in its lines, and "running" only if an exception or a crash cut the run
\* short.
StateTruthful ==
    /\ outcome = "returned" =>
          (Last(log) = State("completed") <=> event = Event("completed", "exit") /\ code = "ok")
    /\ svc = "idle" /\ Last(log) \notin {State("completed"), State("failed"), "session.created"}
          => outcome \in {"raised", "died"}

\* A run that is over leaves no child behind, unless the kernel died or the run was
\* cut short at its very first event.
ChildReaped ==
    svc = "idle" /\ child = "alive" =>
        \/ outcome = "died"
        \/ outcome = "raised" /\ event.by = "harness"

\* A cancel() is never overtaken by the child's exit: once cancelled, a run ends as
\* cancelled or over budget (process.py, the loop's guards).
CancelSticks == [][at = "waiting" /\ at' = "final" => ~cancelled]_vars

\* "completed" is yielded only after every line the child printed was (process.py:
\* a ValueError is "stdout closed underneath us by cancel()").
CompletedSawAll ==
    svc = "holding" /\ event = Event("completed", "exit") => Len(events) = 1 + printed

\* A run reported completed has yielded every line the child printed, in spite of
\* cancel, budget and pipe; only a line it could not decode or parse may be left, with
\* what the child printed around it.
LinesAccounted ==
    svc = "holding" /\ event = Event("completed", "exit") =>
        /\ Len(events) = 1 + printed - Len(pipe)
        /\ pipe # <<>> => \E i \in 1..Len(pipe) : pipe[i] = Garbled

\* A run whose child did no more turns than granted and ended well is not failed
\* for its turns (test_harness_budget_exact_boundary: "must allow exactly 2 turns and
\* fail on the third").
BudgetFailsOnExcess ==
    at = "final" /\ event.by = "budget" /\ deadline = 0 =>
        ~(code = "ok" /\ printed <= max_turns)

\* A run past its deadline ends (process.py: "Budgets (deadline/turns) are enforced
\* here, in kernel code").
DeadlineEnforced ==
    at = "reading" /\ now - started > deadline ~> svc = "idle"

\* A run ends when its child does.
RunEnds == svc # "idle" ~> svc = "idle"

\* The service keeps the promise of SessionLog: whatever child, callbacks, exceptions
\* and crashes do, the log of a session is one a reader can make sense of.
Promised == INSTANCE SessionLog WITH record <- log, open <- svc # "idle"
ImplementsLog == Promised!SLSpec
===============================================================================
