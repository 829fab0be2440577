--------------------------- MODULE RunnerProperties ---------------------------
(***************************************************************************)
(* What the runner must get right, and the refinement of GovernedEffects.  *)
(***************************************************************************)
EXTENDS Runner

Intents == 1..Len(sealed)

Inputs  == UNION {[P -> Value \cup {Missing}] : P \in SUBSET Path}
Digests == [tenant : {Tenant}, capability : Capability,
            payload : [transition : 1..Len(Transitions), input : Inputs]]
SealedIntents == [tenant : {Tenant}, actor : {"pending-human"}, capability : Capability,
                  payload_digest : Digests, created_at : Nat, expires_at : Nat]
Handed  == [intent : Nat, input : Inputs]
Events  == [type : {"workflow.started", "workflow.completed", "workflow.failed",
                    "approval.requested", "approval.mismatch", "approval.rejected",
                    "approval.invalid", "approval.granted", "action.dispatched",
                    "transition.applied"},
            intent : Nat]

TypeOK ==
    /\ status \in Status /\ state \in State /\ steps \in Nat
    /\ data \in [Path -> Value \cup {Missing}]
    /\ pending_intent \in 0..Len(sealed)
    /\ pending_transition \in 0..Len(Transitions)
    /\ pc \in {"idle", "loop", "approving", "handling"}
    /\ approver \in BOOLEAN /\ resolved_here \in BOOLEAN
    /\ now \in 0..MaxNow /\ calls \in 0..MaxCalls
    /\ history \in Seq(Events)
    /\ sealed \in Seq(SealedIntents)
    /\ world \in Seq(Handed)

\* The pending effect and the rest of the instance agree: a paused instance has
\* one (so _resolve_pending's "paused instance without pending effect" is never
\* reached), a final instance has none, and it is the newest intent, sealed over
\* the very transition the runner will take next.
PendingCoherent ==
    /\ pending_intent = 0 <=> pending_transition = 0
    /\ status = "paused_approval" => pending_transition # 0
    /\ status \in Final => pending_transition = 0
    /\ pending_transition # 0 =>
          /\ pending_intent = Len(sealed)
          /\ IsFirst(pending_transition, state)
          /\ Governed(pending_transition)
          /\ sealed[pending_intent].payload_digest.payload.transition = pending_transition

\* The answer d is a human's approval of exactly what was sealed: for that
\* intent, by somebody, in time, and with the data the digest covers.
Authorises(d) ==
    /\ d.answer.intent_id = d.intent
    /\ d.answer.approved /\ d.answer.decided_by # Blank
    /\ d.at < sealed[d.intent].expires_at
    /\ d.input = <<sealed[d.intent].payload_digest.payload.input>>

Approved == {i \in Intents : \E d \in decisions : d.intent = i /\ Authorises(d)}

\* No governed effect reaches its handler unless a human approved that intent
\* (kernel.md, invariant 3), whatever callbacks or the sink raise in between.
EffectsApproved == \A n \in 1..Len(world) : world[n].intent \in Approved

\* While an approver is asked the instance is paused; while a handler works the
\* instance runs and stands at the transition being dispatched.
ControlCoherent ==
    /\ pc = "approving" => status = "paused_approval"
    /\ pc = "handling" =>
          /\ status = "running"
          /\ \A t \in 1..Len(Transitions) :
                IsFirst(t, state) /\ Governed(t) => pending_transition # 0

\* The runner takes the presence of a pending effect for a verified approval; this
\* is why it may: no instance runs with a pending effect nobody approved.
PendingApproved == status = "running" /\ pending_intent # 0 => pending_intent \in Approved

\* The inductive invariant of RunnerProofs.
RunnerInv == TypeOK /\ PendingCoherent /\ ControlCoherent /\ PendingApproved /\ EffectsApproved

\* The workflow never crosses a governed transition, handler or not, unless the
\* effect pending at that moment was approved.
GovernedMoves ==
    [][\A t \in 1..Len(Transitions) :
          state' # state /\ IsFirst(t, state) /\ Governed(t) => pending_intent \in Approved]_vars

\* What the handler receives is what the human approved, although the host changes
\* data after sealing (_resolved_input's docstring): the payload is verified when the
\* answer comes and resolved again for the handler.  In between the sink is called, so
\* this needs a sink that leaves the data alone, and that nothing raises.
EffectsAsSealed ==
    \A n \in 1..Len(world) :
        world[n].input = sealed[world[n].intent].payload_digest.payload.input

\* One approval authorises one effect (intent_binding.py: "exactly ONE effect"): the
\* pending effect is cleared before anything could dispatch it once more.
EffectOncePerApproval ==
    \A m, n \in 1..Len(world) : world[m].intent = world[n].intent => m = n

\* A rejection of the pending intent ends the workflow (kernel.md: rejected ->
\* approval.rejected -> workflow.failed), so it cannot be approved later.
Rejects(d) == d.answer.intent_id = d.intent /\ ~d.answer.approved
RejectionIsFinal == (\E d \in decisions : Rejects(d)) => status = "failed"

\* One call of run() asks for at most one human decision (run()'s docstring).
OneDecisionPerCall ==
    \A d, e \in decisions : d.call = e.call => d = e

\* The audit trail is ordered: a governed dispatch is preceded by the grant of
\* its intent, and the grant by the request.
Precedes(type, n) == \E m \in 1..(n - 1) : history[m] = Event(type, history[n].intent)
AuditOrdered ==
    \A n \in 1..Len(history) :
        /\ history[n].type = "action.dispatched" /\ history[n].intent # 0
              => Precedes("approval.granted", n)
        /\ history[n].type \in {"approval.granted", "approval.rejected"}
              => Precedes("approval.requested", n)

\* The audit trail is complete: every governed effect a handler was given is
\* recorded, unless the handler still runs or its failure failed the workflow.
AuditComplete ==
    \A n \in 1..Len(world) :
        \/ \E m \in 1..Len(history) :
              history[m] = Event("action.dispatched", world[n].intent)
        \/ pc = "handling" /\ n = Len(world)
        \/ failure_reason = "handler"

\* A final event is the last of the history, and stands there exactly when the
\* instance is final: nothing runs or is recorded after it.
FinalIsLast ==
    LET Last(n) == history[n].type \in {"workflow.completed", "workflow.failed"}
    IN  /\ \A n \in 1..Len(history) : Last(n) => n = Len(history)
        /\ status \in Final <=> Last(Len(history))
        /\ status \in Final => pc = "idle"

\* The budget: an instance that may still run has steps left, and every pause and
\* every transition was charged for.
BudgetCharged ==
    /\ status \notin Final => steps < max_steps
    /\ steps = Cardinality({n \in 1..Len(history) :
                   history[n].type \in {"approval.requested", "transition.applied"}})

\* Every call of run() hands the instance back: at a gate, at an end, at a refusal,
\* and on a graph whose cycle has no gate, where only the step budget ends the call.
RunReturns == pc # "idle" ~> pc = "idle"

\* The runner implements the promise of GovernedEffects.
Recorded == {i \in Intents : \E n \in 1..Len(history) :
                                history[n] = Event("action.dispatched", i)}
Promise == INSTANCE GovernedEffects WITH
    requested <- Intents,
    approved  <- Approved,
    performed <- {world[n].intent : n \in 1..Len(world)} \cup Recorded,
    closed    <- Intents \ {pending_intent}

ImplementsPromise == Promise!GSpec
=============================================================================
