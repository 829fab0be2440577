-------------------------------- MODULE Runner --------------------------------
(***************************************************************************)
(* One WorkflowInstance executed by the NeutralRunner of                   *)
(* orchestration/runner.py.                                                *)
(*                                                                         *)
(* run() is single-threaded per instance, so between two points where the  *)
(* code hands control to somebody else nothing interleaves with it.  Those *)
(* points are: run() returning to the host, the approver callback, a       *)
(* capability handler and the event sink, which is called at every emit.   *)
(* pc says which of them the instance is at ("idle", "approving",          *)
(* "handling") or that run() is at the head of its while loop ("loop");    *)
(* every action below is the code between two such points.  The sink has   *)
(* no place of its own: run() comes to the loop by an emit or straight     *)
(* from the host, and nothing between an emit and the end of its action    *)
(* reads the data, so what the sink does to the data during the newest     *)
(* emits is what is done to it at "loop".                                  *)
(*                                                                         *)
(* The host may edit instance.data (a public dict) between calls and in    *)
(* approvers and handlers, and in its sink if SinkMayEdit.  The clock may  *)
(* advance at any time.                                                    *)
(***************************************************************************)
EXTENDS IntentBinding, Sequences, FiniteSets

CONSTANTS
    State,            \* state names of the WorkflowDefinition
    Entry,            \* its initial_state; several, when several definitions that
                      \* share no state are explored at once
    Terminal,         \* the states declared terminal
    Transitions,      \* its transitions, in declaration order
    Capability,       \* the ids in the ActionRegistry
    NoAction,         \* a TransitionSpec whose action is None
    Effect,           \* the EffectClass of each capability
    Enabled,          \* the effect classes EffectPolicy enables
    Handled,          \* the capabilities a handler is given for
    Tenant,           \* the TenantScope of the instance
    Actor,            \* the values decided_by takes
    Blank,            \* a decided_by of white space only
    Path,             \* the dot-paths that input_from bindings read
    Value,            \* the values workflow data takes at a path
    Missing,          \* nothing at a path
    HostData,         \* what the host may write at a path, Missing included
    max_steps,        \* the runner's step budget
    approval_ttl,     \* the runner's approval_ttl_s, in ticks
    CallbacksMayRaise, \* TRUE: handlers and approvers may raise any exception
    SinkMayRaise,     \* TRUE: an overridden EventSink.emit may raise
    SinkMayEdit,      \* TRUE: it may edit instance.data
    MaxNow,           \* bound: the clock stops here
    MaxCalls          \* bound: calls of run() on the instance

Status  == {"running", "paused_approval", "completed", "failed"}
Final   == {"completed", "failed"}
Classes == {"read", "local_draft", "external_mutation"}

TransitionSpec == [from : State, to : State, capability : Capability \cup {NoAction},
                   input_from : SUBSET Path]

\* WorkflowDefinition._graph_is_consistent, and start()'s
\* assert_capabilities_registered (capability \in Capability): a definition
\* that breaks one of these never becomes an instance.
ASSUME DefinitionAssumption ==
    /\ Entry \subseteq State
    /\ Terminal \subseteq State /\ Terminal # {}
    /\ Transitions \in Seq(TransitionSpec)
    /\ NoAction \notin Capability
    /\ \A i, j \in 1..Len(Transitions) :
          /\ Transitions[i].from = Transitions[j].from
          /\ Transitions[i].to = Transitions[j].to
          /\ Transitions[i].capability = Transitions[j].capability
          => i = j

\* NeutralRunner.__init__ refuses max_steps < 1; ApprovalIntent refuses an
\* expiry that is not after its creation.
ASSUME RunnerAssumption ==
    /\ Effect \in [Capability -> Classes]
    /\ Enabled \subseteq Classes
    /\ Handled \subseteq Capability
    /\ Missing \notin Value
    /\ HostData \subseteq Value \cup {Missing}
    /\ max_steps \in Nat \ {0} /\ approval_ttl \in Nat \ {0}
    /\ CallbacksMayRaise \in BOOLEAN /\ SinkMayRaise \in BOOLEAN /\ SinkMayEdit \in BOOLEAN
    /\ MaxNow \in Nat /\ MaxCalls \in Nat

VARIABLES
    \* The WorkflowInstance.
    status, state, steps, data,
    pending_intent,      \* position in sealed of the pending intent, 0 for None
    pending_transition,  \* position in Transitions, 0 for None
    failure_reason, history,
    \* The activation of run().
    pc,                  \* who has control: see above
    approver,            \* an approver was passed to this call
    resolved_here,       \* this call has resolved an approval
    \* The environment.
    now, calls,
    \* Observations: nothing in the program reads these.
    sealed,              \* every ApprovalIntent created, in order
    decisions,           \* every answer an approver gave, with what it was given for
    world                \* every governed effect handed to its handler

instance == <<status, state, steps, data, pending_intent, pending_transition,
              failure_reason, history>>
activation == <<pc, approver, resolved_here>>
observations == <<sealed, decisions, world>>
vars == <<instance, activation, now, calls, observations>>

-----------------------------------------------------------------------------
(* The workflow definition and the data its actions read. *)

\* WorkflowDefinition.transitions_from, and the runner's transitions[0].
transitions_from(s) == {t \in 1..Len(Transitions) : Transitions[t].from = s}
IsFirst(t, s) == t \in transitions_from(s) /\ \A u \in transitions_from(s) : t <= u

HasAction(t) == Transitions[t].capability # NoAction
Governed(t)  == HasAction(t) /\ Effect[Transitions[t].capability] = "external_mutation"

\* resolved_input raises WorkflowError when a binding is missing.
Resolvable(t)      == \A p \in Transitions[t].input_from : data[p] # Missing
resolved_input(t) == [p \in Transitions[t].input_from |-> data[p]]

\* The position of the transition stands for workflow, revision, from_state,
\* to_state and static input, which it determines.
governed_payload(t) == [transition |-> t, input |-> resolved_input(t)]

\* No intent is pending for the governed effect: _advance seals one and pauses.
SealsAgain(t)   == Governed(t) \* mutant: also after the grant
FirstArrival(t) == Governed(t) /\ pending_transition = 0

\* EffectPolicy.allows, with _assert_effect's reading of "approval verified".
Allowed(t) ==
    /\ Effect[Transitions[t].capability] \in Enabled
    /\ Governed(t) => pending_transition # 0

\* What a handler's result does to bound paths: it writes them, or takes a nested
\* one away by replacing the mapping it is in.
Results == UNION {[P -> Value \cup {Missing}] : P \in SUBSET Path}
Overwrite(result) == result \* mutant: replaces the data
Update(result) == [p \in Path |-> IF p \in DOMAIN result THEN result[p] ELSE data[p]]

\* Answers an approver can give while intent i is pending: for that intent, for
\* one sealed before it, or (0) for an unknown id.
Answers(i) == [intent_id : 0..i, approved : BOOLEAN, decided_by : Actor]

Event(type, i) == [type |-> type, intent |-> i]

-----------------------------------------------------------------------------
(* Pieces of handlers. *)

Paused == pc = "loop" /\ status = "paused_approval"
FallsThrough(t) == \* mutant: a paused instance runs on
                   pc = "loop" /\ status \notin Final /\ IsFirst(t, state)
AtTransition(t) == pc = "loop" /\ status = "running" /\ IsFirst(t, state)

Returns == pc' = "idle" /\ UNCHANGED <<approver, resolved_here>>
Loops   == pc' = "loop" /\ UNCHANGED <<approver, resolved_here>>
Emits(events) == history' = history \o events
KeepsPending == UNCHANGED <<pending_intent, pending_transition>>

\* Mutant: the status is not set.
FailsOnRecord(events, reason) ==
    /\ UNCHANGED status /\ failure_reason' = reason
    /\ pending_intent' = 0 /\ pending_transition' = 0
    /\ Emits(events \o <<Event("workflow.failed", 0)>>) /\ Returns

\* fail, after the events already emitted; run() then returns.
fail(events, reason) ==
    /\ status' = "failed"
    /\ failure_reason' = reason
    /\ pending_intent' = 0 /\ pending_transition' = 0
    /\ Emits(events \o <<Event("workflow.failed", 0)>>)
    /\ Returns

ExhaustedLate == steps + 1 > max_steps \* mutant
Exhausted     == steps + 1 >= max_steps

\* Back in _run_locked after _advance left the given status and pending effect:
\* the step is counted, pauses included, and the budget enforced.
CountStep(events, st, intent, transition) ==
    /\ steps' = steps + 1
    /\ \/ Exhausted /\ fail(events, "budget")
       \/ /\ ~Exhausted
          /\ status' = st /\ pending_intent' = intent /\ pending_transition' = transition
          /\ Emits(events) /\ Loops /\ UNCHANGED failure_reason

\* The exception of a sink that raises after `events` escapes from run(); what
\* the code had assigned before that emit stays assigned.  A raise after the last
\* assignment leaves what returning leaves, and is not a step of its own.
SinkRaises(events) == SinkMayRaise /\ Emits(events) /\ Returns

-----------------------------------------------------------------------------
(* start(): the instance and its first event. *)

Init ==
    /\ status = "running" /\ state \in Entry /\ steps = 0
    /\ data \in [Path -> Value \cup {Missing}]
    /\ pending_intent = 0 /\ pending_transition = 0
    /\ failure_reason = "none"
    /\ history = <<Event("workflow.started", 0)>>
    /\ pc = "idle" /\ approver = FALSE /\ resolved_here = FALSE
    /\ now = 0 /\ calls = 0
    /\ sealed = <<>> /\ decisions = {} /\ world = <<>>

-----------------------------------------------------------------------------
(* run() and _run_locked. *)

\* run() on a final instance returns it unchanged, and a reentrant run() raises
\* without touching it: neither is a step.
run(with_approver) ==
    /\ pc = "idle" /\ status \notin Final
    /\ calls < MaxCalls
    /\ pc' = "loop" /\ approver' = with_approver /\ resolved_here' = FALSE
    /\ calls' = calls + 1
    /\ UNCHANGED <<instance, now, observations>>

\* Paused with no approver, or with this call's one decision already used.
MustReturnAttended == resolved_here \* mutant: with no approver it polls for one
MustReturn           == ~approver \/ resolved_here

ReturnPaused ==
    /\ Paused /\ MustReturn
    /\ Returns
    /\ UNCHANGED <<instance, now, calls, observations>>

AtEnd == pc = "loop" /\ status = "running" /\ transitions_from(state) = {}

Complete ==
    /\ AtEnd /\ state \in Terminal
    /\ status' = "completed"
    /\ Emits(<<Event("workflow.completed", 0)>>) /\ Returns
    /\ KeepsPending
    /\ UNCHANGED <<state, steps, data, failure_reason, now, calls, observations>>

DeadEnd ==
    /\ AtEnd /\ state \notin Terminal
    /\ fail(<<>>, "no_transition")
    /\ UNCHANGED <<state, steps, data, now, calls, observations>>

-----------------------------------------------------------------------------
(* _resolve_pending.  Its first branch, a paused instance without a pending *)
(* effect, is unreachable: PendingCoherent below says so. *)

MayAskAgain == approver \* mutant: at every gate
MayAsk      == approver /\ ~resolved_here

AskApprover ==
    /\ Paused /\ MayAsk
    /\ pc' = "approving"
    /\ UNCHANGED <<approver, resolved_here, instance, now, calls, observations>>

\* What the approver was asked and what was sealed and present when it answered.
Decision(answer) ==
    [intent |-> pending_intent, answer |-> answer, at |-> now, call |-> calls,
     input  |-> IF Resolvable(pending_transition)
                THEN <<resolved_input(pending_transition)>> ELSE <<>>]

Verified(answer) ==
    verify_intent(sealed[pending_intent], answer.decided_by,
                  Tenant, Transitions[pending_transition].capability,
                  governed_payload(pending_transition), now, Blank)

Answered(answer) ==
    /\ pc = "approving"
    /\ decisions' = decisions \cup {Decision(answer)}
    /\ UNCHANGED <<state, steps, data, now, calls, sealed, world>>

Matching(answer) ==
    answer.intent_id = pending_intent /\ Resolvable(pending_transition)

StaysPaused == Returns /\ KeepsPending /\ UNCHANGED <<status, failure_reason>>

Mismatch(answer) ==
    /\ Answered(answer)
    /\ answer.intent_id # pending_intent
    /\ Emits(<<Event("approval.mismatch", answer.intent_id)>>)
    /\ StaysPaused

\* The payload is rebuilt before the answer is looked at; the WorkflowError of a
\* missing binding is not caught here and escapes from run().
Unresolvable(answer) ==
    /\ Answered(answer)
    /\ answer.intent_id = pending_intent
    /\ ~Resolvable(pending_transition)
    /\ StaysPaused /\ UNCHANGED history

Reject(answer) ==
    /\ Answered(answer)
    /\ Matching(answer) /\ ~answer.approved
    /\ LET rejected == <<Event("approval.rejected", pending_intent)>>
       IN  \/ fail(rejected, "rejected")
           \/ SinkRaises(rejected) /\ KeepsPending /\ UNCHANGED <<status, failure_reason>>

Invalid(answer) ==
    /\ Answered(answer)
    /\ Matching(answer) /\ answer.approved /\ ~Verified(answer)
    /\ Emits(<<Event("approval.invalid", pending_intent)>>)
    /\ StaysPaused

\* The pending effect is kept: its presence is what _assert_effect takes for a
\* verified approval.
Grant(answer) ==
    /\ Answered(answer)
    /\ Matching(answer) /\ answer.approved /\ Verified(answer)
    /\ LET granted == <<Event("approval.granted", pending_intent)>>
       IN  \/ /\ Emits(granted)
              /\ status' = "running"
              /\ pc' = "loop" /\ resolved_here' = TRUE /\ UNCHANGED approver
           \/ SinkRaises(granted) /\ UNCHANGED status
    /\ KeepsPending /\ UNCHANGED failure_reason

Decide(answer) == \/ Mismatch(answer) \/ Unresolvable(answer)
                  \/ Reject(answer) \/ Invalid(answer) \/ Grant(answer)

\* The approver callback raises: run() only lets go of the instance.
ApproverRaises ==
    /\ CallbacksMayRaise
    /\ pc = "approving"
    /\ Returns
    /\ UNCHANGED <<instance, now, calls, observations>>

-----------------------------------------------------------------------------
(* _advance. *)

\* state = to_state, "transition.applied" after `events`, and the step counted;
\* intent and transition are the pending effect it leaves.
Apply(t, events, intent, transition) ==
    LET applied == events \o <<Event("transition.applied", 0)>>
    IN  /\ state' = Transitions[t].to
        /\ \/ CountStep(applied, "running", intent, transition)
           \/ /\ SinkRaises(applied)
              /\ pending_intent' = intent /\ pending_transition' = transition
              /\ UNCHANGED <<status, steps, failure_reason>>

\* A transition without an action.
Move(t) ==
    /\ AtTransition(t) /\ ~HasAction(t)
    /\ Apply(t, <<>>, pending_intent, pending_transition)
    /\ UNCHANGED <<data, now, calls, observations>>

\* First arrival at a governed effect: seal the intent and pause.  Effect policy
\* waits for the resumption.
Seal(t) ==
    /\ AtTransition(t) /\ FirstArrival(t)
    /\ Resolvable(t)
    /\ LET capability == Transitions[t].capability
           requested  == <<Event("approval.requested", Len(sealed) + 1)>>
       IN  /\ sealed' = Append(sealed,
                 seal_intent(Tenant, "pending-human", capability,
                             bind_intent(Tenant, capability, governed_payload(t)),
                             now, default_expiry(now, approval_ttl)))
           /\ \/ CountStep(requested, "paused_approval", Len(sealed) + 1, t)
              \/ /\ SinkRaises(requested)
                 /\ status' = "paused_approval"
                 /\ pending_intent' = Len(sealed) + 1 /\ pending_transition' = t
                 /\ UNCHANGED <<steps, failure_reason>>
    /\ UNCHANGED <<state, data, now, calls, decisions, world>>

\* The action may be dispatched now: it is not a first arrival.
Dispatching(t) == AtTransition(t) /\ HasAction(t) /\ ~FirstArrival(t)

\* _assert_effect or resolved_input raised WorkflowError; so does
\* governed_payload on first arrival.
Refuse(t) ==
    /\ AtTransition(t) /\ HasAction(t)
    /\ \/ Dispatching(t) /\ ~Allowed(t) /\ fail(<<>>, "denied")
       \/ /\ Dispatching(t) => Allowed(t)
          /\ ~Resolvable(t) /\ fail(<<>>, "missing")
    /\ UNCHANGED <<state, steps, data, now, calls, observations>>

\* Mutants: the pending effect outlives its dispatch; the dispatch is not recorded.
KeepsApproval(t, result) ==
    /\ data' = Update(result)
    /\ Apply(t, <<Event("action.dispatched", pending_intent)>>, pending_intent,
             pending_transition)
DispatchedSilently(t, result) == data' = Update(result) /\ Apply(t, <<>>, 0, 0)

\* From the handler's return to the end of the iteration.
Dispatched(t, result) ==
    LET dispatched == <<Event("action.dispatched", pending_intent)>>
    IN  /\ data' = Update(result)
        /\ \/ Apply(t, dispatched, 0, 0)
           \/ /\ SinkRaises(dispatched)
              /\ KeepsPending /\ UNCHANGED <<status, state, steps, failure_reason>>

\* A capability without a handler: dispatched with no effect.
DispatchUnhandled(t) ==
    /\ Dispatching(t) /\ Allowed(t) /\ Resolvable(t)
    /\ Transitions[t].capability \notin Handled
    /\ Dispatched(t, [p \in {} |-> Missing])
    /\ UNCHANGED <<now, calls, observations>>

\* _invoke_handler: control goes to the handler with the resolved input.
Dispatch(t) ==
    /\ Dispatching(t) /\ Allowed(t) /\ Resolvable(t)
    /\ Transitions[t].capability \in Handled
    /\ pc' = "handling"
    /\ world' = IF Governed(t)
                THEN Append(world, [intent |-> pending_intent, input |-> resolved_input(t)])
                ELSE world
    /\ UNCHANGED <<approver, resolved_here, instance, now, calls, sealed, decisions>>

HandlerReturns(t, result) ==
    /\ pc = "handling" /\ IsFirst(t, state)
    /\ Dispatched(t, result)
    /\ UNCHANGED <<now, calls, observations>>

\* A WorkflowError out of the handler (a reentrant run() raises one) fails the
\* workflow; any other exception escapes and leaves the instance as it was.
HandlerFails ==
    /\ pc = "handling"
    /\ fail(<<>>, "handler")
    /\ UNCHANGED <<state, steps, data, now, calls, observations>>

HandlerRaises ==
    /\ CallbacksMayRaise
    /\ pc = "handling"
    /\ Returns
    /\ UNCHANGED <<instance, now, calls, observations>>

-----------------------------------------------------------------------------
(* The environment: between calls of run(), during its callbacks and emits. *)

\* Control is with the host's code, or has been since the last thing run() did.
Outside == pc # "loop" \/ SinkMayEdit

\* Edits of a final instance are left out: nothing reads its data again.
EditData(p, v) ==
    /\ Outside /\ status \notin Final
    /\ data' = [data EXCEPT ![p] = v]
    /\ UNCHANGED <<status, state, steps, pending_intent, pending_transition,
                   failure_reason, history, activation, now, calls, observations>>

Tick ==
    /\ now < MaxNow
    /\ now' = now + 1
    /\ UNCHANGED <<instance, activation, calls, observations>>

-----------------------------------------------------------------------------

\* Steps of run() and of the callbacks it waits for.
Step(t) == Move(t) \/ Seal(t) \/ Refuse(t) \/ DispatchUnhandled(t) \/ Dispatch(t)

Run == \/ ReturnPaused \/ Complete \/ DeadEnd \/ AskApprover
       \/ \E answer \in Answers(pending_intent) : Decide(answer)
       \/ ApproverRaises
       \/ \E t \in 1..Len(Transitions) :
             Step(t) \/ \E result \in Results : HandlerReturns(t, result)
       \/ HandlerFails \/ HandlerRaises

Host == \/ \E with_approver \in BOOLEAN : run(with_approver)
        \/ \E p \in Path, v \in HostData : EditData(p, v)
        \/ Tick

Next == Run \/ Host

\* Fairness: the interpreter keeps executing a call of run(), and approvers and
\* handlers return or raise.  Nothing makes the host call run() again.
Spec     == Init /\ [][Next]_vars
FairSpec == Spec /\ WF_vars(Run)
===============================================================================
