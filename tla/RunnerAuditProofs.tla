--------------------------- MODULE RunnerAuditProofs ---------------------------
(***************************************************************************)
(* Proofs about the runner's audit trail and its budget.  Each invariant   *)
(* here relates the history to the instance, so one lemma, StepForms, says *)
(* what any step records and changes; the invariants then follow form by   *)
(* form.                                                                   *)
(***************************************************************************)
EXTENDS RunnerProofs, FiniteSetTheorems

Completion == Event("workflow.completed", 0)
Failure    == Event("workflow.failed", 0)
Applied    == Event("transition.applied", 0)
Requested  == Event("approval.requested", Len(sealed) + 1)
Rejected   == Event("approval.rejected", pending_intent)
Granted    == Event("approval.granted", pending_intent)
Recording  == Event("action.dispatched", pending_intent)

KeepsFate == UNCHANGED <<status, failure_reason, pending_intent, pending_transition>>
DropsPending == pending_intent' = 0 /\ pending_transition' = 0
FailsNow == status' = "failed" /\ DropsPending /\ pc' = "idle"

\* Nothing is recorded and the instance keeps its fate.
Rests ==
    /\ KeepsFate /\ UNCHANGED <<steps, history, sealed, decisions, world>>
    /\ status \in Final => pc' = pc
    /\ pc = "handling" => pc' = "handling" \/ CallbacksMayRaise
    /\ pc' = "handling" => pc = "handling"
    /\ pc = "loop" /\ status = "running" => pc' = "loop" /\ (data' = data \/ SinkMayEdit)

\* A handler is given control, with the approved effect if its action is governed.
Dispatches(t) ==
    /\ pc = "loop" /\ pc' = "handling" /\ status = "running" /\ IsFirst(t, state)
    /\ KeepsFate /\ UNCHANGED <<data, state, steps, history, sealed, decisions>>
    /\ \/ ~Governed(t) /\ world' = world
       \/ /\ Governed(t) /\ pending_intent # 0 /\ t = pending_transition
          /\ world' = Append(world, [intent |-> pending_intent, input |-> resolved_input(t)])

Completes ==
    /\ pc = "loop" /\ status = "running" /\ pending_intent = 0
    /\ status' = "completed" /\ DropsPending /\ pc' = "idle"
    /\ history' = Append(history, Completion)
    /\ UNCHANGED <<failure_reason, steps, sealed, decisions, world>>

\* The workflow fails without a step being counted or a human being involved.
Fails ==
    /\ pc \in {"loop", "handling"} /\ status = "running"
    /\ FailsNow
    /\ pc = "handling" => failure_reason' = "handler"
    /\ history' = Append(history, Failure)
    /\ UNCHANGED <<steps, sealed, decisions, world>>

Answering(answer) ==
    /\ pc = "approving" /\ status = "paused_approval"
    /\ pending_intent # 0 /\ pending_transition # 0
    /\ decisions' = decisions \cup {Decision(answer)}
    /\ UNCHANGED <<data, state, steps, sealed, world, calls>>

\* The answer decides nothing.
Withholds(answer) ==
    /\ Answering(answer) /\ KeepsFate /\ pc' = "idle"
    /\ Rejects(Decision(answer)) => ~Resolvable(pending_transition)
    /\ \/ history' = history
       \/ \E type \in {"approval.mismatch", "approval.invalid"}, i \in Nat :
             history' = Append(history, Event(type, i))

Denies(answer) ==
    /\ Answering(answer) /\ ~answer.approved
    /\ \/ FailsNow /\ history' = Append(Append(history, Rejected), Failure)
       \/ /\ SinkMayRaise /\ KeepsFate /\ pc' = "idle"
          /\ history' = Append(history, Rejected)

Grants(answer) ==
    /\ Answering(answer)
    /\ answer.approved
    /\ sealed[pending_intent].payload_digest.payload.input = resolved_input(pending_transition)
    /\ UNCHANGED <<failure_reason, pending_intent, pending_transition>>
    /\ history' = Append(history, Granted)
    /\ \/ status' = "running" /\ pc' = "loop" /\ resolved_here'
       \/ SinkMayRaise /\ status' = status /\ pc' = "idle"

\* After recording h: the step is counted within the budget, or exhausts it, or
\* is not counted because the sink raised.
Counts(h, st) ==
    \/ /\ steps' = steps + 1 /\ steps + 1 < max_steps
       /\ status' = st /\ pc' = "loop" /\ history' = h /\ UNCHANGED failure_reason
    \/ /\ steps' = steps + 1 /\ FailsNow /\ history' = Append(h, Failure)
    \/ /\ SinkMayRaise /\ UNCHANGED <<steps, failure_reason>>
       /\ status' = st /\ pc' = "idle" /\ history' = h

Seals(t) ==
    /\ pc = "loop" /\ status = "running" /\ pending_intent = 0
    /\ Len(sealed') = Len(sealed) + 1
    /\ \A i \in Intents : sealed'[i] = sealed[i]
    /\ sealed'[Len(sealed) + 1].payload_digest.payload.input = resolved_input(t)
    /\ Resolvable(t)
    /\ UNCHANGED <<data, state, decisions, world>>
    /\ Counts(Append(history, Requested), "paused_approval")
    /\ status' # "failed" => pending_intent' = Len(sealed) + 1 /\ pending_transition' = t

\* A transition is applied after the dispatch of its action, if any, is recorded.
Applies ==
    /\ pc \in {"loop", "handling"} /\ status = "running"
    /\ UNCHANGED <<sealed, decisions, world>>
    /\ \/ /\ pc = "loop" /\ pending_intent = 0 /\ DropsPending
          /\ Counts(Append(history, Applied), "running")
       \/ /\ DropsPending
          /\ Counts(Append(Append(history, Recording), Applied), "running")
       \/ /\ SinkMayRaise /\ KeepsFate /\ UNCHANGED steps /\ pc' = "idle"
          /\ history' = Append(history, Recording)

Form == \/ Rests \/ Completes \/ Fails \/ Applies
        \/ \E t \in 1..Len(Transitions) : Dispatches(t) \/ Seals(t)
        \/ \E answer \in Answers(pending_intent) :
              Withholds(answer) \/ Denies(answer) \/ Grants(answer)

-----------------------------------------------------------------------------
(* What a step records. *)

\* The history of a step that emits two events, one after the other.
LEMMA EmitsTwo ==
    ASSUME NEW h \in Seq(Events), NEW a, NEW b
    PROVE  /\ h \o <<a>> = Append(h, a)
           /\ h \o (<<a>> \o <<b>>) = Append(Append(h, a), b)
           /\ <<>> \o <<a>> = <<a>>
  OBVIOUS

\* The history of a step that emits three.
LEMMA EmitsThree ==
    ASSUME NEW h \in Seq(Events), NEW a, NEW b, NEW c
    PROVE  h \o ((<<a>> \o <<b>>) \o <<c>>) = Append(Append(Append(h, a), b), c)
  OBVIOUS

\* fail(events, reason) records the failure after the events.
LEMMA FailForm ==
    ASSUME TypeOK, NEW events \in Seq(Events), NEW reason, fail(events, reason)
    PROVE  FailsNow /\ failure_reason' = reason
           /\ history' = Append(history \o events, Failure)
  <1>1. history' = history \o (events \o <<Failure>>)
    BY DEF fail, Emits, Failure
  <1>2. history \in Seq(Events) /\ Failure \in Events
    BY DEF TypeOK, Failure, Event, Events
  <1>3. history \o (events \o <<Failure>>) = Append(history \o events, Failure)
    BY <1>2
  <1>4. QED
    BY <1>1, <1>3 DEF fail, FailsNow, DropsPending, Returns

\* CountStep goes on, fails at the budget, or is left by a sink that raises.
LEMMA CountForm ==
    ASSUME TypeOK, RunnerAssumption, NEW events \in Seq(Events), NEW st, NEW intent,
           NEW transition, CountStep(events, st, intent, transition)
    PROVE  /\ Counts(history \o events, st)
           /\ \/ FailsNow
              \/ status' = st /\ pending_intent' = intent /\ pending_transition' = transition
  <1>1. steps' = steps + 1 /\ steps \in Nat /\ max_steps \in Nat
    BY DEF CountStep, TypeOK, RunnerAssumption
  <1>2. CASE fail(events, "budget")
    BY <1>1, <1>2, FailForm DEF Counts
  <1>3. CASE /\ ~Exhausted
             /\ status' = st /\ pending_intent' = intent /\ pending_transition' = transition
             /\ Emits(events) /\ Loops /\ UNCHANGED failure_reason
    BY <1>1, <1>3 DEF Counts, Exhausted, Emits, Loops
  <1>4. QED
    BY <1>2, <1>3 DEF CountStep

\* Apply records the transition after the events given and leaves the pending
\* effect given, unless the workflow failed.
LEMMA ApplyForm ==
    ASSUME TypeOK, RunnerAssumption, NEW t, NEW events \in Seq(Events), NEW intent,
           NEW transition, Apply(t, events, intent, transition), status = "running"
    PROVE  /\ Counts(history \o (events \o <<Applied>>), "running")
           /\ \/ FailsNow
              \/ pending_intent' = intent /\ pending_transition' = transition
  <1> DEFINE all == events \o <<Applied>>
  <1>1. Applied \in Events
    BY DEF Applied, Event, Events
  <1>2. all \in Seq(Events)
    BY <1>1
  <1>3. \/ CountStep(all, "running", intent, transition)
        \/ /\ SinkRaises(all)
           /\ pending_intent' = intent /\ pending_transition' = transition
           /\ UNCHANGED <<status, steps, failure_reason>>
    BY DEF Apply, Applied
  <1> HIDE DEF all
  <1>4. CASE CountStep(all, "running", intent, transition)
    BY <1>2, <1>4, CountForm DEF all
  <1>5. CASE /\ SinkRaises(all)
             /\ pending_intent' = intent /\ pending_transition' = transition
             /\ UNCHANGED <<status, steps, failure_reason>>
    BY <1>5 DEF SinkRaises, Emits, Returns, Counts, all
  <1>6. QED
    BY <1>3, <1>4, <1>5

\* What follows a dispatch applies the transition.
LEMMA DispatchedForm ==
    ASSUME TypeOK, RunnerAssumption, NEW t, NEW result, Dispatched(t, result),
           pc \in {"loop", "handling"}, status = "running",
           UNCHANGED <<sealed, decisions, world>>
    PROVE  Applies
  <1>1. history \in Seq(Events) /\ <<Recording>> \in Seq(Events)
    BY DEF TypeOK, Recording, Event, Events
  <1>2. CASE Apply(t, <<Recording>>, 0, 0)
    <2>1. /\ Counts(history \o (<<Recording>> \o <<Applied>>), "running")
          /\ FailsNow \/ (pending_intent' = 0 /\ pending_transition' = 0)
      BY <1>1, <1>2, ApplyForm
    <2>2. history \o (<<Recording>> \o <<Applied>>)
             = Append(Append(history, Recording), Applied)
      BY <1>1, EmitsTwo
    <2>3. QED
      BY <2>1, <2>2 DEF Applies, FailsNow, DropsPending
  <1>3. CASE /\ SinkRaises(<<Recording>>)
             /\ KeepsPending /\ UNCHANGED <<status, state, steps, failure_reason>>
    <2>1. history' = Append(history, Recording)
      BY <1>1, <1>3, EmitsTwo DEF SinkRaises, Emits
    <2>2. QED
      BY <1>3, <2>1 DEF Applies, SinkRaises, KeepsPending, KeepsFate, Returns
  <1>4. QED
    <2>1. \/ Apply(t, <<Recording>>, 0, 0)
          \/ SinkRaises(<<Recording>>)
             /\ KeepsPending /\ UNCHANGED <<status, state, steps, failure_reason>>
      BY DEF Dispatched, Recording
    <2>2. QED
      BY <1>2, <1>3, <2>1

\* So does a transition without an action.
LEMMA MoveForm ==
    ASSUME DefinitionAssumption, RunnerAssumption, TypeOK, Safe,
           NEW t \in 1..Len(Transitions), Move(t)
    PROVE  Applies
  <1>1. Apply(t, <<>>, 0, 0) /\ pc = "loop" /\ status = "running" /\ pending_intent = 0
    BY MoveIsUnpending DEF Move, AtTransition
  <1>2. <<>> \in Seq(Events) /\ history \in Seq(Events)
    BY DEF TypeOK
  <1>3. /\ Counts(history \o (<<>> \o <<Applied>>), "running")
        /\ FailsNow \/ (pending_intent' = 0 /\ pending_transition' = 0)
    BY <1>1, <1>2, ApplyForm
  <1>4. history \o (<<>> \o <<Applied>>) = Append(history, Applied)
    BY <1>2, EmitsTwo
  <1>5. QED
    BY <1>1, <1>3, <1>4 DEF Move, Applies, FailsNow, DropsPending, observations

\* Seal seals one more intent, of a payload the data gives.
LEMMA SealForm ==
    ASSUME DefinitionAssumption, RunnerAssumption, TypeOK, Safe,
           NEW t \in 1..Len(Transitions), Seal(t)
    PROVE  Seals(t)
  <1> DEFINE capability == Transitions[t].capability
             intent == seal_intent(Tenant, "pending-human", capability,
                           bind_intent(Tenant, capability, governed_payload(t)),
                           now, default_expiry(now, approval_ttl))
  <1>1. /\ sealed' = Append(sealed, intent) /\ UNCHANGED <<data, state, decisions, world>>
        /\ Resolvable(t) /\ pc = "loop" /\ status = "running"
        /\ pending_transition = 0
    BY DEF Seal, AtTransition, FirstArrival
  <1>2. intent.payload_digest.payload.input = resolved_input(t)
    BY DEF seal_intent, bind_intent, governed_payload
  <1> HIDE DEF intent
  <1>3. /\ Len(sealed') = Len(sealed) + 1
        /\ sealed'[Len(sealed) + 1] = intent
        /\ \A i \in Intents : sealed'[i] = sealed[i]
    BY <1>1 DEF TypeOK, Intents
  <1>4. history \in Seq(Events) /\ <<Requested>> \in Seq(Events)
    BY DEF TypeOK, Requested, Event, Events
  <1>5. history \o <<Requested>> = Append(history, Requested)
    BY <1>4, EmitsTwo
  <1>6. /\ Counts(Append(history, Requested), "paused_approval")
        /\ FailsNow \/ (pending_intent' = Len(sealed) + 1 /\ pending_transition' = t)
    <2>1. CASE CountStep(<<Requested>>, "paused_approval", Len(sealed) + 1, t)
      <3>1. Counts(history \o <<Requested>>, "paused_approval")
        BY <1>4, <2>1, CountForm
      <3>2. FailsNow \/ (pending_intent' = Len(sealed) + 1 /\ pending_transition' = t)
        BY <1>4, <2>1, CountForm
      <3>3. QED
        BY <1>5, <3>1, <3>2
    <2>2. CASE /\ SinkRaises(<<Requested>>)
               /\ status' = "paused_approval"
               /\ pending_intent' = Len(sealed) + 1 /\ pending_transition' = t
               /\ UNCHANGED <<steps, failure_reason>>
      BY <1>5, <2>2 DEF SinkRaises, Emits, Returns, Counts
    <2>3. QED
      BY <2>1, <2>2 DEF Seal, Requested
  <1>7. QED
    BY <1>1, <1>2, <1>3, <1>6 DEF Seals, FailsNow, Safe, PendingCoherent

\* Dispatch gives the handler the pending effect, and only where it is governed.
LEMMA DispatchForm ==
    ASSUME DefinitionAssumption, TypeOK, Safe, NEW t \in 1..Len(Transitions), Dispatch(t)
    PROVE  Dispatches(t)
  <1>1. /\ pc = "loop" /\ status = "running" /\ IsFirst(t, state)
        /\ Governed(t) => pending_transition # 0
    BY DEF Dispatch, Dispatching, AtTransition, FirstArrival
  <1>2. /\ pc' = "handling" /\ KeepsFate
        /\ UNCHANGED <<data, state, steps, history, sealed, decisions>>
    BY DEF Dispatch, instance, KeepsFate
  <1>3. ASSUME Governed(t) PROVE pending_intent # 0 /\ t = pending_transition
    <2>1. pending_intent # 0 /\ IsFirst(pending_transition, state)
      BY <1>1, <1>3 DEF Safe, PendingCoherent
    <2>2. QED
      BY <1>1, <2>1, FirstIsUnique
  <1>4. QED
    BY <1>1, <1>2, <1>3 DEF Dispatch, Dispatches

\* An answer leaves the workflow waiting, fails it, or grants the effect.
LEMMA DecideForm ==
    ASSUME DefinitionAssumption, TypeOK, Safe,
           NEW answer \in Answers(pending_intent), Decide(answer)
    PROVE  Withholds(answer) \/ Denies(answer) \/ Grants(answer)
  <1>1. Answered(answer)
    BY DEF Decide, Mismatch, Unresolvable, Reject, Invalid, Grant
  <1>2. Answering(answer)
    BY <1>1 DEF Answered, Answering, Safe, ControlCoherent, PendingCoherent
  <1>3. /\ history \in Seq(Events) /\ answer.intent_id \in Nat /\ pending_intent \in Nat
        /\ answer.approved \in BOOLEAN
    BY DEF TypeOK, Answers
  <1>4. Decision(answer).intent = pending_intent /\ Decision(answer).answer = answer
    BY DEF Decision
  <1>5. CASE Mismatch(answer)
    <2>1. history' = Append(history, Event("approval.mismatch", answer.intent_id))
      BY <1>3, <1>5 DEF Mismatch, Emits
    <2>2. ~Rejects(Decision(answer))
      BY <1>4, <1>5 DEF Mismatch, Rejects
    <2>3. KeepsFate /\ pc' = "idle"
      BY <1>5 DEF Mismatch, StaysPaused, KeepsPending, KeepsFate, Returns
    <2>4. QED
      BY <1>2, <1>3, <2>1, <2>2, <2>3 DEF Withholds
  <1>6. CASE Unresolvable(answer)
    BY <1>2, <1>6 DEF Unresolvable, StaysPaused, KeepsPending, KeepsFate, Returns, Withholds
  <1>7. CASE Invalid(answer)
    <2>1. history' = Append(history, Event("approval.invalid", pending_intent))
      BY <1>3, <1>7 DEF Invalid, Emits
    <2>2. ~Rejects(Decision(answer))
      BY <1>4, <1>7 DEF Invalid, Rejects
    <2>3. KeepsFate /\ pc' = "idle"
      BY <1>7 DEF Invalid, StaysPaused, KeepsPending, KeepsFate, Returns
    <2>4. QED
      BY <1>2, <1>3, <2>1, <2>2, <2>3 DEF Withholds
  <1>8. CASE Reject(answer)
    <2>1. <<Rejected>> \in Seq(Events)
      BY <1>3 DEF Rejected, Event, Events
    <2>2. history \o <<Rejected>> = Append(history, Rejected)
      BY <1>3, EmitsTwo
    <2>3. CASE fail(<<Rejected>>, "rejected")
      <3>1. FailsNow /\ history' = Append(history \o <<Rejected>>, Failure)
        BY <2>1, <2>3, FailForm
      <3>2. QED
        BY <1>2, <1>8, <2>2, <3>1 DEF Reject, Denies
    <2>4. CASE SinkRaises(<<Rejected>>) /\ KeepsPending /\ UNCHANGED <<status, failure_reason>>
      BY <1>2, <1>8, <2>2, <2>4 DEF Reject, SinkRaises, Emits, KeepsPending, KeepsFate,
         Returns, Denies
    <2>5. QED
      BY <1>8, <2>3, <2>4 DEF Reject, Rejected
  <1>9. CASE Grant(answer)
    <2>1. history \o <<Granted>> = Append(history, Granted)
      BY <1>3, EmitsTwo
    <2>2. answer.approved /\ Verified(answer)
      BY <1>9 DEF Grant
    <2>3. sealed[pending_intent].payload_digest.payload.input
             = resolved_input(pending_transition)
      BY <2>2 DEF Verified, verify_intent, bind_intent, governed_payload
    <2>4. history' = history \o <<Granted>>
      BY <1>9 DEF Grant, SinkRaises, Emits, Granted
    <2>5. UNCHANGED <<failure_reason, pending_intent, pending_transition>>
      BY <1>9 DEF Grant, KeepsPending
    <2>6. \/ status' = "running" /\ pc' = "loop" /\ resolved_here'
          \/ SinkMayRaise /\ status' = status /\ pc' = "idle"
      BY <1>9 DEF Grant, SinkRaises, Returns
    <2>7. QED
      BY <1>2, <2>1, <2>2, <2>3, <2>4, <2>5, <2>6 DEF Grants
  <1>10. QED
    BY <1>5, <1>6, <1>7, <1>8, <1>9 DEF Decide

\* Every step of the runner, of its callbacks and of its host has one of the forms.
LEMMA StepForms ==
    ASSUME DefinitionAssumption, RunnerAssumption, TypeOK, Safe, [Next]_vars
    PROVE  Form
  <1> USE DEF instance, activation, observations
  <1>1. ControlCoherent
    BY DEF Safe
  <1>2. CASE Host \/ UNCHANGED vars
    <2>1. CASE \E with_approver \in BOOLEAN : run(with_approver)
      BY <2>1 DEF run, Form, Rests, KeepsFate
    <2>2. CASE \E p \in Path, v \in HostData : EditData(p, v)
      BY <2>2 DEF EditData, Outside, Form, Rests, KeepsFate
    <2>3. CASE Tick \/ UNCHANGED vars
      BY <2>3 DEF Tick, vars, Form, Rests, KeepsFate
    <2>4. QED
      BY <1>2, <2>1, <2>2, <2>3 DEF Host
  <1>3. CASE ReturnPaused \/ AskApprover \/ ApproverRaises \/ HandlerRaises
    BY <1>1, <1>3 DEF ReturnPaused, AskApprover, ApproverRaises, HandlerRaises, Paused,
       Returns, ControlCoherent, Final, Form, Rests, KeepsFate
  <1>4. CASE Complete
    <2>1. pending_intent = 0 /\ pending_transition = 0
      BY <1>4 DEF Complete, AtEnd, Safe, PendingCoherent, IsFirst
    <2>2. history' = Append(history, Completion)
      BY <1>4, EmitsTwo DEF Complete, Emits, Completion, TypeOK
    <2>3. QED
      BY <1>4, <2>1, <2>2 DEF Complete, AtEnd, KeepsPending, Returns, DropsPending,
         Completes, Form
  <1>5. ASSUME NEW reason, fail(<<>>, reason), UNCHANGED <<steps, observations>>,
               pc \in {"loop", "handling"}, status = "running",
               pc = "handling" => reason = "handler"
        PROVE  Form
    <2>1. <<>> \in Seq(Events) /\ history \in Seq(Events)
      BY DEF TypeOK
    <2>2. FailsNow /\ failure_reason' = reason /\ history' = Append(history \o <<>>, Failure)
      BY <1>5, <2>1, FailForm
    <2>3. history \o <<>> = history
      BY <2>1
    <2>4. QED
      BY <1>5, <2>2, <2>3 DEF Fails, Form
  <1>6. CASE DeadEnd
    BY <1>5, <1>6 DEF DeadEnd, AtEnd
  <1>7. CASE HandlerFails
    BY <1>1, <1>5, <1>7 DEF HandlerFails, ControlCoherent
  <1>8. ASSUME NEW answer \in Answers(pending_intent), Decide(answer) PROVE Form
    BY <1>8, DecideForm DEF Form
  <1>9. ASSUME NEW t \in 1..Len(Transitions), Step(t) PROVE Form
    <2>1. CASE Move(t)
      BY <2>1, MoveForm DEF Form
    <2>2. CASE Seal(t)
      BY <2>2, SealForm DEF Form
    <2>3. CASE Refuse(t)
      <3>1. pc = "loop" /\ status = "running"
        BY <2>3 DEF Refuse, AtTransition
      <3>2. PICK reason : fail(<<>>, reason)
        BY <2>3 DEF Refuse
      <3>3. QED
        BY <1>5, <2>3, <3>1, <3>2 DEF Refuse
    <2>4. CASE DispatchUnhandled(t)
      BY <2>4, DispatchedForm DEF DispatchUnhandled, Dispatching, AtTransition, Form
    <2>5. CASE Dispatch(t)
      BY <2>5, DispatchForm DEF Form
    <2>6. QED
      BY <1>9, <2>1, <2>2, <2>3, <2>4, <2>5 DEF Step
  <1>10. ASSUME NEW t \in 1..Len(Transitions), NEW result \in Results,
                HandlerReturns(t, result)
         PROVE  Form
    BY <1>1, <1>10, DispatchedForm DEF HandlerReturns, ControlCoherent, Form
  <1>11. QED
    BY <1>2, <1>3, <1>4, <1>6, <1>7, <1>8, <1>9, <1>10 DEF Next, Run

\* The effects handed over.
Given == {world[n].intent : n \in 1..Len(world)}

\* They are sealed intents.
LEMMA GivenWasSealed ==
    ASSUME Safe
    PROVE  Given \subseteq Intents
  BY DEF Safe, EffectsApproved, Approved, Given

-----------------------------------------------------------------------------
(* What appending an event does to a history. *)

Ending(e) == e.type \in {"workflow.completed", "workflow.failed"}
EndsOnce(h) == \A n \in 1..Len(h) : Ending(h[n]) => n = Len(h)
Ended(h) == Ending(h[Len(h)])

\* The event was recorded.
Holds(h, e) == \E m \in 1..Len(h) : h[m] = e

\* What appending an event does to a history.
LEMMA AppendedEvents ==
    ASSUME NEW h \in Seq(Events), NEW e \in Events
    PROVE  /\ Append(h, e) \in Seq(Events) /\ Append(h, e) # <<>>
           /\ Len(Append(h, e)) = Len(h) + 1 /\ Len(h) \in Nat
           /\ Append(h, e)[Len(h) + 1] = e
           /\ \A n \in 1..Len(h) : Append(h, e)[n] = h[n]
           /\ \A n \in 1..(Len(h) + 1) : n \in 1..Len(h) \/ n = Len(h) + 1
  <1>1. /\ Append(h, e) \in Seq(Events)
        /\ Len(Append(h, e)) = Len(h) + 1 /\ Len(h) \in Nat
        /\ Append(h, e)[Len(h) + 1] = e
        /\ \A n \in 1..Len(h) : Append(h, e)[n] = h[n]
    OBVIOUS
  <1>2. Append(h, e) # <<>>
    BY <1>1
  <1>3. \A n \in 1..(Len(h) + 1) : n \in 1..Len(h) \/ n = Len(h) + 1
    BY <1>1
  <1>4. QED
    BY <1>1, <1>2, <1>3

\* The events the forms record are events.
LEMMA FormEvents ==
    ASSUME TypeOK
    PROVE  /\ Completion \in Events /\ Failure \in Events /\ Applied \in Events
           /\ Requested \in Events /\ Rejected \in Events /\ Granted \in Events
           /\ Recording \in Events
           /\ \A type \in {"approval.mismatch", "approval.invalid"}, i \in Nat :
                 Event(type, i) \in Events
  <1>1. pending_intent \in Nat /\ Len(sealed) \in Nat
    BY DEF TypeOK
  <1>2. QED
    BY <1>1 DEF Completion, Failure, Applied, Requested, Rejected, Granted, Recording,
       Event, Events

\* While no end is recorded, one more event leaves at most one end, at the end.
LEMMA EndStaysLast ==
    ASSUME NEW h \in Seq(Events), NEW e \in Events, h # <<>>, EndsOnce(h), ~Ended(h)
    PROVE  EndsOnce(Append(h, e)) /\ (Ended(Append(h, e)) <=> Ending(e))
  <1>1. Len(h) \in 1..Len(h)
    OBVIOUS
  <1>2. \A n \in 1..Len(h) : ~Ending(h[n])
    BY <1>1 DEF EndsOnce, Ended
  <1>3. \A n \in 1..(Len(h) + 1) : Ending(Append(h, e)[n]) => n = Len(h) + 1
    BY <1>2, AppendedEvents
  <1>4. QED
    BY <1>3, AppendedEvents DEF EndsOnce, Ended

-----------------------------------------------------------------------------
(* A final event is the last of the history. *)

EndInv ==
    /\ history # <<>> /\ EndsOnce(history)
    /\ status \in Final <=> Ended(history)
    /\ status \in Final => pc = "idle"

\* EndInv implies FinalIsLast.
LEMMA EndInvIsFinalIsLast ==
    ASSUME EndInv
    PROVE  FinalIsLast
  BY DEF EndInv, EndsOnce, Ended, Ending, FinalIsLast

\* After a step's events h, the run goes on or fails at once.
LEMMA CountsEnd ==
    ASSUME TypeOK, NEW h \in Seq(Events), h # <<>>, EndsOnce(h), ~Ended(h),
           NEW st \in Status \ Final, Counts(h, st)
    PROVE  EndInv'
  <1>1. CASE history' = h /\ status' = st
    BY <1>1 DEF EndInv
  <1>2. CASE history' = Append(h, Failure) /\ FailsNow
    <2>1. EndsOnce(Append(h, Failure)) /\ Ended(Append(h, Failure))
      BY FormEvents, EndStaysLast DEF Ending, Failure, Event
    <2>2. Append(h, Failure) # <<>>
      BY FormEvents, AppendedEvents
    <2>3. QED
      BY <1>2, <2>1, <2>2 DEF EndInv, FailsNow, Final
  <1>3. QED
    BY <1>1, <1>2 DEF Counts

\* Every form of step keeps EndInv.
LEMMA NextKeepsEnd ==
    ASSUME DefinitionAssumption, RunnerAssumption, TypeOK, Safe, EndInv, [Next]_vars
    PROVE  EndInv'
  <1> DEFINE Going(e) == e \in Events /\ ~Ending(e)
  <1>1. history \in Seq(Events) /\ history # <<>> /\ EndsOnce(history)
    BY DEF TypeOK, EndInv
  <1>2. status \notin Final => ~Ended(history)
    BY DEF EndInv
  <1>3. /\ Going(Applied) /\ Going(Requested) /\ Going(Rejected) /\ Going(Granted)
        /\ Going(Recording)
        /\ \A type \in {"approval.mismatch", "approval.invalid"}, i \in Nat :
              Going(Event(type, i))
    BY FormEvents DEF Ending, Applied, Requested, Rejected, Granted, Recording, Event
  <1>4. ASSUME NEW e, Going(e), NEW h \in Seq(Events), h # <<>>, EndsOnce(h), ~Ended(h)
        PROVE  /\ Append(h, e) \in Seq(Events) /\ Append(h, e) # <<>>
               /\ EndsOnce(Append(h, e)) /\ ~Ended(Append(h, e))
    BY <1>4, EndStaysLast, AppendedEvents
  <1> HIDE DEF Going
  <1>5. CASE Rests
    BY <1>5 DEF Rests, KeepsFate, EndInv
  <1>6. CASE Completes
    <2>1. status \notin Final
      BY <1>6 DEF Completes, Final
    <2>2. EndsOnce(history') /\ Ended(history') /\ history' # <<>>
      BY <1>1, <1>2, <1>6, <2>1, FormEvents, EndStaysLast, AppendedEvents
      DEF Completes, Ending, Completion, Event
    <2>3. QED
      BY <1>6, <2>2 DEF Completes, EndInv, Final
  <1>7. ASSUME FailsNow, NEW h \in Seq(Events), h # <<>>, EndsOnce(h), ~Ended(h),
               history' = Append(h, Failure)
        PROVE  EndInv'
    <2>1. EndsOnce(history') /\ Ended(history') /\ history' # <<>>
      BY <1>7, FormEvents, EndStaysLast, AppendedEvents DEF Ending, Failure, Event
    <2>2. QED
      BY <1>7, <2>1 DEF FailsNow, EndInv, Final
  <1>8. CASE Fails
    BY <1>1, <1>2, <1>7, <1>8 DEF Fails, Final
  <1>9. CASE Applies
    <2>1. ~Ended(history)
      BY <1>2, <1>9 DEF Applies, Final
    <2>2. "running" \in Status \ Final
      BY DEF Status, Final
    <2>3. CASE Counts(Append(history, Applied), "running")
      BY <1>1, <1>3, <1>4, <2>1, <2>2, <2>3, CountsEnd
    <2>4. CASE Counts(Append(Append(history, Recording), Applied), "running")
      <3> DEFINE h == Append(history, Recording)
      <3>1. h \in Seq(Events) /\ h # <<>> /\ EndsOnce(h) /\ ~Ended(h)
        BY <1>1, <1>3, <1>4, <2>1
      <3> HIDE DEF h
      <3>2. QED
        BY <1>3, <1>4, <2>2, <2>4, <3>1, CountsEnd DEF h
    <2>5. CASE KeepsFate /\ pc' = "idle" /\ history' = Append(history, Recording)
      BY <1>1, <1>3, <1>4, <1>9, <2>1, <2>5 DEF KeepsFate, Applies, EndInv
    <2>6. QED
      BY <1>9, <2>3, <2>4, <2>5 DEF Applies
  <1>10. ASSUME NEW t \in 1..Len(Transitions), Dispatches(t) PROVE EndInv'
    BY <1>10 DEF Dispatches, KeepsFate, EndInv, Final
  <1>11. ASSUME NEW t \in 1..Len(Transitions), Seals(t) PROVE EndInv'
    <2>1. ~Ended(history)
      BY <1>2, <1>11 DEF Seals, Final
    <2>2. "paused_approval" \in Status \ Final
      BY DEF Status, Final
    <2>3. QED
      BY <1>1, <1>3, <1>4, <1>11, <2>1, <2>2, CountsEnd DEF Seals
  <1>12. ASSUME NEW answer \in Answers(pending_intent),
                Withholds(answer) \/ Denies(answer) \/ Grants(answer)
         PROVE  EndInv'
    <2>1. status \notin Final
      BY <1>12 DEF Withholds, Denies, Grants, Answering, Final
    <2>2. CASE Withholds(answer)
      <3>1. /\ history' # <<>> /\ EndsOnce(history') /\ ~Ended(history')
        BY <1>1, <1>2, <1>3, <1>4, <2>1, <2>2 DEF Withholds
      <3>2. QED
        BY <2>1, <2>2, <3>1 DEF Withholds, KeepsFate, EndInv
    <2>3. CASE Denies(answer)
      <3> DEFINE h == Append(history, Rejected)
      <3>1. h \in Seq(Events) /\ h # <<>> /\ EndsOnce(h) /\ ~Ended(h)
        BY <1>1, <1>2, <1>3, <1>4, <2>1
      <3>2. CASE FailsNow /\ history' = Append(h, Failure)
        <4> HIDE DEF h
        <4>1. QED
          BY <1>7, <3>1, <3>2
      <3>3. CASE KeepsFate /\ pc' = "idle" /\ history' = h
        BY <2>1, <3>1, <3>3 DEF KeepsFate, EndInv
      <3>4. QED
        BY <2>3, <3>2, <3>3 DEF Denies
    <2>4. CASE Grants(answer)
      <3>1. /\ history' # <<>> /\ EndsOnce(history') /\ ~Ended(history')
        BY <1>1, <1>2, <1>3, <1>4, <2>1, <2>4 DEF Grants
      <3>2. status' \notin Final
        BY <2>1, <2>4 DEF Grants, Final
      <3>3. QED
        BY <3>1, <3>2 DEF EndInv
    <2>5. QED
      BY <1>12, <2>2, <2>3, <2>4
  <1>13. QED
    BY <1>5, <1>6, <1>8, <1>9, <1>10, <1>11, <1>12, StepForms DEF Form

\* So it always holds.
LEMMA EndInvariance == Spec => []EndInv
  <1>1. Init => EndInv
    BY DEF Init, EndInv, EndsOnce, Ended, Ending, Event, Final
  <1>2. RunnerInv /\ EndInv /\ [Next]_vars => EndInv'
    BY DefinitionAssumption, RunnerAssumption, NextKeepsEnd DEF RunnerInv, Safe
  <1>3. QED
    BY <1>1, <1>2, Invariance, PTL DEF Spec

\* Nothing runs or is recorded after the end of a workflow, and the end is recorded
\* exactly when the instance is final, whatever raises in between.
THEOREM EndsOnceOnly == Spec => []FinalIsLast
  <1>1. EndInv => FinalIsLast
    BY EndInvIsFinalIsLast
  <1>2. QED
    BY <1>1, EndInvariance, PTL

-----------------------------------------------------------------------------
(* The audit trail is ordered. *)

Before(h, type, n) == \E m \in 1..(n - 1) : h[m] = Event(type, h[n].intent)

OrderedAt(h, n) ==
    /\ h[n].type = "action.dispatched" /\ h[n].intent # 0 => Before(h, "approval.granted", n)
    /\ h[n].type \in {"approval.granted", "approval.rejected"}
          => Before(h, "approval.requested", n)

Ordered(h) == \A n \in 1..Len(h) : OrderedAt(h, n)

\* The event e may be recorded after h.
MayFollow(h, e) ==
    /\ e.type = "action.dispatched" /\ e.intent # 0
          => Holds(h, Event("approval.granted", e.intent))
    /\ e.type \in {"approval.granted", "approval.rejected"}
          => Holds(h, Event("approval.requested", e.intent))

\* The pending effect was requested, and granted if the instance runs with it.
OrderInv ==
    /\ Ordered(history)
    /\ pending_intent # 0 => Holds(history, Event("approval.requested", pending_intent))
    /\ status = "running" /\ pending_intent # 0 => Holds(history, Granted)

\* A history holds what was appended to it, and nothing else is new.
LEMMA HoldsGrows ==
    ASSUME NEW h \in Seq(Events), NEW e \in Events
    PROVE  /\ \A f : Holds(h, f) => Holds(Append(h, e), f)
           /\ Holds(Append(h, e), e)
           /\ \A f : Holds(Append(h, e), f) => Holds(h, f) \/ f = e
  <1>1. ASSUME NEW m \in 1..Len(h) PROVE m \in 1..Len(Append(h, e))
    BY AppendedEvents
  <1>2. Len(h) + 1 \in 1..Len(Append(h, e))
    BY AppendedEvents
  <1>3. QED
    BY <1>1, <1>2, AppendedEvents DEF Holds

\* An event that may follow keeps the order.
LEMMA OrderGrows ==
    ASSUME NEW h \in Seq(Events), NEW e \in Events, Ordered(h), MayFollow(h, e)
    PROVE  Ordered(Append(h, e))
  <1> DEFINE g == Append(h, e)
  <1> SUFFICES ASSUME NEW n \in 1..Len(g) PROVE OrderedAt(g, n)
    BY DEF Ordered
  <1>1. /\ Len(h) \in Nat /\ Len(g) = Len(h) + 1 /\ g[Len(h) + 1] = e
        /\ \A m \in 1..Len(h) : g[m] = h[m]
    BY AppendedEvents
  <1> HIDE DEF g
  <1>2. CASE n \in 1..Len(h)
    <2>1. g[n] = h[n] /\ \A m \in 1..(n - 1) : g[m] = h[m]
      BY <1>1, <1>2
    <2>2. OrderedAt(h, n)
      BY <1>2 DEF Ordered
    <2>3. QED
      BY <2>1, <2>2 DEF OrderedAt, Before
  <1>3. CASE n = Len(h) + 1
    <2>1. ASSUME NEW type, Holds(h, Event(type, e.intent)) PROVE Before(g, type, n)
      <3>1. PICK m \in 1..Len(h) : h[m] = Event(type, e.intent)
        BY <2>1 DEF Holds
      <3>2. m \in 1..(n - 1) /\ g[m] = Event(type, g[n].intent)
        BY <1>1, <1>3, <3>1
      <3>3. QED
        BY <3>2 DEF Before
    <2>2. g[n] = e
      BY <1>1, <1>3
    <2>3. QED
      BY <2>1, <2>2 DEF MayFollow, OrderedAt
  <1>4. QED
    BY <1>1, <1>2, <1>3

\* After a step's events h, the run goes on or fails; the pending effect it
\* leaves was requested, and a running instance is left with none.
LEMMA CountsInOrder ==
    ASSUME TypeOK, NEW h \in Seq(Events), Ordered(h), NEW st, Counts(h, st),
           FailsNow \/ pending_intent' = 0
              \/ (st # "running" /\ Holds(h, Event("approval.requested", pending_intent')))
    PROVE  OrderInv'
  <1>1. Failure \in Events /\ MayFollow(h, Failure)
    BY FormEvents DEF MayFollow, Failure, Event
  <1>2. CASE history' = h /\ status' = st /\ ~FailsNow
    BY <1>2 DEF OrderInv
  <1>3. CASE history' = Append(h, Failure) /\ FailsNow
    BY <1>1, <1>3, OrderGrows DEF OrderInv, FailsNow, DropsPending
  <1>4. CASE history' = h /\ status' = st /\ FailsNow
    BY <1>4 DEF OrderInv, FailsNow, DropsPending
  <1>5. QED
    BY <1>2, <1>3, <1>4 DEF Counts

\* Every form of step records only what may follow.
LEMMA NextKeepsOrder ==
    ASSUME DefinitionAssumption, RunnerAssumption, TypeOK, Safe, OrderInv, [Next]_vars
    PROVE  OrderInv'
  <1>1. history \in Seq(Events) /\ Ordered(history)
    BY DEF TypeOK, OrderInv
  <1>2. /\ Completion \in Events /\ MayFollow(history, Completion)
        /\ Failure \in Events /\ \A h : MayFollow(h, Failure)
        /\ Applied \in Events /\ \A h : MayFollow(h, Applied)
        /\ Requested \in Events /\ MayFollow(history, Requested)
    BY FormEvents DEF MayFollow, Completion, Failure, Applied, Requested, Event
  <1>3. CASE Rests
    BY <1>3 DEF Rests, KeepsFate, OrderInv, Granted
  <1>4. CASE Completes
    BY <1>1, <1>2, <1>4, OrderGrows DEF Completes, DropsPending, OrderInv
  <1>5. CASE Fails
    BY <1>1, <1>2, <1>5, OrderGrows DEF Fails, FailsNow, DropsPending, OrderInv
  <1>6. CASE Applies
    <2> DEFINE h == Append(history, Recording)
    <2>1. CASE DropsPending /\ Counts(Append(history, Applied), "running")
      <3>1. Append(history, Applied) \in Seq(Events) /\ Ordered(Append(history, Applied))
        BY <1>1, <1>2, AppendedEvents, OrderGrows
      <3>2. QED
        BY <2>1, <3>1, CountsInOrder DEF DropsPending
    <2>2. h \in Seq(Events) /\ Ordered(h)
      <3>1. Recording \in Events /\ MayFollow(history, Recording)
        BY <1>6, FormEvents DEF Applies, OrderInv, MayFollow, Recording, Granted, Event
      <3>2. QED
        BY <1>1, <3>1, AppendedEvents, OrderGrows
    <2>3. CASE DropsPending /\ Counts(Append(h, Applied), "running")
      <3> HIDE DEF h
      <3>1. Append(h, Applied) \in Seq(Events) /\ Ordered(Append(h, Applied))
        BY <1>2, <2>2, AppendedEvents, OrderGrows
      <3>2. QED
        BY <2>3, <3>1, CountsInOrder DEF DropsPending
    <2>4. CASE KeepsFate /\ history' = h
      <3>1. \A f : Holds(history, f) => Holds(h, f)
        BY <1>1, FormEvents, HoldsGrows
      <3>2. QED
        BY <1>6, <2>2, <2>4, <3>1 DEF KeepsFate, Applies, OrderInv, Granted
    <2>5. QED
      BY <1>6, <2>1, <2>3, <2>4 DEF Applies
  <1>7. ASSUME NEW t \in 1..Len(Transitions), Dispatches(t) PROVE OrderInv'
    BY <1>7 DEF Dispatches, KeepsFate, OrderInv, Granted
  <1>8. ASSUME NEW t \in 1..Len(Transitions), Seals(t) PROVE OrderInv'
    <2> DEFINE h == Append(history, Requested)
    <2>1. h \in Seq(Events) /\ Ordered(h) /\ Holds(h, Requested)
      BY <1>1, <1>2, AppendedEvents, OrderGrows, HoldsGrows
    <2>2. Counts(h, "paused_approval")
      BY <1>8 DEF Seals
    <2>3. status' # "failed" => Event("approval.requested", pending_intent') = Requested
      BY <1>8 DEF Seals, Requested
    <2>4. status' = "failed" => FailsNow
      BY <2>2 DEF Counts
    <2> HIDE DEF h
    <2>5. FailsNow \/ Holds(h, Event("approval.requested", pending_intent'))
      BY <2>1, <2>3, <2>4
    <2>6. QED
      BY <2>1, <2>2, <2>5, CountsInOrder
  <1>9. ASSUME NEW answer \in Answers(pending_intent),
               Withholds(answer) \/ Denies(answer) \/ Grants(answer)
        PROVE  OrderInv'
    <2>1. status = "paused_approval" /\ pending_intent # 0
      BY <1>9 DEF Withholds, Denies, Grants, Answering
    <2>2. /\ Rejected \in Events /\ MayFollow(history, Rejected)
          /\ Granted \in Events /\ MayFollow(history, Granted)
      BY <2>1, FormEvents DEF OrderInv, MayFollow, Rejected, Granted, Event
    <2>3. \A type \in {"approval.mismatch", "approval.invalid"}, i \in Nat :
             Event(type, i) \in Events /\ MayFollow(history, Event(type, i))
      BY FormEvents DEF MayFollow, Event
    <2>4. \A e \in Events : \A f : Holds(history, f) => Holds(Append(history, e), f)
      BY <1>1, HoldsGrows
    <2>5. CASE Withholds(answer)
      <3>1. Ordered(history') /\ \A f : Holds(history, f) => Holds(history', f)
        BY <1>1, <2>3, <2>4, <2>5, OrderGrows DEF Withholds
      <3>2. QED
        BY <2>1, <2>5, <3>1 DEF Withholds, KeepsFate, OrderInv
    <2>6. CASE Denies(answer)
      <3> DEFINE h == Append(history, Rejected)
      <3>1. h \in Seq(Events) /\ Ordered(h) /\ \A f : Holds(history, f) => Holds(h, f)
        BY <1>1, <2>2, <2>4, AppendedEvents, OrderGrows
      <3> HIDE DEF h
      <3>2. CASE FailsNow /\ history' = Append(h, Failure)
        BY <1>2, <3>1, <3>2, OrderGrows DEF FailsNow, DropsPending, OrderInv
      <3>3. CASE KeepsFate /\ history' = h
        BY <2>1, <3>1, <3>3 DEF KeepsFate, OrderInv
      <3>4. QED
        BY <2>6, <3>2, <3>3 DEF Denies, h
    <2>7. CASE Grants(answer)
      <3>1. /\ Ordered(history') /\ Holds(history', Granted)
            /\ \A f : Holds(history, f) => Holds(history', f)
        BY <1>1, <2>2, <2>4, <2>7, OrderGrows, HoldsGrows DEF Grants
      <3>2. QED
        BY <2>1, <2>7, <3>1 DEF Grants, OrderInv, Granted
    <2>8. QED
      BY <1>9, <2>5, <2>6, <2>7
  <1>10. QED
    BY <1>3, <1>4, <1>5, <1>6, <1>7, <1>8, <1>9, StepForms DEF Form

\* The grant of a governed dispatch is recorded before it, and the request before
\* the grant or the rejection.
THEOREM AuditIsOrdered == Spec => []AuditOrdered
  <1>1. Init => OrderInv
    BY DEF Init, OrderInv, Ordered, OrderedAt, Event
  <1>2. RunnerInv /\ OrderInv /\ [Next]_vars => OrderInv'
    BY DefinitionAssumption, RunnerAssumption, NextKeepsOrder DEF RunnerInv, Safe
  <1>3. OrderInv => AuditOrdered
    BY DEF OrderInv, Ordered, OrderedAt, Before, AuditOrdered, Precedes
  <1>4. QED
    BY <1>1, <1>2, <1>3, Invariance, PTL DEF Spec

-----------------------------------------------------------------------------
(* One decision for each call of run(). *)

\* An active call that has its decision says so in resolved_here, and asks only
\* before.
CallInv ==
    /\ \A d \in decisions : d.call \in Nat /\ d.call <= calls
    /\ pc # "idle" => \A d \in decisions : d.call = calls => resolved_here
    /\ pc = "approving" => ~resolved_here
    /\ OneDecisionPerCall

\* Steps that neither ask, nor decide, nor start a call.
LEMMA CallInvStays ==
    ASSUME CallInv, UNCHANGED <<decisions, calls, resolved_here>>,
           pc' # "idle" => pc # "idle", pc' = "approving" => pc = "approving"
    PROVE  CallInv'
  BY DEF CallInv, OneDecisionPerCall

\* An answer is the first of its call.
LEMMA DecideOncePerCall ==
    ASSUME TypeOK, CallInv, NEW answer \in Answers(pending_intent), Decide(answer)
    PROVE  CallInv'
  <1> DEFINE new == Decision(answer)
  <1>1. Answered(answer)
    BY DEF Decide, Mismatch, Unresolvable, Reject, Invalid, Grant
  <1>2. pc = "approving" /\ decisions' = decisions \cup {new} /\ calls' = calls
    BY <1>1 DEF Answered
  <1>3. new.call = calls /\ calls \in Nat
    BY DEF Decision, TypeOK
  <1> HIDE DEF new
  <1>4. \A d \in decisions : d.call # calls
    BY <1>2 DEF CallInv
  <1>5. \A d \in decisions' : d.call \in Nat /\ d.call <= calls'
    BY <1>2, <1>3 DEF CallInv
  <1>6. OneDecisionPerCall'
    BY <1>2, <1>3, <1>4 DEF CallInv, OneDecisionPerCall
  <1>7. pc' = "idle" \/ (pc' = "loop" /\ resolved_here' = TRUE)
    BY DEF Decide, Mismatch, Unresolvable, Reject, Invalid, Grant, StaysPaused, fail,
       SinkRaises, Returns
  <1>8. QED
    BY <1>5, <1>6, <1>7 DEF CallInv

\* Every step keeps CallInv.
LEMMA NextKeepsCalls ==
    ASSUME TypeOK, CallInv, [Next]_vars
    PROVE  CallInv'
  <1> USE DEF instance, activation, observations
  <1>1. ASSUME NEW with_approver \in BOOLEAN, run(with_approver) PROVE CallInv'
    <2>1. /\ calls' = calls + 1 /\ calls \in Nat /\ decisions' = decisions
          /\ pc' = "loop" /\ resolved_here' = FALSE
      BY <1>1 DEF run, TypeOK
    <2>2. \A d \in decisions' : d.call \in Nat /\ d.call <= calls' /\ d.call # calls'
      BY <2>1 DEF CallInv
    <2>3. QED
      BY <2>1, <2>2 DEF CallInv, OneDecisionPerCall
  <1>2. CASE AskApprover
    BY <1>2 DEF AskApprover, Paused, MayAsk, CallInv, OneDecisionPerCall
  <1>3. ASSUME NEW answer \in Answers(pending_intent), Decide(answer) PROVE CallInv'
    BY <1>3, DecideOncePerCall
  <1>4. CASE ReturnPaused \/ Complete \/ DeadEnd \/ ApproverRaises \/ HandlerFails
             \/ HandlerRaises
    BY <1>4, CallInvStays DEF ReturnPaused, Complete, DeadEnd, ApproverRaises,
       HandlerFails, HandlerRaises, fail, Returns
  <1>5. ASSUME NEW t, NEW events, NEW intent, NEW transition,
               Apply(t, events, intent, transition), UNCHANGED <<decisions, calls>>,
               pc # "idle"
        PROVE  CallInv'
    <2> DEFINE applied == events \o <<Event("transition.applied", 0)>>
    <2>1. CountStep(applied, "running", intent, transition) \/ SinkRaises(applied)
      BY <1>5 DEF Apply
    <2>2. resolved_here' = resolved_here /\ pc' # "approving"
      BY <2>1 DEF CountStep, fail, SinkRaises, Returns, Loops
    <2>3. QED
      BY <1>5, <2>2, CallInvStays
  <1>6. ASSUME NEW t, NEW result, Dispatched(t, result), UNCHANGED <<decisions, calls>>,
               pc # "idle"
        PROVE  CallInv'
    <2>1. CASE \E events : Apply(t, events, 0, 0)
      BY <1>5, <1>6, <2>1
    <2>2. CASE \E events : SinkRaises(events)
      BY <1>6, <2>2, CallInvStays DEF SinkRaises, Returns
    <2>3. QED
      BY <1>6, <2>1, <2>2 DEF Dispatched
  <1>7. ASSUME NEW t \in 1..Len(Transitions), Step(t) PROVE CallInv'
    <2>1. CASE Move(t)
      BY <1>5, <2>1 DEF Move, AtTransition
    <2>2. CASE Seal(t)
      <3>1. resolved_here' = resolved_here /\ pc' # "approving"
        BY <2>2 DEF Seal, CountStep, fail, SinkRaises, Returns, Loops
      <3>2. QED
        BY <2>2, <3>1, CallInvStays DEF Seal, AtTransition
    <2>3. CASE Refuse(t)
      BY <2>3, CallInvStays DEF Refuse, fail, Returns
    <2>4. CASE DispatchUnhandled(t)
      BY <1>6, <2>4 DEF DispatchUnhandled, Dispatching, AtTransition
    <2>5. CASE Dispatch(t)
      BY <2>5, CallInvStays DEF Dispatch, Dispatching, AtTransition
    <2>6. QED
      BY <1>7, <2>1, <2>2, <2>3, <2>4, <2>5 DEF Step
  <1>8. ASSUME NEW t \in 1..Len(Transitions), NEW result \in Results,
               HandlerReturns(t, result)
        PROVE  CallInv'
    BY <1>6, <1>8 DEF HandlerReturns
  <1>9. CASE Tick \/ UNCHANGED vars \/ \E p \in Path, v \in HostData : EditData(p, v)
    BY <1>9, CallInvStays DEF Tick, vars, EditData
  <1>10. QED
    BY <1>1, <1>2, <1>3, <1>4, <1>7, <1>8, <1>9 DEF Next, Run, Host

\* A call of run() takes at most one human decision, whatever the approver answers
\* or raises and however often the host calls again.
THEOREM DecidesOncePerCall == Spec => []OneDecisionPerCall
  <1>1. Init => CallInv
    BY DEF Init, CallInv, OneDecisionPerCall
  <1>2. TypeOK /\ CallInv /\ [Next]_vars => CallInv'
    BY NextKeepsCalls
  <1>3. CallInv => OneDecisionPerCall
    BY DEF CallInv
  <1>4. QED
    BY <1>1, <1>2, <1>3, TypeCorrect, PTL DEF Spec

-----------------------------------------------------------------------------
(* The budget. *)

Charged(e) == e.type \in {"approval.requested", "transition.applied"}
Charges(h) == {n \in 1..Len(h) : Charged(h[n])}

\* An instance that may still run has steps left.
Within == status \notin Final => steps < max_steps

\* One more event is one more charge, or none.
LEMMA ChargesGrow ==
    ASSUME NEW h \in Seq(Events), NEW e \in Events
    PROVE  /\ Charged(e) => Cardinality(Charges(Append(h, e))) = Cardinality(Charges(h)) + 1
           /\ ~Charged(e) => Charges(Append(h, e)) = Charges(h)
           /\ Cardinality(Charges(h)) \in Nat
  <1>1. Len(h) \in Nat
    OBVIOUS
  <1>2. IsFiniteSet(1..Len(h))
    BY <1>1, FS_Interval
  <1>3. IsFiniteSet(Charges(h))
    BY <1>2, FS_Subset DEF Charges
  <1>4. Len(h) + 1 \notin Charges(h)
    BY <1>1 DEF Charges
  <1>5. ASSUME Charged(e) PROVE Charges(Append(h, e)) = Charges(h) \cup {Len(h) + 1}
    BY <1>1, <1>5, AppendedEvents DEF Charges
  <1>6. ASSUME ~Charged(e) PROVE Charges(Append(h, e)) = Charges(h)
    BY <1>1, <1>6, AppendedEvents DEF Charges
  <1>7. Cardinality(Charges(h) \cup {Len(h) + 1}) = Cardinality(Charges(h)) + 1
    BY <1>3, <1>4, FS_AddElement
  <1>8. Cardinality(Charges(h)) \in Nat
    BY <1>3, FS_CardinalityType
  <1>9. QED
    BY <1>5, <1>6, <1>7, <1>8

\* Every form of step stays within the budget.
LEMMA NextStaysWithin ==
    ASSUME DefinitionAssumption, RunnerAssumption, TypeOK, Safe, Within, [Next]_vars
    PROVE  Within'
  <1>1. ASSUME NEW h, NEW st, Counts(h, st), status = "running" PROVE Within'
    BY <1>1 DEF Counts, FailsNow, Within, Final
  <1>2. CASE Rests
    BY <1>2 DEF Rests, KeepsFate, Within
  <1>3. CASE Completes \/ Fails
    BY <1>3 DEF Completes, Fails, FailsNow, Within, Final
  <1>4. CASE Applies
    BY <1>1, <1>4 DEF Applies, KeepsFate, Within
  <1>5. ASSUME NEW t \in 1..Len(Transitions), Dispatches(t) \/ Seals(t) PROVE Within'
    BY <1>1, <1>5 DEF Dispatches, Seals, KeepsFate, Within
  <1>6. ASSUME NEW answer \in Answers(pending_intent),
               Withholds(answer) \/ Denies(answer) \/ Grants(answer)
        PROVE  Within'
    BY <1>6 DEF Withholds, Denies, Grants, Answering, KeepsFate, FailsNow, Within, Final
  <1>7. QED
    BY <1>2, <1>3, <1>4, <1>5, <1>6, StepForms DEF Form

\* No instance runs beyond its step budget: one that may still run has a step
\* left, also when sinks and callbacks raise.
THEOREM StepsWithinBudget == Spec => [](status \notin Final => steps < max_steps)
  <1>1. Init => Within
    BY RunnerAssumption DEF Init, Within
  <1>2. RunnerInv /\ Within /\ [Next]_vars => Within'
    BY DefinitionAssumption, RunnerAssumption, NextStaysWithin DEF RunnerInv, Safe
  <1>3. Within <=> (status \notin Final => steps < max_steps)
    BY DEF Within
  <1>4. QED
    BY <1>1, <1>2, <1>3, Invariance, PTL DEF Spec

AllCharged == steps = Cardinality(Charges(history))

\* Every form of step charges what it records, given a sink that does not raise.
LEMMA NextChargesAll ==
    ASSUME DefinitionAssumption, RunnerAssumption, TypeOK, Safe, ~SinkMayRaise,
           AllCharged, [Next]_vars
    PROVE  AllCharged'
  <1> DEFINE Free(e) == e \in Events /\ ~Charged(e)
  <1>1. history \in Seq(Events)
    BY DEF TypeOK
  <1>2. /\ Free(Completion) /\ Free(Failure) /\ Free(Rejected) /\ Free(Granted)
        /\ Free(Recording)
        /\ \A type \in {"approval.mismatch", "approval.invalid"}, i \in Nat :
              Free(Event(type, i))
        /\ Charged(Requested) /\ Charged(Applied)
        /\ Requested \in Events /\ Applied \in Events
    BY FormEvents DEF Charged, Completion, Failure, Rejected, Granted, Recording,
       Requested, Applied, Event
  <1>3. ASSUME NEW h \in Seq(Events), NEW e, Free(e)
        PROVE  Append(h, e) \in Seq(Events) /\ Charges(Append(h, e)) = Charges(h)
    BY <1>3, AppendedEvents, ChargesGrow
  <1> HIDE DEF Free
  <1>4. ASSUME NEW h \in Seq(Events), NEW e \in Events, Charged(e), NEW st,
               Charges(h) = Charges(history), Counts(Append(h, e), st)
        PROVE  AllCharged'
    <2> DEFINE g == Append(h, e)
    <2>1. g \in Seq(Events) /\ Cardinality(Charges(g)) = steps + 1
      BY <1>4, AppendedEvents, ChargesGrow DEF AllCharged
    <2> HIDE DEF g
    <2>2. steps' = steps + 1 /\ history' \in {g, Append(g, Failure)}
      BY <1>4 DEF Counts, g
    <2>3. Charges(Append(g, Failure)) = Charges(g)
      BY <1>2, <1>3, <2>1
    <2>4. QED
      BY <2>1, <2>2, <2>3 DEF AllCharged
  <1>5. ASSUME UNCHANGED steps, Charges(history') = Charges(history) PROVE AllCharged'
    BY <1>5 DEF AllCharged
  <1>6. CASE Rests
    BY <1>5, <1>6 DEF Rests
  <1>7. CASE Completes \/ Fails
    BY <1>1, <1>2, <1>3, <1>5, <1>7 DEF Completes, Fails
  <1>8. CASE Applies
    <2>1. Append(history, Recording) \in Seq(Events)
          /\ Charges(Append(history, Recording)) = Charges(history)
      BY <1>1, <1>2, <1>3
    <2>2. CASE Counts(Append(history, Applied), "running")
      BY <1>1, <1>2, <1>4, <2>2
    <2>3. CASE Counts(Append(Append(history, Recording), Applied), "running")
      BY <1>2, <1>4, <2>1, <2>3
    <2>4. QED
      BY <1>8, <2>2, <2>3 DEF Applies
  <1>9. ASSUME NEW t \in 1..Len(Transitions), Dispatches(t) PROVE AllCharged'
    BY <1>5, <1>9 DEF Dispatches
  <1>10. ASSUME NEW t \in 1..Len(Transitions), Seals(t) PROVE AllCharged'
    BY <1>1, <1>2, <1>4, <1>10 DEF Seals
  <1>11. ASSUME NEW answer \in Answers(pending_intent),
                Withholds(answer) \/ Denies(answer) \/ Grants(answer)
         PROVE  AllCharged'
    <2>1. UNCHANGED steps
      BY <1>11 DEF Withholds, Denies, Grants, Answering
    <2>2. CASE Withholds(answer)
      BY <1>1, <1>2, <1>3, <1>5, <2>1, <2>2 DEF Withholds
    <2>3. CASE Denies(answer)
      <3> DEFINE h == Append(history, Rejected)
      <3>1. h \in Seq(Events) /\ Charges(h) = Charges(history)
        BY <1>1, <1>2, <1>3
      <3> HIDE DEF h
      <3>2. history' = Append(h, Failure)
        BY <2>3 DEF Denies, h
      <3>3. Charges(history') = Charges(history)
        BY <1>2, <1>3, <3>1, <3>2
      <3>4. QED
        BY <1>5, <2>1, <3>3
    <2>4. CASE Grants(answer)
      BY <1>1, <1>2, <1>3, <1>5, <2>1, <2>4 DEF Grants
    <2>5. QED
      BY <1>11, <2>2, <2>3, <2>4
  <1>12. QED
    BY <1>6, <1>7, <1>8, <1>9, <1>10, <1>11, StepForms DEF Form

\* Nothing is recorded that would have to be charged.
LEMMA InitChargesNothing ==
    ASSUME Init
    PROVE  AllCharged
  <1>1. history = <<Event("workflow.started", 0)>> /\ steps = 0
    BY DEF Init
  <1>2. Charges(history) = {}
    BY <1>1 DEF Charges, Charged, Event
  <1>3. QED
    BY <1>1, <1>2, FS_EmptySet DEF AllCharged

\* With a sink that does not raise, steps counts exactly the pauses and the
\* transitions the history records, so none goes uncharged.
THEOREM BudgetIsCharged == ASSUME ~SinkMayRaise PROVE Spec => []BudgetCharged
  <1>1. Init => AllCharged
    BY InitChargesNothing
  <1>2. RunnerInv /\ AllCharged /\ [Next]_vars => AllCharged'
    BY DefinitionAssumption, RunnerAssumption, NextChargesAll DEF RunnerInv, Safe
  <1>3. (status \notin Final => steps < max_steps) /\ AllCharged => BudgetCharged
    BY DEF AllCharged, Charges, Charged, BudgetCharged
  <1>4. QED
    BY <1>1, <1>2, <1>3, Invariance, StepsWithinBudget, PTL DEF Spec

================================================================================
