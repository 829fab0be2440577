----------------------------- MODULE RunnerProofs -----------------------------
(***************************************************************************)
(* Proofs about Runner, for every workflow definition, policy, budget and  *)
(* bound, with callbacks and sinks that raise and a host that edits data.  *)
(***************************************************************************)
EXTENDS RunnerProperties, TLAPS

\* Concatenating events to a history gives a history.
LEMMA HistoryGrows ==
    ASSUME NEW h \in Seq(Events), NEW e \in Seq(Events)
    PROVE  h \o e \in Seq(Events)
  OBVIOUS

\* What resolved_input returns is a partial function over the paths.
LEMMA ResolvedInputType ==
    ASSUME DefinitionAssumption, data \in [Path -> Value \cup {Missing}],
           NEW t \in 1..Len(Transitions)
    PROVE  resolved_input(t) \in Inputs
  <1> DEFINE P == Transitions[t].input_from
  <1>1. Transitions[t] \in TransitionSpec
    BY DEF DefinitionAssumption
  <1>2. P \in SUBSET Path
    BY <1>1 DEF TransitionSpec
  <1>3. [p \in P |-> data[p]] \in [P -> Value \cup {Missing}]
    BY <1>2
  <1>4. QED
    BY <1>2, <1>3 DEF resolved_input, Inputs

-----------------------------------------------------------------------------
(* Type correctness. *)

\* What a step does to the instance through CountStep, SinkRaises or fail keeps
\* its types: the facts every action below needs.
LEMMA FailType ==
    ASSUME TypeOK, NEW events \in Seq(Events), NEW reason, fail(events, reason)
    PROVE  /\ status' \in Status /\ pending_intent' = 0 /\ pending_transition' = 0
           /\ history' \in Seq(Events)
           /\ pc' = "idle" /\ approver' \in BOOLEAN /\ resolved_here' \in BOOLEAN
  <1>1. <<Event("workflow.failed", 0)>> \in Seq(Events)
    BY DEF Event, Events
  <1>2. events \o <<Event("workflow.failed", 0)>> \in Seq(Events)
    BY <1>1, HistoryGrows
  <1>3. history \in Seq(Events)
    BY DEF TypeOK
  <1>4. history' \in Seq(Events)
    BY <1>2, <1>3, HistoryGrows DEF fail, Emits
  <1>5. QED
    BY <1>4 DEF fail, Returns, TypeOK, Status

\* No pending effect is always in range.
LEMMA PendingRanges ==
    ASSUME DefinitionAssumption, NEW s \in Seq(SealedIntents)
    PROVE  0 \in 0..Len(s) /\ 0 \in 0..Len(Transitions)
  BY DEF DefinitionAssumption

\* A step that only fails the workflow keeps the types.
LEMMA FailStepType ==
    ASSUME DefinitionAssumption, TypeOK, NEW events \in Seq(Events), NEW reason,
           fail(events, reason), UNCHANGED <<state, steps, data, now, calls, sealed, world>>
    PROVE  TypeOK'
  <1>1. /\ status' \in Status /\ pending_intent' = 0 /\ pending_transition' = 0
        /\ history' \in Seq(Events)
        /\ pc' = "idle" /\ approver' \in BOOLEAN /\ resolved_here' \in BOOLEAN
    BY FailType
  <1>2. pending_intent' \in 0..Len(sealed') /\ pending_transition' \in 0..Len(Transitions)
    BY <1>1, PendingRanges DEF TypeOK
  <1>3. QED
    BY <1>1, <1>2 DEF TypeOK

\* The types after a step is counted.
LEMMA CountStepType ==
    ASSUME TypeOK, NEW events \in Seq(Events), NEW st \in Status,
           NEW intent, NEW transition, CountStep(events, st, intent, transition)
    PROVE  /\ status' \in Status /\ steps' \in Nat
           /\ pending_intent' \in {0, intent} /\ pending_transition' \in {0, transition}
           /\ history' \in Seq(Events)
           /\ pc' \in {"idle", "loop"} /\ approver' \in BOOLEAN /\ resolved_here' \in BOOLEAN
  <1>1. steps' \in Nat
    BY DEF CountStep, TypeOK
  <1>2. CASE fail(events, "budget")
    BY <1>1, <1>2, FailType
  <1>3. CASE status' = st /\ pending_intent' = intent /\ pending_transition' = transition
             /\ Emits(events) /\ Loops
    BY <1>1, <1>3, HistoryGrows DEF Emits, Loops, TypeOK
  <1>4. QED
    BY <1>2, <1>3 DEF CountStep

\* The types after a sink raised.
LEMMA SinkRaisesType ==
    ASSUME TypeOK, NEW events \in Seq(Events), SinkRaises(events)
    PROVE  /\ history' \in Seq(Events)
           /\ pc' = "idle" /\ approver' \in BOOLEAN /\ resolved_here' \in BOOLEAN
  BY HistoryGrows DEF SinkRaises, Emits, Returns, TypeOK

\* The types after a transition is applied.
LEMMA ApplyType ==
    ASSUME DefinitionAssumption, TypeOK, NEW t \in 1..Len(Transitions),
           NEW events \in Seq(Events), NEW intent, NEW transition,
           Apply(t, events, intent, transition)
    PROVE  /\ status' \in Status /\ state' \in State /\ steps' \in Nat
           /\ pending_intent' \in {0, intent} /\ pending_transition' \in {0, transition}
           /\ history' \in Seq(Events)
           /\ pc' \in {"idle", "loop"} /\ approver' \in BOOLEAN /\ resolved_here' \in BOOLEAN
  <1> DEFINE applied == events \o <<Event("transition.applied", 0)>>
  <1>1. <<Event("transition.applied", 0)>> \in Seq(Events)
    BY DEF Event, Events
  <1>2. applied \in Seq(Events)
    BY <1>1, HistoryGrows
  <1>3. state' \in State
    <2>1. Transitions[t] \in TransitionSpec
      BY DEF DefinitionAssumption
    <2>2. QED
      BY <2>1 DEF Apply, TransitionSpec
  <1>4. CASE CountStep(applied, "running", intent, transition)
    BY <1>2, <1>3, <1>4, CountStepType DEF Status
  <1>5. CASE /\ SinkRaises(applied)
             /\ pending_intent' = intent /\ pending_transition' = transition
             /\ UNCHANGED <<status, steps, failure_reason>>
    BY <1>2, <1>3, <1>5, SinkRaisesType DEF TypeOK
  <1>6. QED
    BY <1>4, <1>5 DEF Apply

\* Data stays data when a result is put into it.
LEMMA UpdateType ==
    ASSUME data \in [Path -> Value \cup {Missing}], NEW P \in SUBSET Path,
           NEW result \in [P -> Value \cup {Missing}]
    PROVE  Update(result) \in [Path -> Value \cup {Missing}]
  BY DEF Update

\* The types after a handler returned.
LEMMA DispatchedType ==
    ASSUME DefinitionAssumption, TypeOK, NEW t \in 1..Len(Transitions),
           NEW P \in SUBSET Path, NEW result \in [P -> Value \cup {Missing}],
           Dispatched(t, result)
    PROVE  /\ status' \in Status /\ state' \in State /\ steps' \in Nat
           /\ data' \in [Path -> Value \cup {Missing}]
           /\ pending_intent' \in {0, pending_intent}
           /\ pending_transition' \in {0, pending_transition}
           /\ history' \in Seq(Events)
           /\ pc' \in {"idle", "loop"} /\ approver' \in BOOLEAN /\ resolved_here' \in BOOLEAN
  <1> DEFINE dispatched == <<Event("action.dispatched", pending_intent)>>
  <1>1. dispatched \in Seq(Events)
    BY DEF Event, Events, TypeOK
  <1>2. data' \in [Path -> Value \cup {Missing}]
    BY UpdateType DEF Dispatched, TypeOK
  <1>3. CASE Apply(t, dispatched, 0, 0)
    BY <1>1, <1>2, <1>3, ApplyType
  <1>4. CASE /\ SinkRaises(dispatched)
             /\ KeepsPending /\ UNCHANGED <<status, state, steps, failure_reason>>
    BY <1>1, <1>2, <1>4, SinkRaisesType DEF KeepsPending, TypeOK
  <1>5. QED
    BY <1>3, <1>4 DEF Dispatched

\* TypeOK holds after a handler returned.
LEMMA DispatchedStepType ==
    ASSUME DefinitionAssumption, TypeOK, NEW t \in 1..Len(Transitions),
           NEW P \in SUBSET Path, NEW result \in [P -> Value \cup {Missing}], Dispatched(t, result),
           UNCHANGED <<now, calls, sealed, world>>
    PROVE  TypeOK'
  <1>1. /\ status' \in Status /\ state' \in State /\ steps' \in Nat
        /\ data' \in [Path -> Value \cup {Missing}]
        /\ pending_intent' \in {0, pending_intent}
        /\ pending_transition' \in {0, pending_transition}
        /\ history' \in Seq(Events)
        /\ pc' \in {"idle", "loop"} /\ approver' \in BOOLEAN /\ resolved_here' \in BOOLEAN
    BY DispatchedType
  <1>2. pending_intent' \in 0..Len(sealed') /\ pending_transition' \in 0..Len(Transitions)
    BY <1>1, PendingRanges DEF TypeOK
  <1>3. QED
    BY <1>1, <1>2 DEF TypeOK

\* TypeOK holds after an effect is sealed.
LEMMA SealType ==
    ASSUME DefinitionAssumption, RunnerAssumption, TypeOK,
           NEW t \in 1..Len(Transitions), Seal(t)
    PROVE  TypeOK'
  <1> DEFINE capability == Transitions[t].capability
             requested  == <<Event("approval.requested", Len(sealed) + 1)>>
             intent == seal_intent(Tenant, "pending-human", capability,
                           bind_intent(Tenant, capability, governed_payload(t)),
                           now, default_expiry(now, approval_ttl))
  <1>1. capability \in Capability
    <2>1. Transitions[t] \in TransitionSpec
      BY DEF DefinitionAssumption
    <2>2. QED
      BY <2>1 DEF TransitionSpec, Seal, FirstArrival, Governed, HasAction
  <1>2. bind_intent(Tenant, capability, governed_payload(t)) \in Digests
    <2>1. resolved_input(t) \in Inputs
      BY ResolvedInputType DEF TypeOK
    <2>2. QED
      BY <1>1, <2>1 DEF bind_intent, governed_payload, Digests
  <1>3. now \in Nat /\ default_expiry(now, approval_ttl) \in Nat
    BY DEF TypeOK, default_expiry, RunnerAssumption
  <1>4. intent \in SealedIntents
    <2> HIDE DEF capability
    <2>1. QED
      BY <1>1, <1>2, <1>3 DEF seal_intent, SealedIntents
  <1>5. sealed' = Append(sealed, intent)
    BY DEF Seal
  <1>6. sealed' \in Seq(SealedIntents) /\ Len(sealed') = Len(sealed) + 1
    <2> HIDE DEF intent
    <2>1. QED
      BY <1>4, <1>5 DEF TypeOK
  <1>7. requested \in Seq(Events)
    BY DEF Event, Events, TypeOK
  <1>8. UNCHANGED <<state, data, now, calls, decisions, world>>
    BY DEF Seal
  <1>9. CASE CountStep(requested, "paused_approval", Len(sealed) + 1, t)
    <2>1. "paused_approval" \in Status
      BY DEF Status
    <2>2. /\ status' \in Status /\ steps' \in Nat
          /\ pending_intent' \in {0, Len(sealed) + 1} /\ pending_transition' \in {0, t}
          /\ history' \in Seq(Events)
          /\ pc' \in {"idle", "loop"} /\ approver' \in BOOLEAN /\ resolved_here' \in BOOLEAN
      BY <1>7, <1>9, <2>1, CountStepType
    <2>3. pending_intent' \in 0..Len(sealed') /\ pending_transition' \in 0..Len(Transitions)
      BY <1>6, <2>2 DEF TypeOK
    <2>4. QED
      BY <1>6, <1>8, <2>2, <2>3 DEF TypeOK
  <1>10. CASE /\ SinkRaises(requested)
              /\ status' = "paused_approval"
              /\ pending_intent' = Len(sealed) + 1 /\ pending_transition' = t
              /\ UNCHANGED <<steps, failure_reason>>
    <2>1. /\ history' \in Seq(Events)
          /\ pc' = "idle" /\ approver' \in BOOLEAN /\ resolved_here' \in BOOLEAN
      BY <1>7, <1>10, SinkRaisesType
    <2>2. pending_intent' \in 0..Len(sealed') /\ pending_transition' \in 0..Len(Transitions)
      BY <1>6, <1>10 DEF TypeOK
    <2>3. QED
      BY <1>6, <1>8, <1>10, <2>1, <2>2 DEF TypeOK, Status
  <1>11. QED
    BY <1>9, <1>10 DEF Seal

\* TypeOK holds while a handler has the call.
LEMMA DispatchType ==
    ASSUME DefinitionAssumption, TypeOK, NEW t \in 1..Len(Transitions), Dispatch(t)
    PROVE  TypeOK'
  <1>1. resolved_input(t) \in Inputs
    BY ResolvedInputType DEF TypeOK
  <1> DEFINE effect == [intent |-> pending_intent, input |-> resolved_input(t)]
  <1>2. effect \in Handed
    BY <1>1 DEF TypeOK, Handed
  <1>3. world' \in Seq(Handed)
    <2>1. world' = Append(world, effect) \/ world' = world
      BY DEF Dispatch
    <2>2. world \in Seq(Handed)
      BY DEF TypeOK
    <2> HIDE DEF effect
    <2>3. Append(world, effect) \in Seq(Handed)
      BY <1>2, <2>2
    <2>4. QED
      BY <2>1, <2>2, <2>3
  <1>4. QED
    BY <1>3 DEF Dispatch, TypeOK, instance

\* TypeOK holds after an answer.
LEMMA DecideType ==
    ASSUME DefinitionAssumption, TypeOK, NEW answer \in Answers(pending_intent), Decide(answer)
    PROVE  TypeOK'
  <1>1. answer.intent_id \in Nat
    BY DEF Answers, TypeOK
  <1>2. \A type \in {"approval.mismatch", "approval.rejected", "approval.invalid",
                     "approval.granted"}, i \in Nat : <<Event(type, i)>> \in Seq(Events)
    BY DEF Event, Events
  <1>3. pending_intent \in Nat
    BY DEF TypeOK
  <1>4. Answered(answer) => UNCHANGED <<state, steps, data, now, calls, sealed, world>>
    BY DEF Answered
  <1>5. CASE Mismatch(answer)
    <2>1. history' \in Seq(Events)
      BY <1>1, <1>2, <1>5, HistoryGrows DEF Mismatch, Emits, TypeOK
    <2>2. QED
      BY <1>4, <1>5, <2>1 DEF Mismatch, StaysPaused, Returns, KeepsPending, TypeOK
  <1>6. CASE Unresolvable(answer)
    BY <1>4, <1>6 DEF Unresolvable, StaysPaused, Returns, KeepsPending, TypeOK
  <1>7. CASE Reject(answer)
    <2> DEFINE rejected == <<Event("approval.rejected", pending_intent)>>
    <2>1. rejected \in Seq(Events)
      BY <1>2, <1>3
    <2>2. CASE fail(rejected, "rejected")
      BY <1>4, <1>7, <2>1, <2>2, FailStepType DEF Reject
    <2>3. CASE SinkRaises(rejected) /\ KeepsPending /\ UNCHANGED <<status, failure_reason>>
      BY <1>4, <1>7, <2>1, <2>3, SinkRaisesType DEF Reject, KeepsPending, TypeOK
    <2>4. QED
      BY <1>7, <2>2, <2>3 DEF Reject
  <1>8. CASE Invalid(answer)
    <2>1. history' \in Seq(Events)
      BY <1>2, <1>3, <1>8, HistoryGrows DEF Invalid, Emits, TypeOK
    <2>2. QED
      BY <1>4, <1>8, <2>1 DEF Invalid, StaysPaused, Returns, KeepsPending, TypeOK
  <1>9. CASE Grant(answer)
    <2> DEFINE granted == <<Event("approval.granted", pending_intent)>>
    <2>1. granted \in Seq(Events)
      BY <1>2, <1>3
    <2>2. history' \in Seq(Events)
      BY <1>9, <2>1, HistoryGrows DEF Grant, SinkRaises, Emits, TypeOK
    <2>3. QED
      BY <1>4, <1>9, <2>2 DEF Grant, SinkRaises, Returns, KeepsPending, TypeOK, Status
  <1>10. QED
    BY <1>5, <1>6, <1>7, <1>8, <1>9 DEF Decide

\* TypeOK holds at first.
LEMMA InitType ==
    ASSUME DefinitionAssumption, RunnerAssumption, Init
    PROVE  TypeOK
  <1>1. history \in Seq(Events)
    BY DEF Init, Event, Events
  <1>2. sealed \in Seq(SealedIntents) /\ world \in Seq(Handed)
    BY DEF Init
  <1>3. pending_intent \in 0..Len(sealed) /\ pending_transition \in 0..Len(Transitions)
    BY <1>2, PendingRanges DEF Init
  <1>4. approver \in BOOLEAN /\ resolved_here \in BOOLEAN
    BY DEF Init
  <1>5. status \in Status /\ state \in State /\ steps \in Nat
    BY DEF Init, Status, DefinitionAssumption
  <1>6. now \in 0..MaxNow /\ calls \in 0..MaxCalls
    BY DEF Init, RunnerAssumption
  <1>7. QED
    BY <1>1, <1>2, <1>3, <1>4, <1>5, <1>6 DEF Init, TypeOK

\* Every step keeps TypeOK.
LEMMA NextType ==
    ASSUME DefinitionAssumption, RunnerAssumption, TypeOK, [Next]_vars
    PROVE  TypeOK'
  <1> USE DEF instance, activation, observations
  <1>1. <<>> \in Seq(Events)
    OBVIOUS
  <1>2. ASSUME NEW with_approver \in BOOLEAN, run(with_approver) PROVE TypeOK'
    <2>1. UNCHANGED <<status, state, steps, data, pending_intent, pending_transition,
                      history, now, sealed, world>>
      BY <1>2 DEF run
    <2>2. calls' \in 0..MaxCalls
      BY <1>2 DEF run, TypeOK, RunnerAssumption
    <2>3. pc' = "loop" /\ approver' \in BOOLEAN /\ resolved_here' \in BOOLEAN
      BY <1>2 DEF run
    <2>4. QED
      BY <2>1, <2>2, <2>3 DEF TypeOK
  <1>3. CASE ReturnPaused \/ AskApprover \/ ApproverRaises \/ HandlerRaises
    BY <1>3 DEF ReturnPaused, AskApprover, ApproverRaises, HandlerRaises, Returns, TypeOK
  <1>4. CASE Complete
    <2>1. <<Event("workflow.completed", 0)>> \in Seq(Events)
      BY DEF Event, Events
    <2>2. history' \in Seq(Events)
      BY <1>4, <2>1, HistoryGrows DEF Complete, Emits, TypeOK
    <2>3. QED
      BY <1>4, <2>2 DEF Complete, Returns, KeepsPending, TypeOK, Status
  <1>5. CASE DeadEnd \/ HandlerFails
    <2>1. PICK reason : fail(<<>>, reason)
      BY <1>5 DEF DeadEnd, HandlerFails
    <2>2. UNCHANGED <<state, steps, data, now, calls, sealed, world>>
      BY <1>5 DEF DeadEnd, HandlerFails
    <2>3. QED
      BY <1>1, <2>1, <2>2, FailStepType
  <1>6. ASSUME NEW answer \in Answers(pending_intent), Decide(answer) PROVE TypeOK'
    BY <1>6, DecideType
  <1>7. ASSUME NEW t \in 1..Len(Transitions), Move(t) PROVE TypeOK'
    <2>1. Apply(t, <<>>, pending_intent, pending_transition)
      BY <1>7 DEF Move
    <2>2. /\ status' \in Status /\ state' \in State /\ steps' \in Nat
          /\ pending_intent' \in {0, pending_intent}
          /\ pending_transition' \in {0, pending_transition}
          /\ history' \in Seq(Events)
          /\ pc' \in {"idle", "loop"} /\ approver' \in BOOLEAN /\ resolved_here' \in BOOLEAN
      BY <1>1, <2>1, ApplyType
    <2>3. QED
      BY <1>7, <2>2 DEF Move, TypeOK
  <1>8. ASSUME NEW t \in 1..Len(Transitions), Seal(t) PROVE TypeOK'
    BY <1>8, SealType
  <1>9. ASSUME NEW t \in 1..Len(Transitions), Refuse(t) PROVE TypeOK'
    <2>1. PICK reason : fail(<<>>, reason)
      BY <1>9 DEF Refuse
    <2>2. UNCHANGED <<state, steps, data, now, calls, sealed, world>>
      BY <1>9 DEF Refuse
    <2>3. QED
      BY <1>1, <2>1, <2>2, FailStepType
  <1>10. ASSUME NEW t \in 1..Len(Transitions), DispatchUnhandled(t) PROVE TypeOK'
    <2> DEFINE nothing == [p \in {} |-> Missing]
    <2>1. {} \in SUBSET Path /\ nothing \in [{} -> Value \cup {Missing}]
      OBVIOUS
    <2>2. Dispatched(t, nothing)
      BY <1>10 DEF DispatchUnhandled
    <2> HIDE DEF nothing
    <2>3. UNCHANGED <<now, calls, sealed, world>>
      BY <1>10 DEF DispatchUnhandled
    <2>4. QED
      BY <2>1, <2>2, <2>3, DispatchedStepType
  <1>11. ASSUME NEW t \in 1..Len(Transitions), Dispatch(t) PROVE TypeOK'
    BY <1>11, DispatchType
  <1>12. ASSUME NEW t \in 1..Len(Transitions), NEW result \in Results,
                HandlerReturns(t, result)
         PROVE  TypeOK'
    <2>1. PICK P \in SUBSET Path : result \in [P -> Value \cup {Missing}]
      BY DEF Results
    <2>2. Dispatched(t, result)
      BY <1>12 DEF HandlerReturns
    <2>3. UNCHANGED <<now, calls, sealed, world>>
      BY <1>12 DEF HandlerReturns
    <2>4. QED
      BY <2>1, <2>2, <2>3, DispatchedStepType
  <1>13. ASSUME NEW p \in Path, NEW v \in HostData, EditData(p, v) PROVE TypeOK'
    BY <1>13 DEF EditData, TypeOK, RunnerAssumption
  <1>14. CASE Tick
    BY <1>14 DEF Tick, TypeOK, RunnerAssumption
  <1>15. CASE UNCHANGED vars
    BY <1>15 DEF vars, TypeOK
  <1>16. QED
    BY <1>2, <1>3, <1>4, <1>5, <1>6, <1>7, <1>8, <1>9, <1>10, <1>11, <1>12, <1>13,
       <1>14, <1>15 DEF Next, Run, Host, Step

\* Every variable of the instance always holds a value the code could put there.
THEOREM TypeCorrect == Spec => []TypeOK
  <1>1. Init => TypeOK
    BY DefinitionAssumption, RunnerAssumption, InitType
  <1>2. TypeOK /\ [Next]_vars => TypeOK'
    BY DefinitionAssumption, RunnerAssumption, NextType
  <1>3. QED
    BY <1>1, <1>2, PTL DEF Spec

-----------------------------------------------------------------------------
(* Governed effects.  TypeOK is inductive by itself, so it is assumed of both *)
(* states below and only the rest of RunnerInv is carried along. *)

Safe == PendingCoherent /\ ControlCoherent /\ PendingApproved /\ EffectsApproved

\* The transition the runner takes is unique.
LEMMA FirstIsUnique ==
    ASSUME DefinitionAssumption, NEW s, NEW t, NEW u, IsFirst(t, s), IsFirst(u, s)
    PROVE  t = u
  <1>1. t \in Nat /\ u \in Nat
    BY DEF IsFirst, transitions_from, DefinitionAssumption
  <1>2. t <= u /\ u <= t
    BY DEF IsFirst
  <1>3. QED
    BY <1>1, <1>2

\* Sealed intents are never changed and answers never forgotten.
RecordsGrow ==
    /\ decisions \subseteq decisions'
    /\ Len(sealed) <= Len(sealed')
    /\ \A i \in Intents : sealed'[i] = sealed[i]

\* An intent that was approved stays approved.
LEMMA ApprovedGrows ==
    ASSUME TypeOK, TypeOK', RecordsGrow
    PROVE  Approved \subseteq Approved'
  <1> SUFFICES ASSUME NEW i \in Approved
               PROVE  i \in Approved'
    OBVIOUS
  <1>1. i \in Intents
    BY DEF Approved
  <1>2. PICK d \in decisions : d.intent = i /\ Authorises(d)
    BY DEF Approved
  <1>3. d \in decisions' /\ sealed'[i] = sealed[i]
    BY <1>1 DEF RecordsGrow
  <1>4. i \in Intents'
    <2>1. Len(sealed) \in Nat /\ Len(sealed') \in Nat
      BY DEF TypeOK
    <2>2. QED
      BY <1>1, <2>1 DEF Intents, RecordsGrow
  <1>5. Authorises(d)'
    BY <1>2, <1>3 DEF Authorises
  <1>6. QED
    BY <1>2, <1>3, <1>4, <1>5 DEF Approved

\* Effects stay approved while none is added.
LEMMA EffectsStayApproved ==
    ASSUME TypeOK, TypeOK', RecordsGrow, EffectsApproved, world' = world
    PROVE  EffectsApproved'
  BY ApprovedGrows DEF EffectsApproved

\* A step that clears the pending effect, or leaves none, and does not pause.
LEMMA ClearedIsSafe ==
    ASSUME TypeOK, TypeOK', Safe, RecordsGrow, world' = world,
           pending_intent' = 0, pending_transition' = 0,
           status' # "paused_approval", pc' \in {"idle", "loop"}
    PROVE  Safe'
  <1>1. EffectsApproved'
    BY EffectsStayApproved DEF Safe
  <1>2. PendingCoherent' /\ ControlCoherent' /\ PendingApproved'
    BY DEF PendingCoherent, ControlCoherent, PendingApproved
  <1>3. QED
    BY <1>1, <1>2 DEF Safe

\* A step that leaves the instance where it is, up to its data, steps and history.
LEMMA KeptIsSafe ==
    ASSUME TypeOK, TypeOK', Safe, RecordsGrow,
           UNCHANGED <<status, state, pending_intent, pending_transition, sealed, world>>,
           ControlCoherent'
    PROVE  Safe'
  <1>1. EffectsApproved'
    BY EffectsStayApproved DEF Safe
  <1>2. PendingCoherent'
    BY DEF Safe, PendingCoherent, IsFirst, transitions_from, Governed, HasAction
  <1>3. PendingApproved'
    BY ApprovedGrows DEF Safe, PendingApproved
  <1>4. QED
    BY <1>1, <1>2, <1>3 DEF Safe

\* With no records added.
LEMMA RecordsStay ==
    ASSUME TypeOK, UNCHANGED <<sealed, decisions>>
    PROVE  RecordsGrow
  BY DEF TypeOK, RecordsGrow, Intents

\* The runner's reading of the pending effect: a governed transition it does not
\* pause at is covered by an approval.
LEMMA GovernedIsApproved ==
    ASSUME DefinitionAssumption, TypeOK, Safe, status = "running",
           NEW t \in 1..Len(Transitions), Governed(t), pending_transition # 0
    PROVE  pending_intent \in Approved
  BY DEF Safe, PendingCoherent, PendingApproved

\* The transition without an action finds no pending effect.
LEMMA MoveIsUnpending ==
    ASSUME DefinitionAssumption, TypeOK, Safe, NEW t \in 1..Len(Transitions), Move(t)
    PROVE  pending_intent = 0 /\ pending_transition = 0
  <1>1. IsFirst(t, state) /\ ~HasAction(t)
    BY DEF Move, AtTransition
  <1>2. SUFFICES ASSUME pending_transition # 0 PROVE FALSE
    BY DEF Safe, PendingCoherent
  <1>3. IsFirst(pending_transition, state) /\ Governed(pending_transition)
    BY <1>2 DEF Safe, PendingCoherent
  <1>4. t = pending_transition
    BY <1>1, <1>3, FirstIsUnique
  <1>5. QED
    BY <1>1, <1>3, <1>4 DEF Governed

\* Applying a transition that leaves nothing pending is safe.
LEMMA ApplyIsSafe ==
    ASSUME TypeOK, TypeOK', Safe, NEW t \in 1..Len(Transitions),
           NEW events, Apply(t, events, 0, 0), status = "running",
           UNCHANGED <<sealed, decisions, world>>
    PROVE  Safe'
  <1>1. RecordsGrow
    BY RecordsStay
  <1>2. /\ pending_intent' = 0 /\ pending_transition' = 0
        /\ status' # "paused_approval" /\ pc' \in {"idle", "loop"}
    BY DEF Apply, CountStep, fail, SinkRaises, Returns, Loops
  <1>3. QED
    BY <1>1, <1>2, ClearedIsSafe

\* So is what follows a handler.
LEMMA DispatchedIsSafe ==
    ASSUME TypeOK, TypeOK', Safe, NEW t \in 1..Len(Transitions), NEW result,
           Dispatched(t, result), status = "running",
           UNCHANGED <<sealed, decisions, world>>
    PROVE  Safe'
  <1> DEFINE dispatched == <<Event("action.dispatched", pending_intent)>>
  <1>1. CASE Apply(t, dispatched, 0, 0)
    BY <1>1, ApplyIsSafe
  <1>2. CASE /\ SinkRaises(dispatched)
             /\ KeepsPending /\ UNCHANGED <<status, state, steps, failure_reason>>
    <2>1. RecordsGrow
      BY RecordsStay
    <2>2. UNCHANGED <<status, state, pending_intent, pending_transition, sealed, world>>
      BY <1>2 DEF KeepsPending
    <2>3. ControlCoherent'
      BY <1>2 DEF SinkRaises, Returns, ControlCoherent
    <2>4. QED
      BY <2>1, <2>2, <2>3, KeptIsSafe
  <1>3. QED
    BY <1>1, <1>2 DEF Dispatched

\* So is sealing an effect while none is pending.
LEMMA SealIsSafe ==
    ASSUME DefinitionAssumption, TypeOK, TypeOK', Safe,
           NEW t \in 1..Len(Transitions), Seal(t)
    PROVE  Safe'
  <1> DEFINE capability == Transitions[t].capability
             requested  == <<Event("approval.requested", Len(sealed) + 1)>>
             intent == seal_intent(Tenant, "pending-human", capability,
                           bind_intent(Tenant, capability, governed_payload(t)),
                           now, default_expiry(now, approval_ttl))
  <1>1. sealed' = Append(sealed, intent) /\ UNCHANGED <<state, decisions, world>>
    BY DEF Seal
  <1>2. intent.payload_digest.payload.transition = t
    BY DEF seal_intent, bind_intent, governed_payload
  <1> HIDE DEF intent
  <1>3. sealed \in Seq(SealedIntents) /\ sealed' \in Seq(SealedIntents)
    BY DEF TypeOK
  <1>4. /\ Len(sealed') = Len(sealed) + 1 /\ Len(sealed) \in Nat
        /\ sealed'[Len(sealed) + 1] = intent
        /\ \A i \in Intents : sealed'[i] = sealed[i]
    BY <1>1, <1>3 DEF Intents
  <1>5. RecordsGrow
    <2>1. Len(sealed) <= Len(sealed')
      BY <1>4
    <2>2. decisions \subseteq decisions'
      BY <1>1
    <2>3. QED
      BY <1>4, <2>1, <2>2 DEF RecordsGrow
  <1>6. IsFirst(t, state) /\ Governed(t)
    BY DEF Seal, AtTransition, FirstArrival
  <1>7. \/ /\ pending_intent' = 0 /\ pending_transition' = 0
           /\ status' = "failed" /\ pc' = "idle"
        \/ /\ pending_intent' = Len(sealed) + 1 /\ pending_transition' = t
           /\ status' = "paused_approval" /\ pc' \in {"idle", "loop"}
    <2>1. CASE CountStep(requested, "paused_approval", Len(sealed) + 1, t)
      <3> HIDE DEF requested
      <3>1. QED
        BY <2>1 DEF CountStep, fail, Returns, Loops
    <2>2. CASE /\ SinkRaises(requested)
               /\ status' = "paused_approval"
               /\ pending_intent' = Len(sealed) + 1 /\ pending_transition' = t
      BY <2>2 DEF SinkRaises, Returns
    <2>3. QED
      BY <2>1, <2>2 DEF Seal
  <1>8. CASE /\ pending_intent' = 0 /\ pending_transition' = 0
             /\ status' = "failed" /\ pc' = "idle"
    BY <1>1, <1>5, <1>8, ClearedIsSafe
  <1>9. CASE /\ pending_intent' = Len(sealed) + 1 /\ pending_transition' = t
             /\ status' = "paused_approval" /\ pc' \in {"idle", "loop"}
    <2>1. EffectsApproved'
      BY <1>1, <1>5, EffectsStayApproved DEF Safe
    <2>2. IsFirst(t, state') /\ Governed(t)
      BY <1>1, <1>6
    <2>3. sealed'[pending_intent'].payload_digest.payload.transition = pending_transition'
      BY <1>2, <1>4, <1>9
    <2>4. t # 0 /\ Len(sealed) + 1 # 0
      BY <1>4
    <2>5. PendingCoherent'
      BY <1>4, <1>9, <2>2, <2>3, <2>4
      DEF PendingCoherent, Final, IsFirst, transitions_from, Governed, HasAction
    <2>6. ControlCoherent' /\ PendingApproved'
      BY <1>9 DEF ControlCoherent, PendingApproved
    <2>7. QED
      BY <2>1, <2>5, <2>6 DEF Safe
  <1>10. QED
    BY <1>7, <1>8, <1>9

\* The handler of a governed effect is given a pending, approved intent.
LEMMA DispatchIsSafe ==
    ASSUME DefinitionAssumption, TypeOK, TypeOK', Safe,
           NEW t \in 1..Len(Transitions), Dispatch(t)
    PROVE  Safe'
  <1>1. /\ status = "running" /\ IsFirst(t, state)
        /\ Governed(t) => pending_transition # 0
    BY DEF Dispatch, Dispatching, AtTransition, FirstArrival
  <1>2. UNCHANGED <<status, state, pending_intent, pending_transition, sealed, decisions>>
        /\ pc' = "handling"
    BY DEF Dispatch, instance
  <1>3. RecordsGrow
    BY <1>2, RecordsStay
  <1>4. EffectsApproved'
    <2>1. CASE world' = world
      BY <1>3, <2>1, EffectsStayApproved DEF Safe
    <2>2. CASE Governed(t)
      <3> DEFINE effect == [intent |-> pending_intent, input |-> resolved_input(t)]
      <3>1. world' = Append(world, effect)
        BY <2>2 DEF Dispatch
      <3>2. effect.intent \in Approved
        BY <1>1, <2>2, GovernedIsApproved
      <3> HIDE DEF effect
      <3>3. world \in Seq(Handed) /\ world' \in Seq(Handed)
        BY DEF TypeOK
      <3>4. \A n \in 1..Len(world') :
               world'[n] = effect \/ (n \in 1..Len(world) /\ world'[n] = world[n])
        BY <3>1, <3>3
      <3>5. \A n \in 1..Len(world') : world'[n].intent \in Approved
        BY <3>2, <3>4 DEF Safe, EffectsApproved
      <3>6. QED
        BY <1>3, <3>5, ApprovedGrows DEF EffectsApproved
    <2>3. QED
      BY <2>1, <2>2 DEF Dispatch
  <1>5. PendingCoherent'
    BY <1>2 DEF Safe, PendingCoherent, IsFirst, transitions_from, Governed, HasAction
  <1>6. PendingApproved'
    BY <1>2, <1>3, ApprovedGrows DEF Safe, PendingApproved
  <1>7. ControlCoherent'
    <2>1. \A u \in 1..Len(Transitions) :
             IsFirst(u, state) /\ Governed(u) => pending_transition # 0
      BY <1>1, FirstIsUnique
    <2>2. QED
      BY <1>1, <1>2, <2>1 DEF ControlCoherent, IsFirst, transitions_from, Governed, HasAction
  <1>8. QED
    BY <1>4, <1>5, <1>6, <1>7 DEF Safe

\* What verify_intent accepted is an authorising answer: for the pending intent,
\* by somebody, in time, over the sealed input.
LEMMA GrantAuthorises ==
    ASSUME DefinitionAssumption, TypeOK, Safe, NEW answer \in Answers(pending_intent),
           pending_intent # 0, answer.intent_id = pending_intent,
           Resolvable(pending_transition), answer.approved, Verified(answer)
    PROVE  Authorises(Decision(answer))
  <1> DEFINE d == Decision(answer)
             sealed_input == sealed[pending_intent].payload_digest.payload.input
  <1>1. /\ d.intent = pending_intent /\ d.answer = answer /\ d.at = now
        /\ d.input = <<resolved_input(pending_transition)>>
    BY DEF Decision
  <1>2. sealed[pending_intent].expires_at \in Nat /\ now \in Nat
    <2>1. sealed[pending_intent] \in SealedIntents
      BY DEF TypeOK
    <2>2. QED
      BY <2>1 DEF TypeOK, SealedIntents
  <1>3. now < sealed[pending_intent].expires_at
    BY <1>2 DEF Verified, verify_intent, is_expired
  <1>4. answer.decided_by # Blank
    BY DEF Verified, verify_intent
  <1>5. sealed_input = resolved_input(pending_transition)
    BY DEF Verified, verify_intent, bind_intent, governed_payload
  <1> HIDE DEF d, sealed_input
  <1>6. d.answer.intent_id = d.intent /\ d.answer.approved /\ d.answer.decided_by # Blank
    BY <1>1, <1>4
  <1>7. d.at < sealed[d.intent].expires_at
    BY <1>1, <1>3
  <1>8. d.input = <<sealed[d.intent].payload_digest.payload.input>>
    BY <1>1, <1>5 DEF sealed_input
  <1>9. Authorises(d)
    BY <1>6, <1>7, <1>8 DEF Authorises
  <1>10. QED
    BY <1>9 DEF d

\* So is an answer: what it grants it has verified.
LEMMA DecideIsSafe ==
    ASSUME DefinitionAssumption, TypeOK, TypeOK', Safe,
           NEW answer \in Answers(pending_intent), Decide(answer)
    PROVE  Safe'
  <1>1. Answered(answer)
    BY DEF Decide, Mismatch, Unresolvable, Reject, Invalid, Grant
  <1>2. /\ pc = "approving" /\ UNCHANGED <<state, sealed, world>>
        /\ decisions' = decisions \cup {Decision(answer)}
    BY <1>1 DEF Answered
  <1>3. RecordsGrow
    BY <1>2 DEF RecordsGrow, TypeOK
  <1>4. status = "paused_approval" /\ pending_transition # 0 /\ pending_intent # 0
    BY <1>2 DEF Safe, ControlCoherent, PendingCoherent
  <1>5. CASE StaysPaused
    <2>1. UNCHANGED <<status, pending_intent, pending_transition>> /\ pc' = "idle"
      BY <1>5 DEF StaysPaused, KeepsPending, Returns
    <2>2. ControlCoherent'
      BY <2>1 DEF ControlCoherent
    <2>3. QED
      BY <1>2, <1>3, <2>1, <2>2, KeptIsSafe
  <1>6. CASE Reject(answer)
    <2> DEFINE rejected == <<Event("approval.rejected", pending_intent)>>
    <2>1. CASE fail(rejected, "rejected")
      <3>1. /\ pending_intent' = 0 /\ pending_transition' = 0
            /\ status' = "failed" /\ pc' = "idle"
        BY <2>1 DEF fail, Returns
      <3>2. QED
        BY <1>2, <1>3, <3>1, ClearedIsSafe
    <2>2. CASE SinkRaises(rejected) /\ KeepsPending /\ UNCHANGED <<status, failure_reason>>
      <3>1. UNCHANGED <<status, pending_intent, pending_transition>> /\ pc' = "idle"
        BY <2>2 DEF SinkRaises, KeepsPending, Returns
      <3>2. ControlCoherent'
        BY <3>1 DEF ControlCoherent
      <3>3. QED
        BY <1>2, <1>3, <3>1, <3>2, KeptIsSafe
    <2>3. QED
      BY <1>6, <2>1, <2>2 DEF Reject
  <1>7. CASE Grant(answer)
    <2>1. /\ answer.intent_id = pending_intent /\ Resolvable(pending_transition)
          /\ answer.approved /\ Verified(answer)
      BY <1>7 DEF Grant, Matching
    <2>2. UNCHANGED <<pending_intent, pending_transition>>
          /\ \/ status' = "running" /\ pc' = "loop"
             \/ status' = status /\ pc' = "idle"
      BY <1>7 DEF Grant, SinkRaises, KeepsPending, Returns
    <2>3. EffectsApproved'
      BY <1>2, <1>3, EffectsStayApproved DEF Safe
    <2>4. PendingCoherent'
      BY <1>2, <1>4, <2>2
      DEF Safe, PendingCoherent, Final, IsFirst, transitions_from, Governed, HasAction
    <2>5. ControlCoherent'
      BY <2>2 DEF ControlCoherent
    <2>6. pending_intent \in Approved'
      <3>1. Authorises(Decision(answer))
        BY <1>4, <2>1, GrantAuthorises
      <3>2. Decision(answer) \in decisions' /\ Decision(answer).intent = pending_intent
        BY <1>2 DEF Decision
      <3>3. pending_intent \in Intents'
        BY <1>2, <1>4 DEF Intents, TypeOK
      <3>4. \E d \in decisions' : d.intent = pending_intent /\ Authorises(d)'
        BY <1>2, <3>1, <3>2 DEF Authorises
      <3>5. QED
        BY <3>3, <3>4 DEF Approved
    <2>7. PendingApproved'
      BY <2>2, <2>6 DEF PendingApproved
    <2>8. QED
      BY <2>3, <2>4, <2>5, <2>7 DEF Safe
  <1>8. QED
    BY <1>5, <1>6, <1>7 DEF Decide, Mismatch, Unresolvable, Invalid

\* Every step keeps Safe.
LEMMA NextIsSafe ==
    ASSUME DefinitionAssumption, TypeOK, TypeOK', Safe, [Next]_vars
    PROVE  Safe'
  <1> USE DEF instance, activation, observations
  <1>1. ASSUME NEW with_approver \in BOOLEAN, run(with_approver) PROVE Safe'
    <2>1. RecordsGrow
      BY <1>1, RecordsStay DEF run
    <2>2. ControlCoherent'
      BY <1>1 DEF run, ControlCoherent
    <2>3. QED
      BY <1>1, <2>1, <2>2, KeptIsSafe DEF run
  <1>2. CASE ReturnPaused \/ AskApprover \/ ApproverRaises \/ HandlerRaises
    <2> USE DEF ReturnPaused, AskApprover, ApproverRaises, HandlerRaises
    <2>1. RecordsGrow
      BY <1>2, RecordsStay
    <2>2. ControlCoherent'
      BY <1>2 DEF Returns, Paused, ControlCoherent
    <2>3. QED
      BY <1>2, <2>1, <2>2, KeptIsSafe
  <1>3. CASE Complete
    <2>1. RecordsGrow
      BY <1>3, RecordsStay DEF Complete
    <2>2. pending_intent = 0 /\ pending_transition = 0
      BY <1>3 DEF Complete, AtEnd, Safe, PendingCoherent, IsFirst
    <2>3. QED
      BY <1>3, <2>1, <2>2, ClearedIsSafe DEF Complete, KeepsPending, Returns
  <1>4. ASSUME NEW reason, fail(<<>>, reason), UNCHANGED observations PROVE Safe'
    <2>1. RecordsGrow
      BY <1>4, RecordsStay
    <2>2. QED
      BY <1>4, <2>1, ClearedIsSafe DEF fail, Returns
  <1>5. CASE DeadEnd \/ HandlerFails
    BY <1>4, <1>5 DEF DeadEnd, HandlerFails
  <1>6. ASSUME NEW answer \in Answers(pending_intent), Decide(answer) PROVE Safe'
    BY <1>6, DecideIsSafe
  <1>7. ASSUME NEW t \in 1..Len(Transitions), Move(t) PROVE Safe'
    <2>1. Apply(t, <<>>, 0, 0)
      BY <1>7, MoveIsUnpending DEF Move
    <2>2. QED
      BY <1>7, <2>1, ApplyIsSafe DEF Move, AtTransition
  <1>8. ASSUME NEW t \in 1..Len(Transitions), Seal(t) PROVE Safe'
    BY <1>8, SealIsSafe
  <1>9. ASSUME NEW t \in 1..Len(Transitions), Refuse(t) PROVE Safe'
    BY <1>4, <1>9 DEF Refuse
  <1>10. ASSUME NEW t \in 1..Len(Transitions), DispatchUnhandled(t) PROVE Safe'
    BY <1>10, DispatchedIsSafe DEF DispatchUnhandled, Dispatching, AtTransition
  <1>11. ASSUME NEW t \in 1..Len(Transitions), Dispatch(t) PROVE Safe'
    BY <1>11, DispatchIsSafe
  <1>12. ASSUME NEW t \in 1..Len(Transitions), NEW result \in Results,
                HandlerReturns(t, result)
         PROVE  Safe'
    BY <1>12, DispatchedIsSafe DEF HandlerReturns, Safe, ControlCoherent
  <1>13. CASE Tick \/ \E p \in Path, v \in HostData : EditData(p, v)
    <2>1. UNCHANGED <<status, state, pending_intent, pending_transition, sealed,
                      world, decisions, pc>>
      BY <1>13 DEF Tick, EditData
    <2>2. RecordsGrow
      BY <2>1, RecordsStay
    <2>3. ControlCoherent'
      BY <2>1 DEF Safe, ControlCoherent, IsFirst, transitions_from, Governed, HasAction
    <2>4. QED
      BY <2>1, <2>2, <2>3, KeptIsSafe
  <1>14. CASE UNCHANGED vars
    <2>1. RecordsGrow
      BY <1>14, RecordsStay DEF vars
    <2>2. ControlCoherent'
      BY <1>14 DEF vars, Safe, ControlCoherent, IsFirst, transitions_from, Governed, HasAction
    <2>3. QED
      BY <1>14, <2>1, <2>2, KeptIsSafe DEF vars
  <1>15. QED
    BY <1>1, <1>2, <1>3, <1>5, <1>6, <1>7, <1>8, <1>9, <1>10, <1>11, <1>12, <1>13,
       <1>14 DEF Next, Run, Host, Step

\* An instance that starts is safe.
LEMMA InitIsSafe ==
    ASSUME DefinitionAssumption, Init
    PROVE  Safe
  BY DEF Init, Safe, PendingCoherent, ControlCoherent, PendingApproved, EffectsApproved, Final

\* The inductive invariant: types, the pending effect's agreement with the rest
\* of the instance, and the approval behind everything that may be dispatched.
THEOREM Invariance == Spec => []RunnerInv
  <1>1. Init => RunnerInv
    BY DefinitionAssumption, RunnerAssumption, InitType, InitIsSafe DEF RunnerInv, Safe
  <1>2. RunnerInv /\ [Next]_vars => RunnerInv'
    <2> SUFFICES ASSUME RunnerInv, [Next]_vars PROVE RunnerInv'
      OBVIOUS
    <2>1. TypeOK'
      BY DefinitionAssumption, RunnerAssumption, NextType DEF RunnerInv
    <2>2. QED
      BY DefinitionAssumption, <2>1, NextIsSafe DEF RunnerInv, Safe
  <1>3. QED
    BY <1>1, <1>2, PTL DEF Spec

\* A paused instance always has its pending effect, sealed over the transition the
\* runner takes next; a final one has none.
THEOREM PendingIsCoherent == Spec => []PendingCoherent
  <1>1. RunnerInv => PendingCoherent
    BY DEF RunnerInv
  <1>2. QED
    BY <1>1, Invariance, PTL

\* No governed effect reaches its handler without a human's approval of that very
\* intent, whatever raises and whenever the host edits the data.
THEOREM NoUnapprovedEffect == Spec => []EffectsApproved
  <1>1. RunnerInv => EffectsApproved
    BY DEF RunnerInv
  <1>2. QED
    BY <1>1, Invariance, PTL

\* A governed transition, with or without a handler, is crossed only while its
\* approved intent is pending.
THEOREM MovesAreApproved == Spec => GovernedMoves
  <1> DEFINE Covered ==
        \A t \in 1..Len(Transitions) :
           state' # state /\ IsFirst(t, state) /\ Governed(t) => pending_intent \in Approved
  <1>1. ASSUME RunnerInv, [Next]_vars PROVE [Covered]_vars
    <2> SUFFICES ASSUME NEW t \in 1..Len(Transitions),
                        state' # state, IsFirst(t, state), Governed(t)
                 PROVE  pending_intent \in Approved
      OBVIOUS
    <2>1. TypeOK /\ Safe
      BY <1>1 DEF RunnerInv, Safe
    <2>2. SUFFICES status = "running" /\ pending_transition # 0
      BY <2>1, DefinitionAssumption, GovernedIsApproved
    <2>3. ASSUME NEW u \in 1..Len(Transitions), IsFirst(u, state) PROVE u = t
      BY <2>3, DefinitionAssumption, FirstIsUnique
    <2>4. ASSUME NEW u \in 1..Len(Transitions), Move(u) PROVE FALSE
      BY <2>3, <2>4 DEF Move, AtTransition, Governed
    <2>5. ASSUME NEW u \in 1..Len(Transitions), DispatchUnhandled(u)
          PROVE  status = "running" /\ pending_transition # 0
      BY <2>3, <2>5 DEF DispatchUnhandled, Dispatching, AtTransition, FirstArrival
    <2>6. ASSUME NEW u \in 1..Len(Transitions), NEW result, HandlerReturns(u, result)
          PROVE  status = "running" /\ pending_transition # 0
      BY <2>1, <2>6 DEF HandlerReturns, Safe, ControlCoherent
    <2>7. \/ \E u \in 1..Len(Transitions) :
               \/ Move(u) \/ DispatchUnhandled(u)
               \/ \E result \in Results : HandlerReturns(u, result)
          \/ state' = state
      <3> USE DEF instance
      <3>1. CASE Host
        BY <3>1 DEF Host, run, EditData, Tick
      <3>2. ASSUME NEW answer \in Answers(pending_intent), Decide(answer)
            PROVE  state' = state
        BY <3>2 DEF Decide, Mismatch, Unresolvable, Reject, Invalid, Grant, Answered
      <3>3. CASE ReturnPaused \/ Complete \/ DeadEnd \/ AskApprover \/ ApproverRaises
                 \/ HandlerFails \/ HandlerRaises
        BY <3>3 DEF ReturnPaused, Complete, DeadEnd, AskApprover, ApproverRaises,
                    HandlerFails, HandlerRaises
      <3>4. ASSUME NEW u \in 1..Len(Transitions), Seal(u) \/ Refuse(u) \/ Dispatch(u)
            PROVE  state' = state
        BY <3>4 DEF Seal, Refuse, Dispatch
      <3>5. CASE UNCHANGED vars
        BY <3>5 DEF vars
      <3>6. QED
        BY <1>1, <3>1, <3>2, <3>3, <3>4, <3>5 DEF Next, Run, Step
    <2>8. QED
      BY <2>4, <2>5, <2>6, <2>7
  <1>2. QED
    BY <1>1, Invariance, PTL DEF Spec, GovernedMoves

=============================================================================
