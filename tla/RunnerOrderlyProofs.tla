-------------------------- MODULE RunnerOrderlyProofs --------------------------
(***************************************************************************)
(* What the runner guarantees when its surroundings keep to their part:    *)
(* callbacks and sinks that return instead of raising, a sink that leaves  *)
(* the data alone, a host that takes nothing out of it.  Each theorem      *)
(* assumes what it needs and no more: without any one of its hypotheses    *)
(* TLC finds a counterexample (runner_retry, runner_sink and               *)
(* runner_rejection are three of them).                                    *)
(***************************************************************************)
EXTENDS RunnerAuditProofs

-----------------------------------------------------------------------------
(* Data that is there while a human is asked stays there. *)

\* Handlers do not run while the instance is paused, so only the host or its sink
\* could take a value away.
LEMMA DataStays ==
    ASSUME DefinitionAssumption, RunnerAssumption, TypeOK, Safe, Missing \notin HostData,
           status = "paused_approval", [Next]_vars, NEW q \in Path, data[q] # Missing
    PROVE  data'[q] # Missing
  <1> USE DEF instance, activation, observations
  <1>1. data \in [Path -> Value \cup {Missing}] /\ pc # "handling"
    BY DEF TypeOK, Safe, ControlCoherent
  <1>2. CASE data' = data
    BY <1>2
  <1>3. ASSUME NEW p \in Path, NEW v \in HostData, EditData(p, v)
        PROVE  data'[q] # Missing
    BY <1>1, <1>3 DEF EditData
  <1>4. ASSUME NEW t \in 1..Len(Transitions),
               Step(t) \/ \E result \in Results : HandlerReturns(t, result)
        PROVE  data'[q] # Missing
    BY <1>1, <1>2, <1>4 DEF Step, Move, Seal, Refuse, Dispatch, DispatchUnhandled,
       Dispatching, AtTransition, HandlerReturns
  <1>5. CASE \/ ReturnPaused \/ Complete \/ DeadEnd \/ AskApprover \/ ApproverRaises
             \/ HandlerFails \/ HandlerRaises \/ Tick \/ UNCHANGED vars
             \/ \E with_approver \in BOOLEAN : run(with_approver)
    BY <1>2, <1>5 DEF ReturnPaused, Complete, DeadEnd, AskApprover, ApproverRaises,
       HandlerFails, HandlerRaises, Tick, vars, run
  <1>6. ASSUME NEW answer \in Answers(pending_intent), Decide(answer)
        PROVE  data'[q] # Missing
    BY <1>2, <1>6 DEF Decide, Mismatch, Unresolvable, Reject, Invalid, Grant, Answered
  <1>7. QED
    BY <1>3, <1>4, <1>5, <1>6 DEF Next, Run, Host

\* So an effect that could be resolved can still be.
LEMMA StaysResolvable ==
    ASSUME DefinitionAssumption, RunnerAssumption, TypeOK, Safe, Missing \notin HostData,
           status = "paused_approval", [Next]_vars, NEW t \in 1..Len(Transitions),
           Resolvable(t)
    PROVE  Resolvable(t)'
  <1>1. Transitions[t].input_from \in SUBSET Path
    <2>1. Transitions[t] \in TransitionSpec
      BY DEF DefinitionAssumption
    <2>2. QED
      BY <2>1 DEF TransitionSpec
  <1>2. QED
    BY <1>1, DataStays DEF Resolvable

-----------------------------------------------------------------------------
(* A rejection ends the workflow. *)

\* An instance waits only for an effect whose payload it can rebuild.
RejectionInv ==
    /\ status = "paused_approval" => Resolvable(pending_transition)
    /\ RejectionIsFinal

\* Every form of step keeps RejectionInv.
LEMMA NextKeepsRejection ==
    ASSUME DefinitionAssumption, RunnerAssumption, TypeOK, Safe,
           ~SinkMayRaise, Missing \notin HostData, RejectionInv, [Next]_vars
    PROVE  RejectionInv'
  <1>1. CASE UNCHANGED <<status, pending_transition, decisions>>
    <2>1. ASSUME status = "paused_approval" PROVE Resolvable(pending_transition)'
      <3>1. PICK t \in 1..Len(Transitions) : t = pending_transition /\ Resolvable(t)
        BY <2>1 DEF Safe, PendingCoherent, TypeOK, RejectionInv
      <3>2. Resolvable(t)' /\ pending_transition' = t
        BY <1>1, <2>1, <3>1, StaysResolvable
      <3>3. QED
        BY <3>2 DEF Resolvable
    <2>2. QED
      BY <1>1, <2>1 DEF RejectionInv, RejectionIsFinal
  <1>2. CASE Rests
    BY <1>1, <1>2 DEF Rests, KeepsFate
  <1>3. status # "failed" => \A d \in decisions : ~Rejects(d)
    BY DEF RejectionInv, RejectionIsFinal
  <1>4. ASSUME decisions' = decisions, status # "failed", status' # "paused_approval"
        PROVE  RejectionInv'
    BY <1>3, <1>4 DEF RejectionInv, RejectionIsFinal
  <1>5. CASE Completes \/ Fails \/ Applies
    BY <1>4, <1>5 DEF Completes, Fails, FailsNow, Applies, Counts
  <1>6. ASSUME NEW t \in 1..Len(Transitions), Dispatches(t) PROVE RejectionInv'
    BY <1>1, <1>6 DEF Dispatches, KeepsFate
  <1>7. ASSUME NEW t \in 1..Len(Transitions), Seals(t) PROVE RejectionInv'
    <2>1. decisions' = decisions /\ status = "running" /\ data' = data /\ Resolvable(t)
      BY <1>7 DEF Seals
    <2>2. RejectionIsFinal'
      BY <1>3, <2>1 DEF RejectionIsFinal
    <2>3. status' # "failed" => pending_transition' = t
      BY <1>7 DEF Seals
    <2>4. QED
      BY <2>1, <2>2, <2>3 DEF RejectionInv, Resolvable
  <1>8. ASSUME NEW answer \in Answers(pending_intent),
               Withholds(answer) \/ Denies(answer) \/ Grants(answer)
        PROVE  RejectionInv'
    <2>1. /\ status = "paused_approval" /\ data' = data
          /\ decisions' = decisions \cup {Decision(answer)}
      BY <1>8 DEF Withholds, Denies, Grants, Answering
    <2>2. CASE Withholds(answer)
      <3>1. ~Rejects(Decision(answer))
        BY <2>1, <2>2 DEF Withholds, RejectionInv
      <3>2. UNCHANGED <<status, pending_transition>>
        BY <2>2 DEF Withholds, KeepsFate
      <3>3. QED
        BY <1>3, <2>1, <3>1, <3>2 DEF RejectionInv, RejectionIsFinal, Resolvable
    <2>3. CASE Denies(answer)
      BY <2>3 DEF Denies, FailsNow, RejectionInv, RejectionIsFinal
    <2>4. CASE Grants(answer)
      <3>1. ~Rejects(Decision(answer))
        BY <2>4 DEF Grants, Rejects, Decision
      <3>2. status' = "running"
        BY <2>4 DEF Grants
      <3>3. QED
        BY <1>3, <2>1, <3>1, <3>2 DEF RejectionInv, RejectionIsFinal
    <2>5. QED
      BY <1>8, <2>2, <2>3, <2>4
  <1>9. QED
    BY <1>2, <1>5, <1>6, <1>7, <1>8, StepForms DEF Form

\* A human's rejection of the pending intent ends the workflow and no later answer
\* revives it, given a sink that does not raise and a host that removes no data.
THEOREM RejectionEnds ==
    ASSUME ~SinkMayRaise, Missing \notin HostData
    PROVE  Spec => []RejectionIsFinal
  <1>1. Init => RejectionInv
    BY DEF Init, RejectionInv, RejectionIsFinal
  <1>2. RunnerInv /\ RejectionInv /\ [Next]_vars => RejectionInv'
    BY DefinitionAssumption, RunnerAssumption, NextKeepsRejection DEF RunnerInv, Safe
  <1>3. RejectionInv => RejectionIsFinal
    BY DEF RejectionInv
  <1>4. QED
    BY <1>1, <1>2, <1>3, Invariance, PTL DEF Spec

-----------------------------------------------------------------------------
(* One approval, one effect, as it was sealed. *)

Orderly == ~CallbacksMayRaise /\ ~SinkMayRaise

SealedInput(i) == sealed[i].payload_digest.payload.input

\* Between the grant and the handler only the sink has control, to which the grant is
\* emitted: if it leaves the data alone, the granted input is still the one the data
\* gives.  A pending effect was handed over only if its handler works right now.
HandoverInv ==
    /\ status = "running" /\ pending_intent # 0 =>
          \/ pc = "handling"
          \/ /\ pc = "loop"
             /\ \/ SinkMayEdit
                \/ resolved_input(pending_transition) = SealedInput(pending_intent)
    /\ pending_intent # 0 /\ pending_intent \in Given => pc = "handling"
    /\ ~SinkMayEdit => EffectsAsSealed
    /\ EffectOncePerApproval

\* Nothing is handed over and no sealed intent changes.
LEMMA WorldStays ==
    ASSUME Safe, HandoverInv, world' = world, \A i \in Intents : sealed'[i] = sealed[i]
    PROVE  /\ ~SinkMayEdit => EffectsAsSealed'
           /\ EffectOncePerApproval' /\ Given' = Given
  <1>1. \A n \in 1..Len(world) : world[n].intent \in Intents
    BY GivenWasSealed DEF Given
  <1>2. QED
    BY <1>1 DEF HandoverInv, EffectsAsSealed, EffectOncePerApproval, Given

\* A dispatch hands over the input that was granted, for the first time.
LEMMA DispatchKeepsHandover ==
    ASSUME TypeOK, TypeOK', Safe, HandoverInv, NEW t \in 1..Len(Transitions), Dispatches(t)
    PROVE  HandoverInv'
  <1>1. /\ pc = "loop" /\ pc' = "handling" /\ status = "running" /\ KeepsFate
        /\ UNCHANGED <<data, state, sealed>>
    BY DEF Dispatches
  <1>2. CASE world' = world
    BY <1>1, <1>2, WorldStays DEF HandoverInv, KeepsFate
  <1>3. CASE Governed(t) /\ world' # world
    <2> DEFINE effect == [intent |-> pending_intent, input |-> resolved_input(t)]
    <2>1. pending_intent # 0 /\ t = pending_transition /\ world' = Append(world, effect)
      BY <1>3 DEF Dispatches
    <2>2. /\ effect.intent = pending_intent
          /\ ~SinkMayEdit => effect.input = SealedInput(pending_intent)
      BY <1>1, <2>1 DEF HandoverInv
    <2>3. pending_intent \notin Given
      BY <1>1, <2>1 DEF HandoverInv
    <2> HIDE DEF effect
    <2>4. /\ Len(world) \in Nat /\ Len(world') = Len(world) + 1
          /\ world'[Len(world) + 1] = effect
          /\ \A n \in 1..Len(world) : world'[n] = world[n]
      BY <2>1 DEF TypeOK
    <2>5. ASSUME ~SinkMayEdit PROVE EffectsAsSealed'
      <3> SUFFICES ASSUME NEW n \in 1..(Len(world) + 1)
                   PROVE  world'[n].input = SealedInput(world'[n].intent)
        BY <1>1, <2>4 DEF EffectsAsSealed, SealedInput
      <3>1. CASE n \in 1..Len(world)
        BY <2>4, <2>5, <3>1 DEF HandoverInv, EffectsAsSealed, SealedInput
      <3>2. CASE n = Len(world) + 1
        BY <2>2, <2>4, <2>5, <3>2
      <3>3. QED
        BY <2>4, <3>1, <3>2
    <2>6. EffectOncePerApproval'
      <3>1. \A n \in 1..Len(world) : world'[n].intent # pending_intent
        BY <2>3, <2>4 DEF Given
      <3>2. ASSUME NEW m \in 1..(Len(world) + 1), NEW n \in 1..(Len(world) + 1),
                   world'[m].intent = world'[n].intent
            PROVE  m = n
        <4>1. CASE m \in 1..Len(world) /\ n \in 1..Len(world)
          BY <2>4, <3>2, <4>1 DEF HandoverInv, EffectOncePerApproval
        <4>2. CASE m = Len(world) + 1 \/ n = Len(world) + 1
          BY <2>2, <2>4, <3>1, <3>2, <4>2
        <4>3. QED
          BY <2>4, <4>1, <4>2
      <3>3. QED
        BY <2>4, <3>2 DEF EffectOncePerApproval
    <2>7. QED
      BY <1>1, <2>5, <2>6 DEF HandoverInv
  <1>4. QED
    BY <1>2, <1>3 DEF Dispatches

\* Every form of step keeps HandoverInv.
LEMMA NextKeepsHandover ==
    ASSUME DefinitionAssumption, RunnerAssumption, TypeOK, TypeOK', Safe, Orderly,
           HandoverInv, [Next]_vars
    PROVE  HandoverInv'
  <1>1. ASSUME UNCHANGED <<sealed, world>>, DropsPending PROVE HandoverInv'
    BY <1>1, WorldStays DEF DropsPending, HandoverInv
  <1>2. CASE Rests
    <2>1. (~SinkMayEdit => EffectsAsSealed') /\ EffectOncePerApproval' /\ Given' = Given
      BY <1>2, WorldStays DEF Rests
    <2>2. pc = "handling" => pc' = "handling"
      BY <1>2 DEF Rests, Orderly
    <2>3. ASSUME pc = "loop", status = "running"
          PROVE  /\ pc' = "loop"
                 /\ \/ SinkMayEdit
                    \/ (resolved_input(pending_transition) = SealedInput(pending_intent))'
                         = (resolved_input(pending_transition) = SealedInput(pending_intent))
      BY <1>2, <2>3 DEF Rests, KeepsFate, resolved_input, SealedInput
    <2>4. QED
      BY <1>2, <2>1, <2>2, <2>3 DEF Rests, KeepsFate, HandoverInv
  <1>3. CASE Completes \/ Fails
    BY <1>1, <1>3 DEF Completes, Fails, FailsNow
  <1>4. CASE Applies
    BY <1>1, <1>4 DEF Applies, Orderly
  <1>5. ASSUME NEW t \in 1..Len(Transitions), Dispatches(t) PROVE HandoverInv'
    BY <1>5, DispatchKeepsHandover
  <1>6. ASSUME NEW t \in 1..Len(Transitions), Seals(t) PROVE HandoverInv'
    <2>1. /\ world' = world /\ \A i \in Intents : sealed'[i] = sealed[i]
          /\ status' = "paused_approval" \/ FailsNow
          /\ status' # "failed" => pending_intent' = Len(sealed) + 1
      BY <1>6 DEF Seals, Counts
    <2>2. (~SinkMayEdit => EffectsAsSealed') /\ EffectOncePerApproval' /\ Given' = Given
      BY <2>1, WorldStays
    <2>3. Len(sealed) + 1 \notin Given
      BY GivenWasSealed DEF Intents, TypeOK
    <2>4. QED
      BY <2>1, <2>2, <2>3 DEF HandoverInv, FailsNow, DropsPending
  <1>7. ASSUME NEW answer \in Answers(pending_intent),
               Withholds(answer) \/ Denies(answer) \/ Grants(answer)
        PROVE  HandoverInv'
    <2>1. /\ pc = "approving" /\ status = "paused_approval"
          /\ UNCHANGED <<data, sealed, world>>
      BY <1>7 DEF Withholds, Denies, Grants, Answering
    <2>2. (~SinkMayEdit => EffectsAsSealed') /\ EffectOncePerApproval' /\ Given' = Given
      BY <2>1, WorldStays
    <2>3. pending_intent # 0 => pending_intent \notin Given
      BY <2>1 DEF HandoverInv
    <2>4. CASE Withholds(answer)
      BY <2>1, <2>2, <2>3, <2>4 DEF Withholds, KeepsFate, HandoverInv
    <2>5. CASE Denies(answer)
      BY <1>1, <2>1, <2>5 DEF Denies, FailsNow, Orderly
    <2>6. CASE Grants(answer)
      <3>1. /\ pc' = "loop" /\ UNCHANGED <<pending_intent, pending_transition>>
            /\ SealedInput(pending_intent) = resolved_input(pending_transition)
        BY <2>6 DEF Grants, Orderly, SealedInput
      <3>2. (SealedInput(pending_intent) = resolved_input(pending_transition))'
        BY <2>1, <3>1 DEF SealedInput, resolved_input
      <3>3. QED
        BY <2>2, <2>3, <3>1, <3>2 DEF HandoverInv
    <2>7. QED
      BY <1>7, <2>4, <2>5, <2>6
  <1>8. QED
    BY <1>2, <1>3, <1>4, <1>5, <1>6, <1>7, StepForms DEF Form

\* So it always holds.
LEMMA HandoverInvariance == ASSUME Orderly PROVE Spec => []HandoverInv
  <1>1. Init => HandoverInv
    BY DEF Init, HandoverInv, EffectsAsSealed, EffectOncePerApproval, Given
  <1>2. RunnerInv /\ RunnerInv' /\ HandoverInv /\ [Next]_vars => HandoverInv'
    BY DefinitionAssumption, RunnerAssumption, NextKeepsHandover DEF RunnerInv, Safe
  <1>3. QED
    BY <1>1, <1>2, Invariance, PTL DEF Spec

\* The handler is given the very input the human approved, whatever the host did
\* to the data between sealing and answer, when nothing raises and the sink, which
\* is called between the verification and the handler (runner.py:345), leaves the data
\* alone.
THEOREM HandsOverAsSealed == ASSUME Orderly, ~SinkMayEdit PROVE Spec => []EffectsAsSealed
  <1>1. HandoverInv => EffectsAsSealed
    BY DEF HandoverInv
  <1>2. QED
    BY <1>1, HandoverInvariance, PTL

\* One approval is good for one hand-over, when nothing raises, whatever the sink
\* does to the data.
THEOREM HandsOverOnce == ASSUME Orderly PROVE Spec => []EffectOncePerApproval
  <1>1. HandoverInv => EffectOncePerApproval
    BY DEF HandoverInv
  <1>2. QED
    BY <1>1, HandoverInvariance, PTL

-----------------------------------------------------------------------------
(* The audit trail is complete. *)

OnTrail(i) == Holds(history, Event("action.dispatched", i))

\* The effect not on the trail yet is the pending one, in its handler's hands.
TrailInv ==
    /\ failure_reason = "handler" => status = "failed"
    /\ \A n \in 1..Len(world) :
          \/ OnTrail(world[n].intent)
          \/ pc = "handling" /\ n = Len(world) /\ world[n].intent = pending_intent
          \/ failure_reason = "handler"

\* A step that keeps the history's events, with every effect on the trail.
LEMMA TrailGrows ==
    ASSUME TrailInv, pc # "handling", status # "failed", world' = world,
           \A f : Holds(history, f) => Holds(history', f),
           failure_reason' = "handler" => status' = "failed"
    PROVE  TrailInv'
  BY DEF TrailInv, OnTrail

\* The dispatch is recorded: the effect in the handler's hands, if any, is on the
\* trail too.
LEMMA TrailRecords ==
    ASSUME TypeOK, TrailInv, status # "failed", world' = world,
           NEW h \in Seq(Events), h = Append(history, Recording),
           \A f : Holds(h, f) => Holds(history', f),
           failure_reason' = "handler" => status' = "failed"
    PROVE  TrailInv'
  <1>1. history \in Seq(Events) /\ Recording \in Events
    BY FormEvents DEF TypeOK
  <1>2. Holds(h, Recording) /\ \A f : Holds(history, f) => Holds(h, f)
    BY <1>1, HoldsGrows
  <1>3. \A n \in 1..Len(world) :
           Holds(history, Event("action.dispatched", world[n].intent))
              \/ world[n].intent = pending_intent
    BY DEF TrailInv, OnTrail
  <1>4. \A n \in 1..Len(world) : Holds(h, Event("action.dispatched", world[n].intent))
    BY <1>2, <1>3 DEF Recording
  <1>5. QED
    BY <1>4 DEF TrailInv, OnTrail

\* What Counts appends to h keeps what h holds.
LEMMA CountsTrail ==
    ASSUME TypeOK, TrailInv, status # "failed", NEW h \in Seq(Events), NEW st,
           Counts(h, st)
    PROVE  /\ \A f : Holds(h, f) => Holds(history', f)
           /\ failure_reason' = "handler" => status' = "failed"
  <1>1. CASE history' = h /\ failure_reason' = failure_reason
    BY <1>1 DEF TrailInv
  <1>2. CASE history' = Append(h, Failure) /\ FailsNow
    BY <1>2, FormEvents, HoldsGrows DEF FailsNow
  <1>3. QED
    BY <1>1, <1>2 DEF Counts

\* Every form of step keeps TrailInv.
LEMMA NextKeepsTrail ==
    ASSUME DefinitionAssumption, RunnerAssumption, TypeOK, Safe, ~CallbacksMayRaise,
           TrailInv, [Next]_vars
    PROVE  TrailInv'
  <1>1. history \in Seq(Events)
    BY DEF TypeOK
  <1>2. ASSUME NEW e \in Events, NEW h \in Seq(Events)
        PROVE  Append(h, e) \in Seq(Events) /\ \A f : Holds(h, f) => Holds(Append(h, e), f)
    BY AppendedEvents, HoldsGrows
  <1>3. CASE Rests
    BY <1>3 DEF Rests, KeepsFate, TrailInv, OnTrail
  <1>4. CASE Completes
    BY <1>1, <1>2, <1>4, FormEvents, TrailGrows DEF Completes, TrailInv
  <1>5. CASE Fails
    <2>1. status' = "failed" /\ world' = world /\ status = "running"
          /\ \A f : Holds(history, f) => Holds(history', f)
      BY <1>1, <1>2, <1>5, FormEvents DEF Fails, FailsNow
    <2>2. CASE pc = "handling"
      BY <1>5, <2>1, <2>2 DEF Fails, TrailInv
    <2>3. QED
      BY <2>1, <2>2, TrailGrows
  <1>6. CASE Applies
    <2>1. status # "failed" /\ world' = world
      BY <1>6 DEF Applies
    <2>2. CASE pc = "loop" /\ Counts(Append(history, Applied), "running")
      <3>1. Append(history, Applied) \in Seq(Events)
            /\ \A f : Holds(history, f) => Holds(Append(history, Applied), f)
        BY <1>1, <1>2, FormEvents
      <3>2. QED
        BY <2>1, <2>2, <3>1, CountsTrail, TrailGrows
    <2>3. CASE Counts(Append(Append(history, Recording), Applied), "running")
      <3> DEFINE h == Append(history, Recording)
                 g == Append(h, Applied)
      <3>1. h \in Seq(Events)
        BY <1>1, <1>2, FormEvents
      <3>2. g \in Seq(Events) /\ \A f : Holds(h, f) => Holds(g, f)
        BY <1>2, <3>1, FormEvents
      <3>3. Counts(g, "running") /\ h = Append(history, Recording)
        BY <2>3
      <3> HIDE DEF g, h
      <3>4. /\ \A f : Holds(g, f) => Holds(history', f)
            /\ failure_reason' = "handler" => status' = "failed"
        BY <2>1, <3>2, <3>3, CountsTrail
      <3>5. QED
        BY <2>1, <3>1, <3>2, <3>3, <3>4, TrailRecords
    <2>4. CASE KeepsFate /\ history' = Append(history, Recording)
      <3>1. PICK h : h = Append(history, Recording)
        OBVIOUS
      <3>2. h \in Seq(Events)
        BY <1>1, <1>2, <3>1, FormEvents
      <3>3. \A f : Holds(h, f) => Holds(history', f)
        BY <2>4, <3>1
      <3>4. failure_reason' = "handler" => status' = "failed"
        BY <2>4 DEF KeepsFate, TrailInv
      <3>5. QED
        BY <2>1, <3>1, <3>2, <3>3, <3>4, TrailRecords
    <2>5. QED
      BY <1>6, <2>2, <2>3, <2>4 DEF Applies
  <1>7. ASSUME NEW t \in 1..Len(Transitions), Dispatches(t) PROVE TrailInv'
    <2>1. /\ pc = "loop" /\ pc' = "handling" /\ status = "running" /\ KeepsFate
          /\ history' = history
      BY <1>7 DEF Dispatches
    <2>2. \A n \in 1..Len(world) : OnTrail(world[n].intent)
      BY <2>1 DEF TrailInv
    <2>3. CASE world' = world
      BY <2>1, <2>2, <2>3 DEF TrailInv, OnTrail, KeepsFate
    <2>4. CASE world' # world
      <3> DEFINE effect == [intent |-> pending_intent, input |-> resolved_input(t)]
      <3>1. world' = Append(world, effect)
        BY <1>7, <2>4 DEF Dispatches
      <3>2. effect.intent = pending_intent
        OBVIOUS
      <3> HIDE DEF effect
      <3>3. /\ Len(world) \in Nat /\ Len(world') = Len(world) + 1
            /\ world'[Len(world) + 1] = effect
            /\ \A n \in 1..Len(world) : world'[n] = world[n]
        BY <3>1 DEF TypeOK
      <3>4. ASSUME NEW n \in 1..(Len(world) + 1)
            PROVE  OnTrail(world'[n].intent)
                   \/ (n = Len(world) + 1 /\ world'[n].intent = pending_intent)
        BY <2>2, <3>2, <3>3
      <3>5. QED
        BY <2>1, <3>3, <3>4 DEF TrailInv, OnTrail, KeepsFate
    <2>5. QED
      BY <2>3, <2>4
  <1>8. ASSUME NEW t \in 1..Len(Transitions), Seals(t) PROVE TrailInv'
    <2>1. Append(history, Requested) \in Seq(Events)
          /\ \A f : Holds(history, f) => Holds(Append(history, Requested), f)
      BY <1>1, <1>2, FormEvents
    <2>2. pc = "loop" /\ status = "running" /\ world' = world
          /\ Counts(Append(history, Requested), "paused_approval")
      BY <1>8 DEF Seals
    <2>3. QED
      BY <2>1, <2>2, CountsTrail, TrailGrows
  <1>9. ASSUME NEW answer \in Answers(pending_intent),
               Withholds(answer) \/ Denies(answer) \/ Grants(answer)
        PROVE  TrailInv'
    <2>1. pc = "approving" /\ status = "paused_approval" /\ world' = world
      BY <1>9 DEF Withholds, Denies, Grants, Answering
    <2>2. failure_reason # "handler"
      BY <2>1 DEF TrailInv
    <2>3. failure_reason' = "handler" => status' = "failed"
      BY <1>9, <2>2 DEF Withholds, Denies, Grants, KeepsFate, FailsNow
    <2>4. \A f : Holds(history, f) => Holds(history', f)
      <3>1. CASE Withholds(answer) \/ Grants(answer)
        <4>1. history' = history \/ \E e \in Events : history' = Append(history, e)
          BY <3>1, FormEvents DEF Withholds, Grants
        <4>2. QED
          BY <1>1, <1>2, <4>1
      <3>2. CASE Denies(answer)
        <4> DEFINE h == Append(history, Rejected)
        <4>1. h \in Seq(Events) /\ \A f : Holds(history, f) => Holds(h, f)
          BY <1>1, <1>2, FormEvents
        <4> HIDE DEF h
        <4>2. history' = h \/ history' = Append(h, Failure)
          BY <3>2 DEF Denies, h
        <4>3. QED
          BY <1>2, <4>1, <4>2, FormEvents
      <3>3. QED
        BY <1>9, <3>1, <3>2
    <2>5. QED
      BY <2>1, <2>3, <2>4, TrailGrows
  <1>10. QED
    BY <1>3, <1>4, <1>5, <1>6, <1>7, <1>8, <1>9, StepForms DEF Form

\* Every governed effect a handler was given is on the audit trail once the handler
\* is done, unless its failure failed the workflow; a sink may raise, since an event is
\* in the history before the sink sees it (runner.py, _emit), a callback must not.
THEOREM AuditIsComplete == ASSUME ~CallbacksMayRaise PROVE Spec => []AuditComplete
  <1>1. Init => TrailInv
    BY DEF Init, TrailInv
  <1>2. RunnerInv /\ TrailInv /\ [Next]_vars => TrailInv'
    BY DefinitionAssumption, RunnerAssumption, NextKeepsTrail DEF RunnerInv, Safe
  <1>3. TrailInv => AuditComplete
    BY DEF TrailInv, OnTrail, Holds, AuditComplete
  <1>4. QED
    BY <1>1, <1>2, <1>3, Invariance, PTL DEF Spec

================================================================================
