-------------------------- MODULE RunnerPromiseProofs --------------------------
(***************************************************************************)
(* The runner keeps the promise of GovernedEffects, for every workflow     *)
(* definition, policy, budget and bound, with callbacks and sinks that     *)
(* raise and a host that edits data.                                       *)
(***************************************************************************)
EXTENDS RunnerAuditProofs

Performed == Given \cup Recorded
OnTrail(h, i) == Holds(h, Event("action.dispatched", i))

\* What the refinement needs beyond RunnerInv: decisions and dispatches are about
\* sealed intents, and an instance that waits has not performed its pending effect.
PromiseInv ==
    /\ \A d \in decisions : d.intent \in Intents
    /\ \A i : OnTrail(history, i) => i \in 0..Len(sealed)
    /\ status = "paused_approval" => pending_intent \notin Performed

\* Only a dispatch adds to the trail, and only its own intent.
LEMMA TrailOf ==
    ASSUME NEW h \in Seq(Events), NEW e \in Events
    PROVE  /\ e.type # "action.dispatched" =>
                 \A i : OnTrail(Append(h, e), i) <=> OnTrail(h, i)
           /\ \A j : e = Event("action.dispatched", j) =>
                 \A i : OnTrail(Append(h, e), i) <=> OnTrail(h, i) \/ i = j
  <1>1. \A i, j : Event("action.dispatched", i) = Event("action.dispatched", j) <=> i = j
    BY DEF Event
  <1>2. \A i : Event("action.dispatched", i).type = "action.dispatched"
    BY DEF Event
  <1>3. QED
    BY <1>1, <1>2, HoldsGrows DEF OnTrail

\* Counting a step dispatches nothing.
LEMMA CountsOffTrail ==
    ASSUME TypeOK, NEW h \in Seq(Events), NEW st, Counts(h, st)
    PROVE  \A i : OnTrail(history', i) <=> OnTrail(h, i)
  <1>1. Failure \in Events /\ Failure.type # "action.dispatched"
    BY FormEvents DEF Failure, Event
  <1>2. history' = h \/ history' = Append(h, Failure)
    BY DEF Counts
  <1>3. QED
    BY <1>1, <1>2, TrailOf

\* Which dispatches a step records.
TrailStays == \A i : OnTrail(history', i) <=> OnTrail(history, i)
TrailGains == \A i : OnTrail(history', i) <=> OnTrail(history, i) \/ i = pending_intent

\* Applying a transition dispatches nothing or the pending effect.
LEMMA AppliesOnTrail ==
    ASSUME TypeOK, Applies
    PROVE  (TrailStays /\ pending_intent = 0) \/ TrailGains
  <1>1. history \in Seq(Events)
    BY DEF TypeOK
  <1>2. /\ Recording \in Events /\ Recording = Event("action.dispatched", pending_intent)
        /\ Applied \in Events /\ Applied.type # "action.dispatched"
    BY FormEvents DEF Recording, Applied, Event
  <1> DEFINE h == Append(history, Recording)
  <1>3. h \in Seq(Events) /\ \A i : OnTrail(h, i) <=> OnTrail(history, i) \/ i = pending_intent
    BY <1>1, <1>2, AppendedEvents, TrailOf
  <1>4. CASE pending_intent = 0 /\ Counts(Append(history, Applied), "running")
    <2>1. Append(history, Applied) \in Seq(Events)
          /\ \A i : OnTrail(Append(history, Applied), i) <=> OnTrail(history, i)
      BY <1>1, <1>2, AppendedEvents, TrailOf
    <2>2. QED
      BY <1>4, <2>1, CountsOffTrail DEF TrailStays
  <1> HIDE DEF h
  <1>5. CASE Counts(Append(h, Applied), "running")
    <2>1. Append(h, Applied) \in Seq(Events)
          /\ \A i : OnTrail(Append(h, Applied), i) <=> OnTrail(h, i)
      BY <1>2, <1>3, AppendedEvents, TrailOf
    <2>2. QED
      BY <1>3, <1>5, <2>1, CountsOffTrail DEF TrailGains
  <1>6. CASE history' = h
    BY <1>3, <1>6 DEF TrailGains
  <1>7. QED
    BY <1>4, <1>5, <1>6 DEF Applies, h

\* Sealing dispatches nothing.
LEMMA SealsOffTrail ==
    ASSUME TypeOK, NEW t, Seals(t)
    PROVE  TrailStays
  <1>1. /\ history \in Seq(Events)
        /\ Requested \in Events /\ Requested.type # "action.dispatched"
    BY FormEvents DEF TypeOK, Requested, Event
  <1>2. /\ Append(history, Requested) \in Seq(Events)
        /\ \A i : OnTrail(Append(history, Requested), i) <=> OnTrail(history, i)
    BY <1>1, AppendedEvents, TrailOf
  <1>3. QED
    BY <1>2, CountsOffTrail DEF Seals, TrailStays

\* Nor does an answer.
LEMMA AnswersOffTrail ==
    ASSUME TypeOK, NEW answer, Withholds(answer) \/ Denies(answer) \/ Grants(answer)
    PROVE  TrailStays
  <1> DEFINE Plain(e) == e \in Events /\ e.type # "action.dispatched"
  <1>1. /\ history \in Seq(Events) /\ Plain(Rejected) /\ Plain(Failure) /\ Plain(Granted)
        /\ \A type \in {"approval.mismatch", "approval.invalid"}, i \in Nat :
              Plain(Event(type, i))
    BY FormEvents DEF TypeOK, Rejected, Failure, Granted, Event
  <1>2. ASSUME NEW h \in Seq(Events), NEW e, Plain(e)
        PROVE  /\ Append(h, e) \in Seq(Events)
               /\ \A i : OnTrail(Append(h, e), i) <=> OnTrail(h, i)
    BY <1>2, AppendedEvents, TrailOf
  <1> HIDE DEF Plain
  <1>3. CASE history' = history
    BY <1>3 DEF TrailStays
  <1>4. CASE \E e : Plain(e) /\ history' = Append(history, e)
    BY <1>1, <1>2, <1>4 DEF TrailStays
  <1>5. CASE history' = Append(Append(history, Rejected), Failure)
    <2> DEFINE h == Append(history, Rejected)
    <2>1. h \in Seq(Events) /\ \A i : OnTrail(h, i) <=> OnTrail(history, i)
      BY <1>1, <1>2
    <2> HIDE DEF h
    <2>2. history' = Append(h, Failure)
      BY <1>5 DEF h
    <2>3. QED
      BY <1>1, <1>2, <2>1, <2>2 DEF TrailStays
  <1>6. QED
    BY <1>1, <1>3, <1>4, <1>5 DEF Withholds, Denies, Grants

\* The rest of the mapping.
Closed == Intents \ {pending_intent}
KeepsIntents == UNCHANGED <<Intents, Approved>>

\* GovernedEffects' steps in terms of the mapping: a stutter, Close, Perform,
\* Approve and Request of the pending intent, in that order.
LEMMA PromiseSteps ==
    ASSUME NEW i \in Intents',
           \/ KeepsIntents /\ UNCHANGED <<Performed, Closed>>
           \/ /\ KeepsIntents /\ UNCHANGED Performed
              /\ i \in Intents \ Closed /\ Closed' = Closed \cup {i}
           \/ /\ KeepsIntents /\ i \in (Intents \ Closed) \cap Approved
              /\ Performed' = Performed \cup {i}
              /\ Closed' \in {Closed, Closed \cup {i}}
           \/ /\ UNCHANGED <<Intents, Performed, Closed>>
              /\ i \in (Intents \ Closed) \ Performed
              /\ Approved' = Approved \cup {i}
           \/ /\ Intents \ Closed = {} /\ i \notin Intents /\ Intents' = Intents \cup {i}
              /\ Closed' \in {Closed, Closed \cup {i}}
              /\ UNCHANGED <<Approved, Performed>>
    PROVE  [Promise!GNext]_(Promise!gvars)
  BY DEF Promise!GNext, Promise!gvars, Promise!Request, Promise!Approve, Promise!Perform,
     Promise!Close, Promise!Open, KeepsIntents, Performed, Given, Closed

\* The intents and approvals of a step without seals and answers, and what it
\* performs.
LEMMA MappingStays ==
    ASSUME sealed' = sealed
    PROVE  /\ Intents' = Intents
           /\ decisions' = decisions => Approved' = Approved
           /\ world' = world /\ TrailStays => Performed' = Performed
           /\ world' = world /\ TrailGains /\ pending_intent \in Intents
                 => Performed' = Performed \cup {pending_intent}
           /\ world' = world /\ TrailGains /\ pending_intent \notin Intents
                 => Performed' = Performed
  <1>1. Intents' = Intents
    BY DEF Intents
  <1>2. ASSUME decisions' = decisions PROVE Approved' = Approved
    BY <1>1, <1>2 DEF Approved, Authorises
  <1>3. Recorded = {i \in Intents : OnTrail(history, i)}
    BY DEF Recorded, OnTrail, Holds
  <1>4. Recorded' = {i \in Intents : OnTrail(history', i)}
    BY <1>1 DEF Recorded, OnTrail, Holds
  <1>5. world' = world => Given' = Given
    BY DEF Given
  <1>6. TrailStays => Recorded' = Recorded
    BY <1>3, <1>4 DEF TrailStays
  <1>7. TrailGains /\ pending_intent \in Intents => Recorded' = Recorded \cup {pending_intent}
    BY <1>3, <1>4 DEF TrailGains
  <1>8. TrailGains /\ pending_intent \notin Intents => Recorded' = Recorded
    BY <1>3, <1>4 DEF TrailGains
  <1>9. QED
    BY <1>1, <1>2, <1>5, <1>6, <1>7, <1>8 DEF Performed

PromiseStep == [Promise!GNext]_(Promise!gvars) /\ PromiseInv'

\* Sealing requests an effect that was not requested before.
LEMMA SealsPromise ==
    ASSUME TypeOK, TypeOK', Safe, PromiseInv, NEW t, Seals(t)
    PROVE  PromiseStep
  <1> DEFINE i == Len(sealed) + 1
  <1>1. /\ Len(sealed) \in Nat /\ Len(sealed') = Len(sealed) + 1
        /\ \A j \in Intents : sealed'[j] = sealed[j]
        /\ pending_intent = 0 /\ UNCHANGED <<decisions, world>>
        /\ FailsNow \/ (status' = "paused_approval" /\ pending_intent' = i)
    BY DEF Seals, Counts, FailsNow, TypeOK
  <1>2. TrailStays
    BY SealsOffTrail
  <1>3. i \notin Intents /\ i \in Intents' /\ Intents' = Intents \cup {i}
    BY <1>1 DEF Intents
  <1>4. Approved' = Approved
    <2>1. \A d \in decisions : d.intent \in Intents /\ Authorises(d)' = Authorises(d)
      BY <1>1 DEF PromiseInv, Authorises
    <2>2. QED
      BY <1>1, <1>3, <2>1 DEF Approved
  <1>5. Performed' = Performed /\ i \notin Performed
    <2>1. \A j : OnTrail(history, j) => j # i
      BY <1>1 DEF PromiseInv
    <2>2. Recorded' = Recorded
      <3>1. Recorded = {j \in Intents : OnTrail(history, j)}
        BY DEF Recorded, OnTrail, Holds
      <3>2. Recorded' = {j \in Intents' : OnTrail(history', j)}
        BY DEF Recorded, OnTrail, Holds
      <3>3. QED
        BY <1>2, <1>3, <2>1, <3>1, <3>2 DEF TrailStays
    <2>3. QED
      BY <1>1, <1>3, <2>2, GivenWasSealed DEF Performed, Given, Recorded
  <1>6. Intents \ Closed = {} /\ Closed' \in {Closed, Closed \cup {i}}
    BY <1>1, <1>3 DEF Closed, FailsNow, DropsPending, Intents
  <1>7. [Promise!GNext]_(Promise!gvars)
    BY <1>3, <1>4, <1>5, <1>6, PromiseSteps
  <1>8. PromiseInv'
    <2>1. \A d \in decisions' : d.intent \in Intents'
      BY <1>1, <1>3 DEF PromiseInv
    <2>2. \A j : OnTrail(history', j) => j \in 0..Len(sealed')
      BY <1>1, <1>2 DEF PromiseInv, TrailStays
    <2>3. status' = "paused_approval" => pending_intent' \notin Performed'
      BY <1>1, <1>5 DEF FailsNow
    <2>4. QED
      BY <2>1, <2>2, <2>3 DEF PromiseInv
  <1>9. QED
    BY <1>7, <1>8 DEF PromiseStep

\* An answer approves or closes the open effect, or changes nothing.
LEMMA AnswersPromise ==
    ASSUME TypeOK, Safe, PromiseInv, NEW answer,
           Withholds(answer) \/ Denies(answer) \/ Grants(answer)
    PROVE  PromiseStep
  <1> DEFINE i == pending_intent
             d == Decision(answer)
  <1>1. /\ status = "paused_approval" /\ UNCHANGED <<sealed, world>>
        /\ decisions' = decisions \cup {d} /\ d.intent = i /\ d.answer = answer
        /\ i \in Intents
    BY DEF Withholds, Denies, Grants, Answering, Decision, TypeOK, Intents
  <1> HIDE DEF d
  <1>2. TrailStays
    BY AnswersOffTrail
  <1>3. Intents' = Intents /\ Performed' = Performed
    BY <1>1, <1>2, MappingStays
  <1>4. i \in (Intents \ Closed) \ Performed
    BY <1>1 DEF PromiseInv, Closed
  <1>5. Approved' = IF Authorises(d) THEN Approved \cup {i} ELSE Approved
    <2>1. \A e : Authorises(e)' <=> Authorises(e)
      BY <1>1 DEF Authorises
    <2>2. Approved' = {k \in Intents : \E e \in decisions \cup {d} :
                         e.intent = k /\ Authorises(e)}
      BY <1>1, <1>3, <2>1 DEF Approved
    <2>3. QED
      BY <1>1, <2>2 DEF Approved
  <1>6. \/ i' = i
        \/ Approved' = Approved /\ FailsNow
    <2>1. CASE Denies(answer)
      BY <1>1, <1>5, <2>1 DEF Denies, Authorises, KeepsFate
    <2>2. QED
      BY <2>1 DEF Withholds, Grants, KeepsFate
  <1>7. Closed' = Closed \/ (Approved' = Approved /\ Closed' = Closed \cup {i})
    <2>1. CASE i' = i
      BY <1>3, <2>1 DEF Closed
    <2>2. CASE Approved' = Approved /\ FailsNow
      BY <1>1, <1>3, <2>2 DEF Closed, FailsNow, DropsPending, Intents, TypeOK
    <2>3. QED
      BY <1>6, <2>1, <2>2
  <1>8. [Promise!GNext]_(Promise!gvars)
    BY <1>1, <1>3, <1>4, <1>5, <1>7, PromiseSteps DEF KeepsIntents
  <1>9. PromiseInv'
    <2>1. \A e \in decisions' : e.intent \in Intents'
      BY <1>1, <1>3 DEF PromiseInv
    <2>2. \A j : OnTrail(history', j) => j \in 0..Len(sealed')
      BY <1>1, <1>2 DEF PromiseInv, TrailStays
    <2>3. status' = "paused_approval" => i' \notin Performed'
      BY <1>3, <1>4, <1>6 DEF FailsNow
    <2>4. QED
      BY <2>1, <2>2, <2>3 DEF PromiseInv
  <1>10. QED
    BY <1>8, <1>9 DEF PromiseStep

\* A step without seals and answers: it performs the pending intent, closes it,
\* does both or neither.
LEMMA WorkKeepsPromise ==
    ASSUME TypeOK, TypeOK', Safe, PromiseInv, UNCHANGED <<sealed, decisions>>,
           KeepsFate \/ (DropsPending /\ status' # "paused_approval"),
           \/ Performed' = Performed
           \/ /\ pending_intent \in Approved /\ status = "running"
              /\ Performed' = Performed \cup {pending_intent},
           \A j : OnTrail(history', j) => OnTrail(history, j) \/ j = pending_intent
    PROVE  PromiseStep
  <1> DEFINE i == pending_intent
  <1>1. Intents' = Intents /\ Approved' = Approved
    BY MappingStays
  <1>2. i \in 0..Len(sealed) /\ Len(sealed) \in Nat
    BY DEF TypeOK
  <1>3. ASSUME i = 0 PROVE [Promise!GNext]_(Promise!gvars)
    <2>1. Performed' = Performed /\ Closed' = Closed
      <3>1. i \notin Approved
        BY <1>3 DEF Approved, Intents
      <3>2. i' = 0
        BY <1>3 DEF KeepsFate, DropsPending
      <3>3. QED
        BY <1>1, <1>3, <3>1, <3>2 DEF Closed
    <2>2. KeepsIntents /\ UNCHANGED <<Performed, Closed>>
      BY <1>1, <2>1 DEF KeepsIntents
    <2>3. QED
      BY <2>2 DEF Promise!gvars, KeepsIntents, Performed, Given, Closed
  <1>4. ASSUME i # 0 PROVE [Promise!GNext]_(Promise!gvars)
    <2>1. i \in Intents \ Closed /\ i \in Intents'
      BY <1>1, <1>2, <1>4 DEF Closed, Intents
    <2>2. Closed' \in {Closed, Closed \cup {i}}
      <3>1. CASE i' = i
        BY <1>1, <3>1 DEF Closed
      <3>2. CASE i' = 0
        BY <1>1, <2>1, <3>2 DEF Closed, Intents
      <3>3. QED
        BY <3>1, <3>2 DEF KeepsFate, DropsPending
    <2>3. QED
      BY <1>1, <2>1, <2>2, PromiseSteps DEF KeepsIntents
  <1>5. [Promise!GNext]_(Promise!gvars)
    BY <1>3, <1>4
  <1>6. PromiseInv'
    <2>1. \A d \in decisions' : d.intent \in Intents'
      BY <1>1 DEF PromiseInv
    <2>2. \A j : OnTrail(history', j) => j \in 0..Len(sealed')
      BY <1>2 DEF PromiseInv
    <2>3. status' = "paused_approval" => i' \notin Performed'
      BY DEF PromiseInv, KeepsFate
    <2>4. QED
      BY <2>1, <2>2, <2>3 DEF PromiseInv
  <1>7. QED
    BY <1>5, <1>6 DEF PromiseStep

\* Every form of step is one GovernedEffects allows.
LEMMA NextKeepsPromise ==
    ASSUME DefinitionAssumption, RunnerAssumption, TypeOK, TypeOK', Safe, PromiseInv,
           [Next]_vars
    PROVE  PromiseStep
  <1>1. status = "running" /\ pending_intent # 0 => pending_intent \in Approved
    BY DEF Safe, PendingApproved
  <1>2. pending_intent \in Intents <=> pending_intent # 0
    BY DEF TypeOK, Intents
  <1>3. CASE Rests
    <2>1. TrailStays
      BY <1>3 DEF Rests, TrailStays
    <2>2. UNCHANGED <<sealed, decisions, Performed>>
      BY <1>3, <2>1, MappingStays DEF Rests
    <2>3. QED
      BY <1>3, <2>1, <2>2, WorkKeepsPromise DEF Rests, TrailStays
  <1>4. CASE Completes \/ Fails
    <2>1. /\ history \in Seq(Events)
          /\ Completion \in Events /\ Completion.type # "action.dispatched"
          /\ Failure \in Events /\ Failure.type # "action.dispatched"
      BY FormEvents DEF TypeOK, Completion, Failure, Event
    <2>2. TrailStays
      <3>1. \A e \in Events : e.type # "action.dispatched" =>
               \A i : OnTrail(Append(history, e), i) <=> OnTrail(history, i)
        BY <2>1, TrailOf
      <3>2. history' = Append(history, Completion) \/ history' = Append(history, Failure)
        BY <1>4 DEF Completes, Fails
      <3>3. QED
        BY <2>1, <3>1, <3>2 DEF TrailStays
    <2>3. /\ UNCHANGED <<sealed, decisions, world>> /\ DropsPending
          /\ status' # "paused_approval"
      BY <1>4 DEF Completes, Fails, FailsNow
    <2>4. Performed' = Performed
      BY <2>2, <2>3, MappingStays
    <2>5. QED
      BY <2>2, <2>3, <2>4, WorkKeepsPromise DEF TrailStays
  <1>5. CASE Applies
    <2>1. /\ UNCHANGED <<sealed, decisions, world>> /\ status = "running"
          /\ KeepsFate \/ (DropsPending /\ status' # "paused_approval")
      BY <1>5 DEF Applies, Counts, FailsNow
    <2>2. (TrailStays /\ pending_intent = 0) \/ TrailGains
      BY <1>5, AppliesOnTrail
    <2>3. \/ Performed' = Performed
          \/ pending_intent \in Approved /\ Performed' = Performed \cup {pending_intent}
      BY <1>1, <1>2, <2>1, <2>2, MappingStays
    <2>4. QED
      BY <2>1, <2>2, <2>3, WorkKeepsPromise DEF TrailStays, TrailGains
  <1>6. ASSUME NEW t \in 1..Len(Transitions), Dispatches(t) PROVE PromiseStep
    <2>1. /\ UNCHANGED <<sealed, decisions>> /\ KeepsFate /\ status = "running"
      BY <1>6 DEF Dispatches
    <2>2. TrailStays
      BY <1>6 DEF Dispatches, TrailStays
    <2>3. Recorded' = Recorded
      BY <1>6 DEF Dispatches, Recorded, Intents
    <2>4. CASE world' = world
      BY <2>1, <2>2, <2>4, MappingStays, WorkKeepsPromise DEF TrailStays
    <2>5. CASE world' # world
      <3> DEFINE effect == [intent |-> pending_intent, input |-> resolved_input(t)]
      <3>1. world' = Append(world, effect) /\ pending_intent # 0
        BY <1>6, <2>5 DEF Dispatches
      <3>2. effect.intent = pending_intent
        OBVIOUS
      <3> HIDE DEF effect
      <3>3. /\ Len(world) \in Nat /\ Len(world') = Len(world) + 1
            /\ world'[Len(world) + 1] = effect
            /\ \A n \in 1..Len(world) : world'[n] = world[n]
        BY <3>1 DEF TypeOK
      <3>4. Given' = Given \cup {pending_intent}
        BY <3>2, <3>3 DEF Given
      <3>5. Performed' = Performed \cup {pending_intent}
        BY <2>3, <3>4 DEF Performed
      <3>6. QED
        BY <1>1, <2>1, <2>2, <3>1, <3>5, WorkKeepsPromise DEF TrailStays
    <2>6. QED
      BY <2>4, <2>5
  <1>7. ASSUME NEW t \in 1..Len(Transitions), Seals(t) PROVE PromiseStep
    BY <1>7, SealsPromise
  <1>8. ASSUME NEW answer \in Answers(pending_intent),
               Withholds(answer) \/ Denies(answer) \/ Grants(answer)
        PROVE  PromiseStep
    BY <1>8, AnswersPromise
  <1>9. QED
    BY <1>3, <1>4, <1>5, <1>6, <1>7, <1>8, StepForms DEF Form

\* At first nothing is requested.
LEMMA InitKeepsPromise ==
    ASSUME Init
    PROVE  Promise!GInit /\ PromiseInv
  <1>1. /\ history = <<Event("workflow.started", 0)>> /\ sealed = <<>>
        /\ decisions = {} /\ world = <<>> /\ status = "running"
    BY DEF Init
  <1>2. Intents = {} /\ Given = {}
    BY <1>1 DEF Intents, Given
  <1>3. Approved = {} /\ Recorded = {}
    BY <1>2 DEF Approved, Recorded
  <1>4. \A i : ~OnTrail(history, i)
    BY <1>1 DEF OnTrail, Holds, Event
  <1>5. QED
    BY <1>1, <1>2, <1>3, <1>4 DEF Promise!GInit, PromiseInv, Given

\* The runner implements GovernedEffects: every step of it requests, approves,
\* performs or closes the one open intent, or is not about governed effects; only
\* an open, approved intent is performed, and a closed one never again, whatever
\* raises.
THEOREM RunnerKeepsPromise == Spec => ImplementsPromise
  <1>1. Init => Promise!GInit /\ PromiseInv
    BY InitKeepsPromise
  <1>2. RunnerInv /\ RunnerInv' /\ PromiseInv /\ [Next]_vars => PromiseStep
    BY DefinitionAssumption, RunnerAssumption, NextKeepsPromise DEF RunnerInv, Safe
  <1>3. PromiseStep => [Promise!GNext]_(Promise!gvars) /\ PromiseInv'
    BY DEF PromiseStep
  <1>4. QED
    BY <1>1, <1>2, <1>3, Invariance, PTL DEF Spec, ImplementsPromise, Promise!GSpec

================================================================================
