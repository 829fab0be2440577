---------------------------- MODULE SessionsProofs ----------------------------
(***************************************************************************)
(* Proofs about one session's runs over a child process, for every budget, *)
(* every line the child may print and every exception and crash.           *)
(***************************************************************************)
EXTENDS SessionsProperties, FiniteSetTheorems, TLAPS

Kinds == HarnessKinds \cup {"none"}
EventTypes == [kind : Kinds, by : {"none", "harness", "child", "budget", "cancel", "exit"}]

LogTypes == Promised!Reports \cup
            {"session.created", "session.state.running", "session.state.completed",
             "session.state.failed"}

\* The types TypeOK leaves out.
Typed ==
    /\ event \in EventTypes
    /\ cancelled \in BOOLEAN /\ held \in BOOLEAN /\ eof \in BOOLEAN /\ open \in BOOLEAN
    /\ child \in {"none", "alive", "dead"} /\ code \in {"none", "ok", "error"}
    /\ pipe \in Seq(Kind \cup {Garbled}) /\ printed \in 0..MaxLines
    /\ log \in Seq(LogTypes) /\ log # <<>>

LastEvent == {Event("failed", "budget"), Event("cancelled", "cancel"),
              Event("completed", "exit"), Event("failed", "exit")}

\* The generator and its child: the harness holds the process exactly while its end
\* of the pipe is open, a child it let go of is dead, the turns counted were printed,
\* and the last event is one of the generator's own.
Shape ==
    /\ held <=> open
    /\ at = "new" => child = "none" /\ ~held /\ turns = 0
    /\ at \in {"suspended", "reading", "waiting", "final"} => held \/ child = "dead"
    /\ at \in {"suspended", "reading", "waiting"} /\ ~cancelled => held
    /\ at = "waiting" => ~cancelled
    /\ turns + Len(pipe) <= printed
    /\ at = "suspended" => \/ event = Event("spawned", "harness") /\ turns = 0
                           \/ event.by = "child" /\ event.kind \in Kind
    /\ at = "final" \/ svc = "settling" => event \in LastEvent
    /\ event = Event("completed", "exit") => child = "dead" /\ code = "ok"
    /\ svc = "settling" => child # "alive"

Inv == TypeOK /\ Typed /\ Shape

\* Taking the first line leaves a shorter pipe of lines.
LEMMA ReadsOne ==
    ASSUME NEW S, NEW p \in Seq(S), p # <<>>
    PROVE  /\ Head(p) \in S /\ Tail(p) \in Seq(S)
           /\ Len(p) \in Nat /\ Len(p) # 0 /\ Len(Tail(p)) = Len(p) - 1
  OBVIOUS

\* Appending adds one entry, the last.
LEMMA AppendsOne ==
    ASSUME NEW S, NEW s \in Seq(S), NEW x \in S
    PROVE  /\ Append(s, x) \in Seq(S) /\ Append(s, x) # <<>>
           /\ Len(s) \in Nat /\ Len(Append(s, x)) = Len(s) + 1
           /\ Last(Append(s, x)) = x
           /\ \A i \in 1..Len(s) : Append(s, x)[i] = s[i]
  <1>1. /\ Append(s, x) \in Seq(S) /\ Len(s) \in Nat /\ Len(Append(s, x)) = Len(s) + 1
        /\ Append(s, x)[Len(s) + 1] = x
        /\ \A i \in 1..Len(s) : Append(s, x)[i] = s[i]
    OBVIOUS
  <1>2. Append(s, x) # <<>>
    BY <1>1
  <1>3. QED
    BY <1>1, <1>2 DEF Last

\* What Cleanup leaves.
LEMMA Cleaned ==
    ASSUME Typed, Shape, Cleanup
    PROVE  /\ ~held' /\ ~open' /\ (held \/ child = "dead" => child' = "dead")
           /\ code' \in {"none", "ok", "error"} /\ (child = "dead" => code' = code)
           /\ child' \in {"none", "alive", "dead"} /\ eof' \in BOOLEAN
           /\ pipe' \in Seq(Kind \cup {Garbled}) /\ printed' = printed
           /\ Len(pipe') <= Len(pipe) /\ Len(pipe) \in Nat /\ Len(pipe') \in Nat
           /\ held' \in BOOLEAN /\ open' \in BOOLEAN
           /\ (child # "none" => child' # "none")
  <1>1. <<>> \in Seq(Kind \cup {Garbled}) /\ Len(<<>>) = 0 /\ Len(pipe) \in Nat
    BY DEF Typed
  <1>2. CASE held
    <2>1. /\ held' = FALSE /\ open' = FALSE /\ child' = "dead" /\ eof' = TRUE
          /\ pipe' = <<>> /\ printed' = printed
          /\ code' = IF child = "alive" THEN "error" ELSE code
      BY <1>2 DEF Cleanup
    <2>2. code' \in {"none", "ok", "error"} /\ (child = "dead" => code' = code)
      BY <2>1 DEF Typed
    <2>3. /\ pipe' \in Seq(Kind \cup {Garbled}) /\ Len(pipe') = 0
          /\ Len(pipe') <= Len(pipe) /\ Len(pipe) \in Nat /\ Len(pipe') \in Nat
      BY <1>1, <2>1
    <2>4. QED
      BY <2>1, <2>2, <2>3
  <1>3. CASE ~held
    BY <1>1, <1>3 DEF Cleanup, Typed, Shape, process
  <1>4. QED
    BY <1>2, <1>3

-----------------------------------------------------------------------------
(* The invariant, one step at a time. *)

\* The invariant holds at first.
LEMMA InitShape ==
    ASSUME HarnessAssumption, SessionsAssumption, Init
    PROVE  Inv
  <1>1. TypeOK
    BY DEF Init, HarnessInit, TypeOK, HarnessAssumption, SessionsAssumption
  <1>2. Typed
    <2>1. <<"session.created">> \in Seq(LogTypes) /\ <<"session.created">> # <<>>
      BY DEF LogTypes
    <2>2. NoEvent \in EventTypes
      BY DEF EventTypes, Kinds, NoEvent, Event
    <2>3. <<>> \in Seq(Kind \cup {Garbled})
      OBVIOUS
    <2>4. log \in Seq(LogTypes) /\ log # <<>>
      BY <2>1 DEF Init
    <2>5. /\ cancelled = FALSE /\ held = FALSE /\ eof = FALSE /\ open = FALSE
          /\ child = "none" /\ code = "none" /\ pipe = <<>> /\ printed = 0
          /\ event = NoEvent
      BY DEF Init, HarnessInit
    <2>6. /\ cancelled \in BOOLEAN /\ held \in BOOLEAN /\ eof \in BOOLEAN /\ open \in BOOLEAN
      BY <2>5
    <2>7. /\ event \in EventTypes /\ pipe \in Seq(Kind \cup {Garbled})
          /\ child \in {"none", "alive", "dead"} /\ code \in {"none", "ok", "error"}
      BY <2>2, <2>3, <2>5
    <2>8. printed \in 0..MaxLines
      BY <2>5 DEF HarnessAssumption
    <2>9. QED
      BY <2>4, <2>6, <2>7, <2>8 DEF Typed
  <1>3. Shape
    BY DEF Init, HarnessInit, Shape, NoEvent, Event
  <1>4. QED
    BY <1>1, <1>2, <1>3 DEF Inv

\* Neither the child nor the clock disturbs the invariant.
LEMMA ChildShape ==
    ASSUME HarnessAssumption, Inv, Child \/ Passes, UNCHANGED svars
    PROVE  Inv'
  <1> USE DEF generator, svars
  <1>1. TypeOK /\ Typed /\ Shape
    BY DEF Inv
  <1>2. ASSUME NEW line \in ChildLines, Prints(line) PROVE Inv'
    <2>1. line \in Kind \cup {Garbled}
      BY DEF HarnessAssumption
    <2>2. /\ pipe' \in Seq(Kind \cup {Garbled}) /\ Len(pipe') = Len(pipe) + 1
          /\ Len(pipe) \in Nat
      BY <1>1, <1>2, <2>1, AppendsOne DEF Prints, Typed
    <2>3. printed' = printed + 1 /\ printed' \in 0..MaxLines /\ printed \in Nat
      BY <1>1, <1>2 DEF Prints, Typed, HarnessAssumption
    <2>4. TypeOK'
      BY <1>1, <1>2 DEF Prints, TypeOK
    <2>5. Typed'
      BY <1>1, <1>2, <2>2, <2>3 DEF Prints, Typed
    <2>6. Shape'
      BY <1>1, <1>2, <2>2, <2>3 DEF Prints, Shape, TypeOK
    <2>7. QED
      BY <2>4, <2>5, <2>6 DEF Inv
  <1>3. CASE ClosesOutput
    BY <1>1, <1>3 DEF ClosesOutput, Inv, TypeOK, Typed, Shape
  <1>4. ASSUME NEW how \in {"ok", "error"}, Exits(how) PROVE Inv'
    BY <1>1, <1>4 DEF Exits, Inv, TypeOK, Typed, Shape
  <1>5. CASE Passes
    BY <1>1, <1>5 DEF Passes, process, Inv, TypeOK, Typed, Shape, HarnessAssumption
  <1>6. QED
    BY <1>2, <1>3, <1>4, <1>5 DEF Child

\* The generator keeps the invariant.
LEMMA ResumeShape ==
    ASSUME HarnessAssumption, Inv, svc = "driving", Resumes \/ Reads,
           svc' = IF at' \in {"suspended", "final"} THEN "holding" ELSE "driving",
           UNCHANGED <<events, log, runs, outcome>>
    PROVE  Inv'
  <1> USE DEF process
  <1>1. TypeOK /\ Typed /\ Shape
    BY DEF Inv
  <1>2. /\ Event("spawned", "harness") \in EventTypes
        /\ Event("failed", "budget") \in EventTypes /\ Event("cancelled", "cancel") \in EventTypes
        /\ \A k \in Kind : Event(k, "child") \in EventTypes
        /\ \A k \in {"completed", "failed"} : Event(k, "exit") \in EventTypes
    BY DEF Event, EventTypes, Kinds, HarnessKinds, Turns, Verdicts, HarnessAssumption
  <1>3. CASE Spawn
    BY <1>1, <1>2, <1>3 DEF Spawn, Yields, Inv, TypeOK, Typed, Shape, Event
  <1>4. CASE ResumeSpawned
    BY <1>1, <1>4 DEF ResumeSpawned, Inv, TypeOK, Typed, Shape
  <1>5. CASE ResumeReading
    BY <1>1, <1>5 DEF ResumeReading, Inv, TypeOK, Typed, Shape
  <1>6. CASE ResumeExceeded
    <2>1. /\ at = "suspended" /\ cancelled' = TRUE /\ at' = "final"
          /\ event' = Event("failed", "budget") /\ UNCHANGED <<turns, started, now>>
      BY <1>6 DEF ResumeExceeded, Yields
    <2>2. Cleanup
      BY <1>6 DEF ResumeExceeded
    <2>3. TypeOK' /\ Typed'
      BY <1>1, <1>2, <2>1, <2>2, Cleaned DEF TypeOK, Typed
    <2>4. Shape'
      BY <1>1, <2>1, <2>2, Cleaned DEF TypeOK, Typed, Shape, LastEvent, Event
    <2>5. QED
      BY <2>3, <2>4 DEF Inv
  <1>7. CASE ReadLine
    <2>1. /\ Head(pipe) \in Kind /\ pipe' \in Seq(Kind \cup {Garbled})
          /\ Len(pipe) \in Nat /\ Len(pipe) # 0 /\ Len(pipe') = Len(pipe) - 1
      BY <1>1, <1>7, ReadsOne DEF ReadLine, Typed
    <2>2. /\ at = "reading" /\ at' = "suspended" /\ event' = Event(Head(pipe), "child")
          /\ turns' \in {turns, turns + 1}
          /\ UNCHANGED <<started, cancelled, held, child, code, printed, eof, open, now>>
      BY <1>7 DEF ReadLine, Yields
    <2>3. turns' + Len(pipe') <= printed' /\ turns' \in 0..MaxLines
      BY <1>1, <2>1, <2>2 DEF TypeOK, Typed, Shape
    <2>4. TypeOK' /\ Typed'
      BY <1>1, <1>2, <2>1, <2>2, <2>3 DEF TypeOK, Typed
    <2>5. Shape'
      BY <1>1, <2>1, <2>2, <2>3 DEF TypeOK, Typed, Shape, Event
    <2>6. QED
      BY <2>4, <2>5 DEF Inv
  <1>8. CASE ReadEof \/ ReadRaises
    <2>1. /\ at = "reading"
          /\ UNCHANGED <<turns, started, cancelled, held, child, code, pipe, printed, eof,
                         open, now>>
      BY <1>8 DEF ReadEof, ReadRaises
    <2>2. \/ cancelled /\ at' = "final" /\ event' = Event("cancelled", "cancel")
          \/ ~cancelled /\ at' = "waiting" /\ event' = event
      BY <1>8 DEF ReadEof, ReadRaises, AfterLoop, Yields
    <2>3. QED
      BY <1>1, <1>2, <2>1, <2>2 DEF Inv, TypeOK, Typed, Shape, LastEvent, Event
  <1>9. CASE Collect
    <2>1. /\ at = "waiting" /\ child = "dead" /\ at' = "final"
          /\ event' = Event(IF code = "ok" THEN "completed" ELSE "failed", "exit")
          /\ UNCHANGED <<turns, started, cancelled, held, child, code, pipe, printed, eof,
                         open, now>>
      BY <1>9 DEF Collect, Yields
    <2>2. QED
      BY <1>1, <1>2, <2>1 DEF Inv, TypeOK, Typed, Shape, LastEvent, Event
  <1>10. QED
    BY <1>3, <1>4, <1>5, <1>6, <1>7, <1>8, <1>9 DEF Resumes, Reads

\* What a step writes to the ledger is a report or a state.
LEMMA LogGrows ==
    ASSUME Typed, NEW type \in LogTypes
    PROVE  Append(log, type) \in Seq(LogTypes) /\ Append(log, type) # <<>>
  BY AppendsOne DEF Typed

\* The log's types of a session's states.
LEMMA StateTypes ==
    /\ State("running") = "session.state.running"
    /\ State("completed") = "session.state.completed"
    /\ State("failed") = "session.state.failed"
    /\ \A s \in {"running", "completed", "failed"} : State(s) \in LogTypes
  BY DEF State, LogTypes

\* The log's types of the harness's events tell them apart from the states.
LEMMA HarnessedTypes ==
    ASSUME NEW k \in HarnessKinds
    PROVE  /\ Harnessed(k) \in Promised!Reports /\ Harnessed(k) \in LogTypes
           /\ Harnessed(k) # State("running")
           /\ (Harnessed(k) = "harness.spawned" <=> k = "spawned")
           /\ (Harnessed(k) = "harness.completed" <=> k = "completed")
           /\ (Harnessed(k) = "harness.failed" <=> k = "failed")
           /\ (Harnessed(k) = "harness.cancelled" <=> k = "cancelled")
  <1>1. k \in {"message", "tool_call", "completed", "failed", "cancelled", "spawned",
               "tool_result", "usage", "hitl_required"}
    BY DEF HarnessKinds, Turns, Verdicts
  <1>2. QED
    BY <1>1 DEF Harnessed, Promised!Reports, State, LogTypes

\* What run() is about to record is a kind of event.
LEMMA RecordsKind ==
    ASSUME HarnessAssumption, Inv, Record
    PROVE  event.kind \in HarnessKinds
  <1>1. TypeOK /\ Typed /\ Shape
    BY DEF Inv
  <1>2. at = "suspended" \/ at = "final"
    BY <1>1 DEF Record, TypeOK
  <1>3. ASSUME at = "suspended" PROVE event.kind \in Kind \cup {"spawned"}
    BY <1>1, <1>3 DEF Shape, Event
  <1>4. ASSUME at = "final" PROVE event.kind \in Verdicts
    BY <1>1, <1>4 DEF Shape, LastEvent, Event, Verdicts
  <1>5. QED
    BY <1>2, <1>3, <1>4 DEF HarnessKinds, HarnessAssumption

\* The service's own steps: those in which the generator does not run.
LEMMA ServiceShape ==
    ASSUME HarnessAssumption, SessionsAssumption, Inv,
           \/ RunSession \/ DriveRaises \/ ScopeRefused \/ Record \/ Notified
           \/ Settle \/ SettleRaises
    PROVE  Inv'
  <1> USE DEF hvars, generator, process
  <1>1. TypeOK /\ Typed /\ Shape
    BY DEF Inv
  <1>2. \A type \in {"running", "completed", "failed"} :
           Append(log, State(type)) \in Seq(LogTypes) /\ Append(log, State(type)) # <<>>
    BY <1>1, StateTypes, LogGrows
  <1>3. CASE RunSession
    <2>1. NoEvent \in EventTypes /\ <<>> \in Seq(HarnessKinds)
          /\ <<>> \in Seq(Kind \cup {Garbled}) /\ Len(<<>>) = 0
      BY DEF EventTypes, Kinds, NoEvent, Event
    <2>2. TypeOK'
      BY <1>1, <1>3, <2>1
      DEF RunSession, NewGenerator, TypeOK, SessionsAssumption, HarnessAssumption
    <2>3. Typed'
      <3>1. log' \in Seq(LogTypes) /\ log' # <<>>
        BY <1>2, <1>3 DEF RunSession, Appends
      <3>2. /\ cancelled' = FALSE /\ held' = FALSE /\ eof' = FALSE /\ open' = FALSE
            /\ child' = "none" /\ code' = "none" /\ pipe' = <<>> /\ printed' = 0
            /\ event' = NoEvent
        BY <1>3 DEF RunSession, NewGenerator
      <3>3. QED
        <4>1. /\ cancelled' \in BOOLEAN /\ held' \in BOOLEAN /\ eof' \in BOOLEAN
              /\ open' \in BOOLEAN
          BY <3>2
        <4>2. /\ event' \in EventTypes /\ pipe' \in Seq(Kind \cup {Garbled})
              /\ child' \in {"none", "alive", "dead"} /\ code' \in {"none", "ok", "error"}
          BY <2>1, <3>2
        <4>3. printed' \in 0..MaxLines
          BY <3>2 DEF HarnessAssumption
        <4>4. QED
          BY <3>1, <4>1, <4>2, <4>3 DEF Typed
    <2>4. Shape'
      BY <1>3, <2>1 DEF RunSession, NewGenerator, Shape, NoEvent, Event
    <2>5. QED
      BY <2>2, <2>3, <2>4 DEF Inv
  <1>4. CASE DriveRaises
    BY <1>1, <1>4 DEF DriveRaises, SpawnFails, Escapes, Inv, TypeOK, Typed, Shape
  <1>5. CASE ScopeRefused
    BY <1>1, <1>2, <1>5 DEF ScopeRefused, SpawnFails, Appends, Inv, TypeOK, Typed, Shape
  <1>6. CASE Record
    <2>1. event.kind \in HarnessKinds
      BY <1>6, RecordsKind
    <2>2. /\ Append(log, Harnessed(event.kind)) \in Seq(LogTypes)
          /\ Append(log, Harnessed(event.kind)) # <<>>
      BY <1>1, <2>1, HarnessedTypes, LogGrows
    <2>3. Append(events, event.kind) \in Seq(HarnessKinds)
      BY <1>1, <2>1, AppendsOne DEF TypeOK
    <2>4. QED
      BY <1>1, <1>6, <2>2, <2>3 DEF Record, Appends, Inv, TypeOK, Typed, Shape
  <1>7. CASE Notified
    BY <1>1, <1>7 DEF Notified, Inv, TypeOK, Typed, Shape
  <1>8. CASE Settle
    <2>1. log' \in Seq(LogTypes) /\ log' # <<>>
      BY <1>2, <1>8 DEF Settle, Appends
    <2>2. QED
      BY <1>1, <1>8, <2>1 DEF Settle, Inv, TypeOK, Typed, Shape
  <1>9. CASE SettleRaises
    BY <1>1, <1>9 DEF SettleRaises, Escapes, Inv, TypeOK, Typed, Shape
  <1>10. QED
    BY <1>3, <1>4, <1>5, <1>6, <1>7, <1>8, <1>9

\* The steps that end the generator or close its streams.
LEMMA EndShape ==
    ASSUME HarnessAssumption, Inv,
           HostCancels \/ NotifiedLast \/ LoopRaises \/ KernelDies
    PROVE  Inv'
  <1> USE DEF svars, process
  <1>1. TypeOK /\ Typed /\ Shape
    BY DEF Inv
  <1>2. CASE HostCancels
    <2>1. Cleanup /\ UNCHANGED <<at, turns, started, event, now, svars>>
          /\ cancelled' = TRUE /\ svc = "notifying"
      BY <1>2 DEF HostCancels, Cancel
    <2>2. TypeOK' /\ Typed'
      BY <1>1, <2>1, Cleaned DEF TypeOK, Typed
    <2>3. Shape'
      BY <1>1, <2>1, Cleaned DEF TypeOK, Typed, Shape
    <2>4. QED
      BY <2>2, <2>3 DEF Inv
  <1>3. CASE NotifiedLast
    <2>1. Cleanup /\ UNCHANGED <<turns, started, cancelled, event, now>>
          /\ at = "final" /\ at' = "over" /\ svc' = "settling"
          /\ UNCHANGED <<events, log, runs, outcome>>
      BY <1>3 DEF NotifiedLast, Finish
    <2>2. TypeOK' /\ Typed'
      BY <1>1, <2>1, Cleaned DEF TypeOK, Typed
    <2>3. Shape'
      BY <1>1, <2>1, Cleaned DEF TypeOK, Typed, Shape
    <2>4. QED
      BY <2>2, <2>3 DEF Inv
  <1>4. CASE LoopRaises
    <2>1. /\ at \in {"suspended", "final"} /\ at' = "over" /\ svc' = "idle"
          /\ UNCHANGED <<turns, started, cancelled, event, now, events, log, runs>>
      BY <1>4 DEF LoopRaises, Abandon, Escapes
    <2>2. CASE Cleanup
      <3>1. TypeOK' /\ Typed'
        BY <1>1, <2>1, <2>2, Cleaned DEF TypeOK, Typed
      <3>2. Shape'
        BY <1>1, <2>1, <2>2, Cleaned DEF TypeOK, Typed, Shape
      <3>3. QED
        BY <3>1, <3>2 DEF Inv
    <2>3. CASE open' = FALSE /\ held' = FALSE /\ UNCHANGED process
      BY <1>1, <2>1, <2>3 DEF Inv, TypeOK, Typed, Shape
    <2>4. QED
      BY <1>4, <2>2, <2>3 DEF LoopRaises, Abandon
  <1>5. CASE KernelDies
    <2>1. <<>> \in Seq(HarnessKinds)
      OBVIOUS
    <2>2. QED
      BY <1>1, <1>5, <2>1 DEF KernelDies, Inv, TypeOK, Typed, Shape
  <1>6. QED
    BY <1>2, <1>3, <1>4, <1>5

\* No step breaks the invariant.
LEMMA NextShape ==
    ASSUME HarnessAssumption, SessionsAssumption, Inv, [Next]_vars
    PROVE  Inv'
  <1>1. CASE Drive
    BY <1>1, ResumeShape DEF Drive
  <1>2. CASE (Child \/ Passes) /\ UNCHANGED svars
    BY <1>2, ChildShape
  <1>3. CASE UNCHANGED vars
    BY <1>3 DEF vars, hvars, svars, generator, process, Inv, TypeOK, Typed, Shape
  <1>4. QED
    BY <1>1, <1>2, <1>3, ServiceShape, EndShape DEF Next, Service

\* The invariant holds throughout.
LEMMA Invariance == Spec => []Inv
  <1>1. Init => Inv
    BY HarnessAssumption, SessionsAssumption, InitShape
  <1>2. Inv /\ [Next]_vars => Inv'
    BY HarnessAssumption, SessionsAssumption, NextShape
  <1>3. QED
    BY <1>1, <1>2, PTL DEF Spec

\* Generator, process and run() always fit together: whoever drives has a generator,
\* whoever reads has a child.
THEOREM TypeCorrect == Spec => []TypeOK
  <1>1. Inv => TypeOK
    BY DEF Inv
  <1>2. QED
    BY <1>1, Invariance, PTL

\* Once cancelled, no run ends by its child's exit: the loop never waits for the exit
\* of a child that cancel() already took away.
THEOREM CancelHolds == Spec => CancelSticks
  <1>1. Inv => [at = "waiting" /\ at' = "final" => ~cancelled]_vars
    BY DEF Inv, Shape
  <1>2. QED
    BY <1>1, Invariance, PTL DEF CancelSticks

-----------------------------------------------------------------------------
(* What the log, the list of events and the outcome say between the steps. *)

\* A turn is counted when its line is read, reaches the list later, and none is read
\* once the budget is used up.
Charged ==
    /\ Count(Turns, events) <= turns
    /\ svc = "holding" /\ event.kind \in Turns => Count(Turns, events) < turns
    /\ max_turns # 0 => turns <= max_turns
    /\ max_turns # 0 /\ at = "reading" => turns < max_turns

\* The newest entry of the log, at every place where run() may stand.
LogAgrees ==
    /\ svc = "driving" => (at = "new" <=> Last(log) = State("running"))
    /\ svc = "holding" /\ Last(log) = State("running") => event.kind = "spawned"
    /\ svc \in {"notifying", "settling"} =>
          /\ events # <<>> /\ Last(events) = event.kind
          /\ Last(log) = Harnessed(event.kind)

\* How the last run ended.
Ended ==
    /\ svc # "idle" => outcome = "none"
    /\ outcome = "returned" =>
          /\ child # "alive"
          /\ Last(log) = State("completed") <=> event = Event("completed", "exit") /\ code = "ok"
    /\ svc = "idle" => \/ outcome \in {"raised", "died"}
                       \/ Last(log) \in {State("completed"), State("failed"), "session.created"}

\* While the harness holds the process, what was printed is in the list or in the
\* pipe, and the line it yields is on its way from the one to the other.
Delivered ==
    /\ at = "new" => events = <<>> /\ pipe = <<>> /\ printed = 0
    /\ /\ held
       /\ \/ svc = "driving"
          \/ svc = "notifying" /\ at = "suspended"
          \/ svc = "holding" /\ at = "final"
       => Len(events) = 1 + printed - Len(pipe)
    /\ held /\ svc = "holding" /\ at = "suspended" => Len(events) = printed - Len(pipe)
    /\ at = "waiting" \/ (svc = "holding" /\ event = Event("completed", "exit")) =>
          /\ held
          /\ (pipe = <<>> /\ eof) \/ \E i \in 1..Len(pipe) : pipe[i] = Garbled

-----------------------------------------------------------------------------
(* What a step of the generator may be, seen from run(). *)

Spawned ==
    /\ at = "new" /\ at' = "suspended" /\ svc' = "holding"
    /\ event' = Event("spawned", "harness") /\ UNCHANGED <<turns, pipe, printed>>

GoesOn ==
    /\ at = "suspended" /\ at' = "reading" /\ svc' = "driving"
    /\ max_turns # 0 => turns < max_turns
    /\ UNCHANGED <<turns, held, pipe, printed>>

TakesLine ==
    /\ at = "reading" /\ at' = "suspended" /\ svc' = "holding"
    /\ Head(pipe) \in Kind /\ event' = Event(Head(pipe), "child")
    /\ turns' = IF Head(pipe) \in Turns THEN turns + 1 ELSE turns
    /\ Len(pipe') = Len(pipe) - 1 /\ Len(pipe) \in Nat /\ UNCHANGED <<held, printed>>

GivesUp ==
    /\ at \in {"suspended", "reading"} /\ at' = "final" /\ svc' = "holding"
    /\ event' \in {Event("failed", "budget"), Event("cancelled", "cancel")}
    /\ held' => held /\ pipe' = pipe
    /\ UNCHANGED <<turns, printed>>

StopsReading ==
    /\ at = "reading" /\ at' = "waiting" /\ svc' = "driving"
    /\ (pipe = <<>> /\ eof) \/ \E i \in 1..Len(pipe) : pipe[i] = Garbled
    /\ held /\ UNCHANGED <<turns, held, pipe, printed, eof>>

Collects ==
    /\ at = "waiting" /\ at' = "final" /\ svc' = "holding"
    /\ event' \in {Event("completed", "exit"), Event("failed", "exit")}
    /\ UNCHANGED <<turns, held, pipe, printed, eof>>

\* A step of the generator has one of these forms.
LEMMA DriveForms ==
    ASSUME HarnessAssumption, Inv, Drive
    PROVE  /\ svc = "driving" /\ UNCHANGED <<events, log, runs, outcome>>
           /\ \/ Spawned \/ GoesOn \/ TakesLine \/ GivesUp \/ StopsReading \/ Collects
  <1> USE DEF process
  <1>1. /\ svc = "driving" /\ UNCHANGED <<events, log, runs, outcome>>
        /\ svc' = IF at' \in {"suspended", "final"} THEN "holding" ELSE "driving"
        /\ Resumes \/ Reads
    BY DEF Drive
  <1>2. TypeOK /\ Typed /\ Shape
    BY DEF Inv
  <1>3. ASSUME Spawn PROVE Spawned
    BY <1>1, <1>3 DEF Spawn, Yields, Spawned
  <1>4. ASSUME ResumeSpawned PROVE GoesOn
    <2>1. turns = 0 /\ max_turns \in Nat
      BY <1>2, <1>4 DEF ResumeSpawned, Shape, Event, HarnessAssumption
    <2>2. QED
      BY <1>1, <1>4, <2>1 DEF ResumeSpawned, GoesOn
  <1>5. ASSUME ResumeReading PROVE GoesOn
    <2>1. turns \in Nat /\ max_turns \in Nat
      BY <1>2 DEF TypeOK, HarnessAssumption
    <2>2. QED
      BY <1>1, <1>5, <2>1 DEF ResumeReading, Exceeded, GoesOn
  <1>6. ASSUME ResumeExceeded PROVE GivesUp
    <2>1. ~held'
      BY <1>2, <1>6, Cleaned DEF ResumeExceeded
    <2>2. printed' = printed
      BY <1>2, <1>6, Cleaned DEF ResumeExceeded
    <2>3. QED
      BY <1>1, <1>6, <2>1, <2>2 DEF ResumeExceeded, Yields, GivesUp
  <1>7. ASSUME ReadLine PROVE TakesLine
    <2>1. Head(pipe) \in Kind /\ Len(Tail(pipe)) = Len(pipe) - 1 /\ Len(pipe) \in Nat
      BY <1>2, <1>7, ReadsOne DEF ReadLine, Typed
    <2>2. QED
      BY <1>1, <1>7, <2>1 DEF ReadLine, Yields, TakesLine
  <1>8. ASSUME ReadEof \/ ReadRaises PROVE GivesUp \/ StopsReading
    <2>1. CASE cancelled
      BY <1>1, <1>8, <2>1 DEF ReadEof, ReadRaises, AfterLoop, Yields, GivesUp
    <2>2. CASE ~cancelled
      <3>1. held /\ open
        BY <1>2, <1>8, <2>2 DEF ReadEof, ReadRaises, Shape
      <3>2. QED
        BY <1>1, <1>8, <2>2, <3>1 DEF ReadEof, ReadRaises, AfterLoop, Yields, StopsReading
    <2>3. QED
      BY <2>1, <2>2
  <1>9. ASSUME Collect PROVE Collects
    BY <1>1, <1>9 DEF Collect, Yields, Collects
  <1>10. QED
    BY <1>1, <1>3, <1>4, <1>5, <1>6, <1>7, <1>8, <1>9 DEF Resumes, Reads

\* What the child and the clock leave alone.
LEMMA QuietForms ==
    ASSUME HarnessAssumption, Inv, Child \/ Passes, UNCHANGED svars
    PROVE  /\ UNCHANGED <<generator, svars>>
           /\ child' = "alive" => child = "alive"
           /\ child # "alive" => UNCHANGED process
           /\ eof => eof' /\ pipe' = pipe
           /\ Len(pipe) \in Nat /\ Len(pipe') \in Nat
           /\ printed \in Nat /\ printed' \in Nat
           /\ printed' - Len(pipe') = printed - Len(pipe)
           /\ (\E i \in 1..Len(pipe) : pipe[i] = Garbled)
                => \E i \in 1..Len(pipe') : pipe'[i] = Garbled
  <1> USE DEF process
  <1>1. /\ pipe \in Seq(Kind \cup {Garbled}) /\ Len(pipe) \in Nat /\ printed \in Nat
        /\ child \in {"none", "alive", "dead"} /\ eof \in BOOLEAN
    BY DEF Inv, Typed
  <1>2. ASSUME NEW line \in ChildLines, Prints(line)
        PROVE  /\ UNCHANGED <<generator, child>> /\ child = "alive" /\ ~eof
               /\ Len(pipe') = Len(pipe) + 1 /\ printed' = printed + 1
               /\ \A i \in 1..Len(pipe) : pipe'[i] = pipe[i]
    <2>1. line \in Kind \cup {Garbled}
      BY DEF HarnessAssumption
    <2>2. QED
      BY <1>1, <1>2, <2>1, AppendsOne DEF Prints
  <1>3. CASE \E line \in ChildLines : Prints(line)
    BY <1>1, <1>2, <1>3
  <1>4. CASE ClosesOutput \/ \E how \in {"ok", "error"} : Exits(how)
    BY <1>1, <1>4 DEF ClosesOutput, Exits
  <1>5. CASE Passes
    BY <1>1, <1>5 DEF Passes
  <1>6. QED
    BY <1>3, <1>4, <1>5 DEF Child

-----------------------------------------------------------------------------
(* The budget. *)

\* An entry is counted exactly when it is one of S.
LEMMA CountGrows ==
    ASSUME NEW S, NEW T, NEW s \in Seq(T), NEW x \in T
    PROVE  /\ Count(S, s) \in Nat /\ Count(S, Append(s, x)) \in Nat
           /\ x \in S => Count(S, Append(s, x)) = Count(S, s) + 1
           /\ x \notin S => Count(S, Append(s, x)) = Count(S, s)
  <1> DEFINE Here == {i \in 1..Len(s) : s[i] \in S}
             After == {i \in 1..Len(Append(s, x)) : Append(s, x)[i] \in S}
  <1>1. Len(s) \in Nat
    OBVIOUS
  <1>2. /\ Len(s) \in Nat /\ Len(Append(s, x)) = Len(s) + 1
        /\ Append(s, x)[Len(s) + 1] = x
        /\ \A i \in 1..Len(s) : Append(s, x)[i] = s[i]
    OBVIOUS
  <1>3. IsFiniteSet(1..Len(s))
    BY <1>1, FS_Interval
  <1>4. IsFiniteSet(Here)
    BY <1>3, FS_Subset
  <1>5. Len(s) + 1 \notin Here
    BY <1>2
  <1>6. \A i \in 1..(Len(s) + 1) : i \in 1..Len(s) \/ i = Len(s) + 1
    BY <1>2
  <1>7. ASSUME x \in S PROVE After = Here \cup {Len(s) + 1}
    BY <1>2, <1>6, <1>7
  <1>8. ASSUME x \notin S PROVE After = Here
    BY <1>2, <1>6, <1>8
  <1>9. /\ Cardinality(Here \cup {Len(s) + 1}) = Cardinality(Here) + 1
        /\ Cardinality(Here) \in Nat
    BY <1>4, <1>5, FS_AddElement, FS_CardinalityType
  <1>10. Count(S, s) = Cardinality(Here) /\ Count(S, Append(s, x)) = Cardinality(After)
    BY DEF Count
  <1> HIDE DEF Here, After
  <1>11. /\ x \in S => Cardinality(After) = Cardinality(Here) + 1
         /\ x \notin S => Cardinality(After) = Cardinality(Here)
    BY <1>7, <1>8, <1>9
  <1>12. Cardinality(After) \in Nat
    BY <1>9, <1>11
  <1>13. QED
    BY <1>9, <1>10, <1>11, <1>12

\* Nothing is counted in an empty list.
LEMMA CountNone == ASSUME NEW S PROVE Count(S, <<>>) = 0
  <1>1. {i \in 1..Len(<<>>) : <<>>[i] \in S} = {}
    OBVIOUS
  <1>2. QED
    BY <1>1, FS_EmptySet DEF Count

\* A count is a number.
LEMMA CountType == ASSUME NEW S, NEW T, NEW s \in Seq(T) PROVE Count(S, s) \in Nat
  <1>1. Len(s) \in Nat
    OBVIOUS
  <1>2. IsFiniteSet(1..Len(s))
    BY <1>1, FS_Interval
  <1>3. IsFiniteSet({i \in 1..Len(s) : s[i] \in S})
    BY <1>2, FS_Subset
  <1>4. QED
    BY <1>3, FS_CardinalityType DEF Count

\* A session starts with no turn to account for.
LEMMA InitCharged == ASSUME Init, HarnessAssumption PROVE Charged
  BY CountNone DEF Init, HarnessInit, Charged, HarnessAssumption

\* No step counts a turn that was not charged, or reads one over the budget.
LEMMA NextCharged ==
    ASSUME HarnessAssumption, SessionsAssumption, Inv, Charged, [Next]_vars
    PROVE  Charged'
  <1>1. /\ turns \in Nat /\ max_turns \in Nat /\ events \in Seq(HarnessKinds)
        /\ event.kind \in Kinds
    BY DEF Inv, TypeOK, Typed, EventTypes, HarnessAssumption
  <1>2. Count(Turns, events) \in Nat
    BY <1>1, CountType
  <1>3. \A e \in LastEvent \cup {Event("spawned", "harness")} : e.kind \notin Turns
    BY DEF LastEvent, Event, Turns
  <1>4. ASSUME UNCHANGED <<turns, events>>, svc' # "holding",
               at' = "reading" => at = "reading"
        PROVE  Charged'
    BY <1>4 DEF Charged
  <1>5. CASE Drive
    <2>1. svc = "driving" /\ events' = events
      BY <1>5, DriveForms
    <2> HIDE DEF Charged
    <2>2. CASE Spawned
      BY <1>3, <2>1, <2>2 DEF Charged, Spawned
    <2>3. CASE GoesOn
      BY <2>1, <2>3 DEF Charged, GoesOn
    <2>4. CASE TakesLine
      BY <1>1, <1>2, <2>1, <2>4 DEF Charged, TakesLine, Event
    <2>5. CASE GivesUp
      BY <1>3, <2>1, <2>5 DEF Charged, GivesUp, LastEvent
    <2>6. CASE StopsReading
      BY <2>1, <2>6 DEF Charged, StopsReading
    <2>7. CASE Collects
      BY <1>3, <2>1, <2>7 DEF Charged, Collects, LastEvent
    <2>8. QED
      BY <1>5, DriveForms, <2>2, <2>3, <2>4, <2>5, <2>6, <2>7
  <1>6. CASE Record
    <2>1. /\ svc = "holding" /\ svc' = "notifying" /\ events' = Append(events, event.kind)
          /\ UNCHANGED <<at, turns>>
      BY <1>6 DEF Record, hvars, generator
    <2>2. event.kind \in HarnessKinds
      BY RecordsKind, <1>6
    <2>3. Count(Turns, events') <= turns
      BY <1>1, <1>2, <2>1, <2>2, CountGrows DEF Charged
    <2>4. QED
      BY <2>1, <2>3 DEF Charged
  <1>7. CASE RunSession \/ KernelDies
    <2>1. /\ events' = <<>> /\ turns' \in {0, turns} /\ svc' # "holding" /\ at' # "reading"
      BY <1>7 DEF RunSession, NewGenerator, KernelDies
    <2>2. QED
      BY <1>1, <2>1, CountNone DEF Charged
  <1>8. CASE (Child \/ Passes) /\ UNCHANGED svars
    <2>1. UNCHANGED <<generator, svars>>
      BY <1>8, QuietForms
    <2>2. QED
      BY <2>1 DEF generator, svars, Charged
  <1>9. CASE UNCHANGED vars
    BY <1>9 DEF vars, hvars, generator, svars, Charged
  <1>10. CASE \/ DriveRaises \/ ScopeRefused \/ Notified \/ NotifiedLast
              \/ LoopRaises \/ Settle \/ SettleRaises \/ HostCancels
    <2> USE DEF hvars, generator, svars
    <2>1. /\ UNCHANGED <<turns, events>> /\ svc' # "holding"
          /\ at' = "reading" => at = "reading"
      BY <1>10 DEF DriveRaises, SpawnFails, Escapes, ScopeRefused, Notified, NotifiedLast,
         Finish, LoopRaises, Abandon, Settle, SettleRaises, HostCancels, Cancel
    <2>2. QED
      BY <1>4, <2>1
  <1>11. QED
    BY <1>5, <1>6, <1>7, <1>8, <1>9, <1>10 DEF Next, Service

\* The turns of a run that reach the ledger never exceed the budget, however fast the
\* child prints.
THEOREM TurnsAreCapped == Spec => []TurnsWithinBudget
  <1>1. Init => Charged
    BY HarnessAssumption, InitCharged
  <1>2. Inv /\ Charged /\ [Next]_vars => Charged'
    BY HarnessAssumption, SessionsAssumption, NextCharged
  <1>3. Inv /\ Charged => TurnsWithinBudget
    <2>1. ASSUME Inv, Charged, max_turns # 0 PROVE Count(Turns, events) <= max_turns
      <3>1. /\ Count(Turns, events) \in Nat /\ turns \in Nat /\ max_turns \in Nat
        BY <2>1, HarnessAssumption, CountType DEF Inv, TypeOK, HarnessAssumption
      <3>2. QED
        BY <2>1, <3>1 DEF Charged
    <2>2. QED
      BY <2>1 DEF TurnsWithinBudget
  <1>4. QED
    BY <1>1, <1>2, <1>3, Invariance, PTL DEF Spec

-----------------------------------------------------------------------------
(* The log of the session. *)

\* The newest entry agrees with run() at first.
LEMMA InitAgrees == ASSUME Init PROVE LogAgrees
  BY DEF Init, LogAgrees

\* What an append makes the newest entry.
LEMMA NewestEntry ==
    ASSUME Typed, NEW type \in LogTypes, Appends(type)
    PROVE  Last(log') = type /\ log' # <<>>
  BY AppendsOne DEF Typed, Appends

\* Every step leaves the newest entry in agreement with where run() stands.
LEMMA NextAgrees ==
    ASSUME HarnessAssumption, SessionsAssumption, Inv, LogAgrees, [Next]_vars
    PROVE  LogAgrees'
  <1> USE DEF hvars, svars, generator
  <1>1. TypeOK /\ Typed /\ Shape
    BY DEF Inv
  <1>2. CASE Drive
    <2>1. svc = "driving" /\ UNCHANGED <<events, log>>
      BY <1>2, DriveForms
    <2>2. ASSUME at # "new", svc' \in {"driving", "holding"}, at' # "new" PROVE LogAgrees'
      BY <2>1, <2>2 DEF LogAgrees
    <2>3. CASE Spawned
      BY <2>1, <2>3 DEF LogAgrees, Spawned, Event
    <2>4. CASE GoesOn \/ TakesLine \/ GivesUp \/ StopsReading \/ Collects
      BY <2>2, <2>4 DEF GoesOn, TakesLine, GivesUp, StopsReading, Collects
    <2>5. QED
      BY <1>2, DriveForms, <2>3, <2>4
  <1>3. CASE RunSession
    <2>1. Last(log') = State("running")
      BY <1>1, <1>3, NewestEntry, StateTypes DEF RunSession
    <2>2. QED
      BY <1>3, <2>1 DEF RunSession, NewGenerator, LogAgrees
  <1>4. CASE Record
    <2>1. event.kind \in HarnessKinds
      BY <1>4, RecordsKind
    <2>2. /\ svc' = "notifying" /\ event' = event /\ Appends(Harnessed(event.kind))
          /\ events' = Append(events, event.kind)
      BY <1>4 DEF Record
    <2>3. Last(log') = Harnessed(event.kind)
      BY <1>1, <2>1, <2>2, NewestEntry, HarnessedTypes
    <2>4. Last(events') = event.kind /\ events' # <<>>
      BY <1>1, <2>1, <2>2, AppendsOne DEF TypeOK
    <2>5. QED
      BY <2>2, <2>3, <2>4 DEF LogAgrees
  <1>5. CASE Notified
    <2>1. /\ svc = "notifying" /\ svc' = "driving" /\ at = "suspended"
          /\ UNCHANGED <<at, event, log, events>>
      BY <1>5 DEF Notified
    <2>2. event.kind \in HarnessKinds
      BY <1>1, <2>1 DEF Shape, Event, HarnessKinds, HarnessAssumption
    <2>3. Last(log) # State("running")
      BY <2>1, <2>2, HarnessedTypes DEF LogAgrees
    <2>4. QED
      BY <2>1, <2>3 DEF LogAgrees
  <1>6. CASE HostCancels
    BY <1>6 DEF HostCancels, Cancel, LogAgrees
  <1>7. CASE NotifiedLast
    BY <1>7 DEF NotifiedLast, Finish, LogAgrees
  <1>8. CASE DriveRaises \/ ScopeRefused \/ LoopRaises \/ Settle \/ SettleRaises \/ KernelDies
    <2>1. svc' = "idle"
      BY <1>8 DEF DriveRaises, ScopeRefused, LoopRaises, Settle, SettleRaises, KernelDies,
         Escapes
    <2>2. QED
      BY <2>1 DEF LogAgrees
  <1>9. CASE (Child \/ Passes) /\ UNCHANGED svars
    <2>1. UNCHANGED <<generator, svars>>
      BY <1>9, QuietForms
    <2>2. QED
      BY <2>1 DEF LogAgrees
  <1>10. CASE UNCHANGED vars
    BY <1>10 DEF vars, LogAgrees
  <1>11. QED
    BY <1>2, <1>3, <1>4, <1>5, <1>6, <1>7, <1>8, <1>9, <1>10 DEF Next, Service

\* The newest entry of the log always agrees with where run() stands.
LEMMA Agreement == Spec => []LogAgrees
  <1>1. Init => LogAgrees
    BY InitAgrees
  <1>2. Inv /\ LogAgrees /\ [Next]_vars => LogAgrees'
    BY HarnessAssumption, SessionsAssumption, NextAgrees
  <1>3. QED
    BY <1>1, <1>2, Invariance, PTL DEF Spec

\* The last report of a run that is to be settled is its verdict.
LEMMA VerdictLast ==
    ASSUME Inv, LogAgrees, svc = "settling"
    PROVE  /\ Last(events) = event.kind /\ event.kind \in Verdicts
           /\ Last(log) = Harnessed(event.kind)
           /\ event.kind = "completed" <=> event = Event("completed", "exit") /\ code = "ok"
           /\ child # "alive"
  <1>1. Shape
    BY DEF Inv
  <1>2. event \in LastEvent
    BY <1>1 DEF Shape
  <1>3. /\ event.kind \in Verdicts
        /\ event.kind = "completed" <=> event = Event("completed", "exit")
    BY <1>2 DEF LastEvent, Event, Verdicts
  <1>4. QED
    BY <1>1, <1>3 DEF LogAgrees, Shape

\* SessionLog reads the same newest entry.
LEMMA LogNewest == Promised!Newest = Last(log)
  BY DEF Promised!Newest, Last

\* Every step is a step of SessionLog, or leaves its variables alone.
LEMMA NextKeepsLog ==
    ASSUME HarnessAssumption, SessionsAssumption, Inv, LogAgrees, [Next]_vars
    PROVE  [Promised!SLNext]_Promised!slvars
  <1> USE DEF svars, Appends, Promised!Says
  <1>1. TypeOK /\ Typed /\ Shape /\ log # <<>>
    BY DEF Inv, Typed
  <1>2. ASSUME log' = log, (svc' # "idle") <=> (svc # "idle")
        PROVE  UNCHANGED Promised!slvars
    <2>1. (svc' # "idle") = (svc # "idle")
      BY <1>2
    <2>2. QED
      BY <1>2, <2>1 DEF Promised!slvars
  <1>3. CASE RunSession
    <2>1. Promised!Opens
      BY <1>1, <1>3, StateTypes DEF RunSession, Promised!Opens
    <2>2. QED
      BY <2>1 DEF Promised!SLNext
  <1>4. CASE Record
    <2>1. event.kind \in HarnessKinds
      BY <1>4, RecordsKind
    <2>2. Harnessed(event.kind) \in Promised!Reports
      BY <2>1, HarnessedTypes
    <2>3. Last(log) = "session.state.running" => Harnessed(event.kind) = "harness.spawned"
      BY <1>4, <2>1, HarnessedTypes, StateTypes DEF Record, LogAgrees
    <2>4. svc # "idle" /\ svc' # "idle" /\ log' = Append(log, Harnessed(event.kind))
      BY <1>4 DEF Record
    <2>5. Promised!Adds(Harnessed(event.kind))
      BY <2>3, <2>4, LogNewest DEF Promised!Adds
    <2>6. QED
      BY <2>2, <2>5 DEF Promised!SLNext
  <1>5. CASE Settle
    <2>1. /\ svc # "idle" /\ ~(svc' # "idle")
          /\ \/ event.kind = "completed" /\ log' = Append(log, State("completed"))
             \/ /\ event.kind \in {"failed", "cancelled"}
                /\ log' = Append(log, State("failed"))
      BY <1>5, VerdictLast DEF Settle, terminal_kind
    <2>2. /\ Last(log) = Harnessed(event.kind) /\ event.kind \in HarnessKinds
      BY <1>5, VerdictLast DEF Settle, HarnessKinds
    <2>3. Promised!Closes
      BY <2>1, <2>2, LogNewest, HarnessedTypes, StateTypes DEF Promised!Closes
    <2>4. QED
      BY <2>3 DEF Promised!SLNext
  <1>6. CASE ScopeRefused
    <2>1. Last(log) = "session.state.running"
      BY <1>6, StateTypes DEF ScopeRefused, SpawnFails, LogAgrees
    <2>2. Promised!Closes
      BY <1>6, <2>1, LogNewest, StateTypes DEF ScopeRefused, Promised!Closes
    <2>3. QED
      BY <2>2 DEF Promised!SLNext
  <1>7. CASE DriveRaises \/ LoopRaises \/ SettleRaises \/ KernelDies
    <2>1. svc # "idle" /\ svc' = "idle" /\ log' = log
      BY <1>7 DEF DriveRaises, LoopRaises, SettleRaises, KernelDies, Escapes
    <2>2. Promised!CutShort
      BY <2>1 DEF Promised!CutShort
    <2>3. QED
      BY <2>2 DEF Promised!SLNext
  <1>8. CASE Drive
    <2>1. svc = "driving" /\ log' = log /\ svc' # "idle"
      BY <1>8 DEF Drive
    <2>2. QED
      BY <1>2, <2>1
  <1>9. CASE Notified \/ NotifiedLast \/ HostCancels
    <2>1. log' = log /\ svc # "idle" /\ svc' # "idle"
      BY <1>9 DEF Notified, NotifiedLast, HostCancels
    <2>2. QED
      BY <1>2, <2>1
  <1>10. CASE ((Child \/ Passes) /\ UNCHANGED svars) \/ UNCHANGED vars
    <2>1. log' = log /\ svc' = svc
      BY <1>10 DEF vars
    <2>2. QED
      BY <1>2, <2>1
  <1>11. QED
    BY <1>3, <1>4, <1>5, <1>6, <1>7, <1>8, <1>9, <1>10 DEF Next, Service

\* The service keeps the promise of SessionLog: whatever child, callbacks, exceptions
\* and crashes do, the log of a session is one a reader can make sense of.
THEOREM LogIsKept == Spec => ImplementsLog
  <1>1. Init => Promised!SLInit
    <2>1. ASSUME Init PROVE log \in {<<>>, <<"session.created">>} /\ (svc # "idle") = FALSE
      BY <2>1 DEF Init
    <2>2. QED
      BY <2>1 DEF Promised!SLInit
  <1>2. Inv /\ LogAgrees /\ [Next]_vars => [Promised!SLNext]_Promised!slvars
    BY HarnessAssumption, SessionsAssumption, NextKeepsLog
  <1>3. QED
    BY <1>1, <1>2, Invariance, Agreement, PTL DEF Spec, ImplementsLog, Promised!SLSpec

-----------------------------------------------------------------------------
(* The end of a run. *)

\* No run has ended at first.
LEMMA InitEnded == ASSUME Init PROVE Ended
  BY DEF Init, HarnessInit, Ended, Last

\* Every step that ends a run says how.
LEMMA NextEnded ==
    ASSUME HarnessAssumption, SessionsAssumption, Inv, LogAgrees, Ended, [Next]_vars
    PROVE  Ended'
  <1> USE DEF hvars, svars, generator, process
  <1>1. TypeOK /\ Typed /\ Shape
    BY DEF Inv
  <1>2. ASSUME svc # "idle", svc' # "idle", outcome' = outcome PROVE Ended'
    BY <1>2 DEF Ended
  <1>3. CASE Drive \/ Record \/ Notified \/ NotifiedLast \/ HostCancels
    BY <1>2, <1>3 DEF Drive, Record, Notified, NotifiedLast, HostCancels
  <1>4. CASE RunSession
    BY <1>4 DEF RunSession, Ended
  <1>5. CASE DriveRaises \/ LoopRaises \/ SettleRaises \/ KernelDies
    <2>1. svc' = "idle" /\ outcome' \in {"raised", "died"}
      BY <1>5 DEF DriveRaises, LoopRaises, SettleRaises, KernelDies, Escapes
    <2>2. QED
      BY <2>1 DEF Ended
  <1>6. CASE ScopeRefused
    <2>1. Last(log') = State("failed")
      BY <1>1, <1>6, NewestEntry, StateTypes DEF ScopeRefused
    <2>2. QED
      BY <1>6, <2>1 DEF ScopeRefused, Ended
  <1>7. CASE Settle
    <2>1. /\ svc = "settling" /\ svc' = "idle" /\ outcome' = "returned"
          /\ UNCHANGED <<event, code, child>>
      BY <1>7 DEF Settle
    <2>2. \/ event.kind = "completed" /\ Appends(State("completed"))
          \/ event.kind # "completed" /\ Appends(State("failed"))
      BY <1>7, VerdictLast DEF Settle, terminal_kind
    <2>3. \/ event.kind = "completed" /\ Last(log') = State("completed")
          \/ event.kind # "completed" /\ Last(log') = State("failed")
      BY <1>1, <2>2, NewestEntry, StateTypes
    <2>4. State("completed") # State("failed")
      BY StateTypes
    <2>5. QED
      BY <2>1, <2>3, <2>4, VerdictLast DEF Ended
  <1>8. CASE (Child \/ Passes) /\ UNCHANGED svars
    BY <1>8, QuietForms DEF Ended
  <1>9. CASE UNCHANGED vars
    BY <1>9 DEF vars, Ended
  <1>10. QED
    BY <1>3, <1>4, <1>5, <1>6, <1>7, <1>8, <1>9 DEF Next, Service

\* The state a finished run leaves in the ledger is the truth: "completed" exactly when
\* the child ended by itself with exit code 0, and "running" only if an exception or a
\* crash cut the run short.
THEOREM StatesAreTrue == Spec => []StateTruthful
  <1>1. Init => Ended
    BY InitEnded
  <1>2. Inv /\ LogAgrees /\ Ended /\ [Next]_vars => Ended'
    BY HarnessAssumption, SessionsAssumption, NextEnded
  <1>3. Ended => StateTruthful
    BY DEF Ended, StateTruthful
  <1>4. QED
    BY <1>1, <1>2, <1>3, Invariance, Agreement, PTL DEF Spec

\* No step leaves run() with a child that lives, but the two exceptions.
LEMMA NextReaped ==
    ASSUME HarnessAssumption, SessionsAssumption, Inv, ChildReaped, [Next]_vars
    PROVE  ChildReaped'
  <1> USE DEF hvars, svars, generator, process
  <1>1. TypeOK /\ Typed /\ Shape
    BY DEF Inv
  <1>2. ASSUME svc' # "idle" PROVE ChildReaped'
    BY <1>2 DEF ChildReaped
  <1>3. CASE Drive \/ Record \/ Notified \/ NotifiedLast \/ HostCancels \/ RunSession
    BY <1>2, <1>3 DEF Drive, Record, Notified, NotifiedLast, HostCancels, RunSession
  <1>4. CASE DriveRaises \/ ScopeRefused
    BY <1>1, <1>4 DEF DriveRaises, ScopeRefused, SpawnFails, Shape, ChildReaped
  <1>5. CASE LoopRaises
    <2>1. outcome' = "raised" /\ event' = event /\ (held \/ child = "dead")
      BY <1>1, <1>5 DEF LoopRaises, Abandon, Escapes, Shape
    <2>2. event.by # "harness" => child' = "dead"
      BY <1>1, <1>5, <2>1, Cleaned DEF LoopRaises, Abandon
    <2>3. QED
      BY <2>1, <2>2 DEF ChildReaped
  <1>6. CASE Settle \/ SettleRaises
    BY <1>1, <1>6 DEF Settle, SettleRaises, Escapes, Shape, ChildReaped
  <1>7. CASE KernelDies
    BY <1>7 DEF KernelDies, ChildReaped
  <1>8. CASE (Child \/ Passes) /\ UNCHANGED svars
    BY <1>8, QuietForms DEF ChildReaped
  <1>9. CASE UNCHANGED vars
    BY <1>9 DEF vars, ChildReaped
  <1>10. QED
    BY <1>3, <1>4, <1>5, <1>6, <1>7, <1>8, <1>9 DEF Next, Service

\* A run that is over leaves no child behind, unless the kernel died or the run was cut
\* short at its very first event.
THEOREM ChildrenAreReaped == Spec => []ChildReaped
  <1>1. Init => ChildReaped
    BY DEF Init, HarnessInit, ChildReaped
  <1>2. Inv /\ ChildReaped /\ [Next]_vars => ChildReaped'
    BY HarnessAssumption, SessionsAssumption, NextReaped
  <1>3. QED
    BY <1>1, <1>2, Invariance, PTL DEF Spec

-----------------------------------------------------------------------------
(* The lines of the child. *)

\* There is no line at first.
LEMMA InitDelivered == ASSUME Init PROVE Delivered
  BY DEF Init, HarnessInit, Delivered, NoEvent, Event

\* No step loses a line of a process the harness holds.
LEMMA NextDelivered ==
    ASSUME HarnessAssumption, SessionsAssumption, Inv, Delivered, [Next]_vars
    PROVE  Delivered'
  <1> USE DEF hvars, svars, generator, process
  <1>1. TypeOK /\ Typed /\ Shape
    BY DEF Inv
  <1>2. Len(pipe) \in Nat /\ Len(events) \in Nat /\ printed \in Nat /\ Len(<<>>) = 0
    BY <1>1 DEF TypeOK, Typed
  <1>3. /\ \A k \in Kind : Event(k, "child") # Event("completed", "exit")
        /\ Event("spawned", "harness") # Event("completed", "exit")
        /\ Event("failed", "budget") # Event("completed", "exit")
        /\ Event("cancelled", "cancel") # Event("completed", "exit")
    BY DEF Event
  <1>4. ASSUME svc' \in {"idle", "settling"}, at' \notin {"new", "waiting"} PROVE Delivered'
    BY <1>4 DEF Delivered
  <1>5. CASE Drive
    <2>1. svc = "driving" /\ events' = events
      BY <1>5, DriveForms
    <2>2. CASE Spawned
      BY <1>2, <1>3, <2>1, <2>2 DEF Delivered, Spawned
    <2>3. CASE GoesOn
      BY <2>1, <2>3 DEF Delivered, GoesOn
    <2>4. CASE TakesLine
      BY <1>2, <1>3, <2>1, <2>4 DEF Delivered, TakesLine
    <2>5. CASE GivesUp
      BY <1>3, <2>1, <2>5 DEF Delivered, GivesUp
    <2>6. CASE StopsReading
      BY <2>1, <2>6 DEF Delivered, StopsReading
    <2>7. CASE Collects
      BY <2>1, <2>7 DEF Delivered, Collects
    <2>8. QED
      BY <1>5, DriveForms, <2>2, <2>3, <2>4, <2>5, <2>6, <2>7
  <1>6. CASE RunSession
    BY <1>6 DEF RunSession, NewGenerator, Delivered
  <1>7. CASE Record
    <2>1. event.kind \in HarnessKinds
      BY <1>7, RecordsKind
    <2>2. Len(events') = Len(events) + 1
      BY <1>1, <1>7, <2>1, AppendsOne DEF Record, TypeOK
    <2>3. /\ svc = "holding" /\ svc' = "notifying"
          /\ UNCHANGED <<at, held, pipe, printed, eof>> /\ at \in {"suspended", "final"}
      BY <1>1, <1>7 DEF Record, TypeOK
    <2>4. QED
      BY <1>2, <2>2, <2>3 DEF Delivered
  <1>8. CASE Notified
    BY <1>8 DEF Notified, Delivered
  <1>9. CASE HostCancels
    <2>1. /\ ~held' /\ svc = "notifying" /\ svc' = "notifying" /\ at' = at
      BY <1>1, <1>9, Cleaned DEF HostCancels, Cancel
    <2>2. at \in {"suspended", "final"}
      BY <1>1, <2>1 DEF TypeOK
    <2>3. QED
      BY <2>1, <2>2 DEF Delivered
  <1>10. CASE \/ DriveRaises \/ ScopeRefused \/ LoopRaises \/ Settle \/ SettleRaises
              \/ KernelDies \/ NotifiedLast
    <2>1. svc' \in {"idle", "settling"} /\ at' \in {at, "over"}
      BY <1>10 DEF DriveRaises, ScopeRefused, LoopRaises, Settle, SettleRaises, KernelDies,
         NotifiedLast, Escapes, SpawnFails, Abandon, Finish
    <2>2. at' = "over"
      BY <1>1, <1>10 DEF DriveRaises, ScopeRefused, LoopRaises, Settle, SettleRaises,
         KernelDies, NotifiedLast, SpawnFails, Abandon, Finish, TypeOK
    <2>3. QED
      BY <1>4, <2>1, <2>2
  <1>11. CASE (Child \/ Passes) /\ UNCHANGED svars
    <2>1. UNCHANGED <<at, held, event, svc, events>>
      BY <1>11, QuietForms
    <2>2. at = "new" => UNCHANGED <<pipe, printed>>
      BY <1>1, <1>11, QuietForms DEF Shape
    <2>3. 1 + printed' - Len(pipe') = 1 + printed - Len(pipe)
      BY <1>11, QuietForms
    <2>4. printed' - Len(pipe') = printed - Len(pipe)
      BY <1>11, QuietForms
    <2>5. (pipe = <<>> /\ eof) \/ (\E i \in 1..Len(pipe) : pipe[i] = Garbled)
            => (pipe' = <<>> /\ eof') \/ (\E i \in 1..Len(pipe') : pipe'[i] = Garbled)
      BY <1>11, QuietForms
    <2>6. QED
      BY <2>1, <2>2, <2>3, <2>4, <2>5 DEF Delivered
  <1>12. CASE UNCHANGED vars
    BY <1>12 DEF vars, Delivered
  <1>13. QED
    BY <1>5, <1>6, <1>7, <1>8, <1>9, <1>10, <1>11, <1>12 DEF Next, Service

\* A run reported completed has yielded every line the child printed, in spite of
\* cancel, budget and pipe; only a line it could not decode or parse may be left, with
\* what the child printed around it.
THEOREM LinesArrive == Spec => []LinesAccounted
  <1>1. Init => Delivered
    BY InitDelivered
  <1>2. Inv /\ Delivered /\ [Next]_vars => Delivered'
    BY HarnessAssumption, SessionsAssumption, NextDelivered
  <1>3. Inv /\ Delivered => LinesAccounted
    <2>1. ASSUME Inv, Delivered, svc = "holding", event = Event("completed", "exit")
          PROVE  /\ Len(events) = 1 + printed - Len(pipe)
                 /\ pipe # <<>> => \E i \in 1..Len(pipe) : pipe[i] = Garbled
      <3>1. at = "suspended" \/ at = "final"
        BY <2>1 DEF Inv, TypeOK
      <3>2. at # "suspended"
        BY <2>1 DEF Inv, Shape, Event
      <3>3. QED
        BY <2>1, <3>1, <3>2 DEF Delivered
    <2>2. QED
      BY <2>1 DEF LinesAccounted
  <1>4. QED
    BY <1>1, <1>2, <1>3, Invariance, PTL DEF Spec

================================================================================
