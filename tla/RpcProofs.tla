------------------------------- MODULE RpcProofs -------------------------------
(***************************************************************************)
(* Proofs about the JSON-RPC loop, for any calls, tenants, adapters and    *)
(* pipes, and whoever dies when.                                           *)
(***************************************************************************)
EXTENDS RpcProperties, FiniteSetTheorems, FunctionTheorems, SequenceTheorems, TLAPS

IsSeq(s) == \E S : s \in Seq(S)

\* What Append does to a sequence of whatever.
LEMMA Appending ==
    ASSUME NEW s, IsSeq(s), NEW e
    PROVE  /\ IsSeq(Append(s, e))
           /\ Len(s) \in Nat /\ Len(Append(s, e)) = Len(s) + 1
           /\ \A i \in 1..Len(s) : Append(s, e)[i] = s[i]
           /\ Append(s, e)[Len(s) + 1] = e
  <1>1. PICK S : s \in Seq(S)
    BY DEF IsSeq
  <1>2. s \in Seq(S \cup {e}) /\ e \in S \cup {e}
    BY <1>1
  <1>3. Append(s, e) \in Seq(S \cup {e})
    BY <1>2, AppendProperties
  <1>4. IsSeq(Append(s, e))
    BY <1>3 DEF IsSeq
  <1>5. QED
    BY <1>2, <1>4, AppendProperties

\* What Head and Tail do to one.
LEMMA Taking ==
    ASSUME NEW s, IsSeq(s), s # <<>>
    PROVE  /\ IsSeq(Tail(s)) /\ Len(s) \in Nat /\ 1 \in 1..Len(s)
           /\ Head(s) = s[1] /\ Len(Tail(s)) = Len(s) - 1
           /\ \A i \in 1..Len(Tail(s)) : i + 1 \in 1..Len(s) /\ Tail(s)[i] = s[i + 1]
  <1>1. PICK S : s \in Seq(S)
    BY DEF IsSeq
  <1>2. Tail(s) \in Seq(S) /\ Len(Tail(s)) = Len(s) - 1 /\ Len(s) \in Nat /\ Len(s) > 0
    BY <1>1, HeadTailProperties, EmptySeq, LenProperties
  <1>3. IsSeq(Tail(s))
    BY <1>2 DEF IsSeq
  <1>4. \A i \in 1..Len(Tail(s)) : Tail(s)[i] = s[i + 1]
    BY <1>1, HeadTailProperties
  <1>5. QED
    BY <1>2, <1>3, <1>4

-----------------------------------------------------------------------------
(* Line numbers. *)

\* n is the number of a line that was taken already, or of none.
Past(n) == n \in 0..sent /\ \A i \in 1..Len(stdin) : n < stdin[i].n
\* The same, after the step.
PastThen(n) == n \in 0..sent' /\ \A i \in 1..Len(stdin') : n < stdin'[i].n

Sequential == IsSeq(stdin) /\ IsSeq(stdout) /\ IsSeq(rows) /\ IsSeq(events)

\* Lines wait in the order they were written.
Queued ==
    /\ sent \in Nat
    /\ \A i \in 1..Len(stdin) : stdin[i].n \in 1..sent
    /\ \A i, j \in 1..Len(stdin) : i < j => stdin[i].n < stdin[j].n

\* Everything that was answered, streamed or recorded is about lines taken already.
AllPast ==
    /\ Past(line.n) /\ Past(seen.n)
    /\ \A i \in 1..Len(stdout) : Past(stdout[i].line.n)
    /\ \A k \in 1..Len(rows) : Past(rows[k].about) /\ Past(rows[k].line)

Numbered == Sequential /\ Queued /\ AllPast

\* What a step may do to the lines that wait.
QueueStep ==
    \/ stdin' = stdin /\ sent' = sent
    \/ stdin # <<>> /\ stdin' = Tail(stdin) /\ sent' = sent
    \/ \E l : stdin' = Append(stdin, l) /\ l.n = sent + 1 /\ sent' = sent + 1
    \/ stdin' = <<>> /\ sent' = sent

\* Every step is one of those.
LEMMA Queueing == ASSUME [RpcNext]_rvars PROVE QueueStep
  <1>1. ASSUME NEW m, Takes(m) PROVE QueueStep
    BY <1>1 DEF Takes, QueueStep
  <1>2. CASE Methods
    BY <1>1, <1>2 DEF Methods, Refuse, version, session_start, session_run, event_tail,
                      usage_summary, hitl_list, hitl_create, hitl_decide
  <1>3. CASE Serves /\ ~Methods
    BY <1>3 DEF Serves, Report, Notify, Settle, ScopeRefused, RunRaises, Silent, Answer,
                AnswerRaises, EndOfInput, Ends, Keeps, Frees, pipes, QueueStep
  <1>4. ASSUME NEW asks \in Calls, Send(asks) PROVE QueueStep
    BY <1>4 DEF Send, QueueStep
  <1>5. CASE Receive \/ ShellLeaves \/ KernelDies \/ Restart \/ \E p \in Lines : Lapse(p)
    BY <1>5 DEF Receive, ShellLeaves, KernelDies, Ends, Restart, Lapse, pipes, QueueStep
  <1>6. CASE UNCHANGED rvars
    BY <1>6 DEF rvars, pipes, QueueStep
  <1>7. QED
    BY <1>2, <1>3, <1>4, <1>5, <1>6 DEF RpcNext

\* The lines that wait stay in order, and what is past stays past.
LEMMA QueuedStep ==
    ASSUME IsSeq(stdin), Queued, QueueStep
    PROVE  IsSeq(stdin') /\ Queued' /\ \A n : Past(n) => PastThen(n)
  <1>1. CASE stdin' = stdin /\ sent' = sent
    BY <1>1 DEF Queued, Past, PastThen
  <1>2. CASE stdin # <<>> /\ stdin' = Tail(stdin) /\ sent' = sent
    <2>1. /\ IsSeq(stdin')
          /\ Len(stdin) \in Nat /\ Len(stdin') = Len(stdin) - 1
          /\ \A i \in 1..Len(stdin') : i + 1 \in 1..Len(stdin) /\ stdin'[i] = stdin[i + 1]
      BY <1>2, Taking
    <2>2. QED
      BY <1>2, <2>1 DEF Queued, Past, PastThen
  <1>3. CASE \E l : stdin' = Append(stdin, l) /\ l.n = sent + 1 /\ sent' = sent + 1
    <2>1. PICK l : stdin' = Append(stdin, l) /\ l.n = sent + 1 /\ sent' = sent + 1
      BY <1>3
    <2>2. /\ IsSeq(stdin')
          /\ Len(stdin) \in Nat /\ Len(stdin') = Len(stdin) + 1
          /\ \A i \in 1..Len(stdin) : stdin'[i] = stdin[i]
          /\ stdin'[Len(stdin) + 1] = l
      BY <2>1, Appending
    <2>3. \A i \in 1..Len(stdin') : i \in 1..Len(stdin) \/ i = Len(stdin) + 1
      BY <2>2
    <2>4. Queued'
      BY <2>1, <2>2, <2>3 DEF Queued
    <2>5. \A n : Past(n) => PastThen(n)
      BY <2>1, <2>2, <2>3 DEF Past, PastThen, Queued
    <2>6. QED
      BY <2>2, <2>4, <2>5
  <1>4. CASE stdin' = <<>> /\ sent' = sent
    <2>1. IsSeq(stdin') /\ Len(stdin') = 0
      BY <1>4, EmptySeq DEF IsSeq
    <2>2. QED
      BY <1>4, <2>1 DEF Queued, Past, PastThen
  <1>5. QED
    BY <1>1, <1>2, <1>3, <1>4 DEF QueueStep

-----------------------------------------------------------------------------
(* The shape of a step. *)

\* A run is one of a session that exists, for its own tenant.
RunsOwn ==
    at \in Running =>
        /\ line.call.method = "seasi.session.run"
        /\ \E k \in 1..Len(rows) : /\ rows[k].about = line.call.session
                                   /\ rows[k].tenant = Canonical[line.call.tenant]

\* A row is of the line in service, about that line, which was just taken, or about
\* something on record, for the tenant it is on record for.
OfLine(r) ==
    /\ r.line = line'.n
    /\ \/ r.about = line'.n /\ r.tenant \in Tenant /\ stdin # <<>> /\ line' = Head(stdin)
       \/ \E k \in 1..Len(rows) : rows[k].about = r.about /\ rows[k].tenant = r.tenant
RowsStep == rows' = rows \/ \E r : rows' = Append(rows, r) /\ OfLine(r)

LineStep ==
    \/ line' = line
    \/ line' = NoLine /\ at' \in {"reading", "down"}
    \/ stdin # <<>> /\ line' = Head(stdin) /\ stdin' = Tail(stdin) /\ sent' = sent

WireStep ==
    \/ stdout' = stdout /\ seen' = seen
    \/ stdout # <<>> /\ stdout' = Tail(stdout) /\ seen'.n = Head(stdout).line.n
    \/ seen' = seen /\ \E w : stdout' = Append(stdout, w) /\ w.line = line
    \/ seen' = seen /\ stdout' = <<>>

\* What is chosen as the tenant of a pause is a tenant it is on record for.
LEMMA TenantOfPause ==
    ASSUME NEW p, IsPause(p)
    PROVE  \E k \in 1..Len(rows) : rows[k].about = p /\ rows[k].tenant = TenantOf(p)
  BY DEF IsPause, TenantOf, Abouts, EventsOfType

\* The methods take a line, append at most one row and go on to answer or to run.
LEMMA MethodRows == ASSUME Methods PROVE RowsStep
  <1>1. CASE hitl_decide
    <2>1. CASE rows' = rows
      BY <2>1 DEF RowsStep
    <2>2. CASE rows' # rows
      <3> DEFINE p == Asked.pause
      <3>1. IsPause(p)
        BY <1>1, <2>2 DEF hitl_decide, Answers, StoreRaises
      <3>2. \E type, data : rows' = Append(rows, Row(type, TenantOf(p), p, data))
        BY <1>1, <2>2 DEF hitl_decide, Answers, StoreRaises, AppendsAndAnswers
      <3>3. QED
        BY <3>1, <3>2, TenantOfPause DEF RowsStep, OfLine, Row
    <2>3. QED
      BY <2>1, <2>2
  <1>2. CASE session_run
    <2>1. CASE rows' = rows
      BY <2>1 DEF RowsStep
    <2>2. CASE rows' # rows
      <3>1. /\ HasSession(Asked.session, Scope)
            /\ rows' = Append(rows, Row("session.state.running", Scope, Asked.session, "none"))
        BY <1>2, <2>2 DEF session_run, OutOfScope, Answers, StoreRaises
      <3>2. QED
        BY <3>1 DEF RowsStep, OfLine, Row, HasSession, Abouts, EventsOfType
    <2>3. QED
      BY <2>1, <2>2
  <1>3. CASE session_start
    BY <1>3 DEF Takes, session_start, RowsStep, OfLine, Row, OutOfScope, Answers, StoreRaises,
                AppendsAndAnswers
  <1>4. CASE hitl_create
    BY <1>4 DEF Takes, hitl_create, RowsStep, OfLine, Row, OutOfScope, Answers, StoreRaises,
                AppendsAndAnswers
  <1>5. CASE Refuse \/ version \/ event_tail \/ usage_summary \/ hitl_list
    BY <1>5 DEF Refuse, version, event_tail, usage_summary, hitl_list, RowsStep, OutOfScope,
                Answers
  <1>6. QED
    BY <1>1, <1>2, <1>3, <1>4, <1>5 DEF Methods

\* A method takes the first line that waits and touches neither wire nor shell.
LEMMA MethodFacts ==
    ASSUME Methods
    PROVE  /\ at = "reading" /\ at' \in {"replying", "running"}
           /\ stdin # <<>> /\ line' = Head(stdin) /\ stdin' = Tail(stdin)
           /\ UNCHANGED <<stdout, sent, seen>>
           /\ events' = events \/ events' = <<>>
  BY DEF Methods, Refuse, version, session_start, session_run, event_tail, usage_summary,
         hitl_list, hitl_create, hitl_decide, Takes, OutOfScope, Answers, StoreRaises, Replies,
         AppendsAndAnswers

\* Every step has the shape.
LEMMA Shape ==
    ASSUME RunsOwn, [RpcNext]_rvars
    PROVE  RowsStep /\ LineStep /\ WireStep
  <1>1. CASE Methods
    BY <1>1, MethodRows, MethodFacts DEF LineStep, WireStep
  <1>2. ASSUME NEW type, NEW data, Report(type, data) \/ ScopeRefused \/ Settle
        PROVE  RowsStep /\ LineStep /\ WireStep
    <2>1. /\ at \in Running /\ line' = line /\ UNCHANGED <<stdout, seen>>
          /\ \E t, d : Records(t, d)
      BY <1>2 DEF Report, ScopeRefused, Settle, Keeps, pipes, Running
    <2>2. RowsStep
      BY <2>1 DEF RunsOwn, RowsStep, OfLine, Records, Session
    <2>3. QED
      BY <2>1, <2>2 DEF LineStep, WireStep
  <1>3. CASE Notify
    BY <1>3 DEF Notify, RowsStep, LineStep, WireStep
  <1>4. CASE RunRaises
    BY <1>4 DEF RunRaises, Keeps, pipes, RowsStep, LineStep, WireStep
  <1>5. CASE Silent \/ Answer
    BY <1>5 DEF Silent, Answer, Frees, pipes, RowsStep, LineStep, WireStep
  <1>6. CASE AnswerRaises \/ EndOfInput \/ KernelDies
    BY <1>6 DEF AnswerRaises, EndOfInput, KernelDies, Ends, RowsStep, LineStep, WireStep
  <1>7. CASE Serves
    BY <1>1, <1>2, <1>3, <1>4, <1>5, <1>6, <1>7 DEF Serves
  <1>8. ASSUME NEW asks \in Calls, Send(asks)
        PROVE  RowsStep /\ LineStep /\ WireStep
    BY <1>8 DEF Send, kernel, RowsStep, LineStep, WireStep
  <1>9. CASE Receive \/ ShellLeaves
    BY <1>9 DEF Receive, ShellLeaves, kernel, RowsStep, LineStep, WireStep
  <1>10. CASE Restart \/ \E p \in Lines : Lapse(p)
    BY <1>10 DEF Restart, Lapse, kernel, pipes, RowsStep, LineStep, WireStep
  <1>11. CASE UNCHANGED rvars
    BY <1>11 DEF rvars, pipes, kernel, RowsStep, LineStep, WireStep
  <1>12. QED
    BY <1>6, <1>7, <1>8, <1>9, <1>10, <1>11 DEF RpcNext

-----------------------------------------------------------------------------
(* Numbers only grow. *)

\* The events of a run are a sequence.
LEMMA EventsSequential ==
    ASSUME Sequential, [RpcNext]_rvars
    PROVE  IsSeq(events')
  <1>1. CASE events' = events
    BY <1>1 DEF Sequential
  <1>2. CASE events' = <<>>
    BY <1>2, EmptySeq DEF IsSeq
  <1>3. ASSUME NEW type, NEW data, Report(type, data) PROVE IsSeq(events')
    BY <1>3, Appending DEF Report, Sequential
  <1>4. ASSUME events' # events, events' # <<>>
        PROVE  \E type, data : Report(type, data)
    <2>1. ~Methods
      BY <1>4, MethodFacts
    <2>2. CASE Serves
      BY <1>4, <2>1, <2>2 DEF Serves, Notify, Settle, ScopeRefused, RunRaises, Silent, Answer,
                              Frees, AnswerRaises, EndOfInput, Ends
    <2>3. QED
      BY <1>4, <2>2 DEF RpcNext, Send, Receive, ShellLeaves, KernelDies, Ends, Restart, Lapse,
                        kernel, rvars
  <1>5. QED
    BY <1>1, <1>2, <1>3, <1>4

\* The first line that waits is past once it is taken.
LEMMA TakenIsPast ==
    ASSUME IsSeq(stdin), Queued, stdin # <<>>, stdin' = Tail(stdin), sent' = sent
    PROVE  PastThen(Head(stdin).n)
  BY Taking DEF Past, PastThen, Queued

\* What an earlier kernel left is about lines taken already.
LEMMA NumberedInit == ASSUME RpcAssumption, RpcInit PROVE Numbered
  <1>1. IsSeq(stdin) /\ IsSeq(stdout) /\ IsSeq(events) /\ Len(stdin) = 0 /\ Len(stdout) = 0
    BY EmptySeq DEF RpcInit, IsSeq
  <1>2. IsSeq(rows) /\ Len(rows) \in Nat
    BY LenProperties DEF RpcInit, RpcAssumption, IsSeq
  <1>3. QED
    BY <1>1, <1>2 DEF RpcInit, RpcAssumption, Numbered, Sequential, Queued, AllPast, Past, NoLine

\* Every step keeps that so.
LEMMA NumberedStep ==
    ASSUME Numbered, RunsOwn, [RpcNext]_rvars
    PROVE  Numbered'
  <1> USE DEF Numbered
  <1>1. QueueStep /\ RowsStep /\ LineStep /\ WireStep
    BY Queueing, Shape
  <1>2. IsSeq(stdin') /\ Queued' /\ \A n : Past(n) => PastThen(n)
    BY <1>1, QueuedStep DEF Sequential
  <1>3. PastThen(line'.n)
    <2>1. PastThen(0)
      BY <1>2 DEF PastThen, Queued
    <2>2. QED
      BY <1>1, <1>2, <2>1, TakenIsPast DEF LineStep, NoLine, AllPast, Sequential
  <1>4. IsSeq(rows') /\ \A k \in 1..Len(rows') : PastThen(rows'[k].about) /\ PastThen(rows'[k].line)
    <2>1. CASE rows' = rows
      BY <1>2, <2>1 DEF AllPast, Sequential
    <2>2. CASE \E r : rows' = Append(rows, r) /\ OfLine(r)
      <3>1. PICK r : rows' = Append(rows, r) /\ OfLine(r)
        BY <2>2
      <3>2. PastThen(r.about) /\ PastThen(r.line)
        BY <1>2, <1>3, <3>1 DEF OfLine, AllPast
      <3>3. /\ IsSeq(rows') /\ Len(rows) \in Nat /\ Len(rows') = Len(rows) + 1
            /\ \A k \in 1..Len(rows) : rows'[k] = rows[k]
            /\ rows'[Len(rows) + 1] = r
        BY <3>1, Appending DEF Sequential
      <3>4. \A k \in 1..Len(rows') : k \in 1..Len(rows) \/ k = Len(rows) + 1
        BY <3>3
      <3>5. QED
        BY <1>2, <3>2, <3>3, <3>4 DEF AllPast
    <2>3. QED
      BY <1>1, <2>1, <2>2 DEF RowsStep
  <1>5. /\ IsSeq(stdout') /\ PastThen(seen'.n)
        /\ \A i \in 1..Len(stdout') : PastThen(stdout'[i].line.n)
    <2>1. CASE stdout' = stdout /\ seen' = seen
      BY <1>2, <2>1 DEF AllPast, Sequential
    <2>2. CASE stdout # <<>> /\ stdout' = Tail(stdout) /\ seen'.n = Head(stdout).line.n
      BY <1>2, <2>2, Taking DEF AllPast, Sequential
    <2>3. CASE seen' = seen /\ \E w : stdout' = Append(stdout, w) /\ w.line = line
      <3>1. PICK w : stdout' = Append(stdout, w) /\ w.line = line
        BY <2>3
      <3>2. /\ IsSeq(stdout') /\ Len(stdout) \in Nat /\ Len(stdout') = Len(stdout) + 1
            /\ \A i \in 1..Len(stdout) : stdout'[i] = stdout[i]
            /\ stdout'[Len(stdout) + 1] = w
        BY <3>1, Appending DEF Sequential
      <3>3. \A i \in 1..Len(stdout') : i \in 1..Len(stdout) \/ i = Len(stdout) + 1
        BY <3>2
      <3>4. QED
        BY <1>2, <2>3, <3>1, <3>2, <3>3 DEF AllPast
    <2>4. CASE seen' = seen /\ stdout' = <<>>
      <3>1. IsSeq(stdout') /\ Len(stdout') = 0
        BY <2>4, EmptySeq DEF IsSeq
      <3>2. QED
        BY <1>2, <2>4, <3>1 DEF AllPast
    <2>5. QED
      BY <1>1, <2>1, <2>2, <2>3, <2>4 DEF WireStep
  <1>6. IsSeq(events')
    BY EventsSequential
  <1>7. QED
    BY <1>2, <1>3, <1>4, <1>5, <1>6 DEF Sequential, AllPast, Past, PastThen

-----------------------------------------------------------------------------
(* Tenants. *)

RowsOfTenants == \A k \in 1..Len(rows) : rows[k].tenant \in Tenant

\* A row is written for a tenant that exists.
LEMMA RowsOfTenantsStep ==
    ASSUME Numbered, RunsOwn, RowsOfTenants, [RpcNext]_rvars
    PROVE  RowsOfTenants'
  <1>1. RowsStep
    BY Shape
  <1>2. CASE rows' = rows
    BY <1>2 DEF RowsOfTenants
  <1>3. CASE \E r : rows' = Append(rows, r) /\ OfLine(r)
    <2>1. PICK r : rows' = Append(rows, r) /\ OfLine(r)
      BY <1>3
    <2>2. r.tenant \in Tenant
      BY <2>1 DEF OfLine, RowsOfTenants
    <2>3. QED
      BY <2>1, <2>2, Appending DEF RowsOfTenants, Numbered, Sequential
  <1>4. QED
    BY <1>1, <1>2, <1>3 DEF RowsStep

\* Who a row is about is new with its line, so the tenants of two rows about one thing
\* are one.
LEMMA OneTenantStep ==
    ASSUME Numbered, RunsOwn, OneTenantEach, [RpcNext]_rvars
    PROVE  OneTenantEach'
  <1>1. RowsStep
    BY Shape
  <1>2. CASE rows' = rows
    BY <1>2 DEF OneTenantEach
  <1>3. CASE \E r : rows' = Append(rows, r) /\ OfLine(r)
    <2>1. PICK r : rows' = Append(rows, r) /\ OfLine(r)
      BY <1>3
    <2>2. /\ Len(rows) \in Nat /\ Len(rows') = Len(rows) + 1
          /\ \A k \in 1..Len(rows) : rows'[k] = rows[k]
          /\ rows'[Len(rows) + 1] = r
      BY <2>1, Appending DEF Numbered, Sequential
    <2>3. \A k \in 1..Len(rows) : rows[k].about = r.about => rows[k].tenant = r.tenant
      <3>1. CASE r.about = line'.n /\ stdin # <<>> /\ line' = Head(stdin)
        <4>1. \A k \in 1..Len(rows) : rows[k].about < r.about
          BY <3>1, Taking DEF Numbered, Sequential, AllPast, Past
        <4>2. \A k \in 1..Len(rows) : rows[k].about \in Nat
          BY DEF Numbered, Queued, AllPast, Past
        <4>3. r.about \in Nat
          BY <3>1, Taking DEF Numbered, Sequential, Queued
        <4>4. QED
          BY <4>1, <4>2, <4>3
      <3>2. QED
        BY <2>1, <3>1 DEF OfLine, OneTenantEach
    <2>4. QED
      BY <2>2, <2>3 DEF OneTenantEach
  <1>4. QED
    BY <1>1, <1>2, <1>3 DEF RowsStep

\* A run stays one of its own tenant's session.
LEMMA RunsOwnStep ==
    ASSUME Numbered, RunsOwn, [RpcNext]_rvars
    PROVE  RunsOwn'
  <1>1. ASSUME NEW k \in 1..Len(rows)
        PROVE  k \in 1..Len(rows') /\ rows'[k] = rows[k]
    <2>1. RowsStep
      BY Shape
    <2>2. QED
      BY <2>1, Appending DEF RowsStep, Numbered, Sequential
  <1>2. CASE Methods
    <2>1. CASE session_run /\ at' = "running"
      <3>1. /\ HasSession(Asked.session, Scope) /\ line' = Head(stdin)
            /\ line'.call.method = "seasi.session.run"
        BY <2>1 DEF session_run, OutOfScope, Answers, StoreRaises, Replies, Takes
      <3>2. \E k \in 1..Len(rows) : /\ rows[k].about = line'.call.session
                                    /\ rows[k].tenant = Canonical[line'.call.tenant]
        BY <3>1 DEF HasSession, Abouts, EventsOfType, Asked, Scope
      <3>3. QED
        BY <1>1, <3>1, <3>2 DEF RunsOwn
    <2>2. CASE at' = "replying"
      BY <2>2 DEF RunsOwn, Running
    <2>3. at' = "replying" \/ (session_run /\ at' = "running")
      BY <1>2 DEF Methods, Refuse, version, session_start, session_run, event_tail,
                  usage_summary, hitl_list, hitl_create, hitl_decide, OutOfScope, Answers,
                  StoreRaises, Replies, AppendsAndAnswers
    <2>4. QED
      BY <2>1, <2>2, <2>3
  <1>3. at' \in Running /\ ~Methods => at \in Running /\ line' = line
    <2>1. CASE Serves /\ ~Methods
      BY <2>1 DEF Serves, Report, Notify, Settle, ScopeRefused, RunRaises, Silent, Answer,
                  AnswerRaises, EndOfInput, Ends, Keeps, Replies, Running
    <2>2. QED
      BY <2>1 DEF RpcNext, Send, Receive, ShellLeaves, KernelDies, Ends, Restart, Lapse,
                  kernel, rvars, Running
  <1>4. QED
    BY <1>1, <1>2, <1>3 DEF RunsOwn

\* What a method is about to answer shows rows of the tenant that asked, and no row is
\* added or changed before the answer is out.
LEMMA QueriesStep ==
    ASSUME RpcAssumption, Numbered, RunsOwn, RowsOfTenants, QueriesShowOwn, [RpcNext]_rvars
    PROVE  QueriesShowOwn'
  <1> DEFINE Own(t) == {i \in 1..Len(rows) : rows[i].tenant = t}
  <1>1. CASE Methods
    <2> DEFINE t == Canonical[line'.call.tenant]
    <2>1. CASE event_tail /\ reply'.code = "ok"
      <3>1. /\ rows' = rows /\ reply'.body = Newest(Asked.tenant, Asked.limit)
            /\ Asked = line'.call /\ line'.call.method = "seasi.event.tail"
        BY <2>1 DEF event_tail, OutOfScope, Answers, Replies, Takes, Asked
      <3>2. Newest(Asked.tenant, Asked.limit) \subseteq Own(Asked.tenant)
        BY DEF Newest
      <3>3. Own(Asked.tenant) \subseteq Own(Canonical[Asked.tenant])
        BY DEF RpcAssumption, RowsOfTenants
      <3>4. QED
        BY <3>1, <3>2, <3>3 DEF QueriesShowOwn
    <2>2. CASE usage_summary /\ reply'.code = "ok"
      <3>1. /\ rows' = rows /\ DOMAIN reply'.body = Abouts("session.created", t)
            /\ line'.call.method = "seasi.usage.summary"
        BY <2>2 DEF usage_summary, OutOfScope, Answers, Replies, Takes, Asked, Scope
      <3>2. Abouts("session.created", t) \subseteq {rows[i].about : i \in Own(t)}
        BY DEF Abouts, EventsOfType
      <3>3. QED
        BY <3>1, <3>2 DEF QueriesShowOwn
    <2>3. CASE hitl_list /\ reply'.code = "ok"
      <3>1. /\ rows' = rows /\ reply'.body \subseteq Abouts("hitl.pause.created", t)
            /\ line'.call.method = "seasi.hitl.list"
        BY <2>3 DEF hitl_list, OutOfScope, Answers, Replies, Takes, Asked, Scope
      <3>2. Abouts("hitl.pause.created", t) \subseteq {rows[i].about : i \in Own(t)}
        BY DEF Abouts, EventsOfType
      <3>3. reply'.body \subseteq {rows[i].about : i \in Own(t)}
        BY <3>1, <3>2
      <3>4. QED
        BY <3>1, <3>3 DEF QueriesShowOwn
    <2>4. CASE ~(event_tail \/ usage_summary \/ hitl_list) /\ reply'.code = "ok"
      <3>1. line'.call.method \notin
                {"seasi.event.tail", "seasi.usage.summary", "seasi.hitl.list"}
        BY <1>1, <2>4 DEF Methods, Refuse, Refusal, version, session_start, session_run,
                      hitl_create, hitl_decide, Takes
      <3>2. QED
        BY <3>1 DEF QueriesShowOwn
    <2>5. QED
      BY <2>1, <2>2, <2>3, <2>4 DEF QueriesShowOwn
  <1>2. CASE Settle \/ ScopeRefused \/ RunRaises
    BY <1>2 DEF Settle, ScopeRefused, RunRaises, Keeps, RunsOwn, Running, QueriesShowOwn
  <1>3. CASE Serves /\ ~Methods /\ at' = "replying"
    BY <1>2, <1>3 DEF Serves, Report, Notify, Silent, Answer, AnswerRaises, EndOfInput, Ends
  <1>4. ASSUME ~Serves, at' = "replying"
        PROVE  at = "replying" /\ UNCHANGED <<line, reply, rows>>
    BY <1>4 DEF RpcNext, Send, Receive, ShellLeaves, KernelDies, Ends, Restart, Lapse, kernel,
                rvars
  <1>5. CASE ~Serves /\ at' = "replying"
    <2>1. line' = line /\ reply' = reply /\ rows' = rows /\ at = "replying"
      BY <1>4, <1>5
    <2>2. QED
      BY <2>1 DEF QueriesShowOwn
  <1>6. CASE at' # "replying"
    BY <1>6 DEF QueriesShowOwn
  <1>7. QED
    BY <1>1, <1>3, <1>5, <1>6

TenantInv == Numbered /\ RunsOwn /\ RowsOfTenants /\ OneTenantEach /\ QueriesShowOwn

\* TenantInv is inductive.
LEMMA TenantInit == ASSUME RpcAssumption, RpcInit PROVE TenantInv
  <1>1. RunsOwn /\ RowsOfTenants /\ OneTenantEach /\ QueriesShowOwn
    BY DEF RpcInit, RpcAssumption, RunsOwn, Running, RowsOfTenants, OneTenantEach, QueriesShowOwn
  <1>2. QED
    BY <1>1, NumberedInit DEF TenantInv

\* Every step keeps TenantInv.
LEMMA TenantStep ==
    ASSUME RpcAssumption, TenantInv, [RpcNext]_rvars
    PROVE  TenantInv'
  BY NumberedStep, RunsOwnStep, RowsOfTenantsStep, OneTenantStep, QueriesStep DEF TenantInv

\* So it always holds.
LEMMA TenantInvariance == RpcSpec => []TenantInv
  <1>1. RpcInit => TenantInv
    BY RpcAssumption, TenantInit
  <1>2. TenantInv /\ [RpcNext]_rvars => TenantInv'
    BY RpcAssumption, TenantStep
  <1>3. QED
    BY <1>1, <1>2, PTL DEF RpcSpec

\* Whatever is called and whoever dies, no tenant's session or pause has a row of another
\* tenant, and no method shows one tenant the rows of another (methods.py, _scope and
\* _load_session; hitl.py, _load_pause).
THEOREM TenantsAreApart == RpcSpec => []TenantsApart
  <1>1. TenantInv => TenantsApart
    BY DEF TenantInv, TenantsApart
  <1>2. QED
    BY <1>1, TenantInvariance, PTL

-----------------------------------------------------------------------------
(* The wire. *)

Busy == Running \cup {"replying"}

\* A line of the wire about request n may be followed by one about request m.
Follows(kind, n, m) == n <= m /\ (kind = "response" => n < m)

OnWire ==
    /\ \A i, j \in 1..Len(stdout) :
          i < j => Follows(stdout[i].kind, stdout[i].line.n, stdout[j].line.n)
    /\ \A j \in 1..Len(stdout) : Follows(seen.kind, seen.n, stdout[j].line.n)
    /\ at \in Busy =>
          /\ Follows(seen.kind, seen.n, line.n)
          /\ \A i \in 1..Len(stdout) : Follows(stdout[i].kind, stdout[i].line.n, line.n)
    /\ \A i \in 1..Len(stdout) :
          stdout[i].kind = "response" /\ stdout[i].line.quiet =>
              stdout[i].line.call.method \in {"garbage", "envelope"}

\* The steps that put nothing on the wire and take nothing from it leave the kernel at the
\* line it was busy with.
LEMMA WireUntouched ==
    ASSUME [RpcNext]_rvars, ~Methods, ~Notify, ~Answer, ~Receive, ~ShellLeaves
    PROVE  /\ stdout' = stdout /\ seen' = seen
           /\ at' \in Busy => at \in Busy /\ line' = line
  <1>1. CASE Serves
    BY <1>1 DEF Serves, Report, Settle, ScopeRefused, RunRaises, Silent, AnswerRaises,
                EndOfInput, Ends, Keeps, Frees, Replies, pipes, Running, Busy
  <1>2. CASE ~Serves
    BY <1>2 DEF RpcNext, Send, KernelDies, Ends, Restart, Lapse, pipes, kernel, rvars,
                Running, Busy
  <1>3. QED
    BY <1>1, <1>2

\* A line appended about the request in service follows all there is.
LEMMA Appended ==
    ASSUME Numbered, OnWire, at \in Busy, NEW w, w.line = line, stdout' = Append(stdout, w),
           seen' = seen, line' = line \/ at' \notin Busy,
           w.kind = "response" => at' \notin Busy,
           w.kind = "response" /\ w.line.quiet => w.line.call.method \in {"garbage", "envelope"}
    PROVE  OnWire'
  <1>1. /\ Len(stdout) \in Nat /\ Len(stdout') = Len(stdout) + 1
        /\ \A i \in 1..Len(stdout) : stdout'[i] = stdout[i]
        /\ stdout'[Len(stdout) + 1] = w
    BY Appending DEF Numbered, Sequential
  <1>2. \A i \in 1..Len(stdout') : i \in 1..Len(stdout) \/ i = Len(stdout) + 1
    BY <1>1
  <1>3. line.n \in Nat /\ Follows("event", line.n, line.n)
    BY DEF Numbered, AllPast, Past, Queued, Follows
  <1>4. \A i, j \in 1..Len(stdout') :
            i < j => Follows(stdout'[i].kind, stdout'[i].line.n, stdout'[j].line.n)
    BY <1>1, <1>2 DEF OnWire
  <1>5. \A j \in 1..Len(stdout') : Follows(seen.kind, seen.n, stdout'[j].line.n)
    BY <1>1, <1>2 DEF OnWire
  <1>6. at' \in Busy => \A i \in 1..Len(stdout') :
            Follows(stdout'[i].kind, stdout'[i].line.n, line.n)
    BY <1>1, <1>2, <1>3 DEF OnWire, Follows
  <1>7. QED
    BY <1>1, <1>2, <1>4, <1>5, <1>6 DEF OnWire

\* Every step keeps the wire in order.
LEMMA OnWireStep ==
    ASSUME Numbered, OnWire, [RpcNext]_rvars
    PROVE  OnWire'
  <1>1. CASE Methods
    <2>1. stdout' = stdout /\ seen' = seen /\ line' = Head(stdin) /\ stdin # <<>>
      BY <1>1, MethodFacts
    <2>2. line'.n \in Nat /\ \A n : Past(n) => n \in Nat /\ n < line'.n
      BY <2>1, Taking DEF Numbered, Sequential, Queued, Past
    <2>3. \A n, kind : Past(n) => Follows(kind, n, line'.n)
      BY <2>2 DEF Follows
    <2>4. QED
      BY <2>1, <2>3 DEF OnWire, Numbered, AllPast
  <1>2. CASE Notify
    <2>1. at \in Busy /\ line' = line /\ seen' = seen
      BY <1>2 DEF Notify, Busy, Running
    <2>2. \E w : w.line = line /\ w.kind = "event" /\ stdout' = Append(stdout, w)
      BY <1>2 DEF Notify
    <2>3. QED
      BY <2>1, <2>2, Appended
  <1>3. CASE Answer
    <2>1. at \in Busy /\ at' \notin Busy /\ seen' = seen
      BY <1>3 DEF Answer, Frees, Busy, Running
    <2>2. \E w : w.line = line /\ w.kind = "response" /\ stdout' = Append(stdout, w)
      BY <1>3 DEF Answer
    <2>3. line.quiet => line.call.method \in {"garbage", "envelope"}
      BY <1>3 DEF Answer, WantsAnswer
    <2>4. QED
      BY <2>1, <2>2, <2>3, Appended
  <1>4. CASE Receive
    <2>1. /\ Len(stdout) \in Nat /\ 1 \in 1..Len(stdout)
          /\ seen'.kind = stdout[1].kind /\ seen'.n = stdout[1].line.n
          /\ Len(stdout') = Len(stdout) - 1
          /\ \A i \in 1..Len(stdout') : i + 1 \in 1..Len(stdout) /\ stdout'[i] = stdout[i + 1]
          /\ at' = at /\ line' = line
      BY <1>4, Taking DEF Receive, kernel, Numbered, Sequential
    <2>2. \A i, j \in 1..Len(stdout') :
              i < j => Follows(stdout'[i].kind, stdout'[i].line.n, stdout'[j].line.n)
      <3> TAKE i, j \in 1..Len(stdout')
      <3>1. i < j => i + 1 < j + 1
        OBVIOUS
      <3>2. QED
        BY <2>1, <3>1 DEF OnWire
    <2>3. \A j \in 1..Len(stdout') : Follows(seen'.kind, seen'.n, stdout'[j].line.n)
      <3> TAKE j \in 1..Len(stdout')
      <3>1. 1 < j + 1
        OBVIOUS
      <3>2. QED
        BY <2>1, <3>1 DEF OnWire
    <2>4. at' \in Busy => /\ Follows(seen'.kind, seen'.n, line'.n)
                          /\ \A i \in 1..Len(stdout') :
                                Follows(stdout'[i].kind, stdout'[i].line.n, line'.n)
      BY <2>1 DEF OnWire
    <2>5. \A i \in 1..Len(stdout') :
              stdout'[i].kind = "response" /\ stdout'[i].line.quiet =>
                  stdout'[i].line.call.method \in {"garbage", "envelope"}
      BY <2>1 DEF OnWire
    <2>6. QED
      BY <2>2, <2>3, <2>4, <2>5 DEF OnWire
  <1>5. CASE ShellLeaves
    <2>1. Len(stdout') = 0 /\ seen' = seen /\ at' = at /\ line' = line
      BY <1>5, EmptySeq DEF ShellLeaves, kernel
    <2>2. QED
      BY <2>1 DEF OnWire
  <1>6. CASE ~Methods /\ ~Notify /\ ~Answer /\ ~Receive /\ ~ShellLeaves
    BY <1>6, WireUntouched DEF OnWire
  <1>7. QED
    BY <1>1, <1>2, <1>3, <1>4, <1>5, <1>6

\* The lines of Wire are the last one read and those in the pipe.
LEMMA WireLines ==
    ASSUME IsSeq(stdout)
    PROVE  /\ Len(stdout) \in Nat /\ Len(Wire) = Len(stdout) + 1
           /\ Wire[1] = seen
           /\ \A i \in 2..Len(Wire) : /\ i - 1 \in 1..Len(stdout)
                                       /\ Wire[i].kind = stdout[i - 1].kind
                                       /\ Wire[i].n = stdout[i - 1].line.n
  <1> DEFINE f == [i \in 1..Len(stdout) |-> [kind |-> stdout[i].kind, n |-> stdout[i].line.n]]
             S == {f[i] : i \in 1..Len(stdout)} \cup {seen}
  <1>1. Len(stdout) \in Nat
    BY LenProperties DEF IsSeq
  <1>2. f \in Seq(S) /\ Len(f) = Len(stdout)
    BY <1>1, LenProperties
  <1>3. <<seen>> \in Seq(S) /\ Len(<<seen>>) = 1 /\ <<seen>>[1] = seen
    OBVIOUS
  <1>4. /\ Len(Wire) = 1 + Len(stdout)
        /\ Wire[1] = seen
        /\ \A i \in 2..Len(Wire) : Wire[i] = f[i - 1]
    BY <1>1, <1>2, <1>3, ConcatProperties DEF Wire
  <1>5. \A i \in 2..Len(Wire) : i - 1 \in 1..Len(stdout)
    BY <1>1, <1>4
  <1>6. \A i \in 2..Len(Wire) :
            Wire[i] = [kind |-> stdout[i - 1].kind, n |-> stdout[i - 1].line.n]
    BY <1>4, <1>5
  <1>7. ASSUME NEW i \in 2..Len(Wire)
        PROVE  Wire[i].kind = stdout[i - 1].kind /\ Wire[i].n = stdout[i - 1].line.n
    <2>1. Wire[i] = [kind |-> stdout[i - 1].kind, n |-> stdout[i - 1].line.n]
      BY <1>6
    <2> HIDE DEF f, S
    <2>2. QED
      BY <2>1
  <1>8. Len(Wire) = Len(stdout) + 1
    BY <1>1, <1>4
  <1>9. QED
    BY <1>1, <1>4, <1>5, <1>7, <1>8

\* The wire is in order in every reachable state.
LEMMA WireInvariance == RpcSpec => [](TenantInv /\ OnWire)
  <1>1. RpcInit => OnWire
    BY EmptySeq DEF RpcInit, OnWire, Busy, Running
  <1>2. TenantInv /\ OnWire /\ [RpcNext]_rvars => OnWire'
    BY OnWireStep DEF TenantInv
  <1>3. QED
    BY <1>1, <1>2, TenantInvariance, PTL DEF RpcSpec

\* Whatever is called and whoever dies, a shell reads events before the answer they belong
\* to, answers in the order of its requests and at most once, and none to a call without
\* an id (server.py, serve).
THEOREM WireIsOrdered == RpcSpec => []WireOrder
  <1>1. TenantInv /\ OnWire => WireOrder
    <2> SUFFICES ASSUME Numbered, OnWire PROVE WireOrder
      BY DEF TenantInv
    <2>1. /\ Len(stdout) \in Nat /\ Len(Wire) = Len(stdout) + 1 /\ Wire[1] = seen
          /\ \A i \in 2..Len(Wire) : /\ i - 1 \in 1..Len(stdout)
                                      /\ Wire[i].kind = stdout[i - 1].kind
                                      /\ Wire[i].n = stdout[i - 1].line.n
      BY WireLines DEF Numbered, Sequential
    <2>2. \A i \in 1..Len(Wire) : i = 1 \/ i \in 2..Len(Wire)
      BY <2>1
    <2>3. \A i, j \in 1..Len(Wire) : i < j => Follows(Wire[i].kind, Wire[i].n, Wire[j].n)
      <3> SUFFICES ASSUME NEW i \in 1..Len(Wire), NEW j \in 1..Len(Wire), i < j
                   PROVE  Follows(Wire[i].kind, Wire[i].n, Wire[j].n)
        OBVIOUS
      <3>1. j \in 2..Len(Wire)
        BY <2>1
      <3>2. CASE i = 1
        BY <2>1, <3>1, <3>2 DEF OnWire
      <3>3. CASE i \in 2..Len(Wire)
        <4>1. i - 1 < j - 1
          OBVIOUS
        <4>2. QED
          BY <2>1, <3>1, <3>3, <4>1 DEF OnWire
      <3>4. QED
        BY <2>2, <3>2, <3>3
    <2>4. at \in Busy => \A i \in 1..Len(Wire) : Follows(Wire[i].kind, Wire[i].n, line.n)
      BY <2>1, <2>2 DEF OnWire
    <2>5. QED
      BY <2>3, <2>4 DEF WireOrder, Follows, Busy, OnWire
  <1>2. QED
    BY <1>1, WireInvariance, PTL

-----------------------------------------------------------------------------
(* Answers. *)

\* What the kernel is about to write is on record.
Due ==
    /\ at = "notifying" =>
          \E k \in RowsOfLine(line.n) : /\ rows[k].type = events[Len(events)]
                                       /\ rows[k].about = line.call.session
    /\ at = "replying" =>
          /\ reply.code = "ok" /\ line.call.method \in Mutating => reply.body \in RowsOfLine(line.n)
          /\ reply.code \in Refusals => RowsOfLine(line.n) = {}

\* The rows of a line stay, and only the line in service gets another.
LEMMA LineRows ==
    ASSUME Sequential, RunsOwn, [RpcNext]_rvars, NEW n
    PROVE  /\ \A k \in RowsOfLine(n) : k \in RowsOfLine(n)' /\ rows'[k] = rows[k]
           /\ rows' = rows \/ n # line'.n => RowsOfLine(n)' = RowsOfLine(n)
  <1>1. RowsStep
    BY Shape
  <1>2. CASE rows' = rows
    BY <1>2 DEF RowsOfLine
  <1>3. CASE \E r : rows' = Append(rows, r) /\ OfLine(r)
    <2>1. PICK r : rows' = Append(rows, r) /\ OfLine(r)
      BY <1>3
    <2>2. /\ Len(rows) \in Nat /\ Len(rows') = Len(rows) + 1
          /\ \A k \in 1..Len(rows) : rows'[k] = rows[k]
          /\ rows'[Len(rows) + 1] = r
      BY <2>1, Appending DEF Sequential
    <2>3. r.line = line'.n
      BY <2>1 DEF OfLine
    <2>4. \A k \in 1..Len(rows') : k \in 1..Len(rows) \/ k = Len(rows) + 1
      BY <2>2
    <2>5. \A k \in RowsOfLine(n) : k \in RowsOfLine(n)' /\ rows'[k] = rows[k]
      BY <2>2 DEF RowsOfLine
    <2>6. rows' # rows
      BY <2>2
    <2>7. n # line'.n => RowsOfLine(n)' = RowsOfLine(n)
      BY <2>2, <2>3, <2>4 DEF RowsOfLine
    <2>8. QED
      BY <2>5, <2>6, <2>7
  <1>4. QED
    BY <1>1, <1>2, <1>3 DEF RowsStep

\* Rows are written for a line just taken, or in the middle of a run.
LEMMA RowsWhen ==
    ASSUME [RpcNext]_rvars, rows' # rows
    PROVE  Methods \/ (at \in Running /\ line' = line)
  <1>1. CASE Serves
    <2>1. (\E type, data : Report(type, data)) \/ Settle \/ ScopeRefused
              => at \in Running /\ line' = line
      BY DEF Report, Settle, ScopeRefused, Keeps, Running
    <2>2. ~(Notify \/ RunRaises \/ Silent \/ Answer \/ AnswerRaises \/ EndOfInput)
      BY DEF Notify, RunRaises, Keeps, Silent, Answer, Frees, AnswerRaises, EndOfInput, Ends
    <2>3. QED
      BY <1>1, <2>1, <2>2 DEF Serves
  <1>2. CASE ~Serves
    BY <1>2 DEF RpcNext, Send, Receive, ShellLeaves, KernelDies, Ends, Restart, Lapse, rvars
  <1>3. QED
    BY <1>1, <1>2

\* So those of a line that was answered are final.
LEMMA AnsweredIsFinal ==
    ASSUME Numbered, RunsOwn, OnWire, [RpcNext]_rvars,
           NEW i \in 1..Len(stdout), stdout[i].kind = "response",
           NEW n, n = stdout[i].line.n
    PROVE  RowsOfLine(n)' = RowsOfLine(n)
  <1>1. n \in Nat /\ Past(n)
    BY DEF Numbered, AllPast, Past, Queued
  <1>2. CASE Methods
    <2>1. line' = stdin[1] /\ 1 \in 1..Len(stdin)
      BY <1>2, MethodFacts, Taking DEF Numbered, Sequential
    <2>2. line'.n \in Nat /\ n < line'.n
      BY <1>1, <2>1 DEF Past, Numbered, Queued
    <2>3. QED
      BY <1>1, <2>2, LineRows DEF Numbered
  <1>3. CASE at \in Running /\ line' = line
    <2>1. line'.n \in Nat /\ n < line'.n
      BY <1>3 DEF OnWire, Busy, Follows, Numbered, AllPast, Past, Queued
    <2>2. QED
      BY <1>1, <2>1, LineRows DEF Numbered
  <1>4. CASE rows' = rows
    BY <1>4 DEF RowsOfLine
  <1>5. QED
    BY <1>2, <1>3, <1>4, RowsWhen

\* A method that has its answer ready has put on record what a success says, and nothing
\* if it refused.
LEMMA DueOfMethods ==
    ASSUME Numbered, RunsOwn, Methods, at' = "replying"
    PROVE  /\ reply'.code = "ok" /\ line'.call.method \in Mutating =>
                 reply'.body \in RowsOfLine(line.n)'
           /\ reply'.code \in Refusals => rows' = rows
  <1>1. CASE session_start
    <2>1. CASE rows' = rows /\ reply'.code # "ok"
      BY <2>1
    <2>2. CASE rows' = Append(rows, Row("session.created", Scope, line'.n, "none"))
                  /\ reply'.code = "ok" /\ reply'.body = Len(rows) + 1
      BY <2>2, Appending DEF Row, RowsOfLine, Numbered, Sequential, Refusals
    <2>3. QED
      BY <1>1, <2>1, <2>2 DEF session_start, OutOfScope, Answers, StoreRaises, Replies,
                              AppendsAndAnswers
  <1>2. CASE hitl_create
    <2>1. CASE rows' = rows /\ reply'.code # "ok"
      BY <2>1
    <2>2. CASE rows' = Append(rows, Row("hitl.pause.created", Scope, line'.n, "none"))
                  /\ reply'.code = "ok" /\ reply'.body = Len(rows) + 1
      BY <2>2, Appending DEF Row, RowsOfLine, Numbered, Sequential, Refusals
    <2>3. QED
      BY <1>2, <2>1, <2>2 DEF hitl_create, OutOfScope, Answers, StoreRaises, Replies,
                              AppendsAndAnswers
  <1>3. CASE hitl_decide
    <2>1. CASE reply'.code \in {"SEASI_FAIL_CLOSED", "INTERNAL_ERROR"}
      BY <2>1 DEF Refusals
    <2>2. CASE reply'.code = "ok" /\ reply'.body = Len(rows) + 1 /\ \E p, t :
                  rows' = Append(rows, Row("hitl.pause.decided", t, p, Asked.decision))
      BY <2>2, Appending DEF Row, RowsOfLine, Numbered, Sequential, Refusals
    <2>3. QED
      BY <1>3, <2>1, <2>2 DEF hitl_decide, Answers, StoreRaises, Replies, AppendsAndAnswers
  <1>4. CASE session_run
    <2>1. rows' = rows /\ reply'.code # "ok"
      BY <1>4 DEF session_run, OutOfScope, Answers, StoreRaises, Replies
    <2>2. QED
      BY <2>1
  <1>5. CASE Refuse \/ version \/ event_tail \/ usage_summary \/ hitl_list
    <2>1. rows' = rows
      BY <1>5 DEF Refuse, version, event_tail, usage_summary, hitl_list, OutOfScope, Answers
    <2>2. line'.call.method \notin Mutating
      BY <1>5 DEF Refuse, Refusal, version, event_tail, usage_summary, hitl_list, Takes, Mutating
    <2>3. QED
      BY <2>1, <2>2
  <1>6. QED
    BY <1>1, <1>2, <1>3, <1>4, <1>5 DEF Methods

\* An event about to be streamed was put on record by the same step.
LEMMA DueOfReport ==
    ASSUME Numbered, NEW type, NEW data, Report(type, data)
    PROVE  \E k \in RowsOfLine(line.n)' : /\ rows'[k].type = events'[Len(events')]
                                         /\ rows'[k].about = line'.call.session
  <1> DEFINE r == [type |-> type, tenant |-> Canonical[line.call.tenant], about |-> Session,
                   data |-> data, line |-> line.n]
  <1>1. /\ rows' = Append(rows, r) /\ events' = Append(events, type)
        /\ line' = line
    BY DEF Report, Records, Keeps
  <1>2. /\ Len(rows') = Len(rows) + 1 /\ Len(rows) \in Nat
        /\ rows'[Len(rows) + 1] = r
    BY <1>1, Appending DEF Numbered, Sequential
  <1>3. events'[Len(events')] = type
    BY <1>1, Appending DEF Numbered, Sequential
  <1>4. Len(rows) + 1 \in RowsOfLine(line.n)'
    BY <1>1, <1>2 DEF RowsOfLine
  <1>5. QED
    BY <1>1, <1>2, <1>3, <1>4 DEF Session

\* Every step keeps what is due on record.
LEMMA DueStep ==
    ASSUME Numbered, RunsOwn, Due, [RpcNext]_rvars
    PROVE  Due'
  <1>1. CASE Methods
    <2>1. at' \in {"replying", "running"} /\ stdin # <<>> /\ line' = Head(stdin)
      BY <1>1, MethodFacts
    <2>2. RowsOfLine(line'.n) = {}
      BY <2>1, Taking DEF Numbered, Sequential, Queued, AllPast, Past, RowsOfLine
    <2>3. rows' = rows => RowsOfLine(line.n)' = {}
      BY <2>2 DEF RowsOfLine
    <2>4. QED
      BY <1>1, <2>1, <2>3, DueOfMethods DEF Due
  <1>2. ASSUME NEW type, NEW data, Report(type, data) PROVE Due'
    <2>1. at' = "notifying"
      BY <1>2 DEF Report
    <2>2. QED
      BY <1>2, <2>1, DueOfReport DEF Due
  <1>3. CASE Settle
    BY <1>3 DEF Settle, Replies, Keeps, RunsOwn, Running, Due, Mutating, Refusals
  <1>4. CASE ScopeRefused \/ RunRaises
    BY <1>4 DEF ScopeRefused, RunRaises, Replies, Due, Refusals
  <1>5. CASE Notify
    BY <1>5 DEF Notify, Due
  <1>6. CASE Silent \/ Answer \/ AnswerRaises \/ EndOfInput \/ KernelDies \/ Restart
    BY <1>6 DEF Silent, Answer, AnswerRaises, EndOfInput, KernelDies, Ends, Restart, Due
  <1>7. CASE UNCHANGED <<at, line, reply, events, rows>>
    BY <1>7 DEF Due, RowsOfLine
  <1>8. CASE Receive \/ ShellLeaves \/ (\E asks \in Calls : Send(asks))
             \/ (\E p \in Lines : Lapse(p)) \/ UNCHANGED rvars
    BY <1>7, <1>8 DEF Receive, ShellLeaves, Send, Lapse, kernel, rvars
  <1>9. CASE Serves
    BY <1>1, <1>2, <1>3, <1>4, <1>5, <1>6, <1>9 DEF Serves
  <1>10. QED
    BY <1>6, <1>8, <1>9 DEF RpcNext

\* What one line of the pipe says is on record.
OnRecord(w) ==
    /\ w.kind = "event" => \E k \in RowsOfLine(w.line.n) :
          rows[k].type = w.type /\ rows[k].about = w.line.call.session
    /\ w.kind = "response" =>
          /\ w.code = "ok" /\ w.line.call.method \in Mutating => w.body \in RowsOfLine(w.line.n)
          /\ w.code \in Refusals => RowsOfLine(w.line.n) = {}

\* It stays so.
LEMMA OnRecordStays ==
    ASSUME Numbered, RunsOwn, OnWire, [RpcNext]_rvars, NEW i \in 1..Len(stdout),
           NEW w, w = stdout[i], OnRecord(w)
    PROVE  OnRecord(w)'
  <1>1. ASSUME NEW k \in RowsOfLine(w.line.n)
        PROVE  k \in RowsOfLine(w.line.n)' /\ rows'[k] = rows[k]
    BY LineRows DEF Numbered
  <1>2. w.kind = "response" => RowsOfLine(w.line.n)' = RowsOfLine(w.line.n)
    BY AnsweredIsFinal
  <1>3. QED
    BY <1>1, <1>2 DEF OnRecord

\* Every step keeps the answers on record.
LEMMA AnswersStep ==
    ASSUME Numbered, RunsOwn, OnWire, Due, AnswersMatchRecord, [RpcNext]_rvars
    PROVE  AnswersMatchRecord'
  <1>1. \A i \in 1..Len(stdout) : OnRecord(stdout[i])
    BY DEF AnswersMatchRecord, OnRecord
  <1>2. ASSUME NEW w, \E j \in 1..Len(stdout) : w = stdout[j]
        PROVE  OnRecord(w)'
    BY <1>1, <1>2, OnRecordStays
  <1>3. ASSUME NEW w, \E j \in 1..Len(stdout') : w = stdout'[j],
               ~ \E j \in 1..Len(stdout) : w = stdout[j]
        PROVE  OnRecord(w)'
    <2>1. CASE Notify
      <3>1. w = [kind |-> "event", line |-> line, type |-> events[Len(events)]]
        BY <1>3, <2>1, Appending DEF Notify, Numbered, Sequential
      <3>2. QED
        BY <2>1, <3>1 DEF Notify, Due, OnRecord, RowsOfLine
    <2>2. CASE Answer
      <3>1. w = [kind |-> "response", line |-> line, code |-> reply.code, body |-> reply.body]
        BY <1>3, <2>2, Appending DEF Answer, Numbered, Sequential
      <3>2. QED
        BY <2>2, <3>1 DEF Answer, Frees, Due, OnRecord, RowsOfLine
    <2>3. CASE Receive
      BY <1>3, <2>3, Taking DEF Receive, Numbered, Sequential
    <2>4. CASE stdout' = stdout \/ stdout' = <<>>
      BY <1>3, <2>4, EmptySeq
    <2>5. stdout' = stdout \/ stdout' = <<>> \/ Notify \/ Answer \/ Receive
      BY MethodFacts, WireUntouched DEF ShellLeaves
    <2>6. QED
      BY <2>1, <2>2, <2>3, <2>4, <2>5
  <1>4. ASSUME NEW i \in 1..Len(stdout'), NEW w, w = stdout'[i]
        PROVE  OnRecord(w)'
    BY <1>2, <1>3, <1>4
  <1>5. QED
    BY <1>4 DEF AnswersMatchRecord, OnRecord

\* Whatever a shell reads was on record when it was written, and whoever dies then, it
\* stays on record; what was refused left no trace (methods.py, server.py).
THEOREM AnswersAreOnRecord == RpcSpec => []AnswersMatchRecord
  <1>1. RpcInit => Due /\ AnswersMatchRecord
    BY EmptySeq DEF RpcInit, Due, AnswersMatchRecord
  <1>2. TenantInv /\ OnWire /\ Due /\ AnswersMatchRecord /\ [RpcNext]_rvars
            => Due' /\ AnswersMatchRecord'
    BY DueStep, AnswersStep DEF TenantInv
  <1>3. QED
    BY <1>1, <1>2, WireInvariance, PTL DEF RpcSpec

-----------------------------------------------------------------------------
(* Rows picked out of the ledger. *)

\* A set of places is finite, and the place behind the last one is one more.
LEMMA Places ==
    ASSUME NEW N \in Nat, NEW I \in SUBSET (1..N)
    PROVE  /\ IsFiniteSet(I) /\ Cardinality(I) \in Nat
           /\ Cardinality(I \cup {N + 1}) = Cardinality(I) + 1
  <1>1. IsFiniteSet(1..N)
    BY FS_Interval
  <1>2. IsFiniteSet(I)
    BY <1>1, FS_Subset
  <1>3. N + 1 \notin I
    OBVIOUS
  <1>4. QED
    BY <1>2, <1>3, FS_CardinalityType, FS_AddElement

\* The ranks of the places of a set are 1, 2, and so on, each once.
LEMMA RanksAre ==
    ASSUME NEW N \in Nat, NEW I \in SUBSET (1..N)
    PROVE  /\ \A i \in I : Rank(I, i) \in 1..Cardinality(I)
           /\ \A i, j \in I : Rank(I, i) = Rank(I, j) => i = j
           /\ \A k \in 1..Cardinality(I) : \E i \in I : Rank(I, i) = k
  <1>1. IsFiniteSet(I) /\ Cardinality(I) \in Nat
    BY Places
  <1>2. \A J \in SUBSET I : IsFiniteSet(J) /\ Cardinality(J) \in Nat
    BY <1>1, FS_Subset, FS_CardinalityType
  <1>3. ASSUME NEW i \in I PROVE Rank(I, i) \in 1..Cardinality(I)
    <2> DEFINE J == {j \in I : j <= i}
    <2>1. J \in SUBSET I /\ i \in J
      OBVIOUS
    <2>2. Cardinality(J) \in Nat /\ Cardinality(J) <= Cardinality(I)
      BY <1>1, <1>2, <2>1, FS_Subset
    <2>3. Cardinality(J) # 0
      BY <1>2, <2>1, FS_EmptySet
    <2>4. QED
      BY <1>1, <2>2, <2>3 DEF Rank
  <1>4. ASSUME NEW i \in I, NEW j \in I, i < j PROVE Rank(I, i) # Rank(I, j)
    <2> DEFINE J == {k \in I : k <= i}
               K == {k \in I : k <= j}
    <2>1. J \in SUBSET K /\ K \in SUBSET I /\ j \in K /\ j \notin J
      <3>1. \A k \in I : k \in Nat
        OBVIOUS
      <3>2. \A k \in I : k <= i => k <= j
        BY <1>4, <3>1
      <3>3. ~(j <= i)
        BY <1>4, <3>1
      <3>4. j <= j
        BY <3>1
      <3>5. QED
        BY <3>2, <3>3, <3>4, Zenon
    <2>2. IsFiniteSet(K)
      BY <1>2, <2>1
    <2>3. Cardinality(K) # Cardinality(J)
      BY <2>1, <2>2, FS_Subset
    <2>4. QED
      BY <2>3 DEF Rank
  <1>5. \A i, j \in I : Rank(I, i) = Rank(I, j) => i = j
    <2> TAKE i, j \in I
    <2>1. i < j \/ j < i \/ i = j
      OBVIOUS
    <2>2. QED
      BY <1>4, <2>1
  <1>6. \A k \in 1..Cardinality(I) : \E i \in I : Rank(I, i) = k
    <2> DEFINE f == [i \in I |-> Rank(I, i)]
               T == 1..Cardinality(I)
    <2>1. f \in Injection(I, T)
      <3>1. f \in [I -> T]
        BY <1>3
      <3>2. \A i, j \in I : f[i] = f[j] => i = j
        BY <1>5
      <3>3. QED
        BY <3>1, <3>2, Fun_IsInj
    <2>2. IsFiniteSet(T) /\ Cardinality(T) = Cardinality(I)
      BY <1>1, FS_Interval
    <2>3. f \in Surjection(I, T)
      BY <2>1, <2>2, FS_Injection
    <2> HIDE DEF f, T
    <2>4. \A k \in T : \E i \in I : f[i] = k
      BY <2>3, Fun_SurjectionProperties
    <2>5. QED
      BY <2>4 DEF f, T
  <1>7. QED
    BY <1>3, <1>5, <1>6

\* The k-th place of a set is the one of rank k.
LEMMA PlaceIs ==
    ASSUME NEW N \in Nat, NEW I \in SUBSET (1..N), NEW i \in I
    PROVE  Place(I, Rank(I, i)) = i
  <1>1. \A j \in I : Rank(I, j) = Rank(I, i) => j = i
    BY RanksAre
  <1>2. QED
    BY <1>1 DEF Place

\* A ledger of N rows gets one more, which joins the rows at I.
Joins(N, log, then, I, J) ==
    I \in SUBSET (1..N) /\ J = I \cup {N + 1} /\ \A i \in 1..N : then[i] = log[i]

\* That row is the last of its set, and changes no other.
LEMMA TypesGrow ==
    ASSUME NEW N \in Nat, NEW I, NEW J, NEW log, NEW then, Joins(N, log, then, I, J)
    PROVE  /\ IsSeq(TypesOf(log, I)) /\ Len(TypesOf(log, I)) = Cardinality(I)
           /\ TypesOf(then, I) = TypesOf(log, I)
           /\ TypesOf(then, J) = Append(TypesOf(log, I), then[N + 1].type)
  <1> DEFINE n == Cardinality(I)
             S == {log[Place(I, k)].type : k \in 1..n} \cup {then[N + 1].type}
             s == TypesOf(log, I)
             e == then[N + 1].type
  <1> USE DEF Joins
  <1>1. n \in Nat /\ Cardinality(J) = n + 1 /\ J \in SUBSET (1..(N + 1)) /\ N + 1 \in Nat
    BY Places
  <1>2. s \in Seq(S) /\ Len(s) = n /\ \A k \in 1..n : s[k] = log[Place(I, k)].type
    BY <1>1 DEF TypesOf
  <1>3. ASSUME NEW k \in 1..n
        PROVE  Place(I, k) \in 1..N /\ Place(J, k) = Place(I, k)
    <2>1. PICK i \in I : Rank(I, i) = k
      BY RanksAre
    <2>2. Place(I, k) = i
      BY <2>1, PlaceIs
    <2>3. {j \in J : j <= i} = {j \in I : j <= i}
      OBVIOUS
    <2>4. Rank(J, i) = k /\ i \in J
      BY <2>1, <2>3 DEF Rank
    <2>5. Place(J, k) = i
      BY <1>1, <2>4, PlaceIs
    <2>6. QED
      BY <2>2, <2>5
  <1>4. Place(J, n + 1) = N + 1
    <2>1. {j \in J : j <= N + 1} = J
      <3>1. ASSUME NEW j \in J PROVE j <= N + 1
        BY <1>1
      <3>2. QED
        BY <3>1, Zenon
    <2>2. Rank(J, N + 1) = n + 1 /\ N + 1 \in J
      BY <1>1, <2>1 DEF Rank
    <2>3. QED
      BY <1>1, <2>2, PlaceIs
  <1>5. TypesOf(then, I) = s
    BY <1>3 DEF TypesOf
  <1>6. TypesOf(then, J) = Append(s, e)
    <2>1. /\ Append(s, e) \in Seq(S) /\ Len(Append(s, e)) = n + 1
          /\ \A k \in 1..n : Append(s, e)[k] = s[k]
          /\ Append(s, e)[n + 1] = e
      BY <1>1, <1>2, AppendProperties
    <2>2. ASSUME NEW k \in 1..(n + 1)
          PROVE  then[Place(J, k)].type = Append(s, e)[k]
      <3>1. CASE k = n + 1
        BY <1>4, <2>1, <3>1
      <3>2. CASE k \in 1..n
        <4>1. then[Place(J, k)] = log[Place(I, k)]
          BY <1>3, <3>2
        <4>2. Append(s, e)[k] = s[k] /\ s[k] = log[Place(I, k)].type
          BY <1>2, <2>1, <3>2
        <4>3. QED
          BY <4>1, <4>2
      <3>3. k = n + 1 \/ k \in 1..n
        BY <1>1
      <3>4. QED
        BY <3>1, <3>2, <3>3, Zenon
    <2>3. TypesOf(then, J) = [k \in 1..(n + 1) |-> Append(s, e)[k]]
      BY <1>1, <2>2 DEF TypesOf
    <2>4. Append(s, e) = [k \in 1..(n + 1) |-> Append(s, e)[k]]
      BY <2>1, LenProperties
    <2>5. QED
      BY <2>3, <2>4
  <1>7. IsSeq(s)
    BY <1>2 DEF IsSeq
  <1>8. QED
    BY <1>2, <1>5, <1>6, <1>7

\* So the types of rows already there stay, and there are none of no rows.
LEMMA TypesStay ==
    ASSUME NEW N \in Nat, NEW I \in SUBSET (1..N), NEW log, NEW then,
           \A i \in 1..N : then[i] = log[i]
    PROVE  IsSeq(TypesOf(log, I)) /\ TypesOf(then, I) = TypesOf(log, I)
  <1> DEFINE S == {log[Place(I, k)].type : k \in 1..Cardinality(I)}
  <1>1. Cardinality(I) \in Nat
    BY Places
  <1>2. TypesOf(log, I) \in Seq(S)
    BY <1>1 DEF TypesOf
  <1>3. ASSUME NEW k \in 1..Cardinality(I) PROVE Place(I, k) \in 1..N
    <2>1. PICK i \in I : Rank(I, i) = k
      BY RanksAre
    <2>2. QED
      BY <2>1, PlaceIs
  <1>4. QED
    BY <1>2, <1>3 DEF TypesOf, IsSeq

\* No rows have no types.
LEMMA NoTypes == ASSUME NEW log PROVE TypesOf(log, {}) = <<>>
  <1>1. Cardinality({}) = 0
    BY FS_EmptySet
  <1>2. TypesOf(log, {}) \in Seq({}) /\ Len(TypesOf(log, {})) = 0
    BY <1>1 DEF TypesOf
  <1>3. QED
    BY <1>2, EmptySeq

-----------------------------------------------------------------------------
(* What a step means for a run. *)

\* A run ends, or there was none, and nothing is put on record.
Leaves ==
    /\ UNCHANGED <<rows, streamed>> /\ at' \notin Running
    /\ at' = "replying" => reply'.code = "INTERNAL_ERROR"

\* Every step begins a run, answers at once, drives a run, ends one, or is none of its
\* business.
LEMMA RunSteps ==
    ASSUME [RpcNext]_rvars
    PROVE  \/ UNCHANGED <<at, line, reply, events, last, told, rows, streamed>>
           \/ session_run /\ at' = "running"
           \/ Methods /\ at' = "replying"
           \/ \E type, data : Report(type, data)
           \/ Notify \/ Settle \/ ScopeRefused \/ Leaves
  <1>1. CASE Methods
    BY <1>1 DEF Methods, Refuse, version, session_start, session_run, event_tail,
       usage_summary, hitl_list, hitl_create, hitl_decide, OutOfScope, Answers, StoreRaises,
       Replies, AppendsAndAnswers
  <1>2. CASE RunRaises \/ Silent \/ Answer \/ AnswerRaises \/ EndOfInput \/ KernelDies
    BY <1>2 DEF RunRaises, Replies, Silent, Answer, Frees, AnswerRaises, EndOfInput,
       KernelDies, Ends, Leaves, Running
  <1>3. CASE Serves
    BY <1>1, <1>2, <1>3 DEF Serves
  <1>4. CASE Receive \/ ShellLeaves \/ (\E asks \in Calls : Send(asks))
             \/ (\E p \in Lines : Lapse(p)) \/ UNCHANGED rvars
    BY <1>4 DEF Receive, ShellLeaves, Send, Lapse, kernel, rvars
  <1>5. CASE Restart
    BY <1>5 DEF Restart, Leaves, Running
  <1>6. QED
    BY <1>2, <1>3, <1>4, <1>5 DEF RpcNext

\* A run that begins is one of a session on record, and has put that on record.
LEMMA Begun ==
    ASSUME session_run, at' = "running"
    PROVE  /\ at = "reading" /\ line' = Head(stdin) /\ stdin # <<>>
           /\ events' = <<>> /\ told' = <<>> /\ UNCHANGED <<reply, last, streamed>>
           /\ line'.call.method = "seasi.session.run"
           /\ \E k \in 1..Len(rows) : /\ rows[k].type = "session.created"
                                      /\ rows[k].about = line'.call.session
           /\ \E r : /\ rows' = Append(rows, r) /\ r.type = "session.state.running"
                     /\ r.about = line'.call.session /\ r.line = line'.n
  <1>1. /\ Takes("seasi.session.run") /\ HasSession(Asked.session, Scope)
        /\ rows' = Append(rows, Row("session.state.running", Scope, Asked.session, "none"))
        /\ events' = <<>> /\ told' = <<>> /\ UNCHANGED reply
    BY DEF session_run, OutOfScope, Answers, StoreRaises, Replies
  <1>2. line' = Head(stdin) /\ Asked = line'.call
    BY <1>1 DEF Takes, Asked
  <1>3. \E k \in 1..Len(rows) : /\ rows[k].type = "session.created"
                                /\ rows[k].about = line'.call.session
    BY <1>1, <1>2 DEF HasSession, Abouts, EventsOfType
  <1>4. QED
    BY <1>1, <1>2, <1>3 DEF Takes, Row

\* A method that answers at once has recorded a pause, a decision, a new session or
\* nothing; a summary counts the turns on record.
LEMMA Replied ==
    ASSUME Methods, at' = "replying"
    PROVE  /\ at = "reading" /\ line' = Head(stdin) /\ stdin # <<>> /\ streamed' = streamed
           /\ \/ rows' = rows
              \/ \E r : /\ rows' = Append(rows, r)
                        /\ \/ r.type \in PauseTypes
                           \/ r.type = "session.created" /\ r.about = line'.n
           /\ line'.call.method = "seasi.session.run" => reply'.code # "ok"
           /\ line'.call.method = "seasi.usage.summary" /\ reply'.code = "ok" =>
                 /\ rows' = rows
                 /\ reply'.body = [s \in Abouts("session.created", Canonical[line'.call.tenant])
                                     |-> Cardinality(TurnsOf(s, Canonical[line'.call.tenant]))]
  <1>1. /\ at = "reading" /\ line' = Head(stdin) /\ stdin # <<>> /\ streamed' = streamed
        /\ \E m : Takes(m)
    BY DEF Methods, Refuse, version, session_start, session_run, event_tail, usage_summary,
       hitl_list, hitl_create, hitl_decide, Takes
  <1>2. CASE session_start
    <2>1. line'.call.method = "seasi.session.start"
      BY <1>2 DEF session_start, Takes
    <2>2. rows' = rows \/ rows' = Append(rows, Row("session.created", Scope, line'.n, "none"))
      BY <1>2 DEF session_start, OutOfScope, Answers, StoreRaises, AppendsAndAnswers
    <2>3. QED
      BY <1>1, <2>1, <2>2 DEF Row
  <1>3. CASE hitl_create
    <2>1. line'.call.method = "seasi.hitl.create"
      BY <1>3 DEF hitl_create, Takes
    <2>2. rows' = rows \/ rows' = Append(rows, Row("hitl.pause.created", Scope, line'.n, "none"))
      BY <1>3 DEF hitl_create, OutOfScope, Answers, StoreRaises, AppendsAndAnswers
    <2>3. QED
      BY <1>1, <2>1, <2>2 DEF Row, PauseTypes
  <1>4. CASE hitl_decide
    <2>1. line'.call.method = "seasi.hitl.decide"
      BY <1>4 DEF hitl_decide, Takes
    <2>2. \/ rows' = rows
          \/ \E type, t, p, d : type \in PauseTypes /\ rows' = Append(rows, Row(type, t, p, d))
      BY <1>4 DEF hitl_decide, Answers, StoreRaises, AppendsAndAnswers, PauseTypes
    <2>3. rows' = rows \/ \E r : rows' = Append(rows, r) /\ r.type \in PauseTypes
      <3>1. CASE rows' = rows
        BY <3>1
      <3>2. ASSUME NEW type \in PauseTypes, NEW u, NEW p, NEW d,
                   rows' = Append(rows, Row(type, u, p, d))
            PROVE  \E r : rows' = Append(rows, r) /\ r.type \in PauseTypes
        <4>1. Row(type, u, p, d).type = type
          BY DEF Row
        <4>2. QED
          BY <3>2, <4>1
      <3>3. QED
        BY <2>2, <3>1, <3>2
    <2>4. QED
      BY <1>1, <2>1, <2>3
  <1>5. CASE session_run
    <2>1. rows' = rows /\ reply'.code # "ok" /\ line'.call.method = "seasi.session.run"
      BY <1>5 DEF session_run, Takes, OutOfScope, Answers, StoreRaises, Replies
    <2>2. QED
      BY <1>1, <2>1
  <1>6. CASE usage_summary
    <2>1. rows' = rows /\ Asked = line'.call /\ line'.call.method = "seasi.usage.summary"
      BY <1>6 DEF usage_summary, Takes, OutOfScope, Answers, Asked
    <2>2. reply'.code = "ok" =>
             reply'.body = [s \in Abouts("session.created", Scope)
                              |-> Cardinality(TurnsOf(s, Scope))]
      BY <1>6 DEF usage_summary, OutOfScope, Answers, Replies
    <2>3. QED
      BY <1>1, <2>1, <2>2 DEF Scope, Asked
  <1>7. CASE Refuse \/ version \/ event_tail \/ hitl_list
    <2>1. rows' = rows
      BY <1>7 DEF Refuse, version, event_tail, hitl_list, OutOfScope, Answers
    <2>2. line'.call.method \notin {"seasi.session.run", "seasi.usage.summary"}
      BY <1>7 DEF Refuse, Refusal, version, event_tail, hitl_list, Takes
    <2>3. QED
      BY <1>1, <2>1, <2>2
  <1>8. QED
    BY <1>2, <1>3, <1>4, <1>5, <1>6, <1>7 DEF Methods

\* What an append does to the ledger.
LEMMA OneMore ==
    ASSUME Sequential, NEW r, rows' = Append(rows, r)
    PROVE  /\ Len(rows) \in Nat /\ Len(rows') = Len(rows) + 1 /\ rows'[Len(rows) + 1] = r
           /\ \A k \in 1..Len(rows) : rows'[k] = rows[k]
           /\ \A k \in 1..Len(rows') : k \in 1..Len(rows) \/ k = Len(rows) + 1
           /\ \A k \in 1..Len(rows) : k \in 1..Len(rows')
           /\ Len(rows) + 1 \in 1..Len(rows')
  <1>1. /\ Len(rows) \in Nat /\ Len(rows') = Len(rows) + 1 /\ rows'[Len(rows) + 1] = r
        /\ \A k \in 1..Len(rows) : rows'[k] = rows[k]
    BY Appending DEF Sequential
  <1>2. QED
    BY <1>1

-----------------------------------------------------------------------------
(* The accounts of a run. *)

\* What is on record of a run is what it has in hand, and what was streamed is all of that
\* but the event about to be.
Accounts ==
    /\ at \in Running =>
          /\ RunRecord = events
          /\ at = "notifying" => IsSeq(told) /\ events = Append(told, events[Len(events)])
          /\ at # "notifying" => told = events
    /\ at = "replying" /\ line.call.method = "seasi.session.run" /\ reply.code = "ok" =>
          reply.body = RunRecord /\ told = RunRecord

\* A report is put on record behind those of its run.
LEMMA ReportAccounts ==
    ASSUME Numbered, Accounts, NEW type, NEW data, Report(type, data)
    PROVE  Accounts'
  <1>1. PICK r : r = [type |-> type, tenant |-> Canonical[line.call.tenant],
                      about |-> Session, data |-> data, line |-> line.n]
    OBVIOUS
  <1>2. /\ at = "running" /\ at' = "notifying" /\ line' = line /\ told' = told
        /\ events' = Append(events, type) /\ rows' = Append(rows, r)
        /\ r.type = type /\ r.line = line.n /\ type \in ReportTypes
    BY <1>1 DEF Report, Records, Keeps, ReportTypes
  <1>3. PICK I, J : I = OwnReports /\ J = OwnReports'
    OBVIOUS
  <1>4. /\ Len(rows) \in Nat /\ Len(rows') = Len(rows) + 1 /\ rows'[Len(rows) + 1] = r
        /\ \A k \in 1..Len(rows) : rows'[k] = rows[k]
        /\ \A k \in 1..Len(rows') : k \in 1..Len(rows) \/ k = Len(rows) + 1
        /\ \A k \in 1..Len(rows) : k \in 1..Len(rows')
        /\ Len(rows) + 1 \in 1..Len(rows')
    BY <1>2, OneMore DEF Numbered
  <1>5. I \in SUBSET (1..Len(rows)) /\ J = I \cup {Len(rows) + 1}
    BY <1>2, <1>3, <1>4 DEF OwnReports
  <1>6. TypesOf(rows', J) = Append(TypesOf(rows, I), type)
    <2>1. Joins(Len(rows), rows, rows', I, J)
      BY <1>4, <1>5 DEF Joins
    <2>2. TypesOf(rows', J) = Append(TypesOf(rows, I), rows'[Len(rows) + 1].type)
      BY <1>4, <2>1, TypesGrow
    <2>3. QED
      BY <1>2, <1>4, <2>2
  <1>7. TypesOf(rows, I) = events /\ told = events /\ IsSeq(events)
    BY <1>2, <1>3 DEF Accounts, RunRecord, Running, Numbered, Sequential
  <1>8. RunRecord' = events'
    BY <1>2, <1>3, <1>6, <1>7 DEF RunRecord
  <1>9. IsSeq(told)' /\ events' = Append(told', events'[Len(events')])
    BY <1>2, <1>7, Appending DEF IsSeq
  <1>10. QED
    BY <1>2, <1>8, <1>9 DEF Accounts

\* The state of a session is no report of its run.
LEMMA SettleAccounts ==
    ASSUME Numbered, Accounts, Settle
    PROVE  Accounts'
  <1>1. PICK r : r = [type |-> IF events[Len(events)] = "harness.completed"
                               THEN "session.state.completed" ELSE "session.state.failed",
                      tenant |-> Canonical[line.call.tenant],
                      about |-> Session, data |-> "none", line |-> line.n]
    OBVIOUS
  <1>2. /\ at = "settling" /\ at' = "replying" /\ line' = line /\ told' = told
        /\ reply'.body = events /\ rows' = Append(rows, r)
        /\ r.type \notin ReportTypes
    BY <1>1 DEF Settle, Records, Replies, Keeps, ReportTypes, Turns
  <1>3. PICK I : I = OwnReports
    OBVIOUS
  <1>4. /\ Len(rows) \in Nat /\ Len(rows') = Len(rows) + 1 /\ rows'[Len(rows) + 1] = r
        /\ \A k \in 1..Len(rows) : rows'[k] = rows[k]
        /\ \A k \in 1..Len(rows') : k \in 1..Len(rows) \/ k = Len(rows) + 1
        /\ \A k \in 1..Len(rows) : k \in 1..Len(rows')
    BY <1>2, OneMore DEF Numbered
  <1>5. I \in SUBSET (1..Len(rows)) /\ I = OwnReports'
    BY <1>2, <1>3, <1>4 DEF OwnReports
  <1>6. TypesOf(rows', I) = TypesOf(rows, I)
    BY <1>4, <1>5, TypesStay
  <1>7. TypesOf(rows, I) = events /\ told = events
    BY <1>2, <1>3 DEF Accounts, RunRecord, Running
  <1>8. reply'.body = RunRecord' /\ told' = RunRecord'
    BY <1>2, <1>5, <1>6, <1>7 DEF RunRecord
  <1>9. QED
    BY <1>2, <1>8 DEF Accounts, Running

\* Every step keeps the accounts.
LEMMA AccountsStep ==
    ASSUME Numbered, Accounts, [RpcNext]_rvars
    PROVE  Accounts'
  <1>1. CASE UNCHANGED <<at, line, reply, events, last, told, rows, streamed>>
    BY <1>1 DEF Accounts, RunRecord, OwnReports, TypesOf
  <1>2. CASE session_run /\ at' = "running"
    <2>1. /\ line' = Head(stdin) /\ stdin # <<>> /\ events' = <<>> /\ told' = <<>>
      BY <1>2, Begun
    <2>2. PICK r : /\ rows' = Append(rows, r) /\ r.type = "session.state.running"
                   /\ r.about = line'.call.session /\ r.line = line'.n
      BY <1>2, Begun
    <2>3. /\ rows'[Len(rows) + 1] = r
          /\ \A k \in 1..Len(rows) : rows'[k] = rows[k]
          /\ \A k \in 1..Len(rows') : k \in 1..Len(rows) \/ k = Len(rows) + 1
      BY <2>2, OneMore DEF Numbered
    <2>4. \A k \in 1..Len(rows) : rows[k].line # line'.n
      BY <2>1, Taking DEF Numbered, Sequential, Queued, AllPast, Past
    <2>5. OwnReports' = {}
      BY <2>2, <2>3, <2>4 DEF OwnReports, ReportTypes, Turns
    <2>6. RunRecord' = <<>>
      BY <2>5, NoTypes DEF RunRecord
    <2>7. QED
      BY <1>2, <2>1, <2>6 DEF Accounts
  <1>3. CASE Methods /\ at' = "replying"
    BY <1>3, Replied DEF Accounts, Running
  <1>4. ASSUME NEW type, NEW data, Report(type, data) PROVE Accounts'
    BY <1>4, ReportAccounts
  <1>5. CASE Notify
    <2>1. /\ at = "notifying" /\ at' \in {"running", "settling"} /\ line' = line
          /\ events' = events /\ rows' = rows /\ told' = Append(told, events[Len(events)])
      BY <1>5 DEF Notify
    <2>2. RunRecord' = RunRecord
      BY <2>1 DEF RunRecord, OwnReports
    <2>3. QED
      BY <2>1, <2>2 DEF Accounts, Running
  <1>6. CASE Settle
    BY <1>6, SettleAccounts
  <1>7. CASE ScopeRefused \/ Leaves
    <2>1. at' \notin Running /\ (at' = "replying" => reply'.code # "ok")
      BY <1>7 DEF ScopeRefused, Replies, Leaves, Running
    <2>2. QED
      BY <2>1 DEF Accounts
  <1>8. QED
    BY <1>1, <1>2, <1>3, <1>4, <1>5, <1>6, <1>7, RunSteps

\* All but the last of a sequence it was appended to.
LEMMA AllButLast ==
    ASSUME NEW s, IsSeq(s), NEW e
    PROVE  SubSeq(Append(s, e), 1, Len(Append(s, e)) - 1) = s
  <1>1. PICK S : s \in Seq(S)
    BY DEF IsSeq
  <1>2. PICK t : t = Append(s, e)
    OBVIOUS
  <1>3. Len(s) \in Nat /\ Len(t) = Len(s) + 1 /\ \A i \in 1..Len(s) : t[i] = s[i] /\ s[i] \in S
    BY <1>1, <1>2, Appending, LenProperties
  <1>4. Len(t) - 1 = Len(s) /\ \A i \in 1..Len(s) : t[i] \in S
    BY <1>3
  <1>5. PICK u : u = SubSeq(t, 1, Len(s))
    OBVIOUS
  <1>6. u \in Seq(S) /\ Len(u) = Len(s) /\ \A i \in 1..Len(s) : u[i] = t[i]
    BY <1>3, <1>4, <1>5, SubSeqProperties
  <1>7. u = s
    BY <1>1, <1>3, <1>6, SeqEqual
  <1>8. QED
    BY <1>2, <1>4, <1>5, <1>7

\* The record of a run, the list run() returns and the stream agree, and the stream is
\* never ahead of the record and at most one event behind, whoever dies (sessions.py, run;
\* server.py, notify).
THEOREM AccountsAlwaysAgree == RpcSpec => []AccountsAgree
  <1>1. RpcInit => Accounts
    BY DEF RpcInit, Accounts, Running
  <1>2. TenantInv /\ Accounts /\ [RpcNext]_rvars => Accounts'
    BY AccountsStep DEF TenantInv
  <1>3. Accounts => AccountsAgree
    <2> SUFFICES ASSUME Accounts, at = "notifying"
                 PROVE  told = SubSeq(events, 1, Len(events) - 1)
      BY DEF Accounts, AccountsAgree
    <2>1. IsSeq(told) /\ events = Append(told, events[Len(events)])
      BY DEF Accounts, Running
    <2>2. PICK e : e = events[Len(events)]
      OBVIOUS
    <2>3. events = Append(told, e)
      BY <2>1, <2>2
    <2>4. QED
      BY <2>1, <2>3, AllButLast
  <1>4. QED
    BY <1>1, <1>2, <1>3, TenantInvariance, PTL DEF RpcSpec

-----------------------------------------------------------------------------
(* What was streamed, and what a summary counts. *)

TurnRows(s) == {i \in 1..Len(rows) : rows[i].type \in Turns /\ rows[i].about = s}

\* A turn on record that is about to be streamed, and a run that may still be closed.
Held(s)   == IF at = "notifying" /\ InRun(s) /\ events[Len(events)] \in Turns THEN 1 ELSE 0
Opened(s) == IF InRun(s) THEN 1 ELSE 0

\* The turns on record are those streamed, the one held, and at most one of each cut run.
Covered(s) ==
    /\ streamed[s] \in Nat
    /\ streamed[s] + Held(s) <= Cardinality(TurnRows(s))
    /\ Cardinality(TurnRows(s)) <= streamed[s] + Held(s) + (CutRuns(s) - Opened(s))

\* Everything on record is about a line the bound allows.
Within ==
    /\ sent <= MaxLines /\ DOMAIN streamed = Lines
    /\ \A k \in 1..Len(rows) : rows[k].about \in Lines

Summed ==
    at = "replying" /\ line.call.method = "seasi.usage.summary" /\ reply.code = "ok" =>
        \A s \in DOMAIN reply.body :
            /\ s \in Lines
            /\ reply.body[s] =
                  Cardinality(TurnRows(s) \ Overlooked(s, Canonical[line.call.tenant]))

UsageInv == Within /\ Summed /\ \A s \in Lines : Covered(s)

\* How an append counts.
LEMMA Counting ==
    ASSUME Sequential, NEW r, rows' = Append(rows, r), NEW s
    PROVE  /\ Cardinality(TurnRows(s)) \in Nat
           /\ Cardinality(TurnRows(s))' = Cardinality(TurnRows(s))
                 + (IF r.type \in Turns /\ r.about = s THEN 1 ELSE 0)
           /\ \A type : /\ Cardinality(Of(type, s)) \in Nat
                        /\ Cardinality(Of(type, s))' = Cardinality(Of(type, s))
                              + (IF r.type = type /\ r.about = s THEN 1 ELSE 0)
  <1>1. /\ Len(rows) \in Nat /\ Len(rows') = Len(rows) + 1 /\ rows'[Len(rows) + 1] = r
        /\ \A k \in 1..Len(rows) : rows'[k] = rows[k]
        /\ \A k \in 1..Len(rows') : k \in 1..Len(rows) \/ k = Len(rows) + 1
        /\ \A k \in 1..Len(rows) : k \in 1..Len(rows')
        /\ Len(rows) + 1 \in 1..Len(rows')
    BY OneMore
  <1>2. ASSUME NEW I \in SUBSET (1..Len(rows)), NEW J, NEW b \in BOOLEAN,
               J = IF b THEN I \cup {Len(rows) + 1} ELSE I
        PROVE  /\ Cardinality(I) \in Nat
               /\ Cardinality(J) = Cardinality(I) + (IF b THEN 1 ELSE 0)
    <2>1. /\ Cardinality(I) \in Nat
          /\ Cardinality(I \cup {Len(rows) + 1}) = Cardinality(I) + 1
      BY <1>1, Places
    <2>2. CASE b
      BY <1>2, <2>1, <2>2
    <2>3. CASE ~b
      BY <1>2, <2>1, <2>3
    <2>4. QED
      BY <2>2, <2>3
  <1>3. /\ TurnRows(s) \in SUBSET (1..Len(rows))
        /\ TurnRows(s)' = IF r.type \in Turns /\ r.about = s
                          THEN TurnRows(s) \cup {Len(rows) + 1} ELSE TurnRows(s)
    BY <1>1 DEF TurnRows
  <1>4. ASSUME NEW type
        PROVE  /\ Of(type, s) \in SUBSET (1..Len(rows))
               /\ Of(type, s)' = IF r.type = type /\ r.about = s
                                 THEN Of(type, s) \cup {Len(rows) + 1} ELSE Of(type, s)
    BY <1>1 DEF Of
  <1>5. PICK I, J, b : I = TurnRows(s) /\ J = TurnRows(s)' /\ b = (r.type \in Turns /\ r.about = s)
    OBVIOUS
  <1>6. /\ Cardinality(TurnRows(s)) \in Nat
        /\ Cardinality(TurnRows(s))' = Cardinality(TurnRows(s))
              + (IF r.type \in Turns /\ r.about = s THEN 1 ELSE 0)
    BY <1>2, <1>3, <1>5
  <1>7. ASSUME NEW type
        PROVE  /\ Cardinality(Of(type, s)) \in Nat
               /\ Cardinality(Of(type, s))' = Cardinality(Of(type, s))
                     + (IF r.type = type /\ r.about = s THEN 1 ELSE 0)
    <2>1. PICK K, L, c : K = Of(type, s) /\ L = Of(type, s)' /\ c = (r.type = type /\ r.about = s)
      OBVIOUS
    <2>2. QED
      BY <1>2, <1>4, <2>1
  <1>8. QED
    BY <1>6, <1>7

\* A run that opens may be cut; one that is closed was not.
LEMMA CutCounting ==
    ASSUME Sequential, NEW r, rows' = Append(rows, r), NEW s
    PROVE  /\ CutRuns(s) \in Int
           /\ r.about = s /\ r.type = "session.state.running" => CutRuns(s)' = CutRuns(s) + 1
           /\ r.about = s /\ r.type \in {"session.state.completed", "session.state.failed"}
                 => CutRuns(s)' = CutRuns(s) - 1
           /\ r.about # s \/ r.type \notin {"session.state.running", "session.state.completed",
                                            "session.state.failed"}
                 => CutRuns(s)' = CutRuns(s)
  <1>1. PICK run, ok, bad : /\ run = Cardinality(Of("session.state.running", s))
                            /\ ok = Cardinality(Of("session.state.completed", s))
                            /\ bad = Cardinality(Of("session.state.failed", s))
    OBVIOUS
  <1>2. PICK run2, ok2, bad2 : /\ run2 = Cardinality(Of("session.state.running", s))'
                               /\ ok2 = Cardinality(Of("session.state.completed", s))'
                               /\ bad2 = Cardinality(Of("session.state.failed", s))'
    OBVIOUS
  <1>3. /\ run \in Nat /\ ok \in Nat /\ bad \in Nat
        /\ run2 = run + (IF r.type = "session.state.running" /\ r.about = s THEN 1 ELSE 0)
        /\ ok2 = ok + (IF r.type = "session.state.completed" /\ r.about = s THEN 1 ELSE 0)
        /\ bad2 = bad + (IF r.type = "session.state.failed" /\ r.about = s THEN 1 ELSE 0)
    BY <1>1, <1>2, Counting
  <1>4. CutRuns(s) = run - ok - bad /\ CutRuns(s)' = run2 - ok2 - bad2
    BY <1>1, <1>2 DEF CutRuns
  <1>5. QED
    BY <1>3, <1>4

\* A step without an append counts nothing.
LEMMA CountsStay ==
    ASSUME rows' = rows, NEW s
    PROVE  Cardinality(TurnRows(s))' = Cardinality(TurnRows(s)) /\ CutRuns(s)' = CutRuns(s)
  BY DEF TurnRows, CutRuns, Of

\* The counts are numbers.
LEMMA CountsAre ==
    ASSUME Sequential, NEW s
    PROVE  /\ Cardinality(TurnRows(s)) \in Nat /\ CutRuns(s) \in Int
           /\ Held(s) \in 0..1 /\ Opened(s) \in 0..1 /\ Held(s) <= Opened(s)
  <1>1. Len(rows) \in Nat
    BY Appending DEF Sequential
  <1>2. /\ TurnRows(s) \in SUBSET (1..Len(rows))
        /\ \A type : Of(type, s) \in SUBSET (1..Len(rows))
    BY DEF TurnRows, Of
  <1>3. Cardinality(TurnRows(s)) \in Nat /\ \A type : Cardinality(Of(type, s)) \in Nat
    BY <1>1, <1>2, Places
  <1>4. CutRuns(s) \in Int
    BY <1>3 DEF CutRuns
  <1>5. QED
    BY <1>3, <1>4 DEF Held, Opened

\* A turn is put on record and held, and any other report is put on record.
LEMMA ReportCovers ==
    ASSUME Numbered, NEW s \in Lines, Covered(s), NEW type, NEW data, Report(type, data)
    PROVE  Covered(s)'
  <1>1. PICK r : r = [type |-> type, tenant |-> Canonical[line.call.tenant],
                      about |-> Session, data |-> data, line |-> line.n]
    OBVIOUS
  <1>2. /\ at = "running" /\ at' = "notifying" /\ line' = line /\ streamed' = streamed
        /\ events' = Append(events, type) /\ rows' = Append(rows, r)
        /\ r.type = type /\ r.about = Session /\ type \in ReportTypes
    BY <1>1 DEF Report, Records, Keeps, ReportTypes
  <1>3. events'[Len(events')] = type
    BY <1>2, Appending DEF Numbered, Sequential
  <1>4. /\ Opened(s)' = Opened(s) /\ Held(s) = 0
        /\ Held(s)' = IF Session = s /\ type \in Turns THEN 1 ELSE 0
    BY <1>2, <1>3 DEF Opened, Held, InRun, Running, Session
  <1>5. type \notin {"session.state.running", "session.state.completed", "session.state.failed"}
    BY <1>2 DEF ReportTypes, Turns
  <1>6. CutRuns(s)' = CutRuns(s)
    BY <1>2, <1>5, CutCounting DEF Numbered
  <1>7. Cardinality(TurnRows(s))' = Cardinality(TurnRows(s))
              + (IF Session = s /\ type \in Turns THEN 1 ELSE 0)
    BY <1>2, Counting DEF Numbered
  <1>8. Cardinality(TurnRows(s)) \in Nat /\ CutRuns(s) \in Int /\ Opened(s) \in 0..1
    BY CountsAre DEF Numbered
  <1>9. CASE Session = s /\ type \in Turns
    <2>1. /\ Held(s)' = 1 /\ Cardinality(TurnRows(s))' = Cardinality(TurnRows(s)) + 1
          /\ streamed'[s] = streamed[s]
      BY <1>2, <1>4, <1>7, <1>9
    <2>2. QED
      BY <1>4, <1>6, <1>8, <2>1 DEF Covered
  <1>10. CASE ~(Session = s /\ type \in Turns)
    BY <1>2, <1>4, <1>6, <1>7, <1>8, <1>10 DEF Covered
  <1>11. QED
    BY <1>9, <1>10

\* The turn that was held is streamed.
LEMMA NotifyCovers ==
    ASSUME Numbered, Within, NEW s \in Lines, Covered(s), Notify
    PROVE  Covered(s)'
  <1> DEFINE turn == events[Len(events)] \in Turns
  <1>1. /\ at = "notifying" /\ at' \in {"running", "settling"} /\ line' = line /\ rows' = rows
        /\ streamed' = [streamed EXCEPT ![Session] = IF turn THEN @ + 1 ELSE @]
    BY DEF Notify
  <1>2. /\ Opened(s)' = Opened(s) /\ Held(s)' = 0
        /\ Held(s) = IF Session = s /\ turn THEN 1 ELSE 0
    BY <1>1 DEF Opened, Held, InRun, Running, Session
  <1>3. streamed'[s] = IF Session = s /\ turn THEN streamed[s] + 1 ELSE streamed[s]
    BY <1>1 DEF Within
  <1>4. Cardinality(TurnRows(s))' = Cardinality(TurnRows(s)) /\ CutRuns(s)' = CutRuns(s)
    BY <1>1, CountsStay
  <1>5. Cardinality(TurnRows(s)) \in Nat /\ CutRuns(s) \in Int /\ Opened(s) \in 0..1
    BY CountsAre DEF Numbered
  <1>6. CASE Session = s /\ turn
    BY <1>2, <1>3, <1>4, <1>5, <1>6 DEF Covered
  <1>7. CASE ~(Session = s /\ turn)
    BY <1>2, <1>3, <1>4, <1>5, <1>7 DEF Covered
  <1>8. QED
    BY <1>6, <1>7

\* A run that is closed was not cut, and held nothing.
LEMMA SettleCovers ==
    ASSUME Numbered, NEW s \in Lines, Covered(s), Settle \/ ScopeRefused
    PROVE  Covered(s)'
  <1>1. PICK r : /\ rows' = Append(rows, r) /\ r.about = Session
                 /\ r.type \in {"session.state.completed", "session.state.failed"}
    BY DEF Settle, ScopeRefused, Records
  <1>2. /\ at \in {"running", "settling"} /\ at' = "replying" /\ line' = line
        /\ streamed' = streamed
    BY DEF Settle, ScopeRefused, Replies, Keeps
  <1>3. /\ Held(s) = 0 /\ Held(s)' = 0 /\ Opened(s)' = 0
        /\ Opened(s) = IF Session = s THEN 1 ELSE 0
    BY <1>2 DEF Opened, Held, InRun, Running, Session
  <1>4. /\ Session = s => CutRuns(s)' = CutRuns(s) - 1
        /\ Session # s => CutRuns(s)' = CutRuns(s)
    BY <1>1, CutCounting DEF Numbered
  <1>5. r.type \notin Turns
    BY <1>1 DEF Turns
  <1>6. Cardinality(TurnRows(s))' = Cardinality(TurnRows(s))
    <2>1. Cardinality(TurnRows(s)) \in Nat
      BY CountsAre DEF Numbered
    <2>2. QED
      BY <1>1, <1>5, <2>1, Counting DEF Numbered
  <1>7. Cardinality(TurnRows(s)) \in Nat /\ CutRuns(s) \in Int
    BY CountsAre DEF Numbered
  <1>8. QED
    BY <1>2, <1>3, <1>4, <1>6, <1>7 DEF Covered

\* Every step keeps the turns of a session covered.
LEMMA CoveredStep ==
    ASSUME Numbered, Within, NEW s \in Lines, Covered(s), [RpcNext]_rvars
    PROVE  Covered(s)'
  <1>0. /\ Cardinality(TurnRows(s)) \in Nat /\ CutRuns(s) \in Int
        /\ Held(s) \in 0..1 /\ Opened(s) \in 0..1 /\ Held(s) <= Opened(s)
    BY CountsAre DEF Numbered
  <1>1. CASE UNCHANGED <<at, line, reply, events, last, told, rows, streamed>>
    <2>1. Held(s)' = Held(s) /\ Opened(s)' = Opened(s)
      BY <1>1 DEF Held, Opened, InRun
    <2>2. QED
      BY <1>1, <2>1, CountsStay DEF Covered
  <1>2. CASE session_run /\ at' = "running"
    <2>1. at = "reading" /\ streamed' = streamed
      BY <1>2, Begun
    <2>2. PICK r : /\ rows' = Append(rows, r) /\ r.type = "session.state.running"
                   /\ r.about = line'.call.session
      BY <1>2, Begun
    <2>3. /\ Held(s) = 0 /\ Opened(s) = 0 /\ Held(s)' = 0
          /\ Opened(s)' = IF r.about = s THEN 1 ELSE 0
      BY <1>2, <2>1, <2>2 DEF Held, Opened, InRun, Running
    <2>4. /\ r.about = s => CutRuns(s)' = CutRuns(s) + 1
          /\ r.about # s => CutRuns(s)' = CutRuns(s)
      BY <2>2, CutCounting DEF Numbered
    <2>5. Cardinality(TurnRows(s))' = Cardinality(TurnRows(s))
      <3>1. r.type \notin Turns
        BY <2>2 DEF Turns
      <3>2. QED
        BY <1>0, <2>2, <3>1, Counting DEF Numbered
    <2>6. QED
      BY <1>0, <2>1, <2>3, <2>4, <2>5 DEF Covered
  <1>3. CASE Methods /\ at' = "replying"
    <2>1. /\ at = "reading" /\ streamed' = streamed
          /\ \/ rows' = rows
             \/ \E r : rows' = Append(rows, r) /\ r.type \in PauseTypes \cup {"session.created"}
      BY <1>3, Replied
    <2>2. Held(s) = 0 /\ Opened(s) = 0 /\ Held(s)' = 0 /\ Opened(s)' = 0
      BY <1>3, <2>1 DEF Held, Opened, InRun, Running
    <2>3. /\ Cardinality(TurnRows(s))' = Cardinality(TurnRows(s))
          /\ CutRuns(s)' = CutRuns(s)
      <3>1. CASE rows' = rows
        BY <3>1, CountsStay
      <3>2. CASE \E r : rows' = Append(rows, r) /\ r.type \in PauseTypes \cup {"session.created"}
        <4>1. PICK r : rows' = Append(rows, r) /\ r.type \in PauseTypes \cup {"session.created"}
          BY <3>2
        <4>2. r.type \notin Turns \cup {"session.state.running", "session.state.completed",
                                        "session.state.failed"}
          BY <4>1 DEF Turns, PauseTypes
        <4>3. CutRuns(s)' = CutRuns(s)
          BY <4>1, <4>2, CutCounting DEF Numbered
        <4>4. QED
          BY <1>0, <4>1, <4>2, <4>3, Counting DEF Numbered
      <3>3. QED
        BY <2>1, <3>1, <3>2
    <2>4. QED
      BY <1>0, <2>1, <2>2, <2>3 DEF Covered
  <1>4. ASSUME NEW type, NEW data, Report(type, data) PROVE Covered(s)'
    BY <1>4, ReportCovers
  <1>5. CASE Notify
    BY <1>5, NotifyCovers
  <1>6. CASE Settle \/ ScopeRefused
    BY <1>6, SettleCovers
  <1>7. CASE Leaves
    <2>1. Held(s)' = 0 /\ Opened(s)' = 0
      BY <1>7 DEF Leaves, Held, Opened, InRun, Running
    <2>2. /\ streamed' = streamed
          /\ Cardinality(TurnRows(s))' = Cardinality(TurnRows(s)) /\ CutRuns(s)' = CutRuns(s)
      BY <1>7, CountsStay DEF Leaves
    <2>3. QED
      BY <1>0, <2>1, <2>2 DEF Covered
  <1>8. QED
    BY <1>1, <1>2, <1>3, <1>4, <1>5, <1>6, <1>7, RunSteps

\* No line is written beyond the bound, and no row is about another line.
LEMMA WithinStep ==
    ASSUME RpcAssumption, Numbered, RunsOwn, Within, [RpcNext]_rvars
    PROVE  Within'
  <1>1. sent' = sent \/ (sent < MaxLines /\ sent' = sent + 1)
    <2>1. ASSUME NEW m, Takes(m) PROVE sent' = sent
      BY <2>1 DEF Takes
    <2>2. CASE Methods
      BY <2>1, <2>2 DEF Methods, Refuse, version, session_start, session_run, event_tail,
                        usage_summary, hitl_list, hitl_create, hitl_decide
    <2>3. CASE Serves /\ ~Methods
      BY <2>3 DEF Serves, Report, Notify, Settle, ScopeRefused, RunRaises, Silent, Answer,
                  AnswerRaises, EndOfInput, Ends, Keeps, Frees
    <2>4. CASE ~Serves
      BY <2>4 DEF RpcNext, Send, Receive, ShellLeaves, KernelDies, Ends, Restart, Lapse, rvars
    <2>5. QED
      BY <2>2, <2>3, <2>4
  <1>2. sent' <= MaxLines
    BY <1>1 DEF Within, RpcAssumption, Numbered, Queued
  <1>3. DOMAIN streamed' = Lines
    <2>1. streamed' = streamed \/ \E f : streamed' = [streamed EXCEPT ![Session] = f]
      BY RunSteps, Begun, Replied DEF Report, Notify, Settle, ScopeRefused, Leaves
    <2>2. QED
      BY <2>1 DEF Within
  <1>4. \A k \in 1..Len(rows') : rows'[k].about \in Lines
    <2>1. RowsStep
      BY Shape
    <2>2. CASE rows' = rows
      BY <2>2 DEF Within
    <2>3. CASE \E r : rows' = Append(rows, r) /\ OfLine(r)
      <3>1. PICK r : rows' = Append(rows, r) /\ OfLine(r)
        BY <2>3
      <3>2. stdin # <<>> /\ r.about = Head(stdin).n => r.about \in Lines
        BY Taking DEF Numbered, Sequential, Queued, Within, RpcAssumption, Lines
      <3>3. r.about \in Lines
        BY <3>1, <3>2 DEF OfLine, Within
      <3>4. /\ rows'[Len(rows) + 1] = r
            /\ \A k \in 1..Len(rows) : rows'[k] = rows[k]
            /\ \A k \in 1..Len(rows') : k \in 1..Len(rows) \/ k = Len(rows) + 1
        BY <3>1, OneMore DEF Numbered
      <3>5. QED
        BY <3>3, <3>4 DEF Within
    <2>4. QED
      BY <2>1, <2>2, <2>3 DEF RowsStep
  <1>5. Lines' = Lines
    BY DEF Lines
  <1>6. QED
    BY <1>2, <1>3, <1>4, <1>5 DEF Within

\* A summary that is about to be answered counts the turns on record, but those it
\* overlooks.
LEMMA SummedStep ==
    ASSUME Numbered, RunsOwn, Within, Summed, [RpcNext]_rvars
    PROVE  Summed'
  <1>1. CASE UNCHANGED <<at, line, reply, events, last, told, rows, streamed>>
    <2>1. /\ at' = at /\ line' = line /\ reply' = reply
          /\ \A s, tenant : (TurnRows(s) \ Overlooked(s, tenant))'
                             = TurnRows(s) \ Overlooked(s, tenant)
      BY <1>1 DEF TurnRows, Overlooked, Summarised, Newest
    <2>2. \A s : (TurnRows(s) \ Overlooked(s, Canonical[line.call.tenant]))'
                    = TurnRows(s) \ Overlooked(s, Canonical[line.call.tenant])
      <3> TAKE s
      <3>1. (TurnRows(s) \ Overlooked(s, Canonical[line.call.tenant]))'
              = TurnRows(s) \ Overlooked(s, Canonical[line'.call.tenant])
        BY <1>1 DEF TurnRows, Overlooked, Summarised, Newest
      <3>2. QED
        BY <2>1, <3>1
    <2>3. QED
      BY <2>1, <2>2 DEF Summed
  <1>2. CASE Methods /\ at' = "replying"
    <2> SUFFICES ASSUME line'.call.method = "seasi.usage.summary", reply'.code = "ok",
                        NEW s \in DOMAIN reply'.body
                 PROVE  /\ s \in Lines
                        /\ reply'.body[s] = Cardinality(
                              (TurnRows(s) \ Overlooked(s, Canonical[line.call.tenant]))')
      BY DEF Summed
    <2>1. PICK t : t = Canonical[line'.call.tenant]
      OBVIOUS
    <2>2. /\ rows' = rows
          /\ reply'.body = [u \in Abouts("session.created", t) |-> Cardinality(TurnsOf(u, t))]
      BY <1>2, <2>1, Replied
    <2>3. PICK k \in 1..Len(rows) : rows[k].about = s /\ rows[k].tenant = t
      BY <2>2 DEF Abouts, EventsOfType
    <2>4. TurnsOf(s, t) = TurnRows(s) \ Overlooked(s, t)
      BY DEF TurnsOf, TurnRows, Overlooked, Summarised, Newest
    <2>5. (TurnRows(s) \ Overlooked(s, Canonical[line.call.tenant]))'
             = TurnRows(s) \ Overlooked(s, t)
      BY <2>1, <2>2 DEF TurnRows, Overlooked, Summarised, Newest
    <2>6. s \in Lines
      BY <2>3 DEF Within
    <2>7. QED
      BY <2>2, <2>4, <2>5, <2>6
  <1>3. CASE Settle
    <2>1. line' = line /\ line.call.method = "seasi.session.run"
      BY <1>3 DEF Settle, Keeps, RunsOwn, Running
    <2>2. QED
      BY <2>1 DEF Summed
  <1>4. CASE at' # "replying" \/ reply'.code = "INTERNAL_ERROR"
    BY <1>4 DEF Summed
  <1>5. (\E type, data : Report(type, data)) \/ Notify \/ ScopeRefused \/ Leaves
            \/ (session_run /\ at' = "running")
        => at' # "replying" \/ reply'.code = "INTERNAL_ERROR"
    BY DEF Report, Notify, ScopeRefused, Replies, Leaves
  <1>6. QED
    BY <1>1, <1>2, <1>3, <1>4, <1>5, RunSteps

\* Where no row is about a run none was cut.
LEMMA CutsNone ==
    ASSUME NEW s, TurnRows(s) = {}, Of("session.state.running", s) = {},
           Of("session.state.completed", s) = {}, Of("session.state.failed", s) = {}
    PROVE  Cardinality(TurnRows(s)) = 0 /\ CutRuns(s) = 0
  <1>1. Cardinality({}) = 0
    BY FS_EmptySet
  <1>2. CutRuns(s) = Cardinality({}) - Cardinality({}) - Cardinality({})
    BY DEF CutRuns
  <1>3. QED
    BY <1>1, <1>2

\* Nothing was streamed before the first step, and nothing cut.
LEMMA UsageInit == ASSUME RpcAssumption, EarlierAssumption, RpcInit PROVE UsageInv
  <1>1. /\ rows = Earlier /\ at = "reading" /\ streamed = [s \in Lines |-> 0]
        /\ sent = Len(Earlier)
    BY DEF RpcInit
  <1>2. Within
    <2>1. Len(Earlier) \in Nat
      BY LenProperties DEF RpcAssumption
    <2>2. \A k \in 1..Len(Earlier) : Earlier[k].about \in 1..Len(Earlier)
      BY DEF RpcAssumption
    <2>3. Len(Earlier) <= MaxLines /\ MaxLines \in Nat
      BY DEF RpcAssumption
    <2>4. QED
      BY <1>1, <2>1, <2>2, <2>3 DEF Within, Lines
  <1>3. Summed
    BY <1>1 DEF Summed
  <1>4. ASSUME NEW s \in Lines PROVE Covered(s)
    <2>1. \A k \in 1..Len(rows) :
             rows[k].type \notin Turns \cup {"session.state.running", "session.state.completed",
                                            "session.state.failed"}
      BY <1>1 DEF EarlierAssumption, Turns
    <2>2. /\ TurnRows(s) = {} /\ Of("session.state.running", s) = {}
          /\ Of("session.state.completed", s) = {} /\ Of("session.state.failed", s) = {}
      BY <2>1 DEF TurnRows, Of
    <2>3. Cardinality(TurnRows(s)) = 0 /\ CutRuns(s) = 0
      BY <2>2, CutsNone
    <2>4. Held(s) = 0 /\ Opened(s) = 0 /\ streamed[s] = 0
      BY <1>1 DEF Held, Opened, InRun, Running
    <2>5. QED
      BY <2>3, <2>4 DEF Covered
  <1>5. QED
    BY <1>2, <1>3, <1>4 DEF UsageInv

\* A summary counts every turn the shell ever saw of a session, over all its runs and
\* kernels, but those behind the newest TailLimit rows of its tenant, and at most one more
\* than were seen for each run that was cut (methods.py, usage_summary; sessions.py, run,
\* which records before it streams).
THEOREM SummariesCoverStreams == RpcSpec => []UsageCoversStreams
  <1>1. RpcInit => UsageInv
    BY RpcAssumption, EarlierAssumption, UsageInit
  <1>2. TenantInv /\ UsageInv /\ [RpcNext]_rvars => UsageInv'
    <2> SUFFICES ASSUME TenantInv, UsageInv, [RpcNext]_rvars PROVE UsageInv'
      OBVIOUS
    <2>1. Within' /\ Summed'
      BY RpcAssumption, WithinStep, SummedStep DEF TenantInv, UsageInv
    <2>2. \A s \in Lines : Covered(s)'
      BY CoveredStep DEF TenantInv, UsageInv
    <2>3. QED
      BY <2>1, <2>2 DEF UsageInv, Lines
  <1>3. TenantInv /\ UsageInv => UsageCoversStreams
    <2> SUFFICES ASSUME TenantInv, UsageInv, at = "replying",
                        line.call.method = "seasi.usage.summary", reply.code = "ok",
                        NEW s \in DOMAIN reply.body
                 PROVE  /\ streamed[s] <= reply.body[s]
                              + Cardinality(Overlooked(s, Canonical[line.call.tenant]))
                        /\ reply.body[s] <= streamed[s] + CutRuns(s)
      BY DEF UsageCoversStreams
    <2> DEFINE missed == Overlooked(s, Canonical[line.call.tenant])
    <2>1. s \in Lines /\ reply.body[s] = Cardinality(TurnRows(s) \ missed)
      BY DEF UsageInv, Summed
    <2>2. Covered(s) /\ Held(s) = 0 /\ Opened(s) = 0
      BY <2>1 DEF UsageInv, Held, Opened, InRun, Running
    <2>3. Cardinality(TurnRows(s)) \in Nat /\ CutRuns(s) \in Int
      BY CountsAre DEF TenantInv, Numbered
    <2>4. /\ Cardinality(missed) \in 0..Cardinality(TurnRows(s))
          /\ Cardinality(TurnRows(s) \ missed) = Cardinality(TurnRows(s)) - Cardinality(missed)
      <3>1. missed \in SUBSET TurnRows(s) /\ TurnRows(s) \cap missed = missed
        BY DEF Overlooked, TurnRows
      <3>2. IsFiniteSet(TurnRows(s))
        <4>1. TurnRows(s) \in SUBSET (1..Len(rows)) /\ Len(rows) \in Nat
          BY Appending DEF TenantInv, Numbered, Sequential, TurnRows
        <4>2. IsFiniteSet(1..Len(rows))
          <5>1. 1 \in Int /\ Len(rows) \in Int
            BY <4>1
          <5>2. QED
            BY <5>1, FS_Interval
        <4> HIDE DEF missed
        <4>3. QED
          BY <4>1, <4>2, FS_Subset
      <3>3. IsFiniteSet(missed) /\ Cardinality(missed) <= Cardinality(TurnRows(s))
        BY <3>1, <3>2, FS_Subset
      <3>4. Cardinality(missed) \in Nat
        BY <3>3, FS_CardinalityType
      <3>5. Cardinality(TurnRows(s) \ missed)
              = Cardinality(TurnRows(s)) - Cardinality(TurnRows(s) \cap missed)
        BY <3>2, FS_Difference
      <3> HIDE DEF missed
      <3>6. QED
        BY <2>3, <3>1, <3>3, <3>4, <3>5
    <2> HIDE DEF missed
    <2>5. QED
      BY <2>1, <2>2, <2>3, <2>4 DEF Covered, missed
  <1>4. QED
    BY <1>1, <1>2, <1>3, TenantInvariance, PTL DEF RpcSpec

-----------------------------------------------------------------------------
(* The log of a session. *)

Ended == events # <<>> /\ events[Len(events)] \in {"harness.completed", "harness.failed"}

\* The record of the session of a run ends with the last event the run has in hand, and
\* the run is about to close with what stands for it.
LogInv ==
    /\ at \in Running =>
          /\ RecordOf(Session) # <<>>
          /\ RecordOf(Session)[Len(RecordOf(Session))] =
                IF events = <<>> THEN "session.state.running" ELSE events[Len(events)]
          /\ events # <<>> => events[Len(events)] \in ReportTypes
    /\ at = "notifying" => events # <<>> /\ (last => Ended)
    /\ at = "settling" => Ended

\* What a step may do to the record of a session, in terms of its rows.
LogSays(s, type) == RecordOf(s)' = Append(RecordOf(s), type)
LogNewest(s)     == RecordOf(s)[Len(RecordOf(s))]
LogStays(s)  == RecordOf(s)' = RecordOf(s) /\ (InRun(s)' => InRun(s))
LogMade(s)   == RecordOf(s) = <<>> /\ ~InRun(s) /\ ~InRun(s)' /\ LogSays(s, "session.created")
LogOpens(s)  == /\ RecordOf(s) # <<>> /\ ~InRun(s) /\ InRun(s)'
                /\ LogSays(s, "session.state.running")
LogAdds(s)   == /\ InRun(s) /\ InRun(s)'
                /\ \E type \in ReportTypes :
                      /\ LogSays(s, type)
                      /\ LogNewest(s) = "session.state.running" => type = "harness.spawned"
LogCloses(s) ==
    /\ InRun(s) /\ ~InRun(s)'
    /\ \/ LogNewest(s) = "harness.completed" /\ LogSays(s, "session.state.completed")
       \/ /\ LogNewest(s) \in {"harness.failed", "session.state.running"}
          /\ LogSays(s, "session.state.failed")

\* SessionLog allows each of these.
LEMMA LogMoves ==
    ASSUME NEW s, LogStays(s) \/ LogMade(s) \/ LogOpens(s) \/ LogAdds(s) \/ LogCloses(s)
    PROVE  LogStep(s)
  <1> USE DEF LogStep, Log!SLNext, Log!slvars, LogSays, Log!Says, LogNewest, Log!Newest
  <1>1. InRun(s) \in BOOLEAN /\ InRun(s)' \in BOOLEAN
    BY DEF InRun
  <1>2. CASE LogStays(s)
    BY <1>1, <1>2 DEF LogStays, Log!CutShort
  <1>3. CASE LogMade(s)
    BY <1>1, <1>3 DEF LogMade, Log!Creates
  <1>4. CASE LogOpens(s)
    BY <1>1, <1>4 DEF LogOpens, Log!Opens
  <1>5. CASE LogAdds(s)
    <2>1. PICK type \in ReportTypes :
             /\ RecordOf(s)' = Append(RecordOf(s), type)
             /\ RecordOf(s)[Len(RecordOf(s))] = "session.state.running" => type = "harness.spawned"
      BY <1>5 DEF LogAdds
    <2>2. type \in Log(s)!Reports
      BY DEF ReportTypes, Turns, Log!Reports
    <2>3. InRun(s)' = InRun(s) /\ InRun(s)
      BY <1>1, <1>5 DEF LogAdds
    <2>4. Log(s)!Adds(type)
      BY <2>1, <2>3 DEF Log!Adds
    <2>5. QED
      BY <2>2, <2>4
  <1>6. CASE LogCloses(s)
    BY <1>1, <1>6 DEF LogCloses, Log!Closes
  <1>7. QED
    BY <1>2, <1>3, <1>4, <1>5, <1>6, Zenon

\* The same, of the ledger.
LEMMA TypesJoin ==
    ASSUME Len(rows) \in Nat, NEW I, NEW J, Joins(Len(rows), rows, rows', I, J)
    PROVE  TypesOf(rows', J) = Append(TypesOf(rows, I), rows'[Len(rows) + 1].type)
  BY TypesGrow

\* What an append does to the record of a session.
LEMMA Recorded ==
    ASSUME Sequential, NEW r, rows' = Append(rows, r), NEW s
    PROVE  /\ IsSeq(RecordOf(s))
           /\ r.about = s /\ r.type \notin PauseTypes => LogSays(s, r.type)
           /\ r.about # s \/ r.type \in PauseTypes => RecordOf(s)' = RecordOf(s)
  <1>1. PICK I, J : I = LogRows(s) /\ J = LogRows(s)'
    OBVIOUS
  <1>2. /\ Len(rows) \in Nat /\ rows'[Len(rows) + 1] = r
        /\ \A k \in 1..Len(rows) : rows'[k] = rows[k]
        /\ \A k \in 1..Len(rows') : k \in 1..Len(rows) \/ k = Len(rows) + 1
        /\ \A k \in 1..Len(rows) : k \in 1..Len(rows')
        /\ Len(rows) + 1 \in 1..Len(rows')
    BY OneMore
  <1>3. /\ I \in SUBSET (1..Len(rows))
        /\ r.about = s /\ r.type \notin PauseTypes => J = I \cup {Len(rows) + 1}
        /\ r.about # s \/ r.type \in PauseTypes => J = I
    BY <1>1, <1>2 DEF LogRows
  <1>4. IsSeq(TypesOf(rows, I)) /\ TypesOf(rows', I) = TypesOf(rows, I)
    <2>1. /\ Len(rows) \in Nat /\ I \in SUBSET (1..Len(rows))
          /\ \A k \in 1..Len(rows) : rows'[k] = rows[k]
      BY <1>2, <1>3
    <2>2. QED
      BY <2>1, TypesStay
  <1>5. RecordOf(s) = TypesOf(rows, I) /\ RecordOf(s)' = TypesOf(rows', J)
    BY <1>1 DEF RecordOf
  <1>6. CASE r.about = s /\ r.type \notin PauseTypes
    <2>1. Joins(Len(rows), rows, rows', I, J)
      BY <1>2, <1>3, <1>6 DEF Joins
    <2>2. TypesOf(rows', J) = Append(TypesOf(rows, I), rows'[Len(rows) + 1].type)
      BY <1>2, <2>1, TypesJoin
    <2>3. QED
      BY <1>2, <1>4, <1>5, <1>6, <2>2 DEF LogSays
  <1>7. CASE r.about # s \/ r.type \in PauseTypes
    BY <1>3, <1>4, <1>5, <1>7
  <1>8. QED
    BY <1>6, <1>7

\* A session with a row of its own has a record, and one with none has none.
LEMMA RecordIs ==
    ASSUME Sequential, NEW s
    PROVE  /\ \A k \in 1..Len(rows) :
                 rows[k].about = s /\ rows[k].type \notin PauseTypes => RecordOf(s) # <<>>
           /\ (\A k \in 1..Len(rows) : rows[k].about # s) => RecordOf(s) = <<>>
  <1>1. Len(rows) \in Nat /\ LogRows(s) \in SUBSET (1..Len(rows))
    BY Appending DEF Sequential, LogRows
  <1>2. IsFiniteSet(LogRows(s)) /\ Cardinality(LogRows(s)) \in Nat
    BY <1>1, Places
  <1>3. Len(RecordOf(s)) = Cardinality(LogRows(s))
    BY <1>2 DEF RecordOf, TypesOf
  <1>4. ASSUME NEW k \in LogRows(s) PROVE RecordOf(s) # <<>>
    <2>1. Cardinality(LogRows(s)) # 0
      BY <1>2, <1>4, FS_EmptySet
    <2>2. QED
      BY <1>3, <2>1
  <1>5. ASSUME LogRows(s) = {} PROVE RecordOf(s) = <<>>
    BY <1>5, NoTypes DEF RecordOf
  <1>6. QED
    BY <1>4, <1>5 DEF LogRows

\* The step is one SessionLog allows for every session, and the record still ends with
\* what the run has in hand.
KeepsLog == LogInv' /\ \A s \in Lines : LogStep(s)

\* A run that begins is of a session on record, which no other run is about.
LEMMA BeginKeepsLog ==
    ASSUME Numbered, LogInv, session_run, at' = "running"
    PROVE  KeepsLog
  <1>1. /\ at = "reading" /\ line' = Head(stdin) /\ events' = <<>>
    BY Begun
  <1>2. PICK r : /\ rows' = Append(rows, r) /\ r.type = "session.state.running"
                 /\ r.about = line'.call.session
    BY Begun
  <1>3. PICK u : u = line'.call.session
    OBVIOUS
  <1>4. r.type \notin PauseTypes
    BY <1>2 DEF PauseTypes
  <1>5. LogSays(u, "session.state.running") /\ IsSeq(RecordOf(u))
    BY <1>2, <1>3, <1>4, Recorded DEF Numbered
  <1>6. RecordOf(u) # <<>>
    <2>1. PICK k \in 1..Len(rows) : rows[k].type = "session.created" /\ rows[k].about = u
      BY <1>3, Begun
    <2>2. rows[k].type \notin PauseTypes
      BY <2>1 DEF PauseTypes
    <2>3. QED
      BY <2>1, <2>2, RecordIs DEF Numbered
  <1>7. ASSUME NEW s \in Lines PROVE LogStep(s)
    <2>1. CASE s = u
      <3>1. ~InRun(s) /\ InRun(s)'
        BY <1>1, <1>3, <2>1 DEF InRun, Running
      <3>2. LogOpens(s)
        BY <1>5, <1>6, <2>1, <3>1 DEF LogOpens
      <3>3. QED
        BY <3>2, LogMoves
    <2>2. CASE s # u
      <3>1. ~InRun(s)'
        BY <1>3, <2>2 DEF InRun
      <3>2. RecordOf(s)' = RecordOf(s)
        BY <1>2, <1>3, <2>2, Recorded DEF Numbered
      <3>3. QED
        BY <3>1, <3>2, LogMoves DEF LogStays
    <2>3. QED
      BY <2>1, <2>2
  <1>8. LogInv'
    <2>1. RecordOf(Session)' = Append(RecordOf(u), "session.state.running")
      BY <1>3, <1>5 DEF LogSays, Session, RecordOf, LogRows
    <2>2. /\ RecordOf(Session)' # <<>>
          /\ RecordOf(Session)'[Len(RecordOf(Session)')] = "session.state.running"
      BY <1>5, <2>1, Appending
    <2>3. QED
      BY <1>1, <2>2 DEF LogInv
  <1>9. QED
    BY <1>7, <1>8 DEF KeepsLog

\* A method that answers at once opens a session or writes to no log.
LEMMA AnswerKeepsLog ==
    ASSUME Numbered, LogInv, Methods, at' = "replying"
    PROVE  KeepsLog
  <1>1. /\ at = "reading" /\ line' = Head(stdin) /\ stdin # <<>>
        /\ \/ rows' = rows
           \/ \E r : /\ rows' = Append(rows, r)
                     /\ \/ r.type \in PauseTypes
                        \/ r.type = "session.created" /\ r.about = line'.n
    BY Replied
  <1>2. LogInv'
    BY DEF LogInv, Running
  <1>3. ASSUME NEW s \in Lines PROVE LogStep(s)
    <2>1. ~InRun(s) /\ ~InRun(s)'
      BY <1>1 DEF InRun, Running
    <2>2. CASE rows' = rows
      BY <2>1, <2>2, LogMoves DEF LogStays, RecordOf, LogRows
    <2>3. CASE \E r : rows' = Append(rows, r) /\ r.type \in PauseTypes
      <3>1. RecordOf(s)' = RecordOf(s)
        BY <2>3, Recorded DEF Numbered
      <3>2. QED
        BY <2>1, <3>1, LogMoves DEF LogStays
    <2>4. CASE \E r : /\ rows' = Append(rows, r)
                      /\ r.type = "session.created" /\ r.about = line'.n
      <3>1. PICK r : rows' = Append(rows, r) /\ r.type = "session.created" /\ r.about = line'.n
        BY <2>4
      <3>2. r.type \notin PauseTypes
        BY <3>1 DEF PauseTypes
      <3>3. CASE s = line'.n
        <4>1. \A k \in 1..Len(rows) : rows[k].about # s
          BY <1>1, <3>3, Taking DEF Numbered, Sequential, Queued, AllPast, Past
        <4>2. RecordOf(s) = <<>>
          BY <4>1, RecordIs DEF Numbered
        <4>3. LogSays(s, "session.created")
          BY <3>1, <3>2, <3>3, Recorded DEF Numbered
        <4>4. QED
          BY <2>1, <4>2, <4>3, LogMoves DEF LogMade
      <3>4. CASE s # line'.n
        <4>1. RecordOf(s)' = RecordOf(s)
          BY <3>1, <3>4, Recorded DEF Numbered
        <4>2. QED
          BY <2>1, <4>1, LogMoves DEF LogStays
      <3>5. QED
        BY <3>3, <3>4
    <2>5. QED
      BY <1>1, <2>2, <2>3, <2>4
  <1>4. QED
    BY <1>2, <1>3 DEF KeepsLog

\* A row about the session of a run goes to its record, and to no other.
LEMMA RunSays ==
    ASSUME Sequential, NEW type, type \notin PauseTypes, NEW data, Records(type, data), NEW s
    PROVE  /\ IsSeq(RecordOf(s))
           /\ s = Session => LogSays(s, type)
           /\ s # Session => RecordOf(s)' = RecordOf(s)
  <1>1. PICK r : r = [type |-> type, tenant |-> Canonical[line.call.tenant],
                      about |-> Session, data |-> data, line |-> line.n]
    OBVIOUS
  <1>2. rows' = Append(rows, r) /\ r.type = type /\ r.about = Session
    BY <1>1 DEF Records
  <1>3. QED
    BY <1>2, Recorded

\* A report goes behind what the run has in hand.
LEMMA ReportKeepsLog ==
    ASSUME Numbered, LogInv, NEW type, NEW data, Report(type, data)
    PROVE  KeepsLog
  <1>1. /\ at = "running" /\ at' = "notifying" /\ line' = line
        /\ events' = Append(events, type) /\ Records(type, data) /\ type \in ReportTypes
        /\ events = <<>> => type = "harness.spawned"
        /\ last' => type \in {"harness.completed", "harness.failed"}
    BY EmptySeq DEF Report, Keeps, ReportTypes
  <1>2. type \notin PauseTypes
    BY <1>1 DEF ReportTypes, Turns, PauseTypes
  <1>3. PICK u : u = Session
    OBVIOUS
  <1>4. IsSeq(RecordOf(u)) /\ LogSays(u, type)
    BY <1>1, <1>2, <1>3, RunSays DEF Numbered
  <1>5. /\ RecordOf(u) # <<>>
        /\ LogNewest(u) = IF events = <<>> THEN "session.state.running"
                          ELSE events[Len(events)]
        /\ events # <<>> => events[Len(events)] \in ReportTypes
    BY <1>1, <1>3 DEF LogInv, LogNewest, Running
  <1>6. ASSUME NEW s \in Lines PROVE LogStep(s)
    <2>1. CASE s = u
      <3>1. InRun(s) /\ InRun(s)'
        BY <1>1, <1>3, <2>1 DEF InRun, Running, Session
      <3>2. LogNewest(s) = "session.state.running" => type = "harness.spawned"
        BY <1>1, <1>5, <2>1 DEF ReportTypes, Turns
      <3>3. LogAdds(s)
        BY <1>1, <1>4, <2>1, <3>1, <3>2 DEF LogAdds
      <3>4. QED
        BY <3>3, LogMoves
    <2>2. CASE s # u
      <3>1. RecordOf(s)' = RecordOf(s)
        BY <1>1, <1>2, <1>3, <2>2, RunSays DEF Numbered
      <3>2. ~InRun(s)'
        BY <1>1, <1>3, <2>2 DEF InRun, Session
      <3>3. QED
        BY <3>1, <3>2, LogMoves DEF LogStays
    <2>3. QED
      BY <2>1, <2>2
  <1>7. LogInv'
    <2>1. RecordOf(Session)' = Append(RecordOf(u), type)
      BY <1>1, <1>3, <1>4 DEF LogSays, Session, RecordOf, LogRows
    <2>2. /\ RecordOf(Session)' # <<>>
          /\ RecordOf(Session)'[Len(RecordOf(Session)')] = type
      BY <1>4, <2>1, Appending
    <2>3. events' # <<>> /\ events'[Len(events')] = type
      BY <1>1, Appending DEF Numbered, Sequential
    <2>4. QED
      BY <1>1, <2>2, <2>3 DEF LogInv, Ended
  <1>8. QED
    BY <1>6, <1>7 DEF KeepsLog

\* A run is closed with the state its last report stands for.
LEMMA CloseKeepsLog ==
    ASSUME Numbered, LogInv, Settle \/ ScopeRefused
    PROVE  KeepsLog
  <1>1. at \in Running /\ at' = "replying" /\ line' = line
    BY DEF Settle, ScopeRefused, Replies, Keeps, Running
  <1>2. LogInv'
    BY <1>1 DEF LogInv, Running
  <1>3. PICK u : u = Session
    OBVIOUS
  <1>4. PICK type : /\ Records(type, "none")
                    /\ type \in {"session.state.completed", "session.state.failed"}
                    /\ \/ LogNewest(u) = "harness.completed" /\ type = "session.state.completed"
                       \/ /\ LogNewest(u) \in {"harness.failed", "session.state.running"}
                          /\ type = "session.state.failed"
    <2>1. CASE ScopeRefused
      <3>1. Records("session.state.failed", "none") /\ events = <<>>
        BY <2>1 DEF ScopeRefused
      <3>2. LogNewest(u) = "session.state.running"
        BY <1>1, <1>3, <3>1 DEF LogInv, LogNewest
      <3>3. QED
        BY <3>1, <3>2
    <2>2. CASE Settle
      <3>1. /\ at = "settling"
            /\ Records(IF events[Len(events)] = "harness.completed"
                       THEN "session.state.completed" ELSE "session.state.failed", "none")
        BY <2>2 DEF Settle
      <3>2. /\ LogNewest(u) = events[Len(events)]
            /\ events[Len(events)] \in {"harness.completed", "harness.failed"}
        BY <1>1, <1>3, <3>1 DEF LogInv, LogNewest, Ended
      <3>3. CASE events[Len(events)] = "harness.completed"
        BY <3>1, <3>2, <3>3
      <3>4. CASE events[Len(events)] = "harness.failed"
        BY <3>1, <3>2, <3>4
      <3>5. QED
        BY <3>2, <3>3, <3>4
    <2>3. QED
      BY <2>1, <2>2
  <1>5. type \notin PauseTypes
    BY <1>4 DEF PauseTypes
  <1>6. ASSUME NEW s \in Lines PROVE LogStep(s)
    <2>1. ~InRun(s)' /\ (InRun(s) <=> s = u)
      BY <1>1, <1>3 DEF InRun, Running, Session
    <2>2. CASE s = u
      <3>1. LogSays(s, type)
        BY <1>3, <1>4, <1>5, <2>2, RunSays DEF Numbered
      <3>2. LogCloses(s)
        BY <1>4, <2>1, <2>2, <3>1 DEF LogCloses
      <3>3. QED
        BY <3>2, LogMoves
    <2>3. CASE s # u
      <3>1. RecordOf(s)' = RecordOf(s)
        BY <1>3, <1>4, <1>5, <2>3, RunSays DEF Numbered
      <3>2. QED
        BY <2>1, <3>1, LogMoves DEF LogStays
    <2>4. QED
      BY <2>2, <2>3
  <1>7. QED
    BY <1>2, <1>6 DEF KeepsLog

\* Every step keeps the log.
LEMMA LogKept ==
    ASSUME Numbered, LogInv, [RpcNext]_rvars
    PROVE  KeepsLog
  <1>1. ASSUME rows' = rows, \A s \in Lines : InRun(s)' => InRun(s)
        PROVE  \A s \in Lines : LogStep(s)
    BY <1>1, LogMoves DEF LogStays, RecordOf, LogRows
  <1>2. CASE UNCHANGED <<at, line, reply, events, last, told, rows, streamed>>
    <2>1. LogInv'
      BY <1>2 DEF LogInv, RecordOf, LogRows, Session, Ended
    <2>2. \A s \in Lines : InRun(s)' => InRun(s)
      BY <1>2 DEF InRun
    <2>3. QED
      BY <1>1, <1>2, <2>1, <2>2 DEF KeepsLog
  <1>3. CASE Notify
    <2>1. /\ at = "notifying" /\ at' = IF last THEN "settling" ELSE "running"
          /\ line' = line /\ events' = events /\ rows' = rows
      BY <1>3 DEF Notify
    <2>2. RecordOf(Session)' = RecordOf(Session) /\ (Ended' <=> Ended)
      BY <2>1 DEF RecordOf, LogRows, Session, Ended
    <2>3. LogInv'
      BY <2>1, <2>2 DEF LogInv, Running
    <2>4. \A s \in Lines : InRun(s)' => InRun(s)
      BY <2>1 DEF InRun, Running
    <2>5. QED
      BY <1>1, <2>1, <2>3, <2>4 DEF KeepsLog
  <1>4. CASE Leaves
    <2>1. rows' = rows /\ at' \notin Running
      BY <1>4 DEF Leaves
    <2>2. LogInv'
      BY <2>1 DEF LogInv, Running
    <2>3. \A s \in Lines : InRun(s)' => InRun(s)
      BY <2>1 DEF InRun
    <2>4. QED
      BY <1>1, <2>1, <2>2, <2>3 DEF KeepsLog
  <1>5. QED
    BY <1>2, <1>3, <1>4, RunSteps, BeginKeepsLog, AnswerKeepsLog, ReportKeepsLog,
       CloseKeepsLog

\* Of an earlier kernel a session has at most its creation on record.
LEMMA LogInit ==
    ASSUME RpcAssumption, EarlierAssumption, RpcInit, NEW s
    PROVE  Log(s)!SLInit
  <1>1. ~InRun(s) /\ rows = Earlier
    BY DEF InRun, Running, RpcInit
  <1>2. CASE LogRows(s) = {}
    BY <1>1, <1>2, NoTypes DEF Log!SLInit, RecordOf, InRun
  <1>3. ASSUME NEW k \in LogRows(s) PROVE Log(s)!SLInit
    <2>1. Len(rows) \in Nat /\ LogRows(s) \in SUBSET (1..Len(rows))
      BY <1>1, LenProperties DEF LogRows, RpcAssumption
    <2>2. \A i \in LogRows(s) : rows[i].type = "session.created" /\ rows[i].about = s
      BY <1>1 DEF LogRows, EarlierAssumption, PauseTypes
    <2>3. LogRows(s) = {k}
      BY <1>1, <1>3, <2>1, <2>2 DEF EarlierAssumption
    <2>4. Cardinality(LogRows(s)) = 1
      BY <2>3, FS_Singleton
    <2>5. Place(LogRows(s), 1) = k
      <3>1. Rank(LogRows(s), k) \in 1..1
        BY <1>3, <2>1, <2>4, RanksAre
      <3>2. Rank(LogRows(s), k) = 1
        BY <3>1
      <3>3. Place(LogRows(s), Rank(LogRows(s), k)) = k
        BY <1>3, <2>1, PlaceIs
      <3>4. QED
        BY <3>2, <3>3
    <2>6. RecordOf(s) = <<"session.created">>
      <3>1. RecordOf(s) = [i \in 1..1 |-> rows[Place(LogRows(s), i)].type]
        BY <2>4 DEF RecordOf, TypesOf
      <3>2. \A i \in 1..1 : rows[Place(LogRows(s), i)].type = "session.created"
        BY <1>3, <2>2, <2>5
      <3>3. QED
        BY <3>1, <3>2
    <2>7. QED
      BY <1>1, <2>6 DEF Log!SLInit, InRun
  <1>4. QED
    BY <1>2, <1>3

\* Behind the loop too, with kernels that die and start again, every session has the log
\* SessionLog promises (sessions.py, start and run; methods.py, session_run).
THEOREM SessionLogsAreKept == RpcSpec => SessionsKeepLog
  <1>1. RpcInit => LogInv
    BY DEF RpcInit, LogInv, Running
  <1>2. TenantInv /\ LogInv /\ [RpcNext]_rvars => LogInv' /\ \A s \in Lines : LogStep(s)
    BY LogKept DEF TenantInv, KeepsLog
  <1>3. RpcInit => \A s \in Lines : Log(s)!SLInit
    BY RpcAssumption, EarlierAssumption, LogInit
  <1>4. QED
    BY <1>1, <1>2, <1>3, TenantInvariance, PTL DEF RpcSpec, SessionsKeepLog

================================================================================
