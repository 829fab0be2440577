----------------------------- MODULE RpcProperties -----------------------------
(***************************************************************************)
(* What a shell may rely on, whoever dies in between.                      *)
(***************************************************************************)
EXTENDS Rpc

\* The lines on their way to the shell, behind the last one it read.
Wire == <<seen>> \o [i \in 1..Len(stdout) |-> [kind |-> stdout[i].kind,
                                               n |-> stdout[i].line.n]]

\* Lines reach the shell in the order of its requests, the events of a run before its
\* answer and none after it, at most one answer each and none to a call without an id
\* (server.py, serve: "preserving strict per-request wire ordering").
WireOrder ==
    /\ \A i, j \in 1..Len(Wire) : i < j =>
          /\ Wire[i].n <= Wire[j].n
          /\ Wire[i].kind = "response" => Wire[i].n < Wire[j].n
    /\ at \in Running \cup {"replying"} => \A i \in 1..Len(Wire) :
          /\ Wire[i].n <= line.n
          /\ Wire[i].kind = "response" => Wire[i].n < line.n
    /\ \A i \in 1..Len(stdout) :
          stdout[i].kind = "response" /\ stdout[i].line.quiet =>
              stdout[i].line.call.method \in {"garbage", "envelope"}

Refusals == {"PARSE_ERROR", "INVALID_REQUEST", "METHOD_NOT_FOUND", "INVALID_PARAMS",
             "SEASI_TENANT_SCOPE", "SEASI_UNKNOWN_ADAPTER"}
Mutating == {"seasi.session.start", "seasi.hitl.create", "seasi.hitl.decide"}
RowsOfLine(n) == {i \in 1..Len(rows) : rows[i].line = n}

\* What the shell is told is so, and stays so when the kernel dies: a success and an
\* event stand for rows of that very line, a refusal for none (despacho-shell/spec.md:
\* a malformed message "NO ejecuta efecto alguno").
AnswersMatchRecord ==
    \A i \in 1..Len(stdout) :
        LET w == stdout[i]
        IN  /\ w.kind = "event" =>
                  \E k \in RowsOfLine(w.line.n) :
                      rows[k].type = w.type /\ rows[k].about = w.line.call.session
            /\ w.kind = "response" =>
                  /\ w.code = "ok" /\ w.line.call.method \in Mutating
                        => w.body \in RowsOfLine(w.line.n)
                  /\ w.code \in Refusals => RowsOfLine(w.line.n) = {}

\* The types of the rows whose places are in I, in the order of the ledger.
Rank(I, i) == Cardinality({j \in I : j <= i})
Place(I, k) == CHOOSE i \in I : Rank(I, i) = k
TypesOf(log, I) == [k \in 1..Cardinality(I) |-> log[Place(I, k)].type]

OwnReports == {i \in 1..Len(rows) : rows[i].line = line.n /\ rows[i].type \in ReportTypes}
RunRecord  == TypesOf(rows, OwnReports)

\* The three accounts of a run agree: what is on record, what run() returns, and what
\* was streamed, which is never ahead of the record and at most one event behind.
AccountsAgree ==
    /\ at \in Running =>
          /\ events = RunRecord
          /\ told = IF at = "notifying" THEN SubSeq(events, 1, Len(events) - 1) ELSE events
    /\ at = "replying" /\ line.call.method = "seasi.session.run" /\ reply.code = "ok" =>
          reply.body = RunRecord /\ told = RunRecord

\* The runs of a session nobody closed, this one not counted.
Of(type, s) == {i \in 1..Len(rows) : rows[i].type = type /\ rows[i].about = s}
CutRuns(s) == Cardinality(Of("session.state.running", s))
              - Cardinality(Of("session.state.completed", s))
              - Cardinality(Of("session.state.failed", s))

\* The turns of a session that lie behind the newest TailLimit rows of its tenant.
Overlooked(s, tenant) ==
    {i \in 1..Len(rows) : rows[i].type \in Turns /\ rows[i].about = s} \ Summarised(tenant)

\* A usage summary counts every turn the shell ever saw of a session, over all its runs
\* and kernels, but those a tenant's later rows pushed out of the newest TailLimit
\* (methods.py:166); and beyond those seen at most one for each run that was cut short.
UsageCoversStreams ==
    at = "replying" /\ line.call.method = "seasi.usage.summary" /\ reply.code = "ok" =>
        \A s \in DOMAIN reply.body :
            /\ streamed[s] <= reply.body[s]
                             + Cardinality(Overlooked(s, Canonical[line.call.tenant]))
            /\ reply.body[s] <= streamed[s] + CutRuns(s)

\* Tenants are kept apart: all that is on record about a session or a pause belongs to
\* one tenant, and a query shows its own tenant's (SECURITY.md: "El kernel no mantiene
\* estado compartido entre tenants").
OneTenantEach ==
    \A i, j \in 1..Len(rows) : rows[i].about = rows[j].about => rows[i].tenant = rows[j].tenant
QueriesShowOwn ==
    at = "replying" /\ reply.code = "ok" =>
        LET own == {i \in 1..Len(rows) : rows[i].tenant = Canonical[line.call.tenant]}
        IN  /\ line.call.method = "seasi.event.tail" => reply.body \subseteq own
            /\ line.call.method = "seasi.usage.summary" =>
                  DOMAIN reply.body \subseteq {rows[i].about : i \in own}
            /\ line.call.method = "seasi.hitl.list" =>
                  reply.body \subseteq {rows[i].about : i \in own}
TenantsApart == OneTenantEach /\ QueriesShowOwn

\* The composed kernel keeps, of every session, the log that SessionLog promises and
\* Sessions implements: rows and InRun say all there is about it.
PauseTypes == {"hitl.pause.created", "hitl.pause.decided", "hitl.pause.expired"}
LogRows(s)  == {i \in 1..Len(rows) : rows[i].about = s /\ rows[i].type \notin PauseTypes}
RecordOf(s) == TypesOf(rows, LogRows(s))
InRun(s)    == at \in Running /\ line.call.session = s
Log(s) == INSTANCE SessionLog WITH record <- RecordOf(s), open <- InRun(s)
LogStep(s) == \/ UNCHANGED <<rows, InRun(s)>>
              \/ [Log(s)!SLNext]_(Log(s)!slvars)
SessionsKeepLog == /\ \A s \in Lines : Log(s)!SLInit
                   /\ [][\A s \in Lines : LogStep(s)]_rvars

\* Every line is served or lost with its kernel: no method keeps the loop for ever, if
\* children end and the shell reads.  Shells write MaxLines lines in all, so it is enough
\* that again and again none is waiting or in service.
LinesAreServed ==
    []<>(\A n \in Lines : fate[n] \notin {"waiting", "taken"})
===============================================================================
