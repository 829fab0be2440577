---------------------------------- MODULE Rpc ----------------------------------
(***************************************************************************)
(* The kernel behind its only business channel: the loop of rpc/server.py, *)
(* one JSON-RPC line at a time, over the methods of rpc/methods.py, with   *)
(* the despacho shell at the other end of two pipes.  Either side may die  *)
(* at any moment; the shell then starts a kernel on the same ledger.       *)
(*                                                                         *)
(* at says where the kernel stands: "down", waiting for a line ("reading"),*)
(* inside session.run waiting for the harness ("running"), about to stream *)
(* the event it recorded ("notifying") or to record the outcome            *)
(* ("settling"), or about to write the answer ("replying").                *)
(*                                                                         *)
(* The services are the ones other modules check in detail: an append is   *)
(* atomic (Ledger), the HITL calls of one thread do not interleave         *)
(* (HitlStore), and a run writes what SessionLog allows (Sessions).        *)
(***************************************************************************)
EXTENDS Integers, Sequences, FiniteSets

CONSTANTS
    Calls,      \* what the shell may send: a call (or a line that is none), with or
                \* without an id
    Tenant,     \* tenant ids as TenantScope normalises them
    Canonical,  \* the tenant ids callers spell |-> what TenantScope makes of them
    Adapter,    \* the registered adapter names
    Earlier,    \* the ledger as an earlier kernel left it
    TailLimit,  \* how many of a tenant's rows usage.summary reads, the newest ones
    PipeLines,  \* lines a pipe takes before the writer blocks
    MaxLines,   \* bound: lines of all shells, the rows of Earlier included
    MaxReports, \* bound: reports of a child between the first and the last of a run
    MaxLives    \* bound: kernels started

ASSUME RpcAssumption ==
    /\ \A t \in Tenant : Canonical[t] = t
    /\ TailLimit \in Nat
    /\ PipeLines \in Nat \ {0} /\ MaxLines \in Nat /\ MaxReports \in Nat /\ MaxLives \in Nat
    /\ Len(Earlier) <= MaxLines
    /\ Earlier \in Seq({Earlier[i] : i \in 1..Len(Earlier)})
    /\ \A i \in 1..Len(Earlier) : /\ Earlier[i].about \in 1..Len(Earlier)
                                 /\ Earlier[i].line \in 1..Len(Earlier)
                                 /\ Earlier[i].tenant \in Tenant
    /\ \A i, j \in 1..Len(Earlier) :
          Earlier[i].about = Earlier[j].about => Earlier[i].tenant = Earlier[j].tenant

\* The earlier kernel opened sessions and pauses and ran none.
ASSUME EarlierAssumption ==
    /\ \A i \in 1..Len(Earlier) :
          Earlier[i].type \in {"session.created", "hitl.pause.created",
                              "hitl.pause.decided", "hitl.pause.expired"}
    /\ \A i, j \in 1..Len(Earlier) :
          /\ Earlier[i].type = "session.created" /\ Earlier[j].type = "session.created"
          /\ Earlier[i].about = Earlier[j].about
          => i = j

VARIABLES
    \* The pipes and the processes at their ends.
    stdin, stdout,
    gone,      \* the shell has closed its ends
    at, lives,
    \* The kernel: the line in service, its answer, the locals of a run.
    line, reply,
    events,    \* the events of this run
    last,      \* the harness has reported its verdict
    \* What survives.
    rows,      \* the ledger: what was recorded, about whom, and by which line
    lapsed,    \* the pauses whose time is up
    \* Observations no code reads.
    sent,      \* lines written by shells so far
    fate,      \* what became of each line
    seen,      \* the last line a shell read: its kind and the number of its request
    told,      \* the events of this run streamed so far
    streamed   \* for each session, the turns ever streamed about it

pipes  == <<stdin, stdout, gone>>
kernel == <<at, line, reply, events, last, told>>
rvars  == <<pipes, lives, kernel, rows, lapsed, sent, fate, seen, streamed>>

Lines   == 1..MaxLines
NoLine  == [n |-> 0, quiet |-> FALSE, call |-> [method |-> "none"]]
NoReply == [code |-> "none"]
Running == {"running", "notifying", "settling"}

RpcInit ==
    /\ stdin = <<>> /\ stdout = <<>> /\ gone = FALSE
    /\ at = "reading" /\ lives = 1
    /\ line = NoLine /\ reply = NoReply /\ events = <<>> /\ last = FALSE /\ told = <<>>
    /\ rows = Earlier /\ lapsed = {}
    /\ sent = Len(Earlier) /\ fate = [n \in Lines |-> "unsent"]
    /\ seen = [kind |-> "none", n |-> 0]
    /\ streamed = [s \in Lines |-> 0]

-----------------------------------------------------------------------------
(* Reading the ledger. *)

Row(type, tenant, about, data) ==
    [type |-> type, tenant |-> tenant, about |-> about, data |-> data, line |-> line'.n]

EventsOfType(type, tenant) ==
    {i \in 1..Len(rows) : rows[i].type = type /\ rows[i].tenant = tenant}
Abouts(type, tenant) == {rows[i].about : i \in EventsOfType(type, tenant)}

AnySession(s, tenant) == \* mutant: whoever's session it is
    \E i \in 1..Len(rows) : rows[i].type = "session.created" /\ rows[i].about = s
\* _load_session
HasSession(s, tenant) == s \in Abouts("session.created", tenant)

TenantOf(p) == CHOOSE t \in Tenant : p \in Abouts("hitl.pause.created", t)
IsPause(p)   == \E t \in Tenant : p \in Abouts("hitl.pause.created", t)
IsDecided(p) == \E t \in Tenant : p \in Abouts("hitl.pause.decided", t)

-----------------------------------------------------------------------------
(* serve: taking a line, and what a method leaves to do. *)

Takes(method) ==
    /\ at = "reading" /\ stdin # <<>> /\ Head(stdin).call.method = method
    /\ line' = Head(stdin) /\ stdin' = Tail(stdin)
    /\ fate' = [fate EXCEPT ![Head(stdin).n] = "taken"]
    /\ UNCHANGED <<stdout, gone, lives, last, lapsed, sent, seen, streamed>>

Replies(code, body) == at' = "replying" /\ reply' = [code |-> code, body |-> body]

\* A method that answers at once, having appended nothing or one row.
Answers(code, body) == Replies(code, body) /\ UNCHANGED <<rows, events, told>>
AppendsAndAnswers(row) ==
    /\ rows' = Append(rows, row)
    /\ Replies("ok", Len(rows) + 1) /\ UNCHANGED <<events, told>>

FailsSilently == Answers("ok", 0) \* mutant: the failure is swallowed
\* SQLite raises: nothing is recorded, and nothing but the code is told.
StoreRaises == Answers("INTERNAL_ERROR", 0)

\* _scope, for the line being taken.
Scope == Canonical[Head(stdin).call.tenant]
OutOfScope == Scope \notin Tenant /\ Answers("SEASI_TENANT_SCOPE", 0)
Asked == Head(stdin).call

-----------------------------------------------------------------------------
(* Lines no method sees. *)

Refusal == [garbage  |-> "PARSE_ERROR", envelope |-> "INVALID_REQUEST",
            unknown  |-> "METHOD_NOT_FOUND", misfit |-> "INVALID_PARAMS"]

Refuse == \E m \in DOMAIN Refusal : Takes(m) /\ Answers(Refusal[m], 0)

-----------------------------------------------------------------------------
(* The methods. *)

version == Takes("seasi.version") /\ Answers("ok", 0)

session_start ==
    /\ Takes("seasi.session.start")
    /\ \/ OutOfScope
       \/ /\ Scope \in Tenant /\ Asked.adapter \notin Adapter
          /\ Answers("SEASI_UNKNOWN_ADAPTER", 0)
       \/ /\ Scope \in Tenant /\ Asked.adapter \in Adapter
          /\ StoreRaises \/ AppendsAndAnswers(Row("session.created", Scope, line'.n, "none"))

\* EventLedger.tail
Newest(tenant, limit) ==
    LET Own == {i \in 1..Len(rows) : rows[i].tenant = tenant}
    IN  {i \in Own : Cardinality({j \in Own : j > i}) < limit}

\* The tenant is validated as everywhere, but the rows are looked for under the id
\* as the caller spelt it.
event_tail ==
    /\ Takes("seasi.event.tail")
    /\ \/ OutOfScope
       \/ /\ Scope \in Tenant
          /\ Answers("ok", Newest(Asked.tenant, Asked.limit))

Turns == {"harness.message", "harness.tool_call"}

\* The rows a summary goes through: tail's, not all there are.
Summarised(tenant) == Newest(tenant, TailLimit)

OneKindOfTurn(s, tenant) == \* mutant: tool calls are forgotten
    {i \in Summarised(tenant) : rows[i].type = "harness.message" /\ rows[i].about = s}
TurnsOf(s, tenant) ==
    {i \in Summarised(tenant) : rows[i].type \in Turns /\ rows[i].about = s}

\* Token counts are the child's own words: one that int() does not take makes every
\* summary of its tenant fail that goes through it.
Illegible(tenant) ==
    \E i \in Summarised(tenant) : rows[i].type = "harness.usage" /\ rows[i].data = "text"

usage_summary ==
    /\ Takes("seasi.usage.summary")
    /\ \/ OutOfScope
       \/ Scope \in Tenant /\ Illegible(Scope) /\ Answers("INTERNAL_ERROR", 0)
       \/ /\ Scope \in Tenant /\ ~Illegible(Scope)
          /\ Answers("ok", [s \in Abouts("session.created", Scope) |-> Cardinality(TurnsOf(s, Scope))])

hitl_list ==
    /\ Takes("seasi.hitl.list")
    /\ \/ OutOfScope
       \/ /\ Scope \in Tenant
          /\ Answers("ok", Abouts("hitl.pause.created", Scope)
                           \ (Abouts("hitl.pause.decided", Scope)
                              \cup Abouts("hitl.pause.expired", Scope)))

\* The session a pause is for is not looked up.
hitl_create ==
    /\ Takes("seasi.hitl.create")
    /\ \/ OutOfScope
       \/ /\ Scope \in Tenant
          /\ StoreRaises \/ AppendsAndAnswers(Row("hitl.pause.created", Scope, line'.n, "none"))

\* No tenant is asked for: a pause is decided by whoever names it.
hitl_decide ==
    LET p == Asked.pause
    IN  /\ Takes("seasi.hitl.decide")
        /\ \/ ~IsPause(p) /\ Answers("SEASI_FAIL_CLOSED", 0)
           \/ IsPause(p) /\ IsDecided(p) /\ Answers("SEASI_FAIL_CLOSED", 0)
           \/ IsPause(p) /\ ~IsDecided(p) /\ StoreRaises
           \/ /\ IsPause(p) /\ ~IsDecided(p) /\ p \in lapsed
              /\ rows' = Append(rows, Row("hitl.pause.expired", TenantOf(p), p, "none"))
              /\ Replies("SEASI_FAIL_CLOSED", 0) /\ UNCHANGED <<events, told>>
           \/ /\ IsPause(p) /\ ~IsDecided(p) /\ p \notin lapsed
              /\ AppendsAndAnswers(Row("hitl.pause.decided", TenantOf(p), p, Asked.decision))

-----------------------------------------------------------------------------
(* session.run: the one method that streams. *)

session_run ==
    /\ Takes("seasi.session.run")
    /\ \/ OutOfScope
       \/ /\ Scope \in Tenant /\ ~HasSession(Asked.session, Scope)
          /\ Answers("INVALID_PARAMS", 0)
       \/ Scope \in Tenant /\ HasSession(Asked.session, Scope) /\ StoreRaises
       \/ /\ Scope \in Tenant /\ HasSession(Asked.session, Scope)
          /\ rows' = Append(rows, Row("session.state.running", Scope, Asked.session, "none"))
          /\ at' = "running" /\ events' = <<>> /\ told' = <<>> /\ UNCHANGED reply

ReportTypes == Turns \cup {"harness.spawned", "harness.usage", "harness.completed",
                           "harness.failed"}

Session == line.call.session
Records(type, data) ==
    rows' = Append(rows, [type |-> type, tenant |-> Canonical[line.call.tenant],
                          about |-> Session, data |-> data, line |-> line.n])
Keeps == UNCHANGED <<pipes, lives, line, lapsed, sent, fate, seen>>

ReportsUnrecorded(type, data) == \* mutant: the event is told and not put on record
    /\ at = "running"
    /\ \/ type = "harness.spawned" /\ events = <<>> /\ last' = FALSE
       \/ type \in {"harness.completed", "harness.failed"} /\ events # <<>> /\ last' = TRUE
    /\ events' = Append(events, type) /\ at' = "notifying"
    /\ UNCHANGED <<reply, rows, told, streamed>> /\ Keeps
\* The harness yields an event, first that it was spawned and in the end its verdict;
\* a line of the child in between may say of itself that it is either.  run() puts the
\* event on record and in its list.
Report(type, data) ==
    /\ at = "running"
    /\ \/ type = "harness.spawned" /\ events = <<>> /\ last' = FALSE
       \/ type \in ReportTypes /\ Len(events) \in 1..MaxReports /\ last' = FALSE
       \/ type \in {"harness.completed", "harness.failed"} /\ events # <<>> /\ last' = TRUE
    /\ Records(type, data) /\ events' = Append(events, type)
    /\ at' = "notifying"
    /\ UNCHANGED <<reply, told, streamed>> /\ Keeps

\* on_event writes a line to the shell before the run goes on; it waits for room.
Notify ==
    /\ at = "notifying" /\ ~gone /\ Len(stdout) < PipeLines
    /\ LET type == events[Len(events)]
       IN  /\ stdout' = Append(stdout, [kind |-> "event", line |-> line, type |-> type])
           /\ told' = Append(told, type)
           /\ streamed' = [streamed EXCEPT ![Session] = IF type \in Turns THEN @ + 1 ELSE @]
    /\ at' = IF last THEN "settling" ELSE "running"
    /\ UNCHANGED <<stdin, gone, lives, line, reply, events, last, rows, lapsed, sent, fate, seen>>

SettlesCompleted == \* mutant: whatever the harness said
    /\ at = "settling"
    /\ Records("session.state.completed", "none")
    /\ Replies("ok", events)
    /\ UNCHANGED <<events, last, told, streamed>> /\ Keeps
Settle ==
    /\ at = "settling"
    /\ Records(IF events[Len(events)] = "harness.completed"
               THEN "session.state.completed" ELSE "session.state.failed", "none")
    /\ Replies("ok", events)
    /\ UNCHANGED <<events, last, told, streamed>> /\ Keeps

\* An adapter refuses a path of the session: SessionError is no RpcError.
ScopeRefused ==
    /\ at = "running" /\ events = <<>>
    /\ Records("session.state.failed", "none")
    /\ Replies("INTERNAL_ERROR", 0)
    /\ UNCHANGED <<events, last, told, streamed>> /\ Keeps

\* The harness or an append raises, or the line for the shell does: the shell is gone,
\* or the text cannot be encoded.
RunRaises ==
    /\ at \in Running
    /\ Replies("INTERNAL_ERROR", 0)
    /\ UNCHANGED <<rows, events, last, told, streamed>> /\ Keeps

-----------------------------------------------------------------------------
(* serve: the answer. *)

AnswersAll(l) == TRUE \* mutant
\* A call without an id is not answered; a line whose envelope does not hold has no
\* id to look for and is.
WantsAnswer(l) == ~l.quiet \/ l.call.method \in {"garbage", "envelope"}

Frees(how) ==
    /\ line' = NoLine /\ reply' = NoReply
    /\ fate' = [fate EXCEPT ![line.n] = how]
    /\ events' = <<>> /\ told' = <<>> /\ last' = FALSE
    /\ UNCHANGED <<rows, lapsed, sent, seen, streamed>>

Silent ==
    /\ at = "replying" /\ ~WantsAnswer(line)
    /\ at' = "reading" /\ Frees("silent") /\ UNCHANGED <<pipes, lives>>

Answer ==
    /\ at = "replying" /\ WantsAnswer(line) /\ ~gone /\ Len(stdout) < PipeLines
    /\ stdout' = Append(stdout, [kind |-> "response", line |-> line,
                                 code |-> reply.code, body |-> reply.body])
    /\ at' = "reading" /\ Frees("answered") /\ UNCHANGED <<stdin, gone, lives>>

\* The lines nobody will answer any more.
Lost == [n \in Lines |-> IF fate[n] \in {"waiting", "taken"} THEN "lost" ELSE fate[n]]

Ends ==
    /\ at' = "down" /\ stdin' = <<>> /\ fate' = Lost
    /\ line' = NoLine /\ reply' = NoReply /\ events' = <<>> /\ told' = <<>> /\ last' = FALSE
    /\ UNCHANGED <<stdout, gone, lives, rows, lapsed, sent, seen, streamed>>

WaitsForReader == FALSE \* mutant: the broken pipe is not noticed
\* The answer finds no reader and the loop ends with the exception.
AnswerRaises == at = "replying" /\ WantsAnswer(line) /\ gone /\ Ends

\* What the shell wrote before it went is served first.
EndOfInput == at = "reading" /\ gone /\ stdin = <<>> /\ Ends

Methods == \/ Refuse \/ version \/ session_start \/ session_run \/ event_tail
           \/ usage_summary \/ hitl_list \/ hitl_create \/ hitl_decide

Serves == \/ Methods
          \/ \E type \in ReportTypes \ {"harness.usage"} : Report(type, "none")
          \/ \E data \in {"number", "text"} : Report("harness.usage", data)
          \/ Notify \/ Settle \/ ScopeRefused \/ RunRaises
          \/ Silent \/ Answer \/ AnswerRaises \/ EndOfInput

-----------------------------------------------------------------------------
(* The shell (external to the repository), the operating system and the clock. *)

Send(asks) ==
    /\ at # "down" /\ ~gone /\ sent < MaxLines /\ Len(stdin) < PipeLines
    /\ stdin' = Append(stdin, [n |-> sent + 1, quiet |-> asks.quiet, call |-> asks.call])
    /\ sent' = sent + 1 /\ fate' = [fate EXCEPT ![sent + 1] = "waiting"]
    /\ UNCHANGED <<stdout, gone, lives, kernel, rows, lapsed, seen, streamed>>

Receive ==
    /\ stdout # <<>> /\ ~gone
    /\ seen' = [kind |-> Head(stdout).kind, n |-> Head(stdout).line.n]
    /\ stdout' = Tail(stdout)
    /\ UNCHANGED <<stdin, gone, lives, kernel, rows, lapsed, sent, fate, streamed>>

ShellLeaves ==
    /\ ~gone /\ at # "down"
    /\ gone' = TRUE /\ stdout' = <<>>
    /\ UNCHANGED <<stdin, lives, kernel, rows, lapsed, sent, fate, seen, streamed>>

\* A line that is not UTF-8 ends the kernel as well, and an answer that cannot be
\* encoded.
KernelDies == at # "down" /\ Ends

\* The same shell, having read what there was, or another one starts a kernel.
Restart ==
    /\ at = "down" /\ stdout = <<>> /\ lives < MaxLives
    /\ at' = "reading" /\ gone' = FALSE /\ lives' = lives + 1
    /\ UNCHANGED <<stdin, stdout, line, reply, events, last, told, rows, lapsed, sent, fate,
                   seen, streamed>>

Lapse(p) ==
    /\ IsPause(p) /\ ~IsDecided(p) /\ p \notin lapsed
    /\ lapsed' = lapsed \cup {p}
    /\ UNCHANGED <<pipes, lives, kernel, rows, sent, fate, seen, streamed>>

-----------------------------------------------------------------------------

RpcNext == \/ Serves \/ Receive \/ ShellLeaves \/ KernelDies \/ Restart
           \/ \E asks \in Calls : Send(asks)
           \/ \E p \in Lines : Lapse(p)

\* Fairness: the kernel's thread runs, the harness says something or ends (RunEnds of
\* Sessions), and a shell that is there reads.
RpcSpec == RpcInit /\ [][RpcNext]_rvars /\ WF_rvars(Serves) /\ WF_rvars(Receive)
===============================================================================
