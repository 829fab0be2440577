------------------------------ MODULE HitlStore ------------------------------
(***************************************************************************)
(* The HITL queue of ledger/hitl.py over the ledger it shares with every   *)
(* other service of the kernel, called by several threads: the methods     *)
(* seasi.hitl.create, .decide and .list of rpc/methods.py, and the appends *)
(* of the other services (CallEmit).  A pause has no state but the events  *)
(* about it.                                                               *)
(*                                                                         *)
(* pc says how far the call of each thread is: it has to select, then      *)
(* insert a row ("appending", "inserting"), to take the lock and load a    *)
(* pause ("deciding"), to decide the loaded one ("judging"), or to make    *)
(* the first, second or third query of list_pending.  Between any two of   *)
(* these another thread may run, the clock move, or the process die.       *)
(***************************************************************************)
EXTENDS Ledger, IntentBinding

CONSTANTS
    Tenant,            \* tenant ids
    Effect,            \* what callers ask approval for: [capability, payload]
    Actor,             \* the human deciding
    Ttl,               \* the ttl_s values callers pass, in ticks
    approval_ttl,      \* DEFAULT_APPROVAL_TTL_S, in ticks
    ClockMayStepBack,  \* TRUE: datetime.now(UTC), a wall clock, may be set back
    MaxNow,            \* bound: the clock stops here
    MaxCalls           \* bound: calls of all threads together

ASSUME HitlAssumption ==
    /\ Ttl \subseteq Nat \ {0} /\ approval_ttl \in Nat \ {0}
    /\ ClockMayStepBack \in BOOLEAN
    /\ MaxNow \in Nat /\ MaxCalls \in Nat

VARIABLES
    pc,      \* for each thread, how far its call is; "idle" between calls
    job,     \* for each thread, the locals of its call
    answer,  \* for each thread, what its last call returned
    now,     \* the wall clock
    calls    \* the calls made; also the source of fresh UUIDs

vars == <<ledger, pc, job, answer, now, calls>>

NoJob    == [op |-> "none"]
NoAnswer == [kind |-> "none"]
HitlError == [kind |-> "error"]

Init ==
    /\ LedgerInit
    /\ pc = [t \in Thread |-> "idle"]
    /\ job = [t \in Thread |-> NoJob]
    /\ answer = [t \in Thread |-> NoAnswer]
    /\ now = 0 /\ calls = 0

-----------------------------------------------------------------------------
(* Events about a pause. *)

\* build_event, with a new event_id.
build_event(id, type, tenant, payload) ==
    [event_id |-> id, event_type |-> type, tenant |-> tenant, payload |-> payload]

About(type, p) == {n \in 1..Len(rows) : /\ rows[n].event.event_type = type
                                        /\ rows[n].event.payload.pause_id = p}
Created(p) == About("hitl.pause.created", p)
Decided(p) == About("hitl.pause.decided", p)
Expired(p) == About("hitl.pause.expired", p)

\* _load_pause takes a decided pause from its decision, any other as created: an
\* expiry on record is not looked for.
AlwaysPending(p) == TRUE \* mutant: decisions are not looked for either
IsPending(p)     == Decided(p) = {}

lapsed_after(pause, t) == t > pause.expires_at \* mutant
\* HitlPause.is_expired
lapsed(pause, t) == t >= pause.expires_at

-----------------------------------------------------------------------------
(* Calls begin, advance and answer. *)

Begins(t, step, locals) ==
    /\ pc[t] = "idle" /\ calls < MaxCalls
    /\ pc' = [pc EXCEPT ![t] = step]
    /\ job' = [job EXCEPT ![t] = locals]
    /\ answer' = [answer EXCEPT ![t] = NoAnswer]
    /\ calls' = calls + 1
    /\ UNCHANGED <<ledger, now>>

Advances(t, from, to, locals) ==
    /\ pc[t] = from
    /\ pc' = [pc EXCEPT ![t] = to]
    /\ job' = [job EXCEPT ![t] = locals]
    /\ UNCHANGED <<answer, now, calls>>

Answers(t, from, result) ==
    /\ pc[t] = from
    /\ pc' = [pc EXCEPT ![t] = "idle"]
    /\ job' = [job EXCEPT ![t] = NoJob]
    /\ answer' = [answer EXCEPT ![t] = result]
    /\ UNCHANGED <<now, calls>>

\* The locals of a call that has an event to append and then a result to return.
Appending(event, result) == [op |-> "append", event |-> event, result |-> result]

-----------------------------------------------------------------------------
(* The calls. *)

\* hitl_create: the pause is new at every call.
CallCreate(t, tenant, effect, ttl) ==
    LET pause == [pause_id |-> calls + 1, tenant |-> tenant,
                  capability |-> effect.capability,
                  payload_digest |-> bind_intent(tenant, effect.capability, effect.payload),
                  created_at |-> now, expires_at |-> default_expiry(now, ttl)]
    IN  Begins(t, "appending",
            Appending(build_event(calls + 1, "hitl.pause.created", tenant, pause),
                      [kind |-> "pause", pause |-> pause]))

\* hitl_decide, of any pause on record or (0) of an unknown one.
CallDecide(t, p, decision, actor) ==
    Begins(t, "deciding", [op |-> "decide", event_id |-> calls + 1, pause_id |-> p,
                           decision |-> decision, actor |-> actor])

CallList(t, tenant) == Begins(t, "listing_created", [op |-> "list", tenant |-> tenant])

\* Any other append: SessionService, or a sink of the runner.
CallEmit(t, tenant) ==
    Begins(t, "appending",
        Appending(build_event(calls + 1, "session.created", tenant, [pause_id |-> 0]),
                  [kind |-> "recorded"]))

-----------------------------------------------------------------------------
(* EventLedger.append *)

AppendSelects(t) ==
    /\ Advances(t, "appending", "inserting", job[t])
    /\ SelectLast(t, job[t].event)

AppendCommits(t) ==
    /\ Answers(t, "inserting", job[t].result)
    /\ Insert(t, job[t].event)

SwallowsFailure(t) == \* mutant: the caller is told that all is well
    Answers(t, "inserting", job[t].result) /\ Rollback(t)

KeepsTheLock(t) == \* mutant: the lock is not left on the way out
    Answers(t, "inserting", HitlError) /\ Forgets(t) /\ UNCHANGED <<rows, lock>>

\* SQLite raises: the exception leaves append, decide and the RPC method.
AppendFails(t) == Answers(t, "inserting", HitlError) /\ Rollback(t)

-----------------------------------------------------------------------------
(* decide *)

UnknownPause(t) ==
    /\ pc[t] = "deciding" /\ lock = Nobody
    /\ Created(job[t].pause_id) = {}
    /\ Answers(t, "deciding", HitlError)
    /\ UNCHANGED ledger

Loaded(t, n) == \* the locals once row n has been loaded
    [op |-> "decide", event_id |-> job[t].event_id, pause |-> rows[n].event.payload,
     status |-> IF IsPending(job[t].pause_id) THEN "pending" ELSE "decided",
     decision |-> job[t].decision, actor |-> job[t].actor]

LoadUnlocked(t) == \* mutant: the lock is not kept between the check and the append
    \E n \in 1..Len(rows) :
        /\ pc[t] = "deciding" /\ n \in Created(job[t].pause_id)
        /\ Advances(t, "deciding", "judging", Loaded(t, n))
        /\ Queries(t)

LoadPause(t) ==
    \E n \in 1..Len(rows) :
        /\ pc[t] = "deciding" /\ n \in Created(job[t].pause_id)
        /\ Advances(t, "deciding", "judging", Loaded(t, n))
        /\ Acquires(t) /\ UNCHANGED <<rows, prev_hash>>

LeavesWithError(t) ==
    Answers(t, "judging", HitlError) /\ Releases /\ UNCHANGED <<rows, prev_hash>>

NotPending(t) == pc[t] = "judging" /\ job[t].status # "pending" /\ LeavesWithError(t)

\* Decided too late: the expiry is put on record and the call fails.
Expire(t) ==
    /\ pc[t] = "judging" /\ job[t].status = "pending" /\ lapsed(job[t].pause, now)
    /\ LET pause == job[t].pause
       IN  Advances(t, "judging", "appending",
               Appending(build_event(job[t].event_id, "hitl.pause.expired", pause.tenant,
                                     [pause_id |-> pause.pause_id]),
                         HitlError))
    /\ UNCHANGED ledger

\* A decision, approved or rejected, seals an ApprovalIntent.
Resolve(t) ==
    /\ pc[t] = "judging" /\ job[t].status = "pending" /\ ~lapsed(job[t].pause, now)
    /\ LET pause  == job[t].pause
           intent == seal_intent(pause.tenant, job[t].actor, pause.capability,
                                 pause.payload_digest, now,
                                 default_expiry(now, approval_ttl))
       IN  Advances(t, "judging", "appending",
               Appending(build_event(job[t].event_id, "hitl.pause.decided", pause.tenant,
                                     [pause_id |-> pause.pause_id,
                                      decision |-> job[t].decision, intent |-> intent]),
                         [kind |-> "intent", pause_id |-> pause.pause_id, intent |-> intent]))
    /\ UNCHANGED ledger

-----------------------------------------------------------------------------
(* list_pending: three queries, each under the lock, which is left between   *)
(* them.  The order of the result is left out.                               *)

EventsOfType(type, tenant) ==
    {rows[n].event.payload : n \in {m \in 1..Len(rows) : /\ rows[m].event.event_type = type
                                                         /\ rows[m].event.tenant = tenant}}

Without(pauses, events) ==
    {pause \in pauses : \A e \in events : e.pause_id # pause.pause_id}

ListCreated(t) ==
    /\ pc[t] = "listing_created"
    /\ Advances(t, "listing_created", "listing_decided",
           [op |-> "list", tenant |-> job[t].tenant, seen |-> Len(rows),
            pauses |-> EventsOfType("hitl.pause.created", job[t].tenant)])
    /\ Queries(t)

ListDecided(t) ==
    /\ pc[t] = "listing_decided"
    /\ Advances(t, "listing_decided", "listing_expired",
           [job[t] EXCEPT !.pauses =
                Without(@, EventsOfType("hitl.pause.decided", job[t].tenant))])
    /\ Queries(t)

ListsExpired(t) == \* mutant: expiries are not taken out
    /\ pc[t] = "listing_expired"
    /\ Answers(t, "listing_expired", [kind |-> "listing", tenant |-> job[t].tenant,
                                      seen |-> job[t].seen, pauses |-> job[t].pauses])
    /\ Queries(t)

ListExpired(t) ==
    /\ pc[t] = "listing_expired"
    /\ Answers(t, "listing_expired",
           [kind |-> "listing", tenant |-> job[t].tenant, seen |-> job[t].seen,
            pauses |-> Without(job[t].pauses,
                               EventsOfType("hitl.pause.expired", job[t].tenant))])
    /\ Queries(t)

-----------------------------------------------------------------------------
(* The environment. *)

\* The process dies and is started again on the same file: calls under way are
\* lost with their locals; what was returned stays returned.
Crash ==
    /\ \E t \in Thread : pc[t] # "idle"
    /\ pc' = [t \in Thread |-> "idle"] /\ job' = [t \in Thread |-> NoJob]
    /\ LedgerCrash
    /\ UNCHANGED <<answer, now, calls>>

Tick ==
    /\ \/ now < MaxNow /\ now' = now + 1
       \/ ClockMayStepBack /\ now > 0 /\ now' = now - 1
    /\ UNCHANGED <<ledger, pc, job, answer, calls>>

-----------------------------------------------------------------------------

PausesOnRecord == {p \in 1..calls : Created(p) # {}}

Call(t) ==
    \/ \E tenant \in Tenant : \/ \E effect \in Effect, ttl \in Ttl :
                                    CallCreate(t, tenant, effect, ttl)
                              \/ CallList(t, tenant)
                              \/ CallEmit(t, tenant)
    \/ \E p \in PausesOnRecord \cup {0}, decision \in {"approved", "rejected"},
          actor \in Actor : CallDecide(t, p, decision, actor)

Works(t) == \/ AppendSelects(t) \/ AppendCommits(t) \/ AppendFails(t)
            \/ UnknownPause(t) \/ LoadPause(t) \/ NotPending(t) \/ Expire(t) \/ Resolve(t)
            \/ ListCreated(t) \/ ListDecided(t) \/ ListExpired(t)

Next == \/ \E t \in Thread : Call(t) \/ Works(t)
        \/ Crash \/ Tick

\* Fairness: the operating system runs every thread that is not waiting.
Spec == Init /\ [][Next]_vars /\ \A t \in Thread : WF_vars(Works(t))
===============================================================================
