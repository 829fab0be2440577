---------------------------- MODULE HitlProperties ----------------------------
(***************************************************************************)
(* What the HITL queue and the ledger under it must get right.             *)
(***************************************************************************)
EXTENDS HitlStore

Intents == {intent \in [tenant : Tenant, actor : Actor, capability : {e.capability : e \in Effect},
                        payload_digest : {bind_intent(n, e.capability, e.payload) :
                                             n \in Tenant, e \in Effect},
                        created_at : 0..MaxNow, expires_at : Nat] :
                intent.expires_at > intent.created_at}

IsPause(x) == /\ x.pause_id \in 1..calls /\ x.tenant \in Tenant
              /\ x.expires_at > x.created_at

\* Rows, lock and calls have their types; pauses and intents on record satisfy the
\* validators of HitlPause and ApprovalIntent; whoever is past the check of decide
\* or the SELECT of append owns the lock.
TypeOK ==
    /\ lock \in Thread \cup {Nobody} /\ now \in 0..MaxNow /\ calls \in 0..MaxCalls
    /\ \A n \in 1..Len(rows) :
          LET e == rows[n].event
          IN  /\ e.event_id \in 1..calls /\ e.tenant \in Tenant
              /\ e.event_type = "hitl.pause.created" => IsPause(e.payload)
              /\ e.event_type = "hitl.pause.decided" => e.payload.intent \in Intents
    /\ \A t \in Thread :
          /\ pc[t] \in {"idle", "appending", "inserting", "deciding", "judging",
                        "listing_created", "listing_decided", "listing_expired"}
          /\ pc[t] \in {"judging", "inserting"} => lock = t
          /\ pc[t] = "idle" => lock # t /\ job[t] = NoJob

\* verify_chain accepts every tenant's chain at any moment, whichever threads
\* append, fail or die in the middle (store.py, append).
ChainValid == \A tenant \in Tenant : verify_chain(tenant)

\* No pause is decided twice: two concurrent decides, or a decide repeated because
\* its answer was lost in a crash, never both record a decision (hitl.py: "can
\* never both observe PENDING").
DecidedOnce ==
    \A m, n \in 1..Len(rows) :
        /\ rows[m].event.event_type = "hitl.pause.decided"
        /\ rows[n].event.event_type = "hitl.pause.decided"
        /\ rows[m].event.payload.pause_id = rows[n].event.payload.pause_id
        => m = n

\* A pause is decided before it lapses, and a pause whose expiry is on record has
\* no decision (hitl.py: fail-closed on expired).
NoDecisionAfterExpiry ==
    \A p \in 1..calls : \A n \in Decided(p) :
        /\ Expired(p) = {}
        /\ \A m \in Created(p) :
              rows[n].event.payload.intent.created_at < rows[m].event.payload.expires_at

\* What a caller was told is on record, also after a crash: a pause it may wait
\* for, an intent it may act on.
AnswersOnRecord ==
    \A t \in Thread :
        /\ answer[t].kind = "pause" => Created(answer[t].pause.pause_id) # {}
        /\ answer[t].kind = "intent" =>
              \E n \in Decided(answer[t].pause_id) :
                  rows[n].event.payload.intent = answer[t].intent

\* The inductive invariant of HitlProofs.  Whoever judges a pause or inserts a row
\* owns the lock; a decision under way keeps it until it is on record.
OwnsLock(t) ==
    /\ pc[t] \in {"judging", "inserting"} => lock = t
    /\ pc[t] = "appending" /\ job[t].event.event_type = "hitl.pause.decided" => lock = t

\* What a thread found undecided is undecided still.
FoundPending(t) ==
    /\ pc[t] = "judging" /\ job[t].status = "pending" => Decided(job[t].pause.pause_id) = {}
    /\ pc[t] \in {"appending", "inserting"} /\ job[t].event.event_type = "hitl.pause.decided"
          => Decided(job[t].event.payload.pause_id) = {}

\* The hash a thread selected is that of its tenant's last row still.
SelectedLast(t) ==
    pc[t] = "inserting" =>
        \E n \in 0..Len(rows) : /\ IsLatest(n, job[t].event.tenant, Len(rows))
                               /\ prev_hash[t] = HashAt(n)

\* The row a thread is about to write says what the thread is about to answer.
RowSaysAnswer(t) ==
    pc[t] \in {"appending", "inserting"} =>
        LET e == job[t].event
            r == job[t].result
        IN  /\ r.kind = "pause" => /\ e.event_type = "hitl.pause.created"
                                   /\ e.payload = r.pause
            /\ r.kind = "intent" => /\ e.event_type = "hitl.pause.decided"
                                    /\ e.payload.pause_id = r.pause_id
                                    /\ e.payload.intent = r.intent

ThreadInv(t) == OwnsLock(t) /\ FoundPending(t) /\ SelectedLast(t) /\ RowSaysAnswer(t)

HitlInv ==
    /\ DOMAIN pc = Thread /\ DOMAIN job = Thread
    /\ DOMAIN prev_hash = Thread /\ DOMAIN answer = Thread
    /\ \A t \in Thread : ThreadInv(t)
    /\ ChainValid /\ DecidedOnce /\ AnswersOnRecord

\* list_pending, though it reads three times: it lists nothing that was decided or
\* expired before it began and everything that was pending from its beginning till
\* now; and no other tenant's pause.
ListingSound ==
    \A t \in Thread : answer[t].kind = "listing" =>
        LET Closed(p) == Decided(p) \cup Expired(p)
        IN  /\ \A pause \in answer[t].pauses :
                  /\ pause.tenant = answer[t].tenant
                  /\ \A n \in Closed(pause.pause_id) : n > answer[t].seen
            /\ \A n \in 1..answer[t].seen :
                  LET e == rows[n].event
                  IN  /\ e.event_type = "hitl.pause.created"
                      /\ e.tenant = answer[t].tenant
                      /\ Closed(e.payload.pause_id) = {}
                      => e.payload \in answer[t].pauses

\* Every call returns (or dies with the process): no error path keeps the lock.
CallsReturn == \A t \in Thread : pc[t] # "idle" ~> pc[t] = "idle"

\* The queue implements HumanDecisions: the outcome of a pause is what its events say.
Outcome(p) == IF Decided(p) # {}
              THEN LET n == CHOOSE n \in Decided(p) : \A m \in Decided(p) : m <= n
                   IN  rows[n].event.payload.decision
              ELSE IF Expired(p) # {} THEN "expired"
              ELSE IF Created(p) # {} THEN "pending" ELSE "unknown"
Decisions == INSTANCE HumanDecisions WITH
    Pause   <- 1..MaxCalls,
    outcome <- [p \in 1..MaxCalls |-> Outcome(p)]

ImplementsDecisions == Decisions!HSpec
===============================================================================
