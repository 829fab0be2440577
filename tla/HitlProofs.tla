------------------------------ MODULE HitlProofs ------------------------------
(***************************************************************************)
(* Proofs about the HITL queue and the ledger under it, for any number of  *)
(* threads, tenants and calls, with appends that fail and a process that   *)
(* dies at any point.  DecidedInTime and DecisionsAreFinal need a wall     *)
(* clock that is not set back (hitl_clock shows what happens when it is);  *)
(* all else holds whatever the clock does.                                 *)
(***************************************************************************)
EXTENDS HitlProperties, SequenceTheorems, TLAPS

\* The rows are a sequence, of whatever has been appended.
RowsAreSeq == \E S : rows \in Seq(S)

IInv == RowsAreSeq /\ HitlInv

\* An append leaves the rows before it alone.
LEMMA RowsGrow ==
    ASSUME RowsAreSeq, NEW r, rows' = Append(rows, r)
    PROVE  /\ RowsAreSeq'
           /\ Len(rows) \in Nat /\ Len(rows') = Len(rows) + 1
           /\ \A i \in 1..Len(rows) : rows'[i] = rows[i]
           /\ rows'[Len(rows) + 1] = r
  <1>1. PICK S : rows \in Seq(S)
    BY DEF RowsAreSeq
  <1>2. rows \in Seq(S \cup {r}) /\ r \in S \cup {r}
    BY <1>1
  <1>3. rows' \in Seq(S \cup {r})
    BY <1>2, AppendProperties
  <1>4. RowsAreSeq'
    BY <1>3 DEF RowsAreSeq
  <1>5. QED
    BY <1>2, <1>4, AppendProperties

\* An event about a pause stays on record, and a new one is found there.
LEMMA AboutGrows ==
    ASSUME RowsAreSeq, NEW r, rows' = Append(rows, r), NEW type, NEW p
    PROVE  /\ About(type, p) \subseteq About(type, p)'
           /\ About(type, p)' \subseteq About(type, p) \cup {Len(rows) + 1}
           /\ Len(rows) + 1 \in About(type, p)' <=>
                 r.event.event_type = type /\ r.event.payload.pause_id = p
  BY RowsGrow DEF About

\* The invariant of a thread survives a step of another one that leaves the rows and
\* the lock alone, or that was free to do what it liked to them because this thread
\* cannot be where it matters: the lock is not its.
LEMMA OtherThread ==
    ASSUME ThreadAssumption, NEW t \in Thread, NEW u \in Thread, u # t, ThreadInv(u),
           pc'[u] = pc[u], job'[u] = job[u], prev_hash'[u] = prev_hash[u],
           \/ rows' = rows /\ lock' = lock
           \/ lock \in {Nobody, t}
    PROVE  ThreadInv(u)'
  <1>1. CASE rows' = rows /\ lock' = lock
    <2>1. OwnsLock(u)'
      BY <1>1 DEF ThreadInv, OwnsLock
    <2>2. FoundPending(u)'
      BY <1>1 DEF ThreadInv, FoundPending, Decided, About
    <2>3. SelectedLast(u)'
      BY <1>1 DEF ThreadInv, SelectedLast, IsLatest, HashAt
    <2>4. RowSaysAnswer(u)'
      BY DEF ThreadInv, RowSaysAnswer
    <2>5. QED
      BY <2>1, <2>2, <2>3, <2>4 DEF ThreadInv
  <1>2. CASE lock \in {Nobody, t}
    <2>1. lock # u
      BY <1>2, ThreadAssumption
    <2>2. /\ pc[u] \notin {"judging", "inserting"}
          /\ ~(pc[u] = "appending" /\ job[u].event.event_type = "hitl.pause.decided")
      BY <2>1 DEF ThreadInv, OwnsLock
    <2>3. OwnsLock(u)' /\ FoundPending(u)' /\ SelectedLast(u)'
      BY <2>2 DEF OwnsLock, FoundPending, SelectedLast
    <2>4. RowSaysAnswer(u)'
      BY DEF ThreadInv, RowSaysAnswer
    <2>5. QED
      BY <2>3, <2>4 DEF ThreadInv
  <1>3. QED
    BY <1>1, <1>2

\* What depends on the rows only.
LEMMA SameRows ==
    ASSUME RowsAreSeq, ChainValid, DecidedOnce, rows' = rows
    PROVE  RowsAreSeq' /\ ChainValid' /\ DecidedOnce'
  BY DEF RowsAreSeq, ChainValid, verify_chain, IsLatest, HashAt, DecidedOnce

\* A step of thread t that writes no row and answers with no pause and no intent
\* keeps the invariant if it keeps the thread's own.
LEMMA Quiet ==
    ASSUME ThreadAssumption, IInv, NEW t \in Thread,
           rows' = rows,
           lock' = lock \/ lock \in {Nobody, t},
           \E step : pc' = [pc EXCEPT ![t] = step],
           \E locals : job' = [job EXCEPT ![t] = locals],
           prev_hash' = prev_hash \/ \E h : prev_hash' = [prev_hash EXCEPT ![t] = h],
           \/ answer' = answer
           \/ \E a : /\ answer' = [answer EXCEPT ![t] = a]
                     /\ a.kind \notin {"pause", "intent"},
           ThreadInv(t)'
    PROVE  IInv'
  <1> USE DEF IInv, HitlInv
  <1>1. RowsAreSeq' /\ ChainValid' /\ DecidedOnce'
    BY SameRows
  <1>2. /\ DOMAIN pc' = Thread /\ DOMAIN job' = Thread
        /\ DOMAIN prev_hash' = Thread /\ DOMAIN answer' = Thread
    OBVIOUS
  <1>3. ASSUME NEW u \in Thread PROVE ThreadInv(u)'
    <2>1. CASE u = t
      BY <2>1
    <2>2. CASE u # t
      <3>1. pc'[u] = pc[u] /\ job'[u] = job[u] /\ prev_hash'[u] = prev_hash[u]
        BY <2>2
      <3>2. ThreadInv(u)
        OBVIOUS
      <3>3. QED
        BY <2>2, <3>1, <3>2, OtherThread
    <2>3. QED
      BY <2>1, <2>2
  <1>4. AnswersOnRecord'
    <2>1. ASSUME NEW u \in Thread
          PROVE  answer'[u] = answer[u] \/ answer'[u].kind \notin {"pause", "intent"}
      OBVIOUS
    <2>2. QED
      BY <2>1 DEF AnswersOnRecord, Created, Decided, About
  <1>5. QED
    BY <1>1, <1>2, <1>3, <1>4

-----------------------------------------------------------------------------
(* The calls and the steps that write no row. *)

\* A call begins: the thread owns nothing and has found nothing yet.
LEMMA BeginsInv ==
    ASSUME ThreadAssumption, IInv, NEW t \in Thread, NEW step, NEW locals,
           Begins(t, step, locals),
           step \notin {"judging", "inserting"},
           step = "appending" =>
              /\ locals.event.event_type # "hitl.pause.decided"
              /\ locals.result.kind = "pause" =>
                    /\ locals.event.event_type = "hitl.pause.created"
                    /\ locals.event.payload = locals.result.pause
              /\ locals.result.kind # "intent"
    PROVE  IInv'
  <1>1. pc'[t] = step /\ job'[t] = locals
    BY DEF Begins, IInv, HitlInv
  <1>2. ThreadInv(t)'
    BY <1>1 DEF ThreadInv, OwnsLock, FoundPending, SelectedLast, RowSaysAnswer
  <1>3. NoAnswer.kind \notin {"pause", "intent"}
    BY DEF NoAnswer
  <1>4. QED
    BY <1>2, <1>3, Quiet DEF Begins, ledger

\* A call that starts is in its own thread's locals only.
LEMMA CallInv ==
    ASSUME ThreadAssumption, IInv, NEW t \in Thread, Call(t)
    PROVE  IInv'
  <1>1. ASSUME NEW tenant \in Tenant, NEW effect \in Effect, NEW ttl \in Ttl,
               CallCreate(t, tenant, effect, ttl)
        PROVE  IInv'
    BY <1>1, BeginsInv DEF CallCreate, Appending, build_event
  <1>2. ASSUME NEW tenant \in Tenant, CallList(t, tenant) PROVE IInv'
    BY <1>2, BeginsInv DEF CallList
  <1>3. ASSUME NEW tenant \in Tenant, CallEmit(t, tenant) PROVE IInv'
    BY <1>3, BeginsInv DEF CallEmit, Appending, build_event
  <1>4. ASSUME NEW p, NEW decision, NEW actor, CallDecide(t, p, decision, actor)
        PROVE  IInv'
    BY <1>4, BeginsInv DEF CallDecide
  <1>5. QED
    BY <1>1, <1>2, <1>3, <1>4 DEF Call

\* A call that ends with an error or a listing.
LEMMA AnswersInv ==
    ASSUME ThreadAssumption, IInv, NEW t \in Thread, NEW from, NEW result,
           Answers(t, from, result), result.kind \notin {"pause", "intent"},
           rows' = rows,
           lock' = lock \/ lock \in {Nobody, t},
           prev_hash' = prev_hash \/ \E h : prev_hash' = [prev_hash EXCEPT ![t] = h]
    PROVE  IInv'
  <1>1. pc'[t] = "idle"
    BY DEF Answers, IInv, HitlInv
  <1>2. ThreadInv(t)'
    BY <1>1 DEF ThreadInv, OwnsLock, FoundPending, SelectedLast, RowSaysAnswer
  <1>3. QED
    BY <1>2, Quiet DEF Answers

\* A query of a listing writes no row and leaves the lock free.
LEMMA ListInv ==
    ASSUME ThreadAssumption, IInv, NEW t \in Thread,
           ListCreated(t) \/ ListDecided(t) \/ ListExpired(t)
    PROVE  IInv'
  <1>1. ASSUME NEW to, to \notin {"judging", "appending", "inserting"},
               NEW from, NEW locals, Advances(t, from, to, locals), Queries(t)
        PROVE  IInv'
    <2>1. pc'[t] = to
      BY <1>1 DEF Advances, IInv, HitlInv
    <2>2. ThreadInv(t)'
      BY <1>1, <2>1 DEF ThreadInv, OwnsLock, FoundPending, SelectedLast, RowSaysAnswer
    <2>3. QED
      BY <1>1, <2>2, Quiet DEF Advances, Queries, ledger
  <1>2. CASE ListCreated(t)
    BY <1>1, <1>2 DEF ListCreated
  <1>3. CASE ListDecided(t)
    BY <1>1, <1>3 DEF ListDecided
  <1>4. CASE ListExpired(t)
    BY <1>4, AnswersInv DEF ListExpired, Queries, ledger
  <1>5. QED
    BY <1>2, <1>3, <1>4

\* A call that ends with an error appended nothing and gives the lock back.
LEMMA ErrorInv ==
    ASSUME ThreadAssumption, IInv, NEW t \in Thread,
           UnknownPause(t) \/ NotPending(t) \/ AppendFails(t)
    PROVE  IInv'
  <1>1. HitlError.kind \notin {"pause", "intent"}
    BY DEF HitlError
  <1>2. CASE UnknownPause(t)
    BY <1>1, <1>2, AnswersInv DEF UnknownPause, ledger
  <1>3. ASSUME pc[t] \in {"judging", "inserting"} PROVE lock \in {Nobody, t}
    BY <1>3 DEF IInv, HitlInv, ThreadInv, OwnsLock
  <1>4. CASE NotPending(t)
    BY <1>1, <1>3, <1>4, AnswersInv DEF NotPending, LeavesWithError
  <1>5. CASE AppendFails(t)
    BY <1>1, <1>3, <1>5, AnswersInv DEF AppendFails, Rollback, Forgets, Answers
  <1>6. QED
    BY <1>2, <1>4, <1>5

\* The SELECT of append: taking the lock shuts out every other writer.
LEMMA AppendSelectsInv ==
    ASSUME ThreadAssumption, IInv, NEW t \in Thread, AppendSelects(t)
    PROVE  IInv'
  <1> USE DEF IInv, HitlInv
  <1>1. /\ pc[t] = "appending" /\ pc'[t] = "inserting" /\ job'[t] = job[t]
        /\ rows' = rows /\ lock' = t /\ lock \in {Nobody, t}
    BY DEF AppendSelects, Advances, SelectLast, Acquires
  <1>2. PICK n \in 0..Len(rows) :
            /\ IsLatest(n, job[t].event.tenant, Len(rows))
            /\ prev_hash' = [prev_hash EXCEPT ![t] = HashAt(n)]
    BY DEF AppendSelects, SelectLast
  <1>3. OwnsLock(t)'
    BY <1>1 DEF OwnsLock
  <1>4. FoundPending(t)'
    BY <1>1 DEF ThreadInv, FoundPending, Decided, About
  <1>5. SelectedLast(t)'
    <2>1. prev_hash'[t] = HashAt(n)'
      BY <1>1, <1>2 DEF HashAt
    <2>2. IsLatest(n, job[t].event.tenant, Len(rows))'
      BY <1>1, <1>2 DEF IsLatest
    <2>3. QED
      BY <1>1, <1>2, <2>1, <2>2 DEF SelectedLast
  <1>6. RowSaysAnswer(t)'
    BY <1>1 DEF ThreadInv, RowSaysAnswer
  <1>7. ThreadInv(t)'
    BY <1>3, <1>4, <1>5, <1>6 DEF ThreadInv
  <1>8. QED
    BY <1>1, <1>2, <1>7, Quiet DEF AppendSelects, Advances

\* Loading a pause takes the lock, so what is found pending stays pending.
LEMMA LoadPauseInv ==
    ASSUME ThreadAssumption, IInv, NEW t \in Thread, LoadPause(t)
    PROVE  IInv'
  <1> USE DEF IInv, HitlInv
  <1>1. PICK n \in 1..Len(rows) :
            /\ n \in Created(job[t].pause_id)
            /\ Advances(t, "deciding", "judging", Loaded(t, n))
            /\ Acquires(t) /\ UNCHANGED <<rows, prev_hash>>
    BY DEF LoadPause
  <1>2. pc'[t] = "judging" /\ job'[t] = Loaded(t, n) /\ lock' = t /\ lock \in {Nobody, t}
    BY <1>1 DEF Advances, Acquires
  <1>3. job'[t].pause.pause_id = job[t].pause_id
    BY <1>1, <1>2 DEF Loaded, Created, About
  <1>4. job'[t].status = "pending" => Decided(job[t].pause_id) = {}
    BY <1>2 DEF Loaded, IsPending
  <1>5. FoundPending(t)'
    <2>1. pc'[t] \notin {"appending", "inserting"}
      BY <1>2
    <2>2. rows' = rows
      BY <1>1
    <2>3. job'[t].status = "pending" =>
            \A i \in 1..Len(rows) :
                ~ /\ rows[i].event.event_type = "hitl.pause.decided"
                  /\ rows[i].event.payload.pause_id = job'[t].pause.pause_id
      BY <1>3, <1>4 DEF Decided, About
    <2>4. job'[t].status = "pending" => Decided(job[t].pause.pause_id)' = {}
      BY <2>2, <2>3 DEF Decided, About
    <2>5. QED
      BY <2>1, <2>4 DEF FoundPending
  <1>6. ThreadInv(t)'
    BY <1>2, <1>5 DEF ThreadInv, OwnsLock, SelectedLast, RowSaysAnswer
  <1>7. QED
    BY <1>1, <1>2, <1>6, Quiet DEF Advances

\* Judging leads to an append under the same lock.
LEMMA JudgeInv ==
    ASSUME ThreadAssumption, IInv, NEW t \in Thread, Expire(t) \/ Resolve(t)
    PROVE  IInv'
  <1> USE DEF IInv, HitlInv
  <1>1. lock = t /\ (job[t].status = "pending" => Decided(job[t].pause.pause_id) = {})
    BY DEF Expire, Resolve, ThreadInv, OwnsLock, FoundPending
  <1>2. CASE Expire(t)
    <2>1. /\ pc'[t] = "appending" /\ rows' = rows /\ lock' = lock /\ prev_hash' = prev_hash
          /\ job'[t].event.event_type = "hitl.pause.expired"
          /\ job'[t].result.kind = "error"
      BY <1>2 DEF Expire, Advances, Appending, build_event, HitlError, ledger
    <2>2. ThreadInv(t)'
      BY <2>1 DEF ThreadInv, OwnsLock, FoundPending, SelectedLast, RowSaysAnswer
    <2>3. QED
      BY <1>2, <2>1, <2>2, Quiet DEF Expire, Advances
  <1>3. CASE Resolve(t)
    <2>1. /\ pc'[t] = "appending" /\ rows' = rows /\ lock' = lock /\ prev_hash' = prev_hash
          /\ job'[t].result.kind = "intent"
          /\ job'[t].event.event_type = "hitl.pause.decided"
          /\ job'[t].event.payload.pause_id = job[t].pause.pause_id
          /\ job'[t].result.pause_id = job[t].pause.pause_id
          /\ job'[t].event.payload.intent = job'[t].result.intent
      BY <1>3 DEF Resolve, Advances, Appending, build_event, ledger
    <2>2. FoundPending(t)'
      BY <1>1, <1>3, <2>1 DEF FoundPending, Decided, About, Resolve
    <2>3. ThreadInv(t)'
      BY <1>1, <2>1, <2>2 DEF ThreadInv, OwnsLock, SelectedLast, RowSaysAnswer
    <2>4. QED
      BY <1>3, <2>1, <2>3, Quiet DEF Resolve, Advances
  <1>4. QED
    BY <1>2, <1>3

-----------------------------------------------------------------------------
(* The commit: the one step that writes a row. *)

\* The chain grows by a row that links to the last one of its tenant.
LEMMA ChainGrows ==
    ASSUME RowsAreSeq, ChainValid, NEW event, NEW n \in 0..Len(rows),
           IsLatest(n, event.tenant, Len(rows)),
           rows' = Append(rows, [event |-> event, prev_hash |-> HashAt(n),
                                 hash |-> chain_hash(HashAt(n), event)])
    PROVE  ChainValid'
  <1> DEFINE last == Len(rows) + 1
  <1>1. /\ Len(rows) \in Nat /\ Len(rows') = last
        /\ \A i \in 1..Len(rows) : rows'[i] = rows[i]
        /\ rows'[last] = [event |-> event, prev_hash |-> HashAt(n),
                          hash |-> chain_hash(HashAt(n), event)]
    BY RowsGrow
  <1> HIDE DEF last
  <1>2. ASSUME NEW m \in 0..Len(rows) PROVE HashAt(m)' = HashAt(m)
    BY <1>1, <1>2 DEF HashAt
  <1>3. ASSUME NEW m \in Nat, NEW upto \in 0..Len(rows), NEW tenant,
               IsLatest(m, tenant, upto)
        PROVE  IsLatest(m, tenant, upto)'
    BY <1>1, <1>3 DEF IsLatest
  <1>4. SUFFICES ASSUME NEW tenant \in Tenant, NEW k \in 1..last,
                        rows'[k].event.tenant = tenant
                 PROVE  \E m \in 0..(k - 1) :
                            /\ IsLatest(m, tenant, k - 1)'
                            /\ rows'[k].prev_hash = HashAt(m)'
                            /\ rows'[k].hash = chain_hash(HashAt(m)', rows'[k].event)
    BY <1>1 DEF ChainValid, verify_chain, chain_hash
  <1>5. CASE k \in 1..Len(rows)
    <2>1. PICK m \in 0..(k - 1) :
              /\ IsLatest(m, tenant, k - 1)
              /\ rows[k].prev_hash = HashAt(m)
              /\ rows[k].hash = chain_hash(HashAt(m), rows[k].event)
      BY <1>1, <1>4, <1>5 DEF ChainValid, verify_chain
    <2>2. m \in 0..Len(rows) /\ k - 1 \in 0..Len(rows)
      BY <1>1, <1>5
    <2>3. IsLatest(m, tenant, k - 1)' /\ HashAt(m)' = HashAt(m) /\ rows'[k] = rows[k]
      BY <1>1, <1>2, <1>3, <1>5, <2>1, <2>2
    <2>4. QED
      BY <2>1, <2>3
  <1>6. CASE k = last
    <2>1. k - 1 = Len(rows) /\ tenant = event.tenant
      BY <1>1, <1>4, <1>6 DEF last
    <2>2. IsLatest(n, tenant, k - 1)' /\ HashAt(n)' = HashAt(n)
      BY <1>1, <1>2, <1>3, <2>1
    <2>3. QED
      BY <1>1, <1>6, <2>1, <2>2
  <1>7. QED
    BY <1>1, <1>5, <1>6 DEF last

\* A decision of a pause that has none makes it the only one.
LEMMA DecisionsGrow ==
    ASSUME RowsAreSeq, DecidedOnce, NEW r, rows' = Append(rows, r),
           r.event.event_type = "hitl.pause.decided" => Decided(r.event.payload.pause_id) = {}
    PROVE  DecidedOnce'
  <1>1. /\ Len(rows) \in Nat /\ Len(rows') = Len(rows) + 1
        /\ \A i \in 1..Len(rows) : rows'[i] = rows[i]
        /\ rows'[Len(rows) + 1] = r
    BY RowsGrow
  <1>2. ASSUME NEW k \in 1..Len(rows), rows[k].event.event_type = "hitl.pause.decided",
               r.event.event_type = "hitl.pause.decided"
        PROVE  rows[k].event.payload.pause_id # r.event.payload.pause_id
    BY <1>2 DEF Decided, About
  <1>3. SUFFICES ASSUME NEW m \in 1..Len(rows'), NEW n \in 1..Len(rows'),
                        rows'[m].event.event_type = "hitl.pause.decided",
                        rows'[n].event.event_type = "hitl.pause.decided",
                        rows'[m].event.payload.pause_id = rows'[n].event.payload.pause_id
                 PROVE  m = n
    BY DEF DecidedOnce
  <1>4. CASE m \in 1..Len(rows) /\ n \in 1..Len(rows)
    BY <1>1, <1>3, <1>4 DEF DecidedOnce
  <1>5. CASE m = Len(rows) + 1 \/ n = Len(rows) + 1
    BY <1>1, <1>2, <1>3, <1>5
  <1>6. QED
    BY <1>1, <1>4, <1>5

\* The one step that writes a row: under the lock, behind the row it was chained to.
LEMMA AppendCommitsInv ==
    ASSUME ThreadAssumption, IInv, NEW t \in Thread, AppendCommits(t)
    PROVE  IInv'
  <1> USE DEF IInv, HitlInv
  <1> DEFINE event == job[t].event
  <1>1. pc[t] = "inserting" /\ ThreadInv(t) /\ lock = t
    BY DEF AppendCommits, Answers, ThreadInv, OwnsLock
  <1>2. PICK n \in 0..Len(rows) :
            IsLatest(n, event.tenant, Len(rows)) /\ prev_hash[t] = HashAt(n)
    BY <1>1 DEF ThreadInv, SelectedLast
  <1>3. rows' = Append(rows, [event |-> event, prev_hash |-> HashAt(n),
                              hash |-> chain_hash(HashAt(n), event)])
    BY <1>2 DEF AppendCommits, Insert
  <1>4. RowsAreSeq'
    BY <1>3, RowsGrow
  <1>5. ChainValid'
    BY <1>2, <1>3, ChainGrows
  <1>6. event.event_type = "hitl.pause.decided" => Decided(event.payload.pause_id) = {}
    BY <1>1 DEF ThreadInv, FoundPending
  <1>7. DecidedOnce'
    BY <1>3, <1>6, DecisionsGrow
  <1>8. /\ pc' = [pc EXCEPT ![t] = "idle"] /\ job' = [job EXCEPT ![t] = NoJob]
        /\ answer' = [answer EXCEPT ![t] = job[t].result]
        /\ prev_hash' = [prev_hash EXCEPT ![t] = Genesis]
    BY DEF AppendCommits, Answers, Insert, Forgets
  <1>9. ASSUME NEW u \in Thread PROVE ThreadInv(u)'
    <2>1. CASE u = t
      <3>1. pc'[t] = "idle"
        BY <1>8
      <3>2. QED
        BY <2>1, <3>1 DEF ThreadInv, OwnsLock, FoundPending, SelectedLast, RowSaysAnswer
    <2>2. CASE u # t
      <3>1. pc'[u] = pc[u] /\ job'[u] = job[u] /\ prev_hash'[u] = prev_hash[u]
        BY <1>8, <2>2
      <3>2. QED
        BY <1>1, <2>2, <3>1, OtherThread
    <2>3. QED
      BY <2>1, <2>2
  <1>10. AnswersOnRecord'
    <2> DEFINE r == [event |-> event, prev_hash |-> HashAt(n),
                     hash |-> chain_hash(HashAt(n), event)]
    <2>1. r.event = event /\ rows' = Append(rows, r)
      BY <1>3
    <2> HIDE DEF r
    <2>2. /\ \A p : Created(p) \subseteq Created(p)' /\ Decided(p) \subseteq Decided(p)'
          /\ \A p : event.event_type = "hitl.pause.created" /\ event.payload.pause_id = p
                       => Len(rows) + 1 \in Created(p)'
          /\ \A p : event.event_type = "hitl.pause.decided" /\ event.payload.pause_id = p
                       => Len(rows) + 1 \in Decided(p)'
      BY <2>1, AboutGrows DEF Created, Decided
    <2>3. /\ \A i \in 1..Len(rows) : rows'[i] = rows[i]
          /\ rows'[Len(rows) + 1].event = event
      BY <2>1, RowsGrow
    <2>4. ASSUME NEW u \in Thread, NEW p
          PROVE  /\ answer'[u].kind = "pause" /\ answer'[u].pause.pause_id = p
                       => Created(p)' # {}
                 /\ answer'[u].kind = "intent" /\ answer'[u].pause_id = p
                       => \E k \in Decided(p)' :
                             rows'[k].event.payload.intent = answer'[u].intent
      <3>1. CASE u = t
        <4>1. answer'[u] = job[t].result
          BY <1>8, <3>1
        <4>2. QED
          BY <1>1, <2>2, <2>3, <4>1 DEF ThreadInv, RowSaysAnswer
      <3>2. CASE u # t
        <4>1. answer'[u] = answer[u]
          BY <1>8, <3>2
        <4>2. answer[u].kind = "pause" => Created(answer[u].pause.pause_id) # {}
          BY DEF AnswersOnRecord
        <4>3. ASSUME answer[u].kind = "intent", answer[u].pause_id = p
              PROVE  \E k \in Decided(p)' : rows'[k].event.payload.intent = answer[u].intent
          <5>1. PICK k \in Decided(p) : rows[k].event.payload.intent = answer[u].intent
            BY <4>3 DEF AnswersOnRecord
          <5>2. k \in 1..Len(rows)
            BY DEF Decided, About
          <5>3. QED
            BY <2>2, <2>3, <5>1, <5>2
        <4>4. QED
          BY <2>2, <4>1, <4>2, <4>3
      <3>3. QED
        BY <3>1, <3>2
    <2>5. SUFFICES ASSUME NEW u \in Thread
                   PROVE  (/\ answer[u].kind = "pause" =>
                                 Created(answer[u].pause.pause_id) # {}
                           /\ answer[u].kind = "intent" =>
                                 \E k \in Decided(answer[u].pause_id) :
                                    rows[k].event.payload.intent = answer[u].intent)'
      BY DEF AnswersOnRecord
    <2>6. answer'[u].kind = "pause" => Created(answer[u].pause.pause_id)' # {}
      BY <2>4 DEF Created, About
    <2>7. ASSUME answer'[u].kind = "intent"
          PROVE  \E k \in Decided(answer[u].pause_id)' :
                    rows'[k].event.payload.intent = answer'[u].intent
      <3>0. ASSUME NEW p, answer'[u].pause_id = p
            PROVE  \E k \in 1..Len(rows') :
                      /\ rows'[k].event.event_type = "hitl.pause.decided"
                      /\ rows'[k].event.payload.pause_id = p
                      /\ rows'[k].event.payload.intent = answer'[u].intent
        <4>1. PICK k \in Decided(p)' : rows'[k].event.payload.intent = answer'[u].intent
          BY <2>4, <2>7, <3>0
        <4>2. QED
          BY <4>1 DEF Decided, About
      <3>1. PICK k \in 1..Len(rows') :
                /\ rows'[k].event.event_type = "hitl.pause.decided"
                /\ rows'[k].event.payload.pause_id = answer'[u].pause_id
                /\ rows'[k].event.payload.intent = answer'[u].intent
        BY <3>0
      <3>2. k \in Decided(answer[u].pause_id)'
        BY <3>1 DEF Decided, About
      <3>3. QED
        BY <3>1, <3>2
    <2>8. QED
      BY <2>6, <2>7
  <1>11. /\ DOMAIN pc' = Thread /\ DOMAIN job' = Thread
         /\ DOMAIN prev_hash' = Thread /\ DOMAIN answer' = Thread
    BY <1>8
  <1>12. QED
    BY <1>4, <1>5, <1>7, <1>9, <1>10, <1>11

-----------------------------------------------------------------------------
(* The environment, and the invariant. *)

\* A crash ends all calls; rows and answers stay.
LEMMA CrashInv ==
    ASSUME ThreadAssumption, IInv, Crash
    PROVE  IInv'
  <1> USE DEF IInv, HitlInv
  <1>1. rows' = rows /\ answer' = answer
    BY DEF Crash, LedgerCrash
  <1>2. RowsAreSeq' /\ ChainValid' /\ DecidedOnce'
    BY <1>1, SameRows
  <1>3. AnswersOnRecord'
    BY <1>1 DEF AnswersOnRecord, Created, Decided, About
  <1>4. ASSUME NEW u \in Thread PROVE ThreadInv(u)'
    <2>1. pc'[u] = "idle"
      BY DEF Crash
    <2>2. QED
      BY <2>1 DEF ThreadInv, OwnsLock, FoundPending, SelectedLast, RowSaysAnswer
  <1>5. /\ DOMAIN pc' = Thread /\ DOMAIN job' = Thread
        /\ DOMAIN prev_hash' = Thread /\ DOMAIN answer' = Thread
    BY <1>1 DEF Crash, LedgerCrash
  <1>6. QED
    BY <1>2, <1>3, <1>4, <1>5

\* The clock, and a step that changes nothing.
LEMMA StutterInv ==
    ASSUME IInv, UNCHANGED <<ledger, pc, job, answer>>
    PROVE  IInv'
  <1> USE DEF IInv, HitlInv, ledger
  <1>1. RowsAreSeq' /\ ChainValid' /\ DecidedOnce'
    BY SameRows
  <1>2. AnswersOnRecord'
    BY DEF AnswersOnRecord, Created, Decided, About
  <1>3. ASSUME NEW u \in Thread PROVE ThreadInv(u)'
    <2>1. OwnsLock(u)' /\ FoundPending(u)'
      BY DEF ThreadInv, OwnsLock, FoundPending, Decided, About
    <2>2. SelectedLast(u)'
      BY DEF ThreadInv, SelectedLast, IsLatest, HashAt
    <2>3. RowSaysAnswer(u)'
      BY DEF ThreadInv, RowSaysAnswer
    <2>4. QED
      BY <2>1, <2>2, <2>3 DEF ThreadInv
  <1>4. QED
    BY <1>1, <1>2, <1>3

\* IInv holds at first.
LEMMA InitInv == Init => IInv
  <1> SUFFICES ASSUME Init PROVE IInv
    OBVIOUS
  <1>1. rows = <<>> /\ Len(rows) = 0
    BY DEF Init, LedgerInit
  <1>2. RowsAreSeq
    <2>1. rows \in Seq({})
      BY <1>1
    <2>2. QED
      BY <2>1 DEF RowsAreSeq
  <1>3. ChainValid /\ DecidedOnce
    BY <1>1 DEF ChainValid, verify_chain, DecidedOnce
  <1>4. ASSUME NEW u \in Thread PROVE ThreadInv(u)
    <2>1. pc[u] = "idle"
      BY DEF Init
    <2>2. QED
      BY <2>1 DEF ThreadInv, OwnsLock, FoundPending, SelectedLast, RowSaysAnswer
  <1>5. AnswersOnRecord
    BY DEF Init, NoAnswer, AnswersOnRecord
  <1>6. /\ DOMAIN pc = Thread /\ DOMAIN job = Thread
        /\ DOMAIN prev_hash = Thread /\ DOMAIN answer = Thread
    BY DEF Init, LedgerInit
  <1>7. QED
    BY <1>2, <1>3, <1>4, <1>5, <1>6 DEF IInv, HitlInv

\* IInv is inductive: every step keeps it.
LEMMA NextInv == IInv /\ [Next]_vars => IInv'
  <1> SUFFICES ASSUME IInv, [Next]_vars PROVE IInv'
    OBVIOUS
  <1> USE ThreadAssumption
  <1>1. ASSUME NEW t \in Thread, Call(t) PROVE IInv'
    BY <1>1, CallInv
  <1>2. ASSUME NEW t \in Thread, Works(t) PROVE IInv'
    BY <1>2, AppendSelectsInv, AppendCommitsInv, ErrorInv, LoadPauseInv, JudgeInv, ListInv
       DEF Works
  <1>3. CASE Crash
    BY <1>3, CrashInv
  <1>4. CASE Tick
    BY <1>4, StutterInv DEF Tick
  <1>5. CASE UNCHANGED vars
    BY <1>5, StutterInv DEF vars
  <1>6. QED
    BY <1>1, <1>2, <1>3, <1>4, <1>5 DEF Next

\* Every reachable state satisfies the invariant.
THEOREM HitlInvariance == Spec => []HitlInv
  <1>1. IInv => HitlInv
    BY DEF IInv
  <1>2. QED
    BY <1>1, InitInv, NextInv, PTL DEF Spec

\* The hash chain of every tenant verifies at any moment (EventLedger.append and
\* verify_chain), whichever threads append, fail or die.
THEOREM ChainsVerify == Spec => []ChainValid
  <1>1. HitlInv => ChainValid
    BY DEF HitlInv
  <1>2. QED
    BY <1>1, HitlInvariance, PTL

\* No pause is decided twice (HitlStore.decide), by any threads, after any crash.
THEOREM NeverDecidedTwice == Spec => []DecidedOnce
  <1>1. HitlInv => DecidedOnce
    BY DEF HitlInv
  <1>2. QED
    BY <1>1, HitlInvariance, PTL

\* What a caller of create or decide was told is on record and stays there.
THEOREM AnswersRecorded == Spec => []AnswersOnRecord
  <1>1. HitlInv => AnswersOnRecord
    BY DEF HitlInv
  <1>2. QED
    BY <1>1, HitlInvariance, PTL

-----------------------------------------------------------------------------
(* Types, and what every pause owes to its creation. *)

Capabilities == {e.capability : e \in Effect}
Digests == {bind_intent(n, e.capability, e.payload) : n \in Tenant, e \in Effect}

InFlight(t) == pc[t] \in {"appending", "inserting"}
Ends(e) == e.event_type \in {"hitl.pause.decided", "hitl.pause.expired"}

PauseOK(x) ==
    /\ IsPause(x) /\ x.expires_at \in Nat /\ x.created_at \in Nat
    /\ x.capability \in Capabilities /\ x.payload_digest \in Digests

EventOK(e) ==
    /\ e.event_id \in 1..calls /\ e.tenant \in Tenant
    /\ e.event_type = "hitl.pause.created" => PauseOK(e.payload) /\ e.payload.tenant = e.tenant
    /\ e.event_type = "hitl.pause.decided" =>
          e.payload.intent \in Intents /\ e.payload.decision \in {"approved", "rejected"}

\* The pause an event ends was created, and by the same tenant.
Owed(e) == \E m \in Created(e.payload.pause_id) : rows[m].event.tenant = e.tenant

RowsOK == \A n \in 1..Len(rows) : /\ EventOK(rows[n].event)
                                  /\ Ends(rows[n].event) => Owed(rows[n].event)

\* pause_id is a fresh UUID.
CreatedOnce ==
    \A m, n \in 1..Len(rows) :
        /\ rows[m].event.event_type = "hitl.pause.created"
        /\ rows[n].event.event_type = "hitl.pause.created"
        /\ rows[m].event.payload.pause_id = rows[n].event.payload.pause_id
        => m = n

\* The locals of a thread: an event to append is one of a pause yet unknown, or ends
\* one that is known and undecided, under the lock.
JobOK(t) ==
    /\ pc[t] \in {"idle", "appending", "inserting", "deciding", "judging",
                  "listing_created", "listing_decided", "listing_expired"}
    /\ pc[t] = "idle" => job[t] = NoJob
    /\ lock = t => pc[t] \in {"judging", "appending", "inserting"}
    /\ InFlight(t) =>
          /\ EventOK(job[t].event)
          /\ job[t].event.event_type = "hitl.pause.created"
                => Created(job[t].event.payload.pause_id) = {}
          /\ Ends(job[t].event) =>
                lock = t /\ Owed(job[t].event) /\ Decided(job[t].event.payload.pause_id) = {}
    /\ pc[t] \in {"deciding", "judging"} =>
          /\ job[t].event_id \in 1..calls /\ job[t].actor \in Actor
          /\ job[t].decision \in {"approved", "rejected"}
    /\ pc[t] = "judging" =>
          \E m \in Created(job[t].pause.pause_id) : rows[m].event.payload = job[t].pause

\* Two pauses on their way to the ledger are two.
Apart(t, u) ==
    /\ InFlight(t) /\ job[t].event.event_type = "hitl.pause.created"
    /\ InFlight(u) /\ job[u].event.event_type = "hitl.pause.created"
    /\ job[t].event.payload.pause_id = job[u].event.payload.pause_id
    => t = u

PauseInv ==
    /\ lock \in Thread \cup {Nobody} /\ now \in 0..MaxNow /\ calls \in 0..MaxCalls
    /\ RowsOK /\ CreatedOnce
    /\ \A t \in Thread : JobOK(t)
    /\ \A t, u \in Thread : Apart(t, u)

\* With a clock that does not step back: an expiry on record, or on its way, is past,
\* and a decision comes before it.
LapsedBy(p, t) == \A m \in Created(p) : rows[m].event.payload.expires_at <= t
Timely(e) ==
    /\ Expired(e.payload.pause_id) = {}
    /\ \A m \in Created(e.payload.pause_id) :
          e.payload.intent.created_at < rows[m].event.payload.expires_at
InTime(e) ==
    /\ e.event_type = "hitl.pause.expired" => LapsedBy(e.payload.pause_id, now)
    /\ e.event_type = "hitl.pause.decided" => Timely(e)

TimeInv ==
    /\ \A n \in 1..Len(rows) : InTime(rows[n].event)
    /\ \A t \in Thread : InFlight(t) => InTime(job[t].event)

\* What is said of events stays said as rows stay and calls are made.
LEMMA AboutStays ==
    ASSUME rows' = rows, NEW type, NEW p
    PROVE  About(type, p)' = About(type, p)
  BY DEF About

\* A well-formed event stays one when calls are counted.
LEMMA EventStays ==
    ASSUME calls \in Nat, calls' \in {calls, calls + 1}, NEW e, EventOK(e)
    PROVE  EventOK(e)'
  BY DEF EventOK, PauseOK, IsPause

\* What an event owes the ledger it owes until rows change.
LEMMA OwedStays ==
    ASSUME rows' = rows, NEW e, Owed(e)
    PROVE  Owed(e)'
  <1>1. Created(e.payload.pause_id)' = Created(e.payload.pause_id)
    BY AboutStays DEF Created
  <1>2. QED
    BY <1>1 DEF Owed

\* A pause that is to come has no event yet.
LEMMA NewPause ==
    ASSUME RowsOK, calls \in Nat
    PROVE  Created(calls + 1) = {}
  BY DEF RowsOK, EventOK, PauseOK, IsPause, Created, About

\* An event about a pause is an event on record.
LEMMA EventsAbout ==
    ASSUME RowsOK, NEW p
    PROVE  /\ \A m \in Created(p) :
                 /\ m \in 1..Len(rows) /\ EventOK(rows[m].event)
                 /\ rows[m].event.event_type = "hitl.pause.created"
                 /\ rows[m].event.payload.pause_id = p
                 /\ PauseOK(rows[m].event.payload)
                 /\ rows[m].event.payload.tenant = rows[m].event.tenant
           /\ \A n \in Decided(p) \cup Expired(p) :
                 /\ n \in 1..Len(rows) /\ EventOK(rows[n].event)
                 /\ Ends(rows[n].event) /\ Owed(rows[n].event)
                 /\ rows[n].event.payload.pause_id = p
           /\ Decided(p) \cup Expired(p) # {} => Created(p) # {}
  <1>1. \A m \in Created(p) :
            /\ m \in 1..Len(rows) /\ EventOK(rows[m].event)
            /\ rows[m].event.event_type = "hitl.pause.created"
            /\ rows[m].event.payload.pause_id = p
    BY DEF Created, About, RowsOK
  <1>2. \A n \in Decided(p) \cup Expired(p) :
            /\ n \in 1..Len(rows) /\ EventOK(rows[n].event)
            /\ Ends(rows[n].event) /\ Owed(rows[n].event)
            /\ rows[n].event.payload.pause_id = p
    BY DEF Decided, Expired, About, RowsOK, Ends
  <1>3. \A m \in Created(p) : /\ PauseOK(rows[m].event.payload)
                              /\ rows[m].event.payload.tenant = rows[m].event.tenant
    BY <1>1 DEF EventOK
  <1>4. ASSUME NEW n \in Decided(p) \cup Expired(p) PROVE Created(p) # {}
    BY <1>2, <1>4 DEF Owed
  <1>5. QED
    BY <1>1, <1>2, <1>3, <1>4

\* The locals of a thread survive the step of another that writes no row.
LEMMA OtherJob ==
    ASSUME ThreadAssumption, NEW t \in Thread, NEW u \in Thread, u # t, JobOK(u),
           calls \in Nat, calls' \in {calls, calls + 1},
           rows' = rows, pc'[u] = pc[u], job'[u] = job[u],
           lock' = lock \/ (lock \in {Nobody, t} /\ lock' \in {Nobody, t})
    PROVE  JobOK(u)'
  <1>1. lock' = u <=> lock = u
    BY ThreadAssumption
  <1>2. PICK e : e = job[u].event
    OBVIOUS
  <1>3. PICK q : q = job[u].pause.pause_id
    OBVIOUS
  <1>4. /\ EventOK(e) => EventOK(e)'
        /\ Owed(e) => Owed(e)'
        /\ Created(e.payload.pause_id)' = Created(e.payload.pause_id)
        /\ Decided(e.payload.pause_id)' = Decided(e.payload.pause_id)
        /\ Created(q)' = Created(q)
    BY EventStays, OwedStays, AboutStays DEF Created, Decided
  <1>5. InFlight(u) =>
          /\ EventOK(e)
          /\ e.event_type = "hitl.pause.created" => Created(e.payload.pause_id) = {}
          /\ Ends(e) => lock = u /\ Owed(e) /\ Decided(e.payload.pause_id) = {}
    BY <1>2 DEF JobOK
  <1>6. (InFlight(u) =>
          /\ EventOK(e)
          /\ e.event_type = "hitl.pause.created" => Created(e.payload.pause_id) = {}
          /\ Ends(e) => lock = u /\ Owed(e) /\ Decided(e.payload.pause_id) = {})'
    BY <1>1, <1>4, <1>5 DEF InFlight, Ends
  <1>7. (InFlight(u) =>
          /\ EventOK(job[u].event)
          /\ job[u].event.event_type = "hitl.pause.created"
                => Created(job[u].event.payload.pause_id) = {}
          /\ Ends(job[u].event) =>
                lock = u /\ Owed(job[u].event) /\ Decided(job[u].event.payload.pause_id) = {})'
    <2>1. job'[u].event = e
      BY <1>2
    <2>2. QED
      BY <1>6, <2>1
  <1>8. pc'[u] = "judging" =>
            \E m \in Created(job[u].pause.pause_id)' : rows'[m].event.payload = job'[u].pause
    <2>1. pc[u] = "judging" => \E m \in Created(q) : rows[m].event.payload = job[u].pause
      BY <1>3 DEF JobOK
    <2>2. \A p : p = job[u].pause.pause_id => Created(p)' = Created(job[u].pause.pause_id)'
      OBVIOUS
    <2>3. QED
      BY <1>3, <1>4, <2>1, <2>2
  <1>9. QED
    BY <1>1, <1>7, <1>8 DEF JobOK

\* A step of thread t that writes no row keeps the invariant if it keeps the thread's
\* own locals and puts no pause in flight but a new one.
LEMMA QuietPauses ==
    ASSUME ThreadAssumption, HitlInv, PauseInv, NEW t \in Thread,
           rows' = rows, now' \in 0..MaxNow, calls' \in 0..MaxCalls,
           calls' \in {calls, calls + 1},
           lock' = lock \/ (lock \in {Nobody, t} /\ lock' \in {Nobody, t}),
           \E step : pc' = [pc EXCEPT ![t] = step],
           \E locals : job' = [job EXCEPT ![t] = locals],
           JobOK(t)',
           InFlight(t)' =>
              \/ InFlight(t) /\ job'[t].event = job[t].event
              \/ job'[t].event.event_type # "hitl.pause.created"
              \/ job'[t].event.payload.pause_id = calls + 1
    PROVE  PauseInv'
  <1>1. /\ RowsOK /\ CreatedOnce /\ \A u \in Thread : JobOK(u)
        /\ \A u, v \in Thread : Apart(u, v)
        /\ lock \in Thread \cup {Nobody} /\ calls \in Nat
    BY DEF PauseInv
  <1>2. \A u \in Thread : u # t => pc'[u] = pc[u] /\ job'[u] = job[u]
    BY DEF HitlInv
  <1>3. lock' \in Thread \cup {Nobody}
    BY <1>1
  <1>4. RowsOK'
    <2>1. ASSUME NEW n \in 1..Len(rows')
          PROVE  /\ EventOK(rows[n].event)'
                 /\ Ends(rows[n].event)' => Owed(rows[n].event)'
      <3>1. PICK e : e = rows[n].event
        OBVIOUS
      <3>2. EventOK(e) /\ (Ends(e) => Owed(e))
        BY <1>1, <2>1, <3>1 DEF RowsOK
      <3>3. EventOK(e)' /\ (Ends(e)' => Owed(e)')
        BY <1>1, <3>2, EventStays, OwedStays DEF Ends
      <3>4. rows'[n].event = e
        BY <3>1
      <3>5. QED
        BY <3>3, <3>4
    <2>2. QED
      BY <2>1 DEF RowsOK
  <1>5. CreatedOnce'
    BY <1>1 DEF CreatedOnce
  <1>6. ASSUME NEW u \in Thread PROVE JobOK(u)'
    BY <1>1, <1>2, OtherJob
  <1>7. ASSUME NEW u \in Thread, InFlight(u), job[u].event.event_type = "hitl.pause.created"
        PROVE  job[u].event.payload.pause_id \in 1..calls
    BY <1>1, <1>7 DEF JobOK, EventOK, PauseOK, IsPause
  <1>8. ASSUME NEW u \in Thread, NEW v \in Thread PROVE Apart(u, v)'
    <2>1. \A w \in Thread : w # t => (InFlight(w)' <=> InFlight(w))
      BY <1>2 DEF InFlight
    <2>2. \A w \in Thread : w # t => job'[w].event = job[w].event
      BY <1>2
    <2>3. CASE u # t /\ v # t
      BY <1>1, <2>1, <2>2, <2>3 DEF Apart
    <2>4. CASE u = t /\ v = t
      BY <2>4 DEF Apart
    <2>5. ASSUME NEW w \in Thread, w # t,
                 InFlight(t)', job'[t].event.event_type = "hitl.pause.created",
                 InFlight(w)', job'[w].event.event_type = "hitl.pause.created"
          PROVE  job'[t].event.payload.pause_id # job'[w].event.payload.pause_id
      <3>1. /\ InFlight(w) /\ job[w].event = job'[w].event
            /\ job[w].event.payload.pause_id \in 1..calls
        BY <1>7, <2>1, <2>2, <2>5
      <3>2. CASE InFlight(t) /\ job'[t].event = job[t].event
        BY <1>1, <2>5, <3>1, <3>2 DEF Apart
      <3>3. CASE job'[t].event.payload.pause_id = calls + 1
        BY <1>1, <3>1, <3>3
      <3>4. QED
        BY <2>5, <3>2, <3>3
    <2>6. QED
      BY <2>3, <2>4, <2>5 DEF Apart
  <1>9. QED
    BY <1>3, <1>4, <1>5, <1>6, <1>8 DEF PauseInv

\* A call begins.
LEMMA BeginsPauses ==
    ASSUME ThreadAssumption, HitlAssumption, HitlInv, PauseInv, NEW t \in Thread, Call(t)
    PROVE  PauseInv'
  <1>1. /\ RowsOK /\ \A u \in Thread : JobOK(u)
        /\ calls \in 0..MaxCalls /\ now \in 0..MaxNow /\ MaxCalls \in Nat /\ MaxNow \in Nat
    BY DEF PauseInv, HitlAssumption
  <1>2. pc[t] = "idle" /\ lock # t
    BY <1>1 DEF Call, CallCreate, CallList, CallEmit, CallDecide, Begins, JobOK
  <1>3. ASSUME NEW step, NEW locals, Begins(t, step, locals), JobOK(t)',
               step # "inserting",
               step = "appending" => \/ locals.event.event_type # "hitl.pause.created"
                                     \/ locals.event.payload.pause_id = calls + 1
        PROVE  PauseInv'
    <2>1. /\ rows' = rows /\ lock' = lock /\ now' = now /\ calls' = calls + 1
          /\ calls' \in 0..MaxCalls
      BY <1>1, <1>3 DEF Begins, ledger
    <2>2. pc'[t] = step /\ job'[t] = locals
      BY <1>3 DEF Begins, HitlInv
    <2>3. (\E s : pc' = [pc EXCEPT ![t] = s]) /\ \E l : job' = [job EXCEPT ![t] = l]
      BY <1>3 DEF Begins
    <2>4. QED
      BY <1>1, <1>3, <2>1, <2>2, <2>3, QuietPauses DEF InFlight
  <1>4. ASSUME NEW step, NEW locals, Begins(t, step, locals)
        PROVE  /\ pc'[t] = step /\ job'[t] = locals /\ rows' = rows /\ lock' # t
               /\ calls' = calls + 1 /\ calls' \in Nat /\ pc[t] = "idle"
    BY <1>1, <1>2, <1>4 DEF Begins, ledger, HitlInv
  <1>5. ASSUME NEW tenant \in Tenant, NEW effect \in Effect, NEW ttl \in Ttl,
               CallCreate(t, tenant, effect, ttl)
        PROVE  PauseInv'
    <2>1. PICK pause :
              pause = [pause_id |-> calls + 1, tenant |-> tenant,
                       capability |-> effect.capability,
                       payload_digest |-> bind_intent(tenant, effect.capability,
                                                      effect.payload),
                       created_at |-> now, expires_at |-> default_expiry(now, ttl)]
      OBVIOUS
    <2>2. PICK event : event = build_event(calls + 1, "hitl.pause.created", tenant, pause)
      OBVIOUS
    <2>3. PICK locals : locals = Appending(event, [kind |-> "pause", pause |-> pause])
      OBVIOUS
    <2>4. Begins(t, "appending", locals)
      BY <1>5, <2>1, <2>2, <2>3 DEF CallCreate
    <2>5. /\ pause.pause_id = calls + 1 /\ pause.tenant = tenant
          /\ pause.created_at = now /\ pause.expires_at = now + ttl
          /\ pause.capability = effect.capability
          /\ pause.payload_digest = bind_intent(tenant, effect.capability, effect.payload)
      BY <2>1 DEF default_expiry
    <2>6. /\ event.event_id = calls + 1 /\ event.event_type = "hitl.pause.created"
          /\ event.tenant = tenant /\ event.payload = pause
          /\ locals.event = event
      BY <2>2, <2>3 DEF build_event, Appending
    <2>7. ttl \in Nat /\ ttl # 0
      BY DEF HitlAssumption
    <2>8. /\ pc'[t] = "appending" /\ job'[t] = locals /\ rows' = rows /\ lock' # t
          /\ calls' = calls + 1 /\ calls' \in Nat
      BY <1>4, <2>4
    <2>9. PauseOK(pause)'
      <3>1. pause.capability \in Capabilities /\ pause.payload_digest \in Digests
        BY <2>5 DEF Capabilities, Digests
      <3>2. pause.pause_id \in 1..calls'
        BY <1>1, <2>5, <2>8
      <3>3. /\ pause.expires_at > pause.created_at
            /\ pause.expires_at \in Nat /\ pause.created_at \in Nat
        BY <1>1, <2>5, <2>7
      <3>4. QED
        BY <2>5, <3>1, <3>2, <3>3 DEF PauseOK, IsPause
    <2>10. EventOK(event)'
      BY <1>1, <2>5, <2>6, <2>8, <2>9 DEF EventOK
    <2>11. Created(calls + 1) = {} /\ ~Ends(event)
      BY <1>1, <2>6, NewPause DEF Ends
    <2>12. \A p : p = calls + 1 => Created(p)' = {}
      BY <2>8, <2>11, AboutStays DEF Created
    <2>13. (/\ EventOK(job[t].event)
            /\ job[t].event.event_type = "hitl.pause.created"
                  => Created(job[t].event.payload.pause_id) = {}
            /\ ~Ends(job[t].event))'
      <3>1. job'[t].event = event /\ job'[t].event.payload.pause_id = calls + 1
        BY <2>5, <2>6, <2>8
      <3>2. EventOK(job[t].event)'
        BY <2>10, <3>1
      <3>3. Created(job[t].event.payload.pause_id)' = {}
        BY <2>12, <3>1
      <3>4. ~Ends(job[t].event)'
        BY <2>11, <3>1 DEF Ends
      <3>5. QED
        BY <3>2, <3>3, <3>4
    <2>14. JobOK(t)'
      BY <2>8, <2>13 DEF JobOK
    <2>15. QED
      BY <1>3, <2>4, <2>5, <2>6, <2>14
  <1>6. ASSUME NEW tenant \in Tenant, CallEmit(t, tenant) PROVE PauseInv'
    <2>1. PICK event :
              event = build_event(calls + 1, "session.created", tenant, [pause_id |-> 0])
      OBVIOUS
    <2>2. PICK locals : locals = Appending(event, [kind |-> "recorded"])
      OBVIOUS
    <2>3. Begins(t, "appending", locals)
      BY <1>6, <2>1, <2>2 DEF CallEmit
    <2>4. /\ event.event_id = calls + 1 /\ event.event_type = "session.created"
          /\ event.tenant = tenant /\ locals.event = event
      BY <2>1, <2>2 DEF build_event, Appending
    <2>5. /\ pc'[t] = "appending" /\ job'[t] = locals /\ rows' = rows /\ lock' # t
          /\ calls' = calls + 1 /\ calls' \in Nat
      BY <1>4, <2>3
    <2>6. EventOK(event)'
      BY <1>1, <2>4, <2>5 DEF EventOK
    <2>7. job'[t].event = event
      BY <2>4, <2>5
    <2>8. (/\ EventOK(job[t].event) /\ ~Ends(job[t].event)
           /\ job[t].event.event_type # "hitl.pause.created")'
      BY <2>4, <2>6, <2>7 DEF Ends
    <2>9. JobOK(t)'
      BY <2>5, <2>8 DEF JobOK
    <2>10. QED
      BY <1>3, <2>3, <2>4, <2>9
  <1>7. ASSUME NEW tenant \in Tenant, CallList(t, tenant) PROVE PauseInv'
    <2>1. Begins(t, "listing_created", [op |-> "list", tenant |-> tenant])
      BY <1>7 DEF CallList
    <2>2. pc'[t] = "listing_created" /\ lock' # t
      BY <1>4, <2>1
    <2>3. JobOK(t)'
      BY <2>2 DEF JobOK, InFlight
    <2>4. QED
      BY <1>3, <2>1, <2>3
  <1>8. ASSUME NEW p, NEW decision \in {"approved", "rejected"}, NEW actor \in Actor,
               CallDecide(t, p, decision, actor)
        PROVE  PauseInv'
    <2> DEFINE locals == [op |-> "decide", event_id |-> calls + 1, pause_id |-> p,
                          decision |-> decision, actor |-> actor]
    <2>1. Begins(t, "deciding", locals)
      BY <1>8 DEF CallDecide
    <2>2. /\ pc'[t] = "deciding" /\ lock' # t /\ job'[t] = locals /\ calls' = calls + 1
          /\ calls' \in Nat
      BY <1>4, <2>1
    <2>3. /\ locals.event_id \in 1..calls' /\ locals.actor \in Actor
          /\ locals.decision \in {"approved", "rejected"}
      BY <1>1, <2>2
    <2> HIDE DEF locals
    <2>4. JobOK(t)'
      BY <2>2, <2>3 DEF JobOK, InFlight
    <2>5. QED
      BY <1>3, <2>1, <2>4
  <1>9. QED
    BY <1>5, <1>6, <1>7, <1>8 DEF Call

\* A call that ends, or goes on to a place where it has nothing in flight.
LEMMA LeavesPauses ==
    ASSUME ThreadAssumption, HitlInv, PauseInv, NEW t \in Thread,
           rows' = rows, now' = now, calls' = calls,
           lock' = lock \/ (lock \in {Nobody, t} /\ lock' \in {Nobody, t}),
           lock' # t,
           NEW step \in {"idle", "listing_decided", "listing_expired"},
           pc' = [pc EXCEPT ![t] = step],
           NEW locals, job' = [job EXCEPT ![t] = locals],
           step = "idle" => locals = NoJob
    PROVE  PauseInv'
  <1>1. pc'[t] = step /\ job'[t] = locals
    BY DEF HitlInv
  <1>2. JobOK(t)' /\ ~InFlight(t)'
    BY <1>1 DEF JobOK, InFlight
  <1>3. calls \in 0..MaxCalls /\ now \in 0..MaxNow
    BY DEF PauseInv
  <1>4. QED
    BY <1>2, <1>3, QuietPauses

\* The ends of calls, and the queries of a listing.
LEMMA EndsPauses ==
    ASSUME ThreadAssumption, HitlInv, PauseInv, NEW t \in Thread,
           \/ AppendFails(t) \/ UnknownPause(t) \/ NotPending(t)
           \/ ListCreated(t) \/ ListDecided(t) \/ ListExpired(t)
    PROVE  PauseInv'
  <1>1. JobOK(t) /\ ThreadInv(t) /\ Nobody # t
    BY ThreadAssumption DEF PauseInv, HitlInv
  <1>2. CASE AppendFails(t) \/ NotPending(t)
    <2>1. /\ pc[t] \in {"inserting", "judging"} /\ rows' = rows /\ lock' = Nobody
          /\ now' = now /\ calls' = calls
          /\ pc' = [pc EXCEPT ![t] = "idle"] /\ job' = [job EXCEPT ![t] = NoJob]
      BY <1>2 DEF AppendFails, NotPending, LeavesWithError, Answers, Rollback, Releases
    <2>2. lock = t
      BY <1>1, <2>1 DEF ThreadInv, OwnsLock
    <2>3. QED
      BY <1>1, <2>1, <2>2, LeavesPauses
  <1>3. CASE UnknownPause(t)
    <2>1. /\ rows' = rows /\ lock' = lock /\ lock = Nobody /\ now' = now /\ calls' = calls
          /\ pc' = [pc EXCEPT ![t] = "idle"] /\ job' = [job EXCEPT ![t] = NoJob]
      BY <1>3 DEF UnknownPause, Answers, ledger
    <2>2. QED
      BY <1>1, <2>1, LeavesPauses
  <1>4. CASE ListCreated(t) \/ ListDecided(t) \/ ListExpired(t)
    <2>1. /\ pc[t] \in {"listing_created", "listing_decided", "listing_expired"}
          /\ rows' = rows /\ lock' = lock /\ now' = now /\ calls' = calls
          /\ \E step \in {"idle", "listing_decided", "listing_expired"} :
                /\ pc' = [pc EXCEPT ![t] = step]
                /\ \E locals : job' = [job EXCEPT ![t] = locals]
                               /\ (step = "idle" => locals = NoJob)
      BY <1>4 DEF ListCreated, ListDecided, ListExpired, Advances, Answers, Queries, ledger
    <2>2. lock # t
      BY <1>1, <2>1 DEF JobOK
    <2>3. QED
      BY <2>1, <2>2, LeavesPauses
  <1>5. QED
    BY <1>2, <1>3, <1>4

\* append selects: the event in flight is the same.
LEMMA SelectsPauses ==
    ASSUME ThreadAssumption, HitlInv, PauseInv, NEW t \in Thread, AppendSelects(t)
    PROVE  PauseInv'
  <1>1. /\ pc[t] = "appending" /\ pc'[t] = "inserting" /\ job'[t] = job[t]
        /\ rows' = rows /\ lock' = t /\ lock \in {Nobody, t} /\ now' = now /\ calls' = calls
    BY DEF AppendSelects, Advances, SelectLast, Acquires, HitlInv
  <1>2. /\ \E step : pc' = [pc EXCEPT ![t] = step]
        /\ \E locals : job' = [job EXCEPT ![t] = locals]
    BY DEF AppendSelects, Advances
  <1>3. PICK e : e = job[t].event
    OBVIOUS
  <1>4. /\ EventOK(e)
        /\ e.event_type = "hitl.pause.created" => Created(e.payload.pause_id) = {}
        /\ Ends(e) => Owed(e) /\ Decided(e.payload.pause_id) = {}
    BY <1>1, <1>3 DEF PauseInv, JobOK, InFlight
  <1>5. calls \in Nat /\ calls \in 0..MaxCalls /\ now \in 0..MaxNow
    BY DEF PauseInv
  <1>6. /\ EventOK(e)'
        /\ e.event_type = "hitl.pause.created" => Created(e.payload.pause_id)' = {}
        /\ Ends(e) => Owed(e)' /\ Decided(e.payload.pause_id)' = {}
    BY <1>1, <1>4, <1>5, EventStays, OwedStays, AboutStays DEF Created, Decided
  <1>7. job'[t].event = e
    BY <1>1, <1>3
  <1>8. JobOK(t)'
    BY <1>1, <1>6, <1>7 DEF JobOK, InFlight, Ends, Decided, Created, About, Owed
  <1>9. QED
    BY <1>1, <1>2, <1>5, <1>8, QuietPauses DEF InFlight

\* decide loads a pause as it was created.
LEMMA LoadsPauses ==
    ASSUME ThreadAssumption, HitlInv, PauseInv, NEW t \in Thread, LoadPause(t)
    PROVE  PauseInv'
  <1>1. PICK n \in 1..Len(rows) :
            /\ n \in Created(job[t].pause_id)
            /\ Advances(t, "deciding", "judging", Loaded(t, n))
            /\ Acquires(t) /\ UNCHANGED <<rows, prev_hash>>
    BY DEF LoadPause
  <1>2. /\ pc[t] = "deciding" /\ pc'[t] = "judging" /\ job'[t] = Loaded(t, n)
        /\ rows' = rows /\ lock' = t /\ lock \in {Nobody, t} /\ now' = now /\ calls' = calls
    BY <1>1 DEF Advances, Acquires, HitlInv
  <1>3. /\ \E step : pc' = [pc EXCEPT ![t] = step]
        /\ \E locals : job' = [job EXCEPT ![t] = locals]
    BY <1>1 DEF Advances
  <1>4. calls \in 0..MaxCalls /\ now \in 0..MaxNow
    BY DEF PauseInv
  <1>5. PICK x : x = Loaded(t, n)
    OBVIOUS
  <1>6. /\ x.pause = rows[n].event.payload /\ x.event_id = job[t].event_id
        /\ x.decision = job[t].decision /\ x.actor = job[t].actor
    BY <1>5 DEF Loaded
  <1>7. /\ job[t].event_id \in 1..calls /\ job[t].actor \in Actor
        /\ job[t].decision \in {"approved", "rejected"}
    BY <1>2 DEF PauseInv, JobOK
  <1>8. /\ n \in Created(x.pause.pause_id)' /\ rows'[n].event.payload = x.pause
    <2>1. /\ n \in 1..Len(rows') /\ rows'[n].event.event_type = "hitl.pause.created"
          /\ rows'[n].event.payload = x.pause
      BY <1>1, <1>2, <1>6 DEF Created, About
    <2>2. QED
      BY <2>1 DEF Created, About
  <1>9. job'[t] = x
    BY <1>2, <1>5
  <1>10. \E m \in Created(job[t].pause.pause_id)' : rows'[m].event.payload = job'[t].pause
    BY <1>8, <1>9 DEF Created, About
  <1>11. JobOK(t)'
    BY <1>2, <1>6, <1>7, <1>9, <1>10 DEF JobOK, InFlight
  <1>12. QED
    BY <1>2, <1>3, <1>4, <1>11, QuietPauses DEF InFlight

\* What is known of the pause that a thread judges.
LEMMA Judged ==
    ASSUME HitlInv, PauseInv, NEW t \in Thread, pc[t] = "judging", job[t].status = "pending",
           NEW x, x = job[t].pause
    PROVE  /\ lock = t /\ Decided(x.pause_id) = {}
           /\ PauseOK(x)
           /\ \E m \in Created(x.pause_id) : /\ rows[m].event.payload = x
                                             /\ rows[m].event.tenant = x.tenant
           /\ \A m \in Created(x.pause_id) : rows[m].event.payload = x
  <1>1. ThreadInv(t) /\ JobOK(t) /\ RowsOK /\ CreatedOnce
    BY DEF HitlInv, PauseInv
  <1>2. lock = t
    BY <1>1 DEF ThreadInv, OwnsLock
  <1>3. Decided(x.pause_id) = {}
    BY <1>1 DEF ThreadInv, FoundPending
  <1>4. PICK m \in Created(x.pause_id) : rows[m].event.payload = x
    BY <1>1 DEF JobOK
  <1>5. PauseOK(x) /\ rows[m].event.tenant = x.tenant
    BY <1>1, <1>4, EventsAbout
  <1>6. ASSUME NEW k \in Created(x.pause_id) PROVE k = m
    BY <1>1, <1>4, <1>6 DEF CreatedOnce, Created, About
  <1>7. QED
    BY <1>2, <1>3, <1>4, <1>5, <1>6

\* Judging puts the end of a pause in flight.
LEMMA JudgesPauses ==
    ASSUME ThreadAssumption, HitlAssumption, HitlInv, PauseInv, NEW t \in Thread,
           Expire(t) \/ Resolve(t)
    PROVE  PauseInv'
  <1>1. PICK x : x = job[t].pause
    OBVIOUS
  <1>2. /\ pc[t] = "judging" /\ job[t].status = "pending"
        /\ rows' = rows /\ lock' = lock /\ now' = now /\ calls' = calls /\ pc'[t] = "appending"
        /\ \E step : pc' = [pc EXCEPT ![t] = step]
        /\ \E locals : job' = [job EXCEPT ![t] = locals]
    BY DEF Expire, Resolve, Advances, ledger, HitlInv
  <1>3. /\ lock = t /\ Decided(x.pause_id) = {} /\ PauseOK(x)
        /\ \E m \in Created(x.pause_id) : rows[m].event.tenant = x.tenant
    BY <1>1, <1>2, Judged
  <1>4. /\ job[t].event_id \in 1..calls /\ job[t].actor \in Actor
        /\ job[t].decision \in {"approved", "rejected"}
    BY <1>2 DEF PauseInv, JobOK
  <1>5. calls \in Nat /\ calls \in 0..MaxCalls /\ now \in 0..MaxNow /\ now \in Nat
    BY DEF PauseInv, HitlAssumption
  <1>6. x.pause_id \in 1..calls /\ x.tenant \in Tenant
        /\ x.capability \in Capabilities /\ x.payload_digest \in Digests
    BY <1>3 DEF PauseOK, IsPause
  <1>7. ASSUME NEW e, e = job'[t].event, e.event_id = job[t].event_id, e.tenant = x.tenant,
               e.payload.pause_id = x.pause_id, Ends(e),
               e.event_type = "hitl.pause.decided" =>
                  /\ e.payload.intent \in Intents
                  /\ e.payload.decision \in {"approved", "rejected"}
        PROVE  PauseInv'
    <2>1. EventOK(e) /\ e.event_type # "hitl.pause.created"
      BY <1>4, <1>6, <1>7 DEF EventOK, Ends
    <2>2. Owed(e) /\ Decided(e.payload.pause_id) = {}
      BY <1>3, <1>7 DEF Owed
    <2>3. /\ EventOK(e)' /\ Owed(e)' /\ Decided(e.payload.pause_id)' = {}
      BY <1>2, <1>5, <2>1, <2>2, EventStays, OwedStays, AboutStays DEF Decided
    <2>4. JobOK(t)'
      BY <1>2, <1>3, <1>7, <2>1, <2>3 DEF JobOK, InFlight, Ends, Owed, Decided, About, Created
    <2>5. QED
      BY <1>2, <1>5, <1>7, <2>1, <2>4, QuietPauses
  <1>8. CASE Expire(t)
    <2>1. job'[t] = Appending(build_event(job[t].event_id, "hitl.pause.expired", x.tenant,
                                          [pause_id |-> x.pause_id]), HitlError)
      BY <1>1, <1>8 DEF Expire, Advances, HitlInv
    <2>2. PICK e : e = job'[t].event
      OBVIOUS
    <2>3. /\ e.event_id = job[t].event_id /\ e.tenant = x.tenant
          /\ e.payload.pause_id = x.pause_id /\ e.event_type = "hitl.pause.expired"
      BY <2>1, <2>2 DEF Appending, build_event
    <2>4. QED
      BY <1>7, <2>2, <2>3 DEF Ends
  <1>9. CASE Resolve(t)
    <2>1. PICK intent :
              intent = seal_intent(x.tenant, job[t].actor, x.capability, x.payload_digest, now,
                                   default_expiry(now, approval_ttl))
      OBVIOUS
    <2>2. job'[t] = Appending(build_event(job[t].event_id, "hitl.pause.decided", x.tenant,
                                          [pause_id |-> x.pause_id,
                                           decision |-> job[t].decision, intent |-> intent]),
                              [kind |-> "intent", pause_id |-> x.pause_id, intent |-> intent])
      BY <1>1, <1>9, <2>1 DEF Resolve, Advances, HitlInv
    <2>3. PICK e : e = job'[t].event
      OBVIOUS
    <2>4. /\ e.event_id = job[t].event_id /\ e.tenant = x.tenant
          /\ e.payload.pause_id = x.pause_id /\ e.event_type = "hitl.pause.decided"
          /\ e.payload.intent = intent /\ e.payload.decision = job[t].decision
      BY <2>2, <2>3 DEF Appending, build_event
    <2>5. intent \in Intents
      <3>1. approval_ttl \in Nat /\ approval_ttl # 0
        BY DEF HitlAssumption
      <3>2. now + approval_ttl \in Nat /\ now + approval_ttl > now
        BY <1>5, <3>1
      <3>3. intent = [tenant |-> x.tenant, actor |-> job[t].actor, capability |-> x.capability,
                      payload_digest |-> x.payload_digest, created_at |-> now,
                      expires_at |-> now + approval_ttl]
        BY <2>1 DEF seal_intent, default_expiry
      <3>4. QED
        BY <1>4, <1>5, <1>6, <3>2, <3>3 DEF Intents, Capabilities, Digests
    <2>6. QED
      BY <1>4, <1>7, <2>3, <2>4, <2>5 DEF Ends
  <1>10. QED
    BY <1>8, <1>9

\* What a commit does, seen from the events on record.
Commits(t, e) ==
    /\ e = job[t].event /\ pc[t] = "inserting" /\ lock = t /\ lock' = Nobody
    /\ pc' = [pc EXCEPT ![t] = "idle"] /\ job' = [job EXCEPT ![t] = NoJob]
    /\ answer' = [answer EXCEPT ![t] = job[t].result]
    /\ UNCHANGED <<now, calls>>
    /\ Len(rows) \in Nat /\ Len(rows') = Len(rows) + 1
    /\ rows'[Len(rows) + 1].event = e
    /\ \A i \in 1..Len(rows) : rows'[i] = rows[i]
    /\ EventOK(e) /\ (Ends(e) => Owed(e) /\ Decided(e.payload.pause_id) = {})
    /\ e.event_type = "hitl.pause.created" => Created(e.payload.pause_id) = {}

\* What a thread commits is a creation, a decision, an expiry or another event.
LEMMA CommitForms ==
    ASSUME ThreadAssumption, RowsAreSeq, HitlInv, PauseInv, NEW t \in Thread, AppendCommits(t)
    PROVE  \E e : Commits(t, e)
  <1>1. PICK e : e = job[t].event
    OBVIOUS
  <1>2. /\ pc[t] = "inserting" /\ ThreadInv(t) /\ JobOK(t)
        /\ pc' = [pc EXCEPT ![t] = "idle"] /\ job' = [job EXCEPT ![t] = NoJob]
        /\ answer' = [answer EXCEPT ![t] = job[t].result]
        /\ UNCHANGED <<now, calls>> /\ lock' = Nobody
    BY DEF AppendCommits, Answers, Insert, Releases, HitlInv, PauseInv
  <1>3. lock = t
    BY <1>2 DEF ThreadInv, OwnsLock
  <1>4. PICK r : /\ rows' = Append(rows, r)
                 /\ r = [event |-> job[t].event, prev_hash |-> prev_hash[t],
                         hash |-> chain_hash(prev_hash[t], job[t].event)]
    BY DEF AppendCommits, Insert
  <1>5. r.event = e
    BY <1>1, <1>4
  <1>6. /\ Len(rows) \in Nat /\ Len(rows') = Len(rows) + 1
        /\ rows'[Len(rows) + 1] = r /\ \A i \in 1..Len(rows) : rows'[i] = rows[i]
    BY <1>4, RowsGrow
  <1>7. /\ EventOK(e) /\ (Ends(e) => Owed(e) /\ Decided(e.payload.pause_id) = {})
        /\ e.event_type = "hitl.pause.created" => Created(e.payload.pause_id) = {}
    BY <1>1, <1>2 DEF JobOK, InFlight
  <1>8. QED
    BY <1>1, <1>2, <1>3, <1>5, <1>6, <1>7 DEF Commits

\* The events about a pause after a commit.
LEMMA CommittedAbout ==
    ASSUME NEW t \in Thread, NEW e, Commits(t, e), NEW type, NEW p
    PROVE  /\ e.event_type = type /\ e.payload.pause_id = p
                 => About(type, p)' = About(type, p) \cup {Len(rows) + 1}
           /\ ~(e.event_type = type /\ e.payload.pause_id = p) => About(type, p)' = About(type, p)
           /\ Len(rows) + 1 \notin About(type, p)
           /\ About(type, p) \subseteq 1..Len(rows)
  <1>1. /\ Len(rows) \in Nat /\ Len(rows') = Len(rows) + 1
        /\ rows'[Len(rows) + 1].event = e
        /\ \A i \in 1..Len(rows) : rows'[i] = rows[i]
    BY DEF Commits
  <1>2. \A n : n \in 1..(Len(rows) + 1) <=> n \in 1..Len(rows) \/ n = Len(rows) + 1
    BY <1>1
  <1>3. Len(rows) + 1 \notin 1..Len(rows)
    BY <1>1
  <1>4. \A n : n \in About(type, p)' <=>
            \/ n \in About(type, p)
            \/ n = Len(rows) + 1 /\ e.event_type = type /\ e.payload.pause_id = p
    BY <1>1, <1>2, <1>3 DEF About
  <1>5. QED
    BY <1>3, <1>4 DEF About

\* What a commit leaves as it was.
LEMMA CommittedKeeps ==
    ASSUME NEW t \in Thread, NEW e, Commits(t, e), NEW f, calls \in Nat
    PROVE  /\ EventOK(f) => EventOK(f)'
           /\ Owed(f) => Owed(f)'
  <1>1. EventOK(f) => EventOK(f)'
    BY EventStays DEF Commits
  <1>2. ASSUME Owed(f) PROVE Owed(f)'
    <2>1. PICK m \in Created(f.payload.pause_id) : rows[m].event.tenant = f.tenant
      BY <1>2 DEF Owed
    <2>2. m \in Created(f.payload.pause_id)' /\ m \in 1..Len(rows)
      BY <2>1, CommittedAbout DEF Created
    <2>3. rows'[m] = rows[m]
      BY <2>2 DEF Commits
    <2>4. QED
      BY <2>1, <2>2, <2>3 DEF Owed
  <1>3. QED
    BY <1>1, <1>2

\* A row that is committed tells of its pause what PauseInv allows.
LEMMA CommitsPauses ==
    ASSUME ThreadAssumption, HitlInv, PauseInv, NEW t \in Thread, NEW e, Commits(t, e)
    PROVE  PauseInv'
  <1>1. /\ RowsOK /\ CreatedOnce /\ \A u \in Thread : JobOK(u)
        /\ \A u, v \in Thread : Apart(u, v)
        /\ calls \in 0..MaxCalls /\ now \in 0..MaxNow /\ calls \in Nat
    BY DEF PauseInv
  <1>2. /\ lock = t /\ lock' = Nobody /\ Nobody # t /\ calls' = calls /\ now' = now
        /\ Len(rows) \in Nat /\ Len(rows') = Len(rows) + 1
        /\ rows'[Len(rows) + 1].event = e /\ \A i \in 1..Len(rows) : rows'[i] = rows[i]
    BY ThreadAssumption DEF Commits
  <1>3. /\ EventOK(e) /\ (Ends(e) => Owed(e) /\ Decided(e.payload.pause_id) = {})
        /\ e.event_type = "hitl.pause.created" => Created(e.payload.pause_id) = {}
    BY DEF Commits
  <1>4. pc'[t] = "idle" /\ job'[t] = NoJob
        /\ \A u \in Thread : u # t => pc'[u] = pc[u] /\ job'[u] = job[u]
    BY DEF Commits, HitlInv
  <1>5. RowsOK'
    <2>1. ASSUME NEW n \in 1..Len(rows')
          PROVE  /\ EventOK(rows[n].event)'
                 /\ Ends(rows[n].event)' => Owed(rows[n].event)'
      <3>1. PICK f : f = rows'[n].event
        OBVIOUS
      <3>2. n \in 1..Len(rows) \/ n = Len(rows) + 1
        BY <1>2
      <3>3. EventOK(f) /\ (Ends(f) => Owed(f))
        BY <1>1, <1>2, <1>3, <3>1, <3>2 DEF RowsOK
      <3>4. EventOK(f)' /\ (Ends(f) => Owed(f)')
        BY <1>1, <3>3, CommittedKeeps
      <3>5. EventOK(rows[n].event)'
        BY <3>1, <3>4
      <3>6. Ends(rows[n].event)' => Ends(f)
        BY <3>1 DEF Ends
      <3>7. Owed(f)' => Owed(rows[n].event)'
        BY <3>1
      <3>8. QED
        BY <3>4, <3>5, <3>6, <3>7
    <2>2. QED
      BY <2>1 DEF RowsOK
  <1>6. CreatedOnce'
    <2>1. ASSUME NEW k \in 1..Len(rows), rows[k].event.event_type = "hitl.pause.created",
                 e.event_type = "hitl.pause.created"
          PROVE  rows[k].event.payload.pause_id # e.payload.pause_id
      BY <1>3, <2>1 DEF Created, About
    <2>2. SUFFICES ASSUME NEW m \in 1..Len(rows'), NEW n \in 1..Len(rows'),
                          rows'[m].event.event_type = "hitl.pause.created",
                          rows'[n].event.event_type = "hitl.pause.created",
                          rows'[m].event.payload.pause_id = rows'[n].event.payload.pause_id
                   PROVE  m = n
      BY DEF CreatedOnce
    <2>3. CASE m \in 1..Len(rows) /\ n \in 1..Len(rows)
      BY <1>1, <1>2, <2>2, <2>3 DEF CreatedOnce
    <2>4. CASE m = Len(rows) + 1 \/ n = Len(rows) + 1
      BY <1>2, <2>1, <2>2, <2>4
    <2>5. QED
      BY <1>2, <2>3, <2>4
  <1>7. ASSUME NEW u \in Thread PROVE JobOK(u)'
    <2>1. CASE u = t
      BY <1>2, <1>4, <2>1 DEF JobOK, InFlight
    <2>2. CASE u # t
      <3>1. JobOK(u) /\ ThreadInv(u) /\ pc'[u] = pc[u] /\ job'[u] = job[u] /\ lock # u
            /\ lock' # u
        BY <1>1, <1>2, <1>4, <2>2, ThreadAssumption DEF HitlInv
      <3>2. pc[u] # "judging"
        BY <3>1 DEF ThreadInv, OwnsLock
      <3>3. PICK f : f = job[u].event
        OBVIOUS
      <3>4. InFlight(u) =>
               /\ EventOK(f) /\ ~Ends(f)
               /\ f.event_type = "hitl.pause.created" => Created(f.payload.pause_id) = {}
        BY <3>1, <3>3 DEF JobOK
      <3>5. InFlight(u) /\ f.event_type = "hitl.pause.created"
              => ~(/\ e.event_type = "hitl.pause.created"
                   /\ e.payload.pause_id = f.payload.pause_id)
        BY <1>1, <2>2, <3>3 DEF Apart, Commits, InFlight
      <3>6. InFlight(u) =>
               /\ EventOK(f)' /\ ~Ends(f)
               /\ f.event_type = "hitl.pause.created" => Created(f.payload.pause_id)' = {}
        BY <1>1, <3>4, <3>5, CommittedKeeps, CommittedAbout DEF Created
      <3>7. job'[u].event = f
        BY <3>1, <3>3
      <3>8. QED
        <4>1. InFlight(u)' => InFlight(u)
          BY <3>1 DEF InFlight
        <4>2. (InFlight(u) =>
                 /\ EventOK(job[u].event) /\ ~Ends(job[u].event)
                 /\ job[u].event.event_type = "hitl.pause.created"
                       => Created(job[u].event.payload.pause_id) = {})'
          BY <3>6, <3>7, <4>1 DEF Ends
        <4>3. QED
          BY <1>2, <3>1, <3>2, <4>2 DEF JobOK
    <2>3. QED
      BY <2>1, <2>2
  <1>8. ASSUME NEW u \in Thread, NEW v \in Thread PROVE Apart(u, v)'
    <2>1. ~InFlight(t)'
      BY <1>4 DEF InFlight
    <2>2. CASE u # t /\ v # t
      BY <1>1, <1>4, <2>2 DEF Apart, InFlight
    <2>3. CASE u = t \/ v = t
      BY <2>1, <2>3 DEF Apart
    <2>4. QED
      BY <2>2, <2>3
  <1>9. QED
    BY <1>1, <1>2, <1>5, <1>6, <1>7, <1>8 DEF PauseInv

\* A crash, or a clock that moves, tells the ledger nothing.
LEMMA CrashPauses ==
    ASSUME ThreadAssumption, HitlInv, PauseInv,
           rows' = rows, calls' = calls, now' \in 0..MaxNow,
           \/ pc' = [t \in Thread |-> "idle"] /\ job' = [t \in Thread |-> NoJob] /\ lock' = Nobody
           \/ UNCHANGED <<pc, job, lock>>
    PROVE  PauseInv'
  <1>1. /\ RowsOK /\ CreatedOnce /\ \A u \in Thread : JobOK(u)
        /\ \A u, v \in Thread : Apart(u, v)
        /\ lock \in Thread \cup {Nobody} /\ calls \in 0..MaxCalls
    BY DEF PauseInv
  <1>2. RowsOK' /\ CreatedOnce'
    BY <1>1 DEF RowsOK, CreatedOnce, EventOK, PauseOK, IsPause, Ends, Owed, Created, About
  <1>3. CASE pc' = [t \in Thread |-> "idle"] /\ job' = [t \in Thread |-> NoJob] /\ lock' = Nobody
    <2>1. \A u \in Thread : JobOK(u)'
      BY <1>3, ThreadAssumption DEF JobOK, InFlight
    <2>2. \A u, v \in Thread : Apart(u, v)'
      BY <1>3 DEF Apart, InFlight
    <2>3. QED
      BY <1>1, <1>2, <1>3, <2>1, <2>2 DEF PauseInv
  <1>4. CASE UNCHANGED <<pc, job, lock>>
    <2>1. \A u \in Thread : JobOK(u)'
      BY <1>1, <1>4 DEF JobOK, InFlight, EventOK, PauseOK, IsPause, Ends, Owed, Created,
         Decided, About
    <2>2. \A u, v \in Thread : Apart(u, v)'
      BY <1>1, <1>4 DEF Apart, InFlight
    <2>3. QED
      BY <1>1, <1>2, <1>4, <2>1, <2>2 DEF PauseInv
  <1>5. QED
    BY <1>3, <1>4

\* PauseInv holds at first.
LEMMA InitPauses == ASSUME ThreadAssumption, HitlAssumption, Init PROVE PauseInv
  <1>1. rows = <<>> /\ Len(rows) = 0
    BY DEF Init, LedgerInit
  <1>2. RowsOK /\ CreatedOnce
    BY <1>1 DEF RowsOK, CreatedOnce
  <1>3. \A u \in Thread : pc[u] = "idle" /\ job[u] = NoJob /\ lock # u
    BY ThreadAssumption DEF Init, LedgerInit
  <1>4. (\A u \in Thread : JobOK(u)) /\ \A u, v \in Thread : Apart(u, v)
    BY <1>3 DEF JobOK, Apart, InFlight
  <1>5. QED
    BY <1>2, <1>4 DEF PauseInv, Init, LedgerInit, HitlAssumption

\* Every step keeps PauseInv.
LEMMA NextPauses ==
    ASSUME ThreadAssumption, HitlAssumption, IInv, PauseInv, [Next]_vars
    PROVE  PauseInv'
  <1>1. HitlInv /\ RowsAreSeq
    BY DEF IInv
  <1>2. ASSUME NEW t \in Thread, Call(t) PROVE PauseInv'
    BY <1>1, <1>2, BeginsPauses
  <1>3. ASSUME NEW t \in Thread, Works(t) PROVE PauseInv'
    <2>1. CASE AppendCommits(t)
      BY <1>1, <2>1, CommitForms, CommitsPauses
    <2>2. QED
      BY <1>1, <1>3, <2>1, SelectsPauses, EndsPauses, LoadsPauses, JudgesPauses DEF Works
  <1>4. CASE Crash
    <2>1. /\ rows' = rows /\ calls' = calls /\ now' = now /\ lock' = Nobody
          /\ pc' = [t \in Thread |-> "idle"] /\ job' = [t \in Thread |-> NoJob]
      BY <1>4 DEF Crash, LedgerCrash, Releases
    <2>2. QED
      BY <1>1, <2>1, CrashPauses DEF PauseInv
  <1>5. CASE Tick
    <2>1. now' \in 0..MaxNow
      BY <1>5 DEF Tick, PauseInv, HitlAssumption
    <2>2. QED
      BY <1>1, <1>5, <2>1, CrashPauses DEF Tick, ledger
  <1>6. CASE UNCHANGED vars
    BY <1>1, <1>6, CrashPauses DEF vars, ledger, PauseInv
  <1>7. QED
    BY <1>2, <1>3, <1>4, <1>5, <1>6 DEF Next

\* What rows and calls say of pauses is true at any time.
LEMMA PausesInvariance == Spec => []PauseInv
  <1>1. Init => PauseInv
    BY ThreadAssumption, HitlAssumption, InitPauses
  <1>2. IInv /\ PauseInv /\ [Next]_vars => PauseInv'
    BY ThreadAssumption, HitlAssumption, NextPauses
  <1>3. QED
    BY <1>1, <1>2, InitInv, NextInv, PTL DEF Spec

\* Rows, lock and calls always have their types, and pauses and intents on record
\* satisfy the validators of HitlPause and ApprovalIntent.
THEOREM HitlTypeCorrect == Spec => []TypeOK
  <1>1. HitlInv /\ PauseInv => TypeOK
    <2> SUFFICES ASSUME HitlInv, PauseInv PROVE TypeOK
      OBVIOUS
    <2>1. ASSUME NEW n \in 1..Len(rows)
          PROVE  LET e == rows[n].event
                 IN  /\ e.event_id \in 1..calls /\ e.tenant \in Tenant
                     /\ e.event_type = "hitl.pause.created" => IsPause(e.payload)
                     /\ e.event_type = "hitl.pause.decided" => e.payload.intent \in Intents
      BY DEF PauseInv, RowsOK, EventOK, PauseOK
    <2>2. ASSUME NEW t \in Thread
          PROVE  /\ pc[t] \in {"idle", "appending", "inserting", "deciding", "judging",
                               "listing_created", "listing_decided", "listing_expired"}
                 /\ pc[t] \in {"judging", "inserting"} => lock = t
                 /\ pc[t] = "idle" => lock # t /\ job[t] = NoJob
      BY DEF PauseInv, JobOK, HitlInv, ThreadInv, OwnsLock
    <2>3. QED
      BY <2>1, <2>2 DEF TypeOK, PauseInv
  <1>2. QED
    BY <1>1, HitlInvariance, PausesInvariance, PTL

-----------------------------------------------------------------------------
(* Expiry, with a clock that does not step back. *)

\* What is in time stays so as the clock advances.
LEMMA InTimeStays ==
    ASSUME RowsOK, rows' = rows, now \in Nat, now' \in Nat, now' >= now, NEW e, InTime(e)
    PROVE  InTime(e)'
  <1>1. PICK p : p = e.payload.pause_id
    OBVIOUS
  <1>2. Created(p)' = Created(p) /\ Expired(p)' = Expired(p)
    BY AboutStays DEF Created, Expired
  <1>3. \A m \in Created(p) : rows[m].event.payload.expires_at \in Nat
    BY EventsAbout DEF PauseOK
  <1>4. LapsedBy(p, now) => LapsedBy(p, now)'
    BY <1>2, <1>3 DEF LapsedBy
  <1>5. Timely(e) => Timely(e)'
    BY <1>1, <1>2 DEF Timely
  <1>6. QED
    BY <1>1, <1>4, <1>5 DEF InTime

\* A step without an append brings no event in flight that is late.
LEMMA QuietTimes ==
    ASSUME PauseInv, TimeInv, rows' = rows, now \in Nat, now' \in Nat, now' >= now,
           \A u \in Thread : \/ InFlight(u)' => InTime(job[u].event)'
                             \/ InFlight(u)' => InFlight(u) /\ job'[u].event = job[u].event
    PROVE  TimeInv'
  <1>1. RowsOK
    BY DEF PauseInv
  <1>2. ASSUME NEW n \in 1..Len(rows') PROVE InTime(rows[n].event)'
    <2>1. PICK f : f = rows[n].event
      OBVIOUS
    <2>2. InTime(f)
      BY <2>1 DEF TimeInv
    <2>3. InTime(f)'
      BY <1>1, <2>2, InTimeStays
    <2>4. f = rows'[n].event
      BY <2>1
    <2>5. QED
      BY <2>3, <2>4
  <1>3. ASSUME NEW u \in Thread, InFlight(u)' PROVE InTime(job[u].event)'
    <2>1. CASE InFlight(u) /\ job'[u].event = job[u].event
      <3>1. PICK f : f = job[u].event
        OBVIOUS
      <3>2. InTime(f)
        BY <2>1, <3>1 DEF TimeInv
      <3>3. InTime(f)'
        BY <1>1, <3>2, InTimeStays
      <3>4. f = job'[u].event
        BY <2>1, <3>1
      <3>5. QED
        BY <3>3, <3>4
    <2>2. QED
      BY <1>3, <2>1
  <1>4. QED
    BY <1>2, <1>3 DEF TimeInv

\* A call puts nothing in flight that ends a pause.
LEMMA CallTimes ==
    ASSUME HitlInv, NEW t \in Thread, Call(t)
    PROVE  /\ rows' = rows /\ now' = now
           /\ \A u \in Thread : u # t => pc'[u] = pc[u] /\ job'[u] = job[u]
           /\ InFlight(t)' => ~Ends(job'[t].event)
  <1>1. ASSUME NEW step, NEW locals, Begins(t, step, locals),
               step \in {"deciding", "listing_created"} \/ ~Ends(locals.event)
        PROVE  /\ rows' = rows /\ now' = now
               /\ \A u \in Thread : u # t => pc'[u] = pc[u] /\ job'[u] = job[u]
               /\ InFlight(t)' => ~Ends(job'[t].event)
    BY <1>1 DEF Begins, ledger, InFlight, HitlInv
  <1>2. ASSUME NEW tenant \in Tenant, NEW effect \in Effect, NEW ttl \in Ttl,
               CallCreate(t, tenant, effect, ttl)
        PROVE  \E step, locals : Begins(t, step, locals) /\ ~Ends(locals.event)
    BY <1>2 DEF CallCreate, Appending, build_event, Ends
  <1>3. ASSUME NEW tenant \in Tenant, CallEmit(t, tenant)
        PROVE  \E step, locals : Begins(t, step, locals) /\ ~Ends(locals.event)
    BY <1>3 DEF CallEmit, Appending, build_event, Ends
  <1>4. ASSUME NEW tenant \in Tenant, CallList(t, tenant)
        PROVE  \E step, locals : Begins(t, step, locals) /\ step = "listing_created"
    BY <1>4 DEF CallList
  <1>5. ASSUME NEW p, NEW decision, NEW actor, CallDecide(t, p, decision, actor)
        PROVE  \E step, locals : Begins(t, step, locals) /\ step = "deciding"
    BY <1>5 DEF CallDecide
  <1>6. QED
    BY <1>1, <1>2, <1>3, <1>4, <1>5 DEF Call

\* Judging happens by the clock: what it puts in flight is in time.
LEMMA JudgesTimes ==
    ASSUME HitlAssumption, HitlInv, PauseInv, TimeInv, NEW t \in Thread, Expire(t) \/ Resolve(t)
    PROVE  InTime(job[t].event)'
  <1>1. PICK x : x = job[t].pause
    OBVIOUS
  <1>2. /\ pc[t] = "judging" /\ job[t].status = "pending" /\ rows' = rows /\ now' = now
        /\ RowsOK /\ now \in Nat
    BY DEF Expire, Resolve, Advances, ledger, PauseInv, HitlAssumption
  <1>3. /\ PauseOK(x) /\ Created(x.pause_id) # {}
        /\ \A m \in Created(x.pause_id) : rows[m].event.payload = x
    BY <1>1, <1>2, Judged
  <1>4. x.expires_at \in Nat
    BY <1>3 DEF PauseOK
  <1>5. CASE Expire(t)
    <2>1. PICK e : e = job'[t].event
      OBVIOUS
    <2>2. e.event_type = "hitl.pause.expired" /\ e.payload.pause_id = x.pause_id
      BY <1>1, <1>5, <2>1 DEF Expire, Advances, Appending, build_event, HitlInv
    <2>3. now >= x.expires_at
      BY <1>1, <1>5 DEF Expire, lapsed
    <2>4. LapsedBy(e.payload.pause_id, now)
      BY <1>2, <1>3, <1>4, <2>2, <2>3 DEF LapsedBy
    <2>5. InTime(e)
      BY <2>2, <2>4 DEF InTime
    <2>6. InTime(e)'
      BY <1>2, <2>5, InTimeStays
    <2>7. QED
      BY <2>1, <2>6
  <1>6. CASE Resolve(t)
    <2>1. PICK e : e = job'[t].event
      OBVIOUS
    <2>2. /\ e.event_type = "hitl.pause.decided" /\ e.payload.pause_id = x.pause_id
          /\ e.payload.intent.created_at = now
      BY <1>1, <1>6, <2>1
      DEF Resolve, Advances, Appending, build_event, seal_intent, HitlInv
    <2>3. ~(now >= x.expires_at)
      BY <1>1, <1>6 DEF Resolve, lapsed
    <2>4. Expired(x.pause_id) = {}
      <3>1. ASSUME NEW n \in Expired(x.pause_id) PROVE FALSE
        <4>1. /\ n \in 1..Len(rows) /\ rows[n].event.event_type = "hitl.pause.expired"
              /\ rows[n].event.payload.pause_id = x.pause_id
          BY <3>1 DEF Expired, About
        <4>2. LapsedBy(x.pause_id, now)
          BY <4>1 DEF TimeInv, InTime
        <4>3. QED
          BY <1>3, <2>3, <1>2, <1>4, <4>2 DEF LapsedBy
      <3>2. QED
        BY <3>1
    <2>5. Timely(e)
      BY <1>2, <1>3, <1>4, <2>2, <2>3, <2>4 DEF Timely
    <2>6. InTime(e)
      BY <2>2, <2>5 DEF InTime
    <2>7. InTime(e)'
      BY <1>2, <2>6, InTimeStays
    <2>8. QED
      BY <2>1, <2>7
  <1>7. QED
    BY <1>5, <1>6

\* A commit of the event of another pause, or of this one's end, leaves an event in time
\* that is owed and, if it is a decision, whose pause does not expire now.
LEMMA CommitTimes ==
    ASSUME PauseInv, NEW t \in Thread, NEW e, Commits(t, e), NEW f,
           Ends(f) => Owed(f), InTime(f),
           f.event_type = "hitl.pause.decided" /\ e.event_type = "hitl.pause.expired"
              => e.payload.pause_id # f.payload.pause_id
    PROVE  InTime(f)'
  <1>1. PICK p : p = f.payload.pause_id
    OBVIOUS
  <1>2. Ends(f) => Created(p) # {}
    BY <1>1 DEF Owed
  <1>3. ASSUME Ends(f) PROVE Created(p)' = Created(p)
    <2>1. ~(e.event_type = "hitl.pause.created" /\ e.payload.pause_id = p)
      BY <1>2, <1>3 DEF Commits
    <2>2. QED
      BY <2>1, CommittedAbout DEF Created
  <1>4. f.event_type = "hitl.pause.decided" => Expired(p)' = Expired(p)
    BY <1>1, CommittedAbout DEF Expired
  <1>5. \A m \in Created(p) : rows'[m] = rows[m]
    BY CommittedAbout DEF Created, Commits
  <1>6. now' = now
    BY DEF Commits
  <1>7. CASE f.event_type = "hitl.pause.expired"
    <2>1. LapsedBy(p, now)
      BY <1>1, <1>7 DEF InTime
    <2>2. LapsedBy(p, now)'
      BY <1>3, <1>5, <1>6, <1>7, <2>1 DEF LapsedBy, Ends
    <2>3. QED
      BY <1>1, <1>7, <2>2 DEF InTime
  <1>8. CASE f.event_type = "hitl.pause.decided"
    <2>1. Timely(f)
      BY <1>8 DEF InTime
    <2>2. Timely(f)'
      BY <1>1, <1>3, <1>4, <1>5, <1>8, <2>1 DEF Timely, Ends
    <2>3. QED
      BY <1>8, <2>2 DEF InTime
  <1>9. QED
    BY <1>7, <1>8 DEF InTime

\* Every step keeps TimeInv, as long as the clock only goes forward.
LEMMA NextTimes ==
    ASSUME ThreadAssumption, HitlAssumption, ~ClockMayStepBack,
           IInv, PauseInv, TimeInv, [Next]_vars
    PROVE  TimeInv'
  <1>1. /\ HitlInv /\ RowsAreSeq /\ RowsOK /\ now \in Nat
        /\ \A u \in Thread : JobOK(u) /\ ThreadInv(u)
    BY DEF IInv, PauseInv, HitlInv, HitlAssumption
  <1>2. ASSUME NEW t \in Thread, Call(t) PROVE TimeInv'
    <2>1. InFlight(t)' => InTime(job[t].event)'
      BY <1>1, <1>2, CallTimes DEF InTime, Ends
    <2>2. QED
      BY <1>1, <1>2, <2>1, CallTimes, QuietTimes DEF InFlight
  <1>3. ASSUME NEW t \in Thread, rows' = rows, now' = now,
               \E step : pc' = [pc EXCEPT ![t] = step],
               \E locals : job' = [job EXCEPT ![t] = locals],
               InFlight(t)' => \/ InTime(job[t].event)'
                               \/ InFlight(t) /\ job'[t].event = job[t].event
        PROVE  TimeInv'
    <2>1. \A u \in Thread : u # t => pc'[u] = pc[u] /\ job'[u] = job[u]
      BY <1>1, <1>3 DEF HitlInv
    <2>2. QED
      BY <1>1, <1>3, <2>1, QuietTimes DEF InFlight
  <1>4. ASSUME NEW t \in Thread, AppendSelects(t) PROVE TimeInv'
    <2>1. /\ rows' = rows /\ now' = now /\ job'[t] = job[t] /\ InFlight(t)
          /\ \E step : pc' = [pc EXCEPT ![t] = step]
          /\ \E locals : job' = [job EXCEPT ![t] = locals]
      BY <1>1, <1>4 DEF AppendSelects, Advances, SelectLast, InFlight, HitlInv
    <2>2. QED
      BY <1>3, <2>1
  <1>5. ASSUME NEW t \in Thread, Expire(t) \/ Resolve(t) PROVE TimeInv'
    <2>1. /\ rows' = rows /\ now' = now
          /\ \E step : pc' = [pc EXCEPT ![t] = step]
          /\ \E locals : job' = [job EXCEPT ![t] = locals]
      BY <1>5 DEF Expire, Resolve, Advances, ledger
    <2>2. QED
      BY <1>1, <1>3, <1>5, <2>1, JudgesTimes
  <1>6. ASSUME NEW t \in Thread,
               \/ AppendFails(t) \/ UnknownPause(t) \/ NotPending(t) \/ LoadPause(t)
               \/ ListCreated(t) \/ ListDecided(t) \/ ListExpired(t)
        PROVE  TimeInv'
    <2>1. /\ rows' = rows /\ now' = now
          /\ \E step \in {"idle", "judging", "listing_decided", "listing_expired"} :
                pc' = [pc EXCEPT ![t] = step]
          /\ \E locals : job' = [job EXCEPT ![t] = locals]
      <3>1. CASE AppendFails(t) \/ UnknownPause(t) \/ NotPending(t)
        <4>1. /\ rows' = rows /\ now' = now
              /\ pc' = [pc EXCEPT ![t] = "idle"] /\ job' = [job EXCEPT ![t] = NoJob]
          BY <3>1 DEF AppendFails, UnknownPause, NotPending, Answers, Rollback,
             LeavesWithError, ledger
        <4>2. QED
          BY <4>1
      <3>2. CASE LoadPause(t)
        BY <3>2 DEF LoadPause, Advances
      <3>3. CASE ListCreated(t) \/ ListDecided(t)
        BY <3>3 DEF ListCreated, ListDecided, Advances, Queries, ledger
      <3>4. CASE ListExpired(t)
        <4>1. /\ rows' = rows /\ now' = now
              /\ pc' = [pc EXCEPT ![t] = "idle"] /\ job' = [job EXCEPT ![t] = NoJob]
          BY <3>4 DEF ListExpired, Answers, Queries, ledger
        <4>2. QED
          BY <4>1
      <3>5. QED
        BY <1>6, <3>1, <3>2, <3>3, <3>4
    <2>2. ~InFlight(t)'
      BY <1>1, <2>1 DEF InFlight, HitlInv
    <2>3. QED
      BY <1>3, <2>1, <2>2
  <1>7. ASSUME NEW t \in Thread, AppendCommits(t) PROVE TimeInv'
    <2>1. PICK e : Commits(t, e)
      BY <1>1, <1>7, CommitForms
    <2>2. /\ Len(rows) \in Nat /\ Len(rows') = Len(rows) + 1 /\ rows'[Len(rows) + 1].event = e
          /\ \A i \in 1..Len(rows) : rows'[i] = rows[i]
          /\ e = job[t].event /\ InFlight(t) /\ lock = t /\ (Ends(e) => Owed(e))
      BY <2>1 DEF Commits, InFlight
    <2>3. e.event_type = "hitl.pause.expired" => Decided(e.payload.pause_id) = {}
      BY <2>1 DEF Commits, Ends
    <2>4. ASSUME NEW n \in 1..Len(rows') PROVE InTime(rows[n].event)'
      <3>1. PICK f : f = rows'[n].event
        OBVIOUS
      <3>2. InTime(f)'
        <4>1. CASE n = Len(rows) + 1
          <5>1. f = e /\ InTime(e)
            BY <2>2, <3>1, <4>1 DEF TimeInv
          <5>2. QED
            BY <2>1, <2>2, <5>1, CommitTimes
        <4>2. CASE n \in 1..Len(rows)
          <5>1. f = rows[n].event /\ InTime(f) /\ (Ends(f) => Owed(f))
            BY <1>1, <2>2, <3>1, <4>2 DEF TimeInv, RowsOK
          <5>2. f.event_type = "hitl.pause.decided" => Decided(f.payload.pause_id) # {}
            BY <4>2, <5>1 DEF Decided, About
          <5>3. f.event_type = "hitl.pause.decided" /\ e.event_type = "hitl.pause.expired"
                   => e.payload.pause_id # f.payload.pause_id
            BY <2>3, <5>2
          <5>4. QED
            BY <2>1, <5>1, <5>3, CommitTimes
        <4>3. QED
          BY <2>2, <4>1, <4>2
      <3>3. QED
        BY <3>1, <3>2
    <2>5. ASSUME NEW u \in Thread, InFlight(u)' PROVE InTime(job[u].event)'
      <3>1. u # t /\ InFlight(u) /\ job'[u] = job[u]
        BY <1>1, <2>1, <2>5 DEF Commits, InFlight, HitlInv
      <3>2. PICK f : f = job[u].event
        OBVIOUS
      <3>3. InTime(f) /\ ~Ends(f)
        BY <1>1, <2>2, <3>1, <3>2 DEF TimeInv, JobOK
      <3>4. InTime(f)'
        BY <3>3 DEF InTime, Ends
      <3>5. f = job'[u].event
        BY <3>1, <3>2
      <3>6. QED
        BY <3>4, <3>5
    <2>6. QED
      BY <2>4, <2>5 DEF TimeInv
  <1>8. CASE Crash
    <2>1. rows' = rows /\ now' = now /\ \A u \in Thread : ~InFlight(u)'
      BY <1>8 DEF Crash, LedgerCrash, InFlight
    <2>2. QED
      BY <1>1, <2>1, QuietTimes
  <1>9. CASE Tick
    <2>1. /\ rows' = rows /\ now' \in Nat /\ now' >= now /\ pc' = pc /\ job' = job
      BY <1>1, <1>9 DEF Tick, ledger
    <2>2. QED
      BY <1>1, <2>1, QuietTimes DEF InFlight
  <1>10. CASE UNCHANGED vars
    BY <1>1, <1>10, QuietTimes DEF vars, ledger, InFlight
  <1>11. QED
    BY <1>2, <1>4, <1>5, <1>6, <1>7, <1>8, <1>9, <1>10 DEF Next, Works

\* No event in flight or on record is from the future, or too late.
LEMMA TimesInvariance == ASSUME ~ClockMayStepBack PROVE Spec => []TimeInv
  <1>1. Init => TimeInv
    BY DEF Init, LedgerInit, TimeInv, InFlight
  <1>2. IInv /\ PauseInv /\ TimeInv /\ [Next]_vars => TimeInv'
    BY ThreadAssumption, HitlAssumption, NextTimes
  <1>3. QED
    BY <1>1, <1>2, InitInv, NextInv, PausesInvariance, PTL DEF Spec

\* A pause is decided before it lapses, and one whose expiry is on record has no
\* decision, if the clock is never set back; hitl_clock shows why it must not be.
THEOREM DecidedInTime == ASSUME ~ClockMayStepBack PROVE Spec => []NoDecisionAfterExpiry
  <1>1. TimeInv => NoDecisionAfterExpiry
    <2> SUFFICES ASSUME TimeInv, NEW p \in 1..calls, NEW n \in Decided(p)
                 PROVE  /\ Expired(p) = {}
                        /\ \A m \in Created(p) :
                              rows[n].event.payload.intent.created_at
                                < rows[m].event.payload.expires_at
      BY DEF NoDecisionAfterExpiry
    <2>1. /\ n \in 1..Len(rows) /\ rows[n].event.event_type = "hitl.pause.decided"
          /\ rows[n].event.payload.pause_id = p
      BY DEF Decided, About
    <2>2. Timely(rows[n].event)
      BY <2>1 DEF TimeInv, InTime
    <2>3. QED
      BY <2>1, <2>2 DEF Timely
  <1>2. QED
    BY <1>1, TimesInvariance, PTL

-----------------------------------------------------------------------------
(* The queue implements HumanDecisions. *)

\* The outcome of a pause is what its only decision, or else its expiry, or else its
\* creation says.
LEMMA OutcomeIs ==
    ASSUME RowsOK, DecidedOnce, NEW p
    PROVE  /\ \A n \in Decided(p) : Outcome(p) = rows[n].event.payload.decision
           /\ Decided(p) = {} /\ Expired(p) # {} => Outcome(p) = "expired"
           /\ Decided(p) = {} /\ Expired(p) = {} /\ Created(p) # {} => Outcome(p) = "pending"
           /\ Decided(p) = {} /\ Expired(p) = {} /\ Created(p) = {} => Outcome(p) = "unknown"
  <1>1. ASSUME NEW n \in Decided(p) PROVE Outcome(p) = rows[n].event.payload.decision
    <2>1. \A m \in Decided(p) : m = n /\ n \in Nat
      BY DEF DecidedOnce, Decided, About
    <2>2. n \in Decided(p) /\ \A m \in Decided(p) : m <= n
      BY <2>1
    <2>3. (CHOOSE k \in Decided(p) : \A m \in Decided(p) : m <= k) = n
      BY <2>1, <2>2
    <2>4. Decided(p) # {}
      OBVIOUS
    <2>5. QED
      BY <2>3, <2>4 DEF Outcome
  <1>2. QED
    BY <1>1 DEF Outcome

\* The outcome of a pause is the same as long as its events are.
LEMMA OutcomeStays ==
    ASSUME NEW p, Created(p)' = Created(p), Decided(p)' = Decided(p), Expired(p)' = Expired(p),
           \A n \in Decided(p) : rows'[n] = rows[n], RowsOK, DecidedOnce
    PROVE  Outcome(p)' = Outcome(p)
  <1>1. ASSUME Decided(p) # {} PROVE Outcome(p)' = Outcome(p)
    <2>1. PICK n \in Decided(p) : TRUE
      BY <1>1
    <2>2. \A m \in Decided(p) : m = n /\ n \in Nat
      BY DEF DecidedOnce, Decided, About
    <2>3. n \in Decided(p) /\ \A m \in Decided(p) : m <= n
      BY <2>2
    <2>4. (CHOOSE k \in Decided(p) : \A m \in Decided(p) : m <= k) = n
      BY <2>2, <2>3
    <2>5. (CHOOSE k \in Decided(p)' : \A m \in Decided(p)' : m <= k) = n
      BY <2>4
    <2>6. Outcome(p) = rows[n].event.payload.decision
      BY <1>1, <2>4 DEF Outcome
    <2>7. Outcome(p)' = rows'[n].event.payload.decision
      BY <1>1, <2>5 DEF Outcome
    <2>8. QED
      BY <2>1, <2>6, <2>7
  <1>2. ASSUME Decided(p) = {} PROVE Outcome(p)' = Outcome(p)
    BY <1>2 DEF Outcome
  <1>3. QED
    BY <1>1, <1>2

\* A commit takes one pause one step on, or none.
LEMMA CommitDecides ==
    ASSUME HitlAssumption, HitlInv, PauseInv, TimeInv, NEW t \in Thread, NEW e, Commits(t, e)
    PROVE  [Decisions!HNext]_[p \in 1..MaxCalls |-> Outcome(p)]
  <1>1. /\ RowsOK /\ DecidedOnce /\ calls \in 0..MaxCalls /\ MaxCalls \in Nat
    BY DEF HitlInv, PauseInv, HitlAssumption
  <1>2. PICK q : q = e.payload.pause_id
    OBVIOUS
  <1>3. ASSUME NEW p, p # q \/ e.event_type = "session.created"
                            \/ ~(Ends(e) \/ e.event_type = "hitl.pause.created")
        PROVE  Outcome(p)' = Outcome(p)
    <2>1. Created(p)' = Created(p) /\ Decided(p)' = Decided(p) /\ Expired(p)' = Expired(p)
      BY <1>2, <1>3, CommittedAbout DEF Created, Decided, Expired, Ends
    <2>2. \A n \in Decided(p) : rows'[n] = rows[n]
      BY CommittedAbout DEF Decided, Commits
    <2>3. QED
      BY <1>1, <2>1, <2>2, OutcomeStays
  <1>4. ASSUME q \in 1..MaxCalls, NEW before, NEW after,
               Outcome(q) = before, Outcome(q)' = after,
               \/ before = "unknown" /\ after = "pending"
               \/ before = "pending" /\ after \in {"approved", "rejected", "expired"}
               \/ before = after
        PROVE  [Decisions!HNext]_[p \in 1..MaxCalls |-> Outcome(p)]
    <2>1. \A p \in 1..MaxCalls : p # q => Outcome(p)' = Outcome(p)
      BY <1>3
    <2>2. [p \in 1..MaxCalls |-> Outcome(p)]'
             = [[p \in 1..MaxCalls |-> Outcome(p)] EXCEPT ![q] = after]
      BY <1>4, <2>1
    <2>3. [p \in 1..MaxCalls |-> Outcome(p)][q] = before
      BY <1>4
    <2>4. CASE before = after
      BY <2>2, <2>3, <2>4
    <2>5. CASE before # after
      BY <1>4, <2>2, <2>3, <2>5 DEF Decisions!HNext, Decisions!Becomes
    <2>6. QED
      BY <2>4, <2>5
  <1>5. /\ EventOK(e) /\ InTime(e)
        /\ Ends(e) => Created(q) # {} /\ Decided(q) = {}
        /\ e.event_type = "hitl.pause.created" => Created(q) = {}
    BY <1>2 DEF Commits, TimeInv, InFlight, Owed
  <1>6. Ends(e) => q \in 1..MaxCalls
    <2>1. ASSUME NEW m \in Created(q) PROVE q \in 1..calls
      BY <1>1, EventsAbout DEF PauseOK, IsPause
    <2>2. QED
      BY <1>1, <1>5, <2>1
  <1>7. CASE e.event_type = "hitl.pause.created"
    <2>1. q \in 1..MaxCalls
      BY <1>1, <1>2, <1>5, <1>7 DEF EventOK, PauseOK, IsPause
    <2>2. Created(q) = {} /\ Decided(q) = {} /\ Expired(q) = {}
      BY <1>1, <1>5, <1>7, EventsAbout
    <2>3. Created(q)' # {} /\ Decided(q)' = {} /\ Expired(q)' = {}
      BY <1>2, <1>7, <2>2, CommittedAbout DEF Created, Decided, Expired
    <2>4. Outcome(q) = "unknown" /\ Outcome(q)' = "pending"
      BY <2>2, <2>3 DEF Outcome
    <2>5. QED
      BY <1>4, <2>1, <2>4
  <1>8. CASE e.event_type = "hitl.pause.decided"
    <2>1. Created(q) # {} /\ Decided(q) = {} /\ Expired(q) = {} /\ q \in 1..MaxCalls
      BY <1>2, <1>5, <1>6, <1>8 DEF InTime, Timely, Ends
    <2>2. Outcome(q) = "pending"
      BY <2>1 DEF Outcome
    <2>3. PICK last : last = Len(rows) + 1
      OBVIOUS
    <2>4. Decided(q)' = {last} /\ last \in Nat /\ rows'[last].event = e
      <3>1. Decided(q)' = Decided(q) \cup {last}
        BY <1>2, <1>8, <2>3, CommittedAbout DEF Decided
      <3>2. last \in Nat /\ rows'[last].event = e
        BY <2>3 DEF Commits
      <3>3. QED
        BY <2>1, <3>1, <3>2
    <2>5. (CHOOSE n \in {last} : \A m \in {last} : m <= n) = last
      BY <2>4
    <2>6. Outcome(q)' = e.payload.decision
      BY <2>4, <2>5 DEF Outcome
    <2>7. e.payload.decision \in {"approved", "rejected"}
      BY <1>5, <1>8 DEF EventOK
    <2>8. QED
      BY <1>4, <2>1, <2>2, <2>6, <2>7
  <1>9. CASE e.event_type = "hitl.pause.expired"
    <2>1. Created(q) # {} /\ Decided(q) = {} /\ q \in 1..MaxCalls
      BY <1>5, <1>6, <1>9 DEF Ends
    <2>2. Outcome(q) \in {"pending", "expired"}
      BY <2>1 DEF Outcome
    <2>3. Decided(q)' = {} /\ Expired(q)' # {}
      <3>1. Decided(q)' = Decided(q)
        BY <1>9, CommittedAbout DEF Decided
      <3>2. Expired(q)' = Expired(q) \cup {Len(rows) + 1}
        BY <1>2, <1>9, CommittedAbout DEF Expired
      <3>3. QED
        BY <2>1, <3>1, <3>2
    <2>4. Outcome(q)' = "expired"
      BY <2>3 DEF Outcome
    <2>5. QED
      BY <1>4, <2>1, <2>2, <2>4
  <1>10. CASE ~(Ends(e) \/ e.event_type = "hitl.pause.created")
    <2>1. \A p \in 1..MaxCalls : Outcome(p)' = Outcome(p)
      BY <1>3, <1>10
    <2>2. QED
      BY <2>1
  <1>11. QED
    BY <1>7, <1>8, <1>9, <1>10 DEF Ends

\* Steps that write no row decide nothing.
LEMMA OnlyCommitsWrite ==
    ASSUME [Next]_vars, \A t \in Thread : ~AppendCommits(t)
    PROVE  rows' = rows
  <1>1. ASSUME NEW t \in Thread, Call(t) PROVE rows' = rows
    BY <1>1 DEF Call, CallCreate, CallList, CallEmit, CallDecide, Begins, ledger
  <1>2. ASSUME NEW t \in Thread, Works(t), ~AppendCommits(t) PROVE rows' = rows
    BY <1>2 DEF Works, AppendSelects, SelectLast, AppendFails, Rollback, UnknownPause,
       LoadPause, NotPending, LeavesWithError, Expire, Resolve, ListCreated, ListDecided,
       ListExpired, Queries, ledger
  <1>3. CASE Crash \/ Tick \/ UNCHANGED vars
    BY <1>3 DEF Crash, LedgerCrash, Tick, vars, ledger
  <1>4. QED
    BY <1>1, <1>2, <1>3 DEF Next

\* What became of the pauses is in the rows alone.
LEMMA SameOutcomes ==
    ASSUME RowsOK, DecidedOnce, rows' = rows
    PROVE  UNCHANGED [p \in 1..MaxCalls |-> Outcome(p)]
  <1>1. \A p : /\ Created(p)' = Created(p) /\ Decided(p)' = Decided(p)
               /\ Expired(p)' = Expired(p)
    BY AboutStays DEF Created, Decided, Expired
  <1>2. \A p : Outcome(p)' = Outcome(p)
    BY <1>1, OutcomeStays
  <1>3. QED
    BY <1>2

\* The queue keeps the promise of HumanDecisions, if the clock is never set back: a
\* pause is created once, leaves "pending" once, and never leaves the state it went to.
THEOREM DecisionsAreFinal == ASSUME ~ClockMayStepBack PROVE Spec => ImplementsDecisions
  <1>1. Init => Decisions!HInit
    <2> SUFFICES ASSUME Init PROVE Decisions!HInit
      OBVIOUS
    <2>1. rows = <<>> /\ Len(rows) = 0
      BY DEF Init, LedgerInit
    <2>2. \A p : Created(p) = {} /\ Decided(p) = {} /\ Expired(p) = {}
      BY <2>1 DEF Created, Decided, Expired, About
    <2>3. \A p : Outcome(p) = "unknown"
      BY <2>2 DEF Outcome
    <2>4. QED
      BY <2>3 DEF Decisions!HInit
  <1>2. IInv /\ PauseInv /\ TimeInv /\ [Next]_vars
          => [Decisions!HNext]_[p \in 1..MaxCalls |-> Outcome(p)]
    <2> SUFFICES ASSUME IInv, PauseInv, TimeInv, [Next]_vars
                 PROVE  [Decisions!HNext]_[p \in 1..MaxCalls |-> Outcome(p)]
      OBVIOUS
    <2>1. CASE \E t \in Thread : AppendCommits(t)
      BY <2>1, ThreadAssumption, HitlAssumption, CommitForms, CommitDecides DEF IInv
    <2>2. CASE \A t \in Thread : ~AppendCommits(t)
      BY <2>2, OnlyCommitsWrite, SameOutcomes DEF IInv, HitlInv, PauseInv
    <2>3. QED
      BY <2>1, <2>2
  <1>3. QED
    BY <1>1, <1>2, InitInv, NextInv, PausesInvariance, TimesInvariance, PTL
    DEF Spec, ImplementsDecisions, Decisions!HSpec

-----------------------------------------------------------------------------
(* list_pending. *)

\* The pauses a tenant created in the first rows.
CreatedBy(tenant, upto) ==
    {rows[n].event.payload : n \in {m \in 1..upto :
        rows[m].event.event_type = "hitl.pause.created" /\ rows[m].event.tenant = tenant}}

\* The listing of a thread after its first query, its second and its third.
Started(tenant, seen, pauses) ==
    seen \in 0..Len(rows) /\ pauses = CreatedBy(tenant, seen)

Sifted(tenant, seen, pauses) ==
    /\ seen \in 0..Len(rows) /\ pauses \subseteq CreatedBy(tenant, seen)
    /\ \A pause \in pauses : \A n \in Decided(pause.pause_id) : n > seen
    /\ \A pause \in CreatedBy(tenant, seen) :
          Decided(pause.pause_id) = {} => pause \in pauses

Sound(tenant, seen, pauses) ==
    /\ seen \in 0..Len(rows) /\ pauses \subseteq CreatedBy(tenant, seen)
    /\ \A pause \in pauses :
          \A n \in Decided(pause.pause_id) \cup Expired(pause.pause_id) : n > seen
    /\ \A pause \in CreatedBy(tenant, seen) :
          Decided(pause.pause_id) \cup Expired(pause.pause_id) = {} => pause \in pauses

Listed(t) ==
    /\ InFlight(t) => job[t].result.kind # "listing"
    /\ pc[t] = "listing_decided" =>
          /\ job[t] = [op |-> "list", tenant |-> job[t].tenant, seen |-> job[t].seen,
                       pauses |-> job[t].pauses]
          /\ Started(job[t].tenant, job[t].seen, job[t].pauses)
    /\ pc[t] = "listing_expired" => Sifted(job[t].tenant, job[t].seen, job[t].pauses)
    /\ answer[t].kind = "listing" => Sound(answer[t].tenant, answer[t].seen, answer[t].pauses)
ListingInv == \A t \in Thread : Listed(t)

\* The ledger only grows.
Grows ==
    /\ Len(rows) \in Nat /\ Len(rows') \in Nat /\ Len(rows') >= Len(rows)
    /\ \A i \in 1..Len(rows) : rows'[i] = rows[i]

\* Rows about a pause stay, and new ones are behind all that were there.
LEMMA GrowsAbout ==
    ASSUME Grows, NEW type, NEW p
    PROVE  /\ \A n \in About(type, p) : n \in About(type, p)'
           /\ \A n \in About(type, p)' : n \in About(type, p) \/ n > Len(rows)
           /\ \A n \in About(type, p)' : n \in Nat
  BY DEF Grows, About

\* What was created up to a row stays what it was.
LEMMA GrowsCreatedBy ==
    ASSUME Grows, NEW tenant, NEW seen \in 0..Len(rows)
    PROVE  CreatedBy(tenant, seen)' = CreatedBy(tenant, seen) /\ seen \in 0..Len(rows')
  <1>1. (\A m \in 1..seen : rows'[m] = rows[m]) /\ seen \in 0..Len(rows')
    BY DEF Grows
  <1>2. QED
    BY <1>1 DEF CreatedBy

\* A row committed meanwhile is behind all that a listing has seen.
LEMMA GrowsListings ==
    ASSUME Grows, NEW tenant, NEW seen, NEW pauses
    PROVE  /\ Started(tenant, seen, pauses) => Started(tenant, seen, pauses)'
           /\ Sifted(tenant, seen, pauses) => Sifted(tenant, seen, pauses)'
           /\ Sound(tenant, seen, pauses) => Sound(tenant, seen, pauses)'
  <1>1. ASSUME seen \in 0..Len(rows)
        PROVE  /\ CreatedBy(tenant, seen)' = CreatedBy(tenant, seen)
               /\ seen \in 0..Len(rows') /\ seen \in Nat
    BY <1>1, GrowsCreatedBy
  <1>2. \A p : /\ \A n \in Decided(p) : n \in Decided(p)'
               /\ \A n \in Expired(p) : n \in Expired(p)'
               /\ \A n \in Decided(p)' : n \in Decided(p) \/ (n > Len(rows) /\ n \in Nat)
               /\ \A n \in Expired(p)' : n \in Expired(p) \/ (n > Len(rows) /\ n \in Nat)
    BY GrowsAbout DEF Decided, Expired
  <1>3. ASSUME Started(tenant, seen, pauses) PROVE Started(tenant, seen, pauses)'
    BY <1>1, <1>3 DEF Started
  <1>4. \A n \in Nat : seen \in 0..Len(rows) /\ n > Len(rows) => n > seen
    BY DEF Grows
  <1>5. ASSUME Sifted(tenant, seen, pauses) PROVE Sifted(tenant, seen, pauses)'
    <2>1. \A x : (\A n \in Decided(x) : n > seen) => \A n \in Decided(x)' : n > seen
      BY <1>2, <1>4, <1>5 DEF Sifted
    <2>2. \A x : Decided(x)' = {} => Decided(x) = {}
      BY <1>2
    <2>3. QED
      BY <1>1, <1>5, <2>1, <2>2 DEF Sifted
  <1>6. ASSUME Sound(tenant, seen, pauses) PROVE Sound(tenant, seen, pauses)'
    <2>1. \A x : (\A n \in Decided(x) \cup Expired(x) : n > seen)
                    => \A n \in Decided(x)' \cup Expired(x)' : n > seen
      BY <1>2, <1>4, <1>6 DEF Sound
    <2>2. \A x : Decided(x)' \cup Expired(x)' = {} => Decided(x) \cup Expired(x) = {}
      BY <1>2
    <2>3. QED
      BY <1>1, <1>6, <2>1, <2>2 DEF Sound
  <1>7. QED
    BY <1>3, <1>5, <1>6

\* A thread keeps its listing through a step that leaves its call alone, or ends it or
\* begins it with nothing to list.
LEMMA ListingStays ==
    ASSUME Grows, NEW u \in Thread, Listed(u),
           \/ pc'[u] = pc[u] /\ job'[u] = job[u]
           \/ /\ pc'[u] \notin {"listing_decided", "listing_expired"}
              /\ InFlight(u)' => job'[u].result.kind # "listing",
           answer'[u] = answer[u] \/ answer'[u].kind # "listing"
    PROVE  Listed(u)'
  <1>1. \A tenant, seen, pauses :
           /\ Started(tenant, seen, pauses) => Started(tenant, seen, pauses)'
           /\ Sifted(tenant, seen, pauses) => Sifted(tenant, seen, pauses)'
           /\ Sound(tenant, seen, pauses) => Sound(tenant, seen, pauses)'
    BY GrowsListings
  <1>2. (InFlight(u) => job[u].result.kind # "listing")'
    BY DEF Listed, InFlight
  <1>3. ASSUME pc'[u] = "listing_decided"
        PROVE  (/\ job[u] = [op |-> "list", tenant |-> job[u].tenant, seen |-> job[u].seen,
                             pauses |-> job[u].pauses]
                /\ Started(job[u].tenant, job[u].seen, job[u].pauses))'
    <2>1. PICK tenant, seen, pauses :
              tenant = job[u].tenant /\ seen = job[u].seen /\ pauses = job[u].pauses
      OBVIOUS
    <2>2. /\ Started(tenant, seen, pauses) /\ job'[u] = job[u]
          /\ job[u] = [op |-> "list", tenant |-> tenant, seen |-> seen, pauses |-> pauses]
      BY <1>3, <2>1 DEF Listed
    <2>3. Started(tenant, seen, pauses)'
      BY <1>1, <2>2
    <2>4. tenant = job'[u].tenant /\ seen = job'[u].seen /\ pauses = job'[u].pauses
      BY <2>1, <2>2
    <2>5. QED
      BY <2>2, <2>3, <2>4
  <1>4. ASSUME pc'[u] = "listing_expired"
        PROVE  Sifted(job[u].tenant, job[u].seen, job[u].pauses)'
    <2>1. PICK tenant, seen, pauses :
              tenant = job[u].tenant /\ seen = job[u].seen /\ pauses = job[u].pauses
      OBVIOUS
    <2>2. Sifted(tenant, seen, pauses) /\ job'[u] = job[u]
      BY <1>4, <2>1 DEF Listed
    <2>3. Sifted(tenant, seen, pauses)'
      BY <1>1, <2>2
    <2>4. tenant = job'[u].tenant /\ seen = job'[u].seen /\ pauses = job'[u].pauses
      BY <2>1, <2>2
    <2>5. QED
      BY <2>3, <2>4
  <1>5. ASSUME answer'[u].kind = "listing"
        PROVE  Sound(answer[u].tenant, answer[u].seen, answer[u].pauses)'
    <2>1. PICK tenant, seen, pauses :
              tenant = answer[u].tenant /\ seen = answer[u].seen /\ pauses = answer[u].pauses
      OBVIOUS
    <2>2. Sound(tenant, seen, pauses) /\ answer'[u] = answer[u]
      BY <1>5, <2>1 DEF Listed
    <2>3. Sound(tenant, seen, pauses)'
      BY <1>1, <2>2
    <2>4. tenant = answer'[u].tenant /\ seen = answer'[u].seen /\ pauses = answer'[u].pauses
      BY <2>1, <2>2
    <2>5. QED
      BY <2>3, <2>4
  <1>6. QED
    BY <1>2, <1>3, <1>4, <1>5 DEF Listed

\* Rows that stay as they are have grown by none.
LEMMA RowsStay == ASSUME RowsAreSeq, rows' = rows PROVE Grows
  BY DEF RowsAreSeq, Grows

\* The events the second and third query find about a tenant's pauses are all there are.
LEMMA OwnEvents ==
    ASSUME RowsOK, CreatedOnce, NEW tenant, NEW seen \in 0..Len(rows), Len(rows) \in Nat,
           NEW pause \in CreatedBy(tenant, seen)
    PROVE  /\ pause.tenant = tenant
           /\ (\A e \in EventsOfType("hitl.pause.decided", tenant) :
                   e.pause_id # pause.pause_id) <=> Decided(pause.pause_id) = {}
           /\ (\A e \in EventsOfType("hitl.pause.expired", tenant) :
                   e.pause_id # pause.pause_id) <=> Expired(pause.pause_id) = {}
  <1>1. PICK k \in 1..seen : /\ rows[k].event.event_type = "hitl.pause.created"
                             /\ rows[k].event.tenant = tenant
                             /\ rows[k].event.payload = pause
    BY DEF CreatedBy
  <1>2. k \in 1..Len(rows) /\ pause.tenant = tenant
    BY <1>1 DEF RowsOK, EventOK
  <1>3. PICK p : p = pause.pause_id
    OBVIOUS
  <1>4. ASSUME NEW n \in Decided(p) \cup Expired(p) PROVE rows[n].event.tenant = tenant
    <2>1. Owed(rows[n].event) /\ rows[n].event.payload.pause_id = p
      BY <1>4, EventsAbout
    <2>2. PICK m \in Created(p) : rows[m].event.tenant = rows[n].event.tenant
      BY <2>1 DEF Owed
    <2>3. m = k
      BY <1>1, <1>2, <1>3 DEF CreatedOnce, Created, About
    <2>4. QED
      BY <1>1, <2>2, <2>3
  <1>5. ASSUME NEW type
        PROVE  /\ \A n \in About(type, p) : rows[n].event.tenant = tenant
                     => rows[n].event.payload \in EventsOfType(type, tenant)
               /\ \A n \in About(type, p) : rows[n].event.payload.pause_id = p
               /\ \A e \in EventsOfType(type, tenant) :
                     e.pause_id = p => About(type, p) # {}
    BY DEF About, EventsOfType
  <1>6. (\A e \in EventsOfType("hitl.pause.decided", tenant) : e.pause_id # p)
            <=> Decided(p) = {}
    <2>1. ASSUME NEW n \in Decided(p)
          PROVE  \E e \in EventsOfType("hitl.pause.decided", tenant) : e.pause_id = p
      BY <1>4, <1>5 DEF Decided
    <2>2. QED
      BY <1>5, <2>1 DEF Decided
  <1>7. (\A e \in EventsOfType("hitl.pause.expired", tenant) : e.pause_id # p)
            <=> Expired(p) = {}
    <2>1. ASSUME NEW n \in Expired(p)
          PROVE  \E e \in EventsOfType("hitl.pause.expired", tenant) : e.pause_id = p
      BY <1>4, <1>5 DEF Expired
    <2>2. QED
      BY <1>5, <2>1 DEF Expired
  <1>8. QED
    BY <1>2, <1>3, <1>6, <1>7

\* The three queries.
LEMMA QueriesList ==
    ASSUME IInv, PauseInv, ListingInv, NEW t \in Thread,
           ListCreated(t) \/ ListDecided(t) \/ ListExpired(t)
    PROVE  Listed(t)'
  <1>1. /\ RowsOK /\ CreatedOnce /\ Listed(t) /\ Len(rows) \in Nat /\ rows' = rows
        /\ DOMAIN pc = Thread /\ DOMAIN job = Thread /\ DOMAIN answer = Thread
    BY DEF IInv, RowsAreSeq, HitlInv, PauseInv, ListingInv, ListCreated, ListDecided,
       ListExpired, Queries, ledger
  <1>2. Grows
    BY RowsStay, <1>1 DEF IInv
  <1>3. ASSUME answer' = answer
        PROVE  answer'[t].kind = "listing"
                  => Sound(answer[t].tenant, answer[t].seen, answer[t].pauses)'
    <2>1. PICK tenant, seen, pauses :
              tenant = answer[t].tenant /\ seen = answer[t].seen /\ pauses = answer[t].pauses
      OBVIOUS
    <2>2. answer[t].kind = "listing" => Sound(tenant, seen, pauses)
      BY <1>1, <2>1 DEF Listed
    <2>3. answer[t].kind = "listing" => Sound(tenant, seen, pauses)'
      BY <1>2, <2>2, GrowsListings
    <2>4. tenant = answer'[t].tenant /\ seen = answer'[t].seen /\ pauses = answer'[t].pauses
      BY <1>3, <2>1
    <2>5. QED
      BY <1>3, <2>3, <2>4
  <1>4. CASE ListCreated(t)
    <2>1. PICK tenant, seen, pauses :
              /\ tenant = job[t].tenant /\ seen = Len(rows)
              /\ pauses = EventsOfType("hitl.pause.created", tenant)
      OBVIOUS
    <2>2. /\ pc'[t] = "listing_decided" /\ answer' = answer
          /\ job'[t] = [op |-> "list", tenant |-> tenant, seen |-> seen, pauses |-> pauses]
      BY <1>1, <1>4, <2>1 DEF ListCreated, Advances
    <2>3. Started(tenant, seen, pauses)
      BY <1>1, <2>1 DEF Started, CreatedBy, EventsOfType
    <2>4. Started(tenant, seen, pauses)'
      BY <1>2, <2>3, GrowsListings
    <2>5. tenant = job'[t].tenant /\ seen = job'[t].seen /\ pauses = job'[t].pauses
      BY <2>2
    <2>6. Started(job[t].tenant, job[t].seen, job[t].pauses)'
      BY <2>4, <2>5
    <2>7. QED
      BY <1>3, <2>2, <2>5, <2>6 DEF Listed, InFlight
  <1>5. CASE ListDecided(t)
    <2>1. PICK tenant, seen, pauses, kept :
              /\ tenant = job[t].tenant /\ seen = job[t].seen /\ pauses = job[t].pauses
              /\ kept = Without(pauses, EventsOfType("hitl.pause.decided", tenant))
      OBVIOUS
    <2>2. /\ Started(tenant, seen, pauses)
          /\ job[t] = [op |-> "list", tenant |-> tenant, seen |-> seen, pauses |-> pauses]
      BY <1>1, <1>5, <2>1 DEF Listed, ListDecided, Advances
    <2>3. /\ pc'[t] = "listing_expired" /\ answer' = answer
          /\ job'[t] = [job[t] EXCEPT !.pauses = kept]
      BY <1>1, <1>5, <2>1, <2>2 DEF ListDecided, Advances
    <2>4. tenant = job'[t].tenant /\ seen = job'[t].seen /\ kept = job'[t].pauses
      BY <2>2, <2>3
    <2>5. ASSUME NEW pause \in pauses
          PROVE  pause \in kept <=> Decided(pause.pause_id) = {}
      <3>1. pause \in CreatedBy(tenant, seen) /\ seen \in 0..Len(rows)
        BY <2>2, <2>5 DEF Started
      <3>2. (\A e \in EventsOfType("hitl.pause.decided", tenant) :
                e.pause_id # pause.pause_id) <=> Decided(pause.pause_id) = {}
        BY <1>1, <3>1, OwnEvents
      <3>3. QED
        BY <2>1, <2>5, <3>2 DEF Without
    <2>6. kept \subseteq pauses
      BY <2>1 DEF Without
    <2>7. Sifted(tenant, seen, kept)
      BY <2>2, <2>5, <2>6 DEF Started, Sifted
    <2>8. Sifted(tenant, seen, kept)'
      BY <1>2, <2>7, GrowsListings
    <2>9. Sifted(job[t].tenant, job[t].seen, job[t].pauses)'
      BY <2>4, <2>8
    <2>10. QED
      BY <1>3, <2>3, <2>9 DEF Listed, InFlight
  <1>6. CASE ListExpired(t)
    <2>1. PICK tenant, seen, pauses, kept :
              /\ tenant = job[t].tenant /\ seen = job[t].seen /\ pauses = job[t].pauses
              /\ kept = Without(pauses, EventsOfType("hitl.pause.expired", tenant))
      OBVIOUS
    <2>2. Sifted(tenant, seen, pauses)
      BY <1>1, <1>6, <2>1 DEF Listed, ListExpired
    <2>3. /\ pc'[t] = "idle"
          /\ answer'[t] = [kind |-> "listing", tenant |-> tenant, seen |-> seen,
                           pauses |-> kept]
      BY <1>1, <1>6, <2>1 DEF ListExpired, Answers
    <2>4. tenant = answer'[t].tenant /\ seen = answer'[t].seen /\ kept = answer'[t].pauses
      BY <2>3
    <2>5. ASSUME NEW pause \in pauses
          PROVE  pause \in kept <=> Expired(pause.pause_id) = {}
      <3>1. pause \in CreatedBy(tenant, seen) /\ seen \in 0..Len(rows)
        BY <2>2, <2>5 DEF Sifted
      <3>2. (\A e \in EventsOfType("hitl.pause.expired", tenant) :
                e.pause_id # pause.pause_id) <=> Expired(pause.pause_id) = {}
        BY <1>1, <3>1, OwnEvents
      <3>3. QED
        BY <2>1, <2>5, <3>2 DEF Without
    <2>6. kept \subseteq pauses
      BY <2>1 DEF Without
    <2>7. Sound(tenant, seen, kept)
      BY <2>2, <2>5, <2>6 DEF Sifted, Sound
    <2>8. Sound(tenant, seen, kept)'
      BY <1>2, <2>7, GrowsListings
    <2>9. Sound(answer[t].tenant, answer[t].seen, answer[t].pauses)'
      BY <2>4, <2>8
    <2>10. QED
      BY <2>3, <2>9 DEF Listed, InFlight
  <1>7. QED
    BY <1>4, <1>5, <1>6

\* A call begins with nothing listed.
LEMMA CallListings ==
    ASSUME HitlInv, NEW t \in Thread, Call(t)
    PROVE  /\ rows' = rows
           /\ \A u \in Thread : u # t => /\ pc'[u] = pc[u] /\ job'[u] = job[u]
                                         /\ answer'[u] = answer[u]
           /\ pc'[t] \notin {"listing_decided", "listing_expired"}
           /\ answer'[t].kind # "listing"
           /\ InFlight(t)' => job'[t].result.kind # "listing"
  <1>1. ASSUME NEW step, NEW locals, Begins(t, step, locals),
               \/ step \in {"deciding", "listing_created"}
               \/ step = "appending" /\ locals.result.kind # "listing"
        PROVE  /\ rows' = rows
               /\ \A u \in Thread : u # t => /\ pc'[u] = pc[u] /\ job'[u] = job[u]
                                             /\ answer'[u] = answer[u]
               /\ pc'[t] \notin {"listing_decided", "listing_expired"}
               /\ answer'[t].kind # "listing"
               /\ InFlight(t)' => job'[t].result.kind # "listing"
    BY <1>1 DEF Begins, ledger, InFlight, HitlInv, NoAnswer
  <1>2. ASSUME NEW tenant \in Tenant, NEW effect \in Effect, NEW ttl \in Ttl,
               CallCreate(t, tenant, effect, ttl)
        PROVE  \E step, locals : /\ Begins(t, step, locals) /\ step = "appending"
                                 /\ locals.result.kind # "listing"
    BY <1>2 DEF CallCreate, Appending
  <1>3. ASSUME NEW tenant \in Tenant, CallEmit(t, tenant)
        PROVE  \E step, locals : /\ Begins(t, step, locals) /\ step = "appending"
                                 /\ locals.result.kind # "listing"
    BY <1>3 DEF CallEmit, Appending
  <1>4. ASSUME NEW tenant \in Tenant, CallList(t, tenant)
        PROVE  \E step, locals : Begins(t, step, locals) /\ step = "listing_created"
    BY <1>4 DEF CallList
  <1>5. ASSUME NEW p, NEW decision, NEW actor, CallDecide(t, p, decision, actor)
        PROVE  \E step, locals : Begins(t, step, locals) /\ step = "deciding"
    BY <1>5 DEF CallDecide
  <1>6. QED
    BY <1>1, <1>2, <1>3, <1>4, <1>5 DEF Call

\* Every step keeps every listing, finished or under way, true to the ledger.
LEMMA NextListings ==
    ASSUME ThreadAssumption, IInv, PauseInv, ListingInv, [Next]_vars
    PROVE  ListingInv'
  <1>1. /\ RowsAreSeq /\ HitlInv /\ \A u \in Thread : Listed(u)
        /\ DOMAIN pc = Thread /\ DOMAIN job = Thread /\ DOMAIN answer = Thread
    BY DEF IInv, HitlInv, ListingInv
  <1>2. ASSUME NEW t \in Thread, Grows, Listed(t)',
               \A u \in Thread : u # t => /\ pc'[u] = pc[u] /\ job'[u] = job[u]
                                          /\ answer'[u] = answer[u]
        PROVE  ListingInv'
    <2>1. ASSUME NEW u \in Thread, u # t PROVE Listed(u)'
      BY <1>1, <1>2, <2>1, ListingStays
    <2>2. QED
      BY <1>2, <2>1 DEF ListingInv
  <1>3. ASSUME NEW t \in Thread, Call(t) PROVE ListingInv'
    <2>1. Grows
      BY <1>1, <1>3, CallListings, RowsStay
    <2>2. Listed(t)'
      BY <1>1, <1>3, <2>1, CallListings, ListingStays
    <2>3. QED
      BY <1>1, <1>2, <1>3, <2>1, <2>2, CallListings
  <1>4. ASSUME NEW t \in Thread, rows' = rows,
               \E step \in {"idle", "inserting", "judging", "appending"} :
                  pc' = [pc EXCEPT ![t] = step],
               \E locals : job' = [job EXCEPT ![t] = locals],
               \/ answer' = answer
               \/ answer' = [answer EXCEPT ![t] = HitlError],
               InFlight(t)' => job'[t].result.kind # "listing"
        PROVE  ListingInv'
    <2>1. /\ \A u \in Thread : u # t => /\ pc'[u] = pc[u] /\ job'[u] = job[u]
                                        /\ answer'[u] = answer[u]
          /\ pc'[t] \notin {"listing_decided", "listing_expired"}
          /\ answer'[t] = answer[t] \/ answer'[t].kind # "listing"
      BY <1>1, <1>4 DEF HitlError
    <2>2. Grows
      BY <1>1, <1>4, RowsStay
    <2>3. Listed(t)'
      BY <1>1, <1>4, <2>1, <2>2, ListingStays
    <2>4. QED
      BY <1>2, <2>1, <2>2, <2>3
  <1>5. ASSUME NEW t \in Thread, AppendSelects(t) PROVE ListingInv'
    <2>1. /\ rows' = rows /\ answer' = answer /\ job'[t] = job[t] /\ InFlight(t)
          /\ pc' = [pc EXCEPT ![t] = "inserting"]
          /\ \E locals : job' = [job EXCEPT ![t] = locals]
      BY <1>1, <1>5 DEF AppendSelects, Advances, SelectLast, InFlight
    <2>2. job'[t].result.kind # "listing"
      BY <1>1, <2>1 DEF Listed
    <2>3. QED
      BY <1>4, <2>1, <2>2
  <1>6. ASSUME NEW t \in Thread, AppendFails(t) \/ UnknownPause(t) \/ NotPending(t)
        PROVE  ListingInv'
    <2>1. /\ rows' = rows /\ pc' = [pc EXCEPT ![t] = "idle"]
          /\ job' = [job EXCEPT ![t] = NoJob]
          /\ answer' = [answer EXCEPT ![t] = HitlError]
      BY <1>6 DEF AppendFails, UnknownPause, NotPending, Answers, Rollback,
         LeavesWithError, ledger
    <2>2. ~InFlight(t)'
      BY <1>1, <2>1 DEF InFlight
    <2>3. QED
      BY <1>4, <2>1, <2>2
  <1>7. ASSUME NEW t \in Thread, LoadPause(t) PROVE ListingInv'
    <2>1. /\ rows' = rows /\ answer' = answer /\ pc' = [pc EXCEPT ![t] = "judging"]
          /\ \E locals : job' = [job EXCEPT ![t] = locals]
      BY <1>7 DEF LoadPause, Advances
    <2>2. ~InFlight(t)'
      BY <1>1, <2>1 DEF InFlight
    <2>3. QED
      BY <1>4, <2>1, <2>2
  <1>8. ASSUME NEW t \in Thread, Expire(t) \/ Resolve(t) PROVE ListingInv'
    <2>1. /\ rows' = rows /\ answer' = answer /\ pc' = [pc EXCEPT ![t] = "appending"]
          /\ \E locals : job' = [job EXCEPT ![t] = locals]
      BY <1>8 DEF Expire, Resolve, Advances, ledger
    <2>2. job'[t].result.kind # "listing"
      BY <1>1, <1>8 DEF Expire, Resolve, Advances, Appending, HitlError
    <2>3. QED
      BY <1>4, <2>1, <2>2
  <1>9. ASSUME NEW t \in Thread, ListCreated(t) \/ ListDecided(t) \/ ListExpired(t)
        PROVE  ListingInv'
    <2>1. /\ rows' = rows
          /\ \A u \in Thread : u # t => /\ pc'[u] = pc[u] /\ job'[u] = job[u]
                                        /\ answer'[u] = answer[u]
      BY <1>1, <1>9 DEF ListCreated, ListDecided, ListExpired, Advances, Answers, Queries,
         ledger
    <2>2. Listed(t)'
      BY <1>9, QueriesList
    <2>3. QED
      BY <1>1, <1>2, <2>1, <2>2, RowsStay
  <1>10. ASSUME NEW t \in Thread, AppendCommits(t) PROVE ListingInv'
    <2>1. PICK e : Commits(t, e)
      BY <1>1, <1>10, CommitForms
    <2>2. Grows
      BY <2>1 DEF Commits, Grows
    <2>3. /\ pc'[t] = "idle" /\ answer'[t] = job[t].result /\ job[t].result.kind # "listing"
          /\ \A u \in Thread : u # t => /\ pc'[u] = pc[u] /\ job'[u] = job[u]
                                        /\ answer'[u] = answer[u]
      BY <1>1, <2>1 DEF Commits, Listed, InFlight
    <2>4. ~InFlight(t)'
      BY <2>3 DEF InFlight
    <2>5. Listed(t)'
      BY <1>1, <2>2, <2>3, <2>4, ListingStays
    <2>6. QED
      BY <1>2, <2>2, <2>3, <2>5
  <1>11. CASE Crash
    <2>1. Grows
      BY <1>1, <1>11, RowsStay DEF Crash, LedgerCrash
    <2>2. ASSUME NEW u \in Thread PROVE Listed(u)'
      <3>1. pc'[u] = "idle" /\ answer'[u] = answer[u] /\ ~InFlight(u)'
        BY <1>11, <2>2 DEF Crash, InFlight
      <3>2. QED
        BY <1>1, <2>1, <2>2, <3>1, ListingStays
    <2>3. QED
      BY <2>2 DEF ListingInv
  <1>12. CASE Tick \/ UNCHANGED vars
    <2>1. rows' = rows /\ pc' = pc /\ job' = job /\ answer' = answer
      BY <1>12 DEF Tick, vars, ledger
    <2>2. Grows
      BY <1>1, <2>1, RowsStay
    <2>3. ASSUME NEW u \in Thread PROVE Listed(u)'
      BY <1>1, <2>1, <2>2, <2>3, ListingStays
    <2>4. QED
      BY <2>3 DEF ListingInv
  <1>13. QED
    BY <1>3, <1>5, <1>6, <1>7, <1>8, <1>9, <1>10, <1>11, <1>12 DEF Next, Works

\* list_pending, whose three queries other threads come between, lists nothing that was
\* decided or expired before it began, everything pending from then till now, and no
\* other tenant's pause; whatever the clock does.
THEOREM ListingsAreSound == Spec => []ListingSound
  <1>1. Init => ListingInv
    <2> SUFFICES ASSUME Init, NEW u \in Thread PROVE Listed(u)
      BY DEF ListingInv
    <2>1. pc[u] = "idle" /\ answer[u] = NoAnswer
      BY DEF Init
    <2>2. pc[u] = "idle" /\ answer[u].kind = "none"
      BY <2>1 DEF NoAnswer
    <2>3. QED
      BY <2>2 DEF Listed, InFlight
  <1>2. IInv /\ PauseInv /\ ListingInv /\ [Next]_vars => ListingInv'
    BY ThreadAssumption, NextListings
  <1>3. IInv /\ PauseInv /\ ListingInv => ListingSound
    <2> SUFFICES ASSUME IInv, PauseInv, ListingInv, NEW t \in Thread,
                        answer[t].kind = "listing"
                 PROVE  LET Closed(p) == Decided(p) \cup Expired(p)
                        IN  /\ \A pause \in answer[t].pauses :
                                  /\ pause.tenant = answer[t].tenant
                                  /\ \A n \in Closed(pause.pause_id) : n > answer[t].seen
                            /\ \A n \in 1..answer[t].seen :
                                  LET e == rows[n].event
                                  IN  /\ e.event_type = "hitl.pause.created"
                                      /\ e.tenant = answer[t].tenant
                                      /\ Closed(e.payload.pause_id) = {}
                                      => e.payload \in answer[t].pauses
      BY DEF ListingSound
    <2>1. PICK tenant, seen, pauses :
              tenant = answer[t].tenant /\ seen = answer[t].seen /\ pauses = answer[t].pauses
      OBVIOUS
    <2>2. Sound(tenant, seen, pauses)
      BY <2>1 DEF ListingInv, Listed
    <2>3. RowsOK /\ CreatedOnce /\ Len(rows) \in Nat /\ seen \in 0..Len(rows)
      BY <2>2 DEF IInv, RowsAreSeq, PauseInv, Sound
    <2>4. ASSUME NEW pause \in pauses PROVE pause.tenant = tenant
      BY <2>2, <2>3, <2>4, OwnEvents DEF Sound
    <2>5. ASSUME NEW n \in 1..seen, rows[n].event.event_type = "hitl.pause.created",
                 rows[n].event.tenant = tenant
          PROVE  rows[n].event.payload \in CreatedBy(tenant, seen)
      BY <2>5 DEF CreatedBy
    <2>6. QED
      BY <2>1, <2>2, <2>4, <2>5 DEF Sound
  <1>4. QED
    BY <1>1, <1>2, <1>3, InitInv, NextInv, PausesInvariance, PTL DEF Spec

================================================================================
