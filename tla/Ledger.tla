-------------------------------- MODULE Ledger --------------------------------
(***************************************************************************)
(* The evidence ledger of ledger/store.py: one SQLite table of events,     *)
(* hash-chained per tenant, shared by the threads of one process.  Every   *)
(* method runs under one re-entrant lock; a thread that appends reads the  *)
(* last hash of the tenant and only then inserts, so the two steps are     *)
(* separate actions here and the lock is what keeps them together.         *)
(*                                                                         *)
(* SHA-256 is external to the repository and modelled as injective: a hash *)
(* is the sequence of what was hashed.  The payloads the program writes    *)
(* are JSON values already, so what verify_chain reads back is what was    *)
(* digested; rows are never edited outside the program.                    *)
(***************************************************************************)
EXTENDS Integers, Sequences

CONSTANTS Thread, Nobody

ASSUME ThreadAssumption == Nobody \notin Thread

VARIABLES
    rows,       \* ledger_events, in the order of seq; survives a crash
    lock,       \* the thread that owns EventLedger._lock, or Nobody
    prev_hash   \* for each thread, the hash its append selected

ledger == <<rows, lock, prev_hash>>

Genesis == <<>>
chain_hash(prev, event) ==
    Append(prev, <<event.event_id, event.event_type, event.payload>>)

LedgerInit == rows = <<>> /\ lock = Nobody /\ prev_hash = [t \in Thread |-> Genesis]

\* Row n is the last one of the tenant among the first upto rows; 0 when none is.
IsLatest(n, tenant, upto) ==
    /\ n \in 0..upto
    /\ n # 0 => rows[n].event.tenant = tenant
    /\ \A m \in (n + 1)..upto : rows[m].event.tenant # tenant

HashAt(n) == IF n = 0 THEN Genesis ELSE rows[n].hash

AcquiresNothing(t) == UNCHANGED lock \* mutant: no mutual exclusion
Acquires(t) == lock \in {Nobody, t} /\ lock' = t
Releases    == lock' = Nobody

\* The local of append goes when append returns.
Forgets(t) == prev_hash' = [prev_hash EXCEPT ![t] = Genesis]

\* append: SELECT the tenant's last hash.  A thread that owns the lock already
\* (decide) enters again.
SelectLast(t, event) ==
    /\ Acquires(t)
    /\ \E n \in 0..Len(rows) :
          /\ IsLatest(n, event.tenant, Len(rows))
          /\ prev_hash' = [prev_hash EXCEPT ![t] = HashAt(n)]
    /\ UNCHANGED rows

\* append: INSERT, COMMIT and leave the lock.  decide leaves its own right after.
Insert(t, event) ==
    /\ rows' = Append(rows, [event |-> event, prev_hash |-> prev_hash[t],
                             hash  |-> chain_hash(prev_hash[t], event)])
    /\ Releases /\ Forgets(t)

\* The INSERT or the COMMIT raised: SQLite rolls back, the locks are left.
Rollback(t) == Releases /\ Forgets(t) /\ UNCHANGED rows

\* The process dies: its lock goes with it, the committed rows stay.
LedgerCrash == Releases /\ prev_hash' = [t \in Thread |-> Genesis] /\ UNCHANGED rows

\* A query needs the lock only for its own duration.
Queries(t) == lock \in {Nobody, t} /\ UNCHANGED ledger

\* verify_chain: every row links to the one before it of its tenant and hashes to
\* what was recorded.
verify_chain(tenant) ==
    \A n \in 1..Len(rows) : rows[n].event.tenant = tenant =>
        \E m \in 0..(n - 1) :
            /\ IsLatest(m, tenant, n - 1)
            /\ rows[n].prev_hash = HashAt(m)
            /\ rows[n].hash = chain_hash(HashAt(m), rows[n].event)
===============================================================================
