# SEASI-CORE: formal models

TLA+ models of SEASI-CORE (`src/src/seasi_core`), the TLC runs that check them on small
instances, and theorems about them proved with TLAPS for every value of the constants. The
definitions are translated from the code; `PROJECT.json` maps every one of them to the lines
it stands for. Names follow the source; leading underscores are dropped (`_fail` is `fail`).

Paths below are relative to `src/src/seasi_core/` unless they start with `docs/` or `tests/`.

## 1. The system

SEASI-CORE is the kernel of a governed back office. Product modules declare *capabilities*
and *workflows*; the runner executes a workflow for one tenant and stops before every
external mutation until a human has approved exactly the payload that was sealed. Beside
it, a kernel process serves a shell over JSON-RPC: agent sessions that drive an external
child process, a queue of human decisions, and one append-only evidence ledger under both.

| component | state | operations | hard about it |
|---|---|---|---|
| orchestration runner (`orchestration/runner.py`) | `WorkflowInstance`: status, state, steps, data, pending effect, history | `start`, `run` with its loop, `_advance`, `_resolve_pending`, `_fail` | control leaves it at every callback (approver, handler, event sink); each may raise; `data` is a public dict; the clock moves between sealing and the answer |
| intent binding (`kernel/intent_binding.py`, `contracts/evidence.py`) | none | `bind_intent`, `verify_intent`, `is_expired` | what the digest covers; the instant of expiry |
| effect policy (`kernel/effect_policy.py`) | none | `allows` | the runner's reading of "approval verified" |
| workflow contracts (`contracts/workflows.py`) | none | graph validation, order of transitions | cycles, dead ends, terminal states that are left |
| event ledger (`ledger/store.py`) | SQLite rows, hash-chained per tenant; one lock | `append`, queries, `verify_chain` | SELECT then INSERT by several threads; failed writes; crashes |
| HITL queue (`ledger/hitl.py`, `contracts/hitl.py`) | none but the ledger's events | `create`, `decide`, `list_pending` | check-then-act under the lock; three reads under three locks; a wall clock |
| RPC (`rpc/methods.py`, `rpc/server.py`, `rpc/__main__.py`) | the line in service; two pipes to the shell | the eight `seasi.*` methods, `serve`, streaming | a shell that does not read or is gone, a kernel that dies between a record and its answer, calls without an id |
| session service (`services/sessions.py`, `contracts/session.py`) | the session's events in the ledger | `start`, `run` | exceptions between an event and its record; what counts as the outcome |
| process harness (`harness/process.py`, `port.py`, `registry.py`, `pi_adapter.py`) | child process, pipe, turns, cancelled flag | `start` (a generator), `cancel`, `_cleanup` | blocking reads, abandoned generators, budgets, undecodable output |
| module SDK and registries (`sdk/module.py`, `kernel/registry.py`, `kernel/module_registry.py`) | three append-only registries | `build`, `install_module`, `register` | a module refused half-way leaves what it registered; other threads start workflows meanwhile |
| tenant context (`kernel/context.py`) | a context variable | `tenant_scope`, `current_tenant` | scopes left in another order than entered |
| scope guard (`kernel/scope_guard.py`) | none | path checks | pure, over the file system |
| tenant identity (`contracts/tenant.py`) | none | normalisation of an id | spellings that mean one tenant |
| value contracts, shell manifest, observability | none | validators, formatting | nothing dynamic |

How they interact. The runner calls intent binding and policy; its approver and its event
sink are the host's, and a host wires them to the HITL queue and the ledger if it wants to
(`tests/integration/test_hitl_workflow.py`). The HITL queue appends to and reads from the
ledger under the ledger's own re-entrant lock. The RPC methods call the HITL queue and the
session service from one loop (`serve`), one request at a time; threads come from hosts that
embed the kernel (`tests/test_kernel_hard.py` races `decide` from threads). The session service
builds a harness for each run, resumes its generator, appends every event to the ledger and
passes it to `on_event`.

What makes each correct:

* runner: nothing governed without an approval of that very payload; each approval used once;
  a rejection is final; the trail is ordered and complete; the budget bounds every call;
* ledger: every tenant's chain verifies at any moment, whoever appends, fails or dies;
* HITL queue: a pause is decided at most once and not after it lapsed; what a caller was told
  is on record; a listing is neither stale nor leaky; no path keeps the lock;
* sessions and harness: a run stays in its budget, reports the truth, accounts for every
  line, leaves no child behind, keeps a log of known shape and ends;
* RPC: lines leave in the order of the requests, an answer stands for what is on record, a
  tenant never sees another's rows, and every line is served or lost with its kernel;
* module SDK: whatever was refused half-way, no registered workflow names a capability that is
  not there, and an accepted module is whole.

## 2. The modules

```
IntentBinding <- Runner <- RunnerProperties <- MCRunner
                           |  \-- INSTANCE GovernedEffects (what the runner promises)
                           \---- RunnerProofs <- RunnerAuditProofs <- RunnerOrderlyProofs
                                                 \-- RunnerPromiseProofs (all TLAPS)
Ledger, IntentBinding <- HitlStore <- HitlProperties <- MCHitl
                                      |  \-- INSTANCE HumanDecisions (what the queue promises)
                                      \---- HitlProofs (TLAPS)
Harness <- Sessions <- SessionsProperties <- MCSessions
                       |  \-- INSTANCE SessionLog (what the log of a session promises)
                       \---- SessionsProofs (TLAPS)
Rpc       <- RpcProperties       <- MCKernel
             |  \-- INSTANCE SessionLog
             \---- RpcProofs (TLAPS)
ModuleSdk <- ModuleSdkProperties <- MCKernel
             \-- ModuleSdkProofs (TLAPS)
```

### Runner

One `WorkflowInstance`. Nothing interleaves with `run()` except where it hands control to
somebody else, so an action is the code between two such points, and `pc` names them: `idle`
(returned to the host), `approving`, `handling`, and `loop`, the head of the `while`. `run` is
a call; `Move`, `Seal`, `Refuse`, `Dispatch`, `DispatchUnhandled` are the branches of `_advance`;
`AskApprover` and `Mismatch`, `Unresolvable`, `Reject`, `Invalid`, `Grant` are
`_resolve_pending`; `Complete`, `DeadEnd`, `ReturnPaused` and `CountStep` are the loop around
them. When `CallbacksMayRaise`, handlers and approvers may raise; when `SinkMayRaise`, the
sink may raise at any emit, and what was assigned before that emit stays assigned. The clock may
move at any time. The host may edit or delete bound data whenever control is with its code (`Outside`):
between calls and in callbacks, and, when `SinkMayEdit`, in the sink. There is no place in `pc` for an
emit: the sink is called at the end of what an action did, so what it does to the data is done at `loop`,
before the next action. The window that matters is the emit of `approval.granted` (`runner.py:345`), after
`verify_intent` and before the input is resolved again for the handler.

`sealed`, `decisions` and `world` are observations no code reads: every intent sealed, every
answer given with the data present at that moment, every governed effect handed to a handler.

Abstractions: SHA-256 over canonical JSON is injective, so a digest is what was digested; ids
are positions; static input, revision and states of a payload follow from the transition's
position; `data` is its values at the bound paths; a sink raising `WorkflowError` (which would fail the
workflow from inside `_advance`) is not told apart from other exceptions; `run()` of a final
instance and a re-entrant `run()` change nothing and are no steps.

`GovernedEffects` is the promise: intents are requested one at a time, approved while open,
performed only when approved, and never performed again once closed.

### Ledger and HitlStore

`Ledger` is `EventLedger`: `rows` survive a crash, `lock` is the owner of the `RLock`,
`prev_hash` the local of `append`. `append` is two steps, `SelectLast` and `Insert`, so that the
lock is what keeps them together, and `Rollback` when SQLite raises. `HitlStore` adds threads:
`pc` and `job` are how far each thread's call is and its locals, `answer` what it returned. `decide`
is `LoadPause` (which takes the lock), then `NotPending`, `Expire` or `Resolve`, then the append
under the same lock. `list_pending` is three queries, between which the lock is free. `Crash`
loses calls and locals and keeps rows and answers; a crash after the commit is a lost answer,
and a repeated `decide` is a new call. `ClockMayStepBack` lets the wall clock be set back.

Abstractions: hashes are injective; a fresh UUID is the number of the call; the order of a
listing is left out; one process per database file, as the class declares.

`HumanDecisions` is the promise: a pause leaves "pending" once, for one of three final states.

### Harness and Sessions

`Harness` is one run of `ProcessHarness.start`. `at` is where the generator stands: `new`,
`suspended` or `final` at a yield, `reading` or `waiting` when it is blocked, `over`. The child is
external: it prints lines into a bounded pipe, closes its output, exits with either code. A consumer
that raises drops the generator (`Abandon`): the `finally` clause runs, except at the first yield,
which is outside the `try`. `Garbled` is a line that ends the reading in a `ValueError`: not UTF-8, or a number
longer than `int()` takes. `Sessions` is `SessionService.run` around it, with the events it puts
in the ledger, exceptions at every append and callback, a host that cancels, and the death of the
kernel. Appends are atomic here because `ChainValid` and the lock of the ledger make them so.

Abstractions: a line is what it parses to; each run has a new harness (`build`), and a child that
an earlier run left behind is not followed further; stderr and the child's own children are left out.

`SessionLog` is the promise to the readers of the ledger: a run opens with "running", its first
report is that the harness was spawned, and it is closed by the state its last report stands for or
cut short and never closed. `Sessions` implements it with a child and a pipe (`ImplementsLog`), `Rpc`
behind the JSON-RPC loop (`SessionsKeepLog`).

### Rpc

`Rpc` is the kernel behind its only business channel. `at` says where its single thread stands: waiting for a
line, inside `session.run` (`running`, `notifying`, `settling`), about to write an answer, or down. Each
method of `rpc/methods.py` is an action named after it, with a disjunct per way it can end; `session_run`
is the head of the one that streams, `Report`, `Notify`, `Settle`, `ScopeRefused` and `RunRaises` are the
rest of it. `Refuse` is every line that reaches no method. `Answer`, `Silent`, `AnswerRaises` and
`EndOfInput` are the end of the loop's body and of the loop. The shell is external: it sends, reads, leaves;
a kernel dies at any moment (`KernelDies`) and a new one serves the same ledger (`Restart`). `fate`,
`seen`, `told` and `streamed` are observations no code reads.

Abstractions. The services are those of the other modules: an append is atomic (`ChainValid` and the ledger's
lock), HITL calls of one thread do not interleave, and a run reports what `SessionLog` allows, which
`Sessions` implements; tool results, "hitl_required" and "cancelled" (nobody cancels a run over RPC) are left
out of the reports. Session and pause ids are the numbers of the lines that made them. What JSON is malformed,
or fails a validator, is a property of the line ("garbage", "envelope", "unknown", "misfit"). Blank lines are
no lines. `TenantScope`'s normalisation is the function `Canonical`. The clock of a pause is one bit,
`lapsed`. The stored payload of a session is one the kernel wrote, so the "ledger tampering" branch of
`_load_session` is not taken. Token sums are left out, but a token count that `int()` does not take makes
`usage.summary` fail, as in the code. One kernel serves a ledger at a time, as the ledger declares.

### ModuleSdk

`ModuleSdk` is `install_module` over the three registries, one registration at a time: `step` counts through
the capabilities, the workflows, the manifest and the handshake. A refusal returns and undoes nothing.
`Builds` and `Built` are `ModuleBuilder.build`; `HandBuilt` are `LoadedModule`s made without it, as the
dataclass allows. `Start` is `NeutralRunner.start` on another thread of the host. Ids keep their spelling and
`Key` is `Registry._normalize`, since declarations are compared as spelt and registry keys are not. Left out:
the order builders sort manifests into (no check looks at it) and handlers after the check that they belong to
a capability of the module. One module is installed at a time: the registries have no lock.

## 3. The runs

| run | question | answer |
|---|---|---|
| `runner_orderly` | callbacks and sink never raise, the sink leaves the data alone, bound data changes but stays present: is what was approved done once and as sealed, is a rejection final, are trail and budget exact, does every call return, with a cycle that has no gate too? | yes |
| `runner_disturbed` | handlers, approvers and the sink may raise, the sink may edit, data may vanish: is anything governed done or crossed unapproved? Is `GovernedEffects` implemented? | no; yes |
| `runner_retry` | does `EffectsAsSealed` survive a handler that raises? | no, finding 1 |
| `runner_sink` | does `EffectsAsSealed` survive a sink that edits data, nothing raising? | no, finding 2 |
| `runner_rejection` | is a rejection final when bound data vanished? | no, finding 3 |
| `hitl_queue` | two threads, two tenants, failing appends, crashes: is the ledger valid, is every pause decided once and in time, are answers and listings sound, do calls return? | yes |
| `hitl_clock` | `NoDecisionAfterExpiry` when the clock is set back | no, finding 4 |
| `sessions` | any child, any exception, crashes: budget, truth, cleanup, lines, cancel, ending; is `SessionLog` implemented? | yes |
| `kernel` | a shell and a kernel that may each die at any moment: are lines ordered, answers on record, accounts of a run equal, tenants apart, is every line served or lost? Modules installed piecemeal: does every workflow resolve, is an accepted module whole, is a refusal deserved? | yes |
| `sessions_deadline` | is a run past its deadline ended? | no, finding 5 |
| `sessions_boundary` | are exactly `max_turns` turns allowed? | no, finding 6 |
| `sessions_garbled` | does "completed" mean that every line was seen? | no, finding 7 |

Bounds, and why they are enough.

* Runner: six workflow definitions at once (`MCRunner`), of which `Entry` picks the initial states:
  two gates in a row, a capability with no handler, a disabled effect, a governed loop, a dead end,
  a transition without action, an input that may be missing, and a cycle of an inline read and a move, in
  which nothing but the step budget ends a call. Six steps let the loop ask three times and exhaust the
  budget at a pause and after an effect; `runner_disturbed`, where everything may raise, has four, which
  still end one workflow at a pause and one after an effect, starts in the workflows with a gate or an
  input, and has one approver (a blank one is in `runner_orderly` and in the proofs); three calls allow a pause, a retry and a call after it; two values and
  `Missing` at one path tell "as sealed" from "changed" from "gone"; a clock of two instants with a
  TTL of one reaches the exact instant of expiry.
* HITL: three calls of two threads are create, decide and a second decide (or listing, or append)
  in any overlap. Two tenants separate chains. With four calls the state space grows beyond what
  is useful. Expiry is reached as above.
* Sessions: one granted turn, two lines, a pipe of one line: the child blocks, prints past its
  budget, and closes its output early. Two runs of one session show what the first leaves.
* Kernel: an earlier kernel left one session and one pause of one tenant; two more lines of any kind are
  enough for a run and a summary of it, a run and its repetition, a create and a decide, each with a
  foreign, misspelt or blank tenant, and with one death of the kernel and of the shell in between. A
  pipe of one line makes the kernel wait for a reader. `TailLimit` stands for the 1,000,000 rows a summary
  reads: of its two, the end of a whole run leaves none for the run's turn, which is overlooked; of a run
  the kernel died in, the turn is among the newest and is counted. One report between the first and the last of a run puts a
  turn or a usage event there. Three installations are: accept, poison, refuse; the modules
  made by hand ship undeclared, declare what they do not ship, and spell ids with blanks. `KernelSpec` has
  the behaviours of `Rpc` and those of `ModuleSdk`, not their product: the two share no variable and no
  code path, so a product would check nothing more.

Deadlock is not checked: all these systems stop when the bounds on calls, runs and lines are used
up, and a waiting thread or child is legitimate. That nobody waits for ever is what `RunReturns`,
`CallsReturn`, `RunEnds` and `LinesAreServed` are for.

Fairness. Runner: `WF(Run)`, the interpreter executes a call, and callbacks return or raise;
nothing makes a host call again. HITL: `WF` of each thread's own work, the operating system runs
threads; the lock itself is not fair, and with finitely many calls need not be. Sessions: `WF` of
the service and of the clock; only `RunEnds` assumes in addition (`ChildFair`) that the child exits
some day. `DeadlineEnforced` is refuted without that assumption on purpose: a deadline is there for
children that do not.

Kernel: `WF` of the kernel's own thread, in which is included that a harness says something or ends
(`RunEnds` of `Sessions`, with its assumption), and of the reader at the other end: a shell that is there
reads. Nothing makes a shell send, stay or come back.

`TypeOK` apart, each property is about a hazard listed in `PROJECT.json`, and has a mutant: a
plausible bug of the code (operators marked "mutant" in the modules) under which TLC finds it
violated.

## 4. Findings

1. `runner_retry` (`orchestration/runner.py:265`): a handler that raises leaves a running instance
   whose pending effect counts as approved; the next `run()` hands the handler whatever the data
   is by then, without verifying it.
2. `runner_sink` (`orchestration/runner.py:345`): the sink is told of the grant after the payload was
   verified and before the input is resolved again; what it changes in the data goes to the handler
   under an approval of something else.
3. `runner_rejection` (`orchestration/runner.py:318`): the payload is rebuilt before the answer is looked at,
   so a rejection given while a bound value is missing is lost with the `WorkflowError`.
4. `hitl_clock` (`ledger/hitl.py:115`): `_load_pause` does not look for `hitl.pause.expired`; when the
   wall clock is set back, a pause whose expiry is on record is decided.
5. `sessions_deadline` (`harness/process.py:77`): the deadline is looked at after a line only.
6. `sessions_boundary` (`harness/process.py:108`): the run is failed on the last granted turn.
7. `sessions_garbled` (`harness/process.py:90`): `UnicodeDecodeError` is a `ValueError`; reading ends
   silently and the run is reported completed.

Observed while modelling, without a run: a terminal state with an outgoing transition is walked past
(`runner.py:188`); `max_tokens` is never read; `terminate()` reaches the child and not its process group,
against `process.py:6`; nobody drains stderr; a `cancel()` before the first resumption is forgotten; a line
nested deeper than `json.loads` recurses leaves `run()` with a `RecursionError` (`process.py:116`), which is
like any exception from the harness but is not in the model. A rejection too yields an `ApprovalIntent`, which
carries no decision and which `verify_intent` accepts (`ledger/hitl.py:75`), although
`contracts/evidence.py:54` calls it a "sealed human approval". A sink that raises when it is told of a
rejection (`runner.py:327`) loses it: the instance stays paused and can be approved later.

Of the RPC loop: `usage.summary` reads the newest 1,000,000 rows of a tenant (`methods.py:166`) and says
nothing of the turns behind them; `event.tail` validates the tenant id and then queries with the caller's
spelling (`methods.py:137`), so "ACME" runs sessions of "acme" and sees no event of them; a call of
`session.run` without an id still streams its events, against "processed silently" (`server.py:12`); a line
that is not UTF-8 ends the kernel (`server.py:133` is outside the `try`); one usage event whose token count
`int()` does not take makes every `usage.summary` of its tenant fail (`methods.py:177`); `hitl.create` does
not look its session up; `hitl.decide` asks for no tenant.

Of the module SDK: `install_module` leaves its first registrations behind when a later one fails, so the same
module cannot be installed again; a module refused at the handshake stays registered and its workflows can be
started; its manifest makes the installation of every later module fail; what one ships without declaring it
another may declare (`module_registry.py:57-64` compares declarations with declarations only); a
`LoadedModule` made without the builder may use capabilities it neither ships nor declares, and is accepted;
spellings that differ in blanks escape the test for "declared by two modules" (`module_registry.py:61`).

## 5. What is proved

`RunnerProofs`, for any definition, policy, data, number of calls and set of raising callbacks that
satisfy `DefinitionAssumption` and `RunnerAssumption` (what the validators of the code enforce):

* `TypeCorrect`: `Spec => []TypeOK`
* `PendingIsCoherent`: `Spec => []PendingCoherent`
* `NoUnapprovedEffect`: `Spec => []EffectsApproved`
* `MovesAreApproved`: `Spec => GovernedMoves`

The argument. `_assert_effect` takes the presence of a pending effect for a verified approval. That is
sound only because no *running* instance has a pending effect nobody approved, and that
(`PendingApproved`) is what `EffectsApproved` misses to be inductive. It in turn needs that the
pending effect is the newest intent, sealed over the transition taken next (`PendingCoherent`), and that
callbacks happen only in the states they are entered from (`ControlCoherent`). The conjunction,
`RunnerInv`, is inductive (`Invariance`): one lemma per group of actions, each with a step per conjunct
that the action can disturb. `GovernedMoves` follows from `RunnerInv` in both states of a step.
`Grant` is where `verify_intent` does its work: the approval it lets through is of the payload sealed,
since the digest is injective.

`RunnerAuditProofs`, under the same two assumptions, adds what relates the history to the instance:

* `EndsOnceOnly`: `Spec => []FinalIsLast`
* `AuditIsOrdered`: `Spec => []AuditOrdered`
* `DecidesOncePerCall`: `Spec => []OneDecisionPerCall`
* `StepsWithinBudget`: `Spec => [](status \notin Final => steps < max_steps)`, half of `BudgetCharged`
* `BudgetIsCharged`: all of it, `ASSUME ~SinkMayRaise PROVE Spec => []BudgetCharged`

The argument. The code records at a dozen places and in helpers that call helpers (`CountStep` in
`Apply` in `Dispatched`), so one lemma, `StepForms`, first says what any step appends to the history and
changes of the instance; there are nine forms. Each invariant is then kept form by form.
`EndInv` adds to `FinalIsLast` that a history is never empty. `OrderInv` adds that a pending effect was
requested, and granted if the instance runs, so that a dispatch may follow (`MayFollow`). `CallInv` adds that
the first decision of a call sets `resolved_here`, which no approver is asked with. `AllCharged` counts the
charged events of a history that grows by known entries.

`RunnerOrderlyProofs` has what depends on the surroundings. The hypotheses are about the runner's
environment, stated with the constants that switch it:

* `HandsOverAsSealed`: `~CallbacksMayRaise`, `~SinkMayRaise` and `~SinkMayEdit` give
  `Spec => []EffectsAsSealed`
* `HandsOverOnce`: the first two give `Spec => []EffectOncePerApproval`
* `AuditIsComplete`: `~CallbacksMayRaise` gives `Spec => []AuditComplete`
* `RejectionEnds`: `~SinkMayRaise` and `Missing \notin HostData` give `Spec => []RejectionIsFinal`

No hypothesis of these, or of `BudgetIsCharged`, can be dropped: with any one of them negated, and the others
kept, TLC finds the property violated on the instance of `MCRunner` (`runner_retry`, `runner_sink` and
`runner_rejection` keep three of these counterexamples). The argument. `HandoverInv` says of a running
instance with a pending effect that either the handler has it or, unless the sink edits, the data still is
what was sealed: `Grant` and `Dispatch` happen in one call, and if nothing raises only the sink comes between
them. `TrailInv` accounts for what is in `world` as recorded, being handled, or failed in the handler.
`RejectionInv` is that a paused instance can rebuild its payload: a handler's result may drop a value, but no
handler runs while an instance is paused, so only the host could take one away (`DataStays`).

`RunnerPromiseProofs`: `RunnerKeepsPromise`, `Spec => ImplementsPromise`, with nothing assumed of the
surroundings. By `StepForms` again every step requests one new effect, approves or closes the open one,
performs the pending one, or is a stutter (`PromiseStep`); `PromiseInv` adds that decisions and dispatches are
about sealed intents and that an instance that waits has not performed its pending effect.

`HitlProofs`, for any number of threads, tenants and calls, assuming that `Nobody` is no thread and that
times to live are positive (what `HitlPause` enforces):

* `ChainsVerify`: `Spec => []ChainValid`
* `NeverDecidedTwice`: `Spec => []DecidedOnce`
* `AnswersRecorded`: `Spec => []AnswersOnRecord`
* `HitlTypeCorrect`: `Spec => []TypeOK`
* `ListingsAreSound`: `Spec => []ListingSound`
* `DecidedInTime`: `~ClockMayStepBack` gives `Spec => []NoDecisionAfterExpiry`
* `DecisionsAreFinal`: `~ClockMayStepBack` gives `Spec => ImplementsDecisions`

The last two are false of a clock that is set back; `hitl_clock` is the counterexample to the first, and it
decides a pause whose outcome was "expired", which `HumanDecisions` does not allow either.

The argument. Each of these is about the rows and is endangered by threads half-way through a call,
so `HitlInv` adds what every such thread relies on (`ThreadInv`): it owns the lock while it judges a
pause, carries a decision or is about to insert (`OwnsLock`); a pause it found pending has no
decision still (`FoundPending`); the hash it selected is that of its tenant's last row still
(`SelectedLast`); the row it writes says what it will answer (`RowSaysAnswer`). A step of one thread keeps
what the others rely on (`OtherThread`): either it touches neither rows nor lock, or it holds or
takes the lock, and then no other thread is anywhere it matters. `AppendCommits` is the only step that
writes a row. `HitlInv` was checked with TLC on the instance of `hitl_queue` before it was proved.

`PauseInv`, proved on top of it, says what rows and calls say of pauses: each is created once (`CreatedOnce`,
`Apart`), every event in flight or on record is well-formed and belongs to a pause of its own tenant (`Owed`).
`TimeInv` needs the clock: an expiry in flight or on record is past and a decision is not (`InTime`). From
both follow the timely decision and, through `CommitForms` (what a thread commits is a creation, a decision,
an expiry or no business of the queue), that a commit moves one pause as `HumanDecisions` allows. For
listings, `ListingInv` says of each of the three queries what its result still misses: rows only grow
(`Grows`), so a pause closed before the listing began is closed for each query, and one still open now was
open for all.

`SessionsProofs`, for any budget, deadline, pipe, number of runs, lines of the child, exceptions and crashes
(`HarnessAssumption`, `SessionsAssumption`: kinds of lines and natural numbers):

* `TypeCorrect`: `Spec => []TypeOK`
* `TurnsAreCapped`: `Spec => []TurnsWithinBudget`
* `StatesAreTrue`: `Spec => []StateTruthful`
* `ChildrenAreReaped`: `Spec => []ChildReaped`
* `LinesArrive`: `Spec => []LinesAccounted`
* `CancelHolds`: `Spec => CancelSticks`
* `LogIsKept`: `Spec => ImplementsLog`

The argument. `run()` and the generator it resumes each have a place (`svc`, `at`), `TypeOK` says which pairs
of places there are and `Shape` what the child, the pipe and the event in hand are there; what a resumption
may do is put into six forms (`DriveForms`). A turn is counted when its line is read and listed later, so the
budget holds of both counters with the event in hand between them (`Charged`); likewise what was printed is in
the list, in hand or in the pipe (`Delivered`). `LogAgrees` gives the newest entry of the log at every place,
which is what each step of `SessionLog` asks about, and `Ended` what became of the last run.

`ModuleSdkProofs`, for any modules from builders or made by hand, any keys, any number of
installations (the only assumption is that lists are sequences):

* `WorkflowsAreResolvable`: `SdkSpec => []WorkflowsResolvable`
* `AcceptedModulesAreWhole`: `SdkSpec => []ModulesWhole`
* `RejectionIsNeeded`: `SdkSpec => []RejectionNeeded`

The argument. Registries only grow and never rebind a key (`RegistriesGrow`), so a workflow that resolved once
resolves for ever; that is all the first theorem needs. For the second, `Progress` says that what the current
installation has passed is in the registries under its own value, and `Fresh` that it was no accepted module's
before; the handshake, at which `Consistent` holds, then admits a whole module that shares with none admitted
before a key it ships or a spelling it declares (`Kept`, `AllApart`). For the third, `Sane` says that as long
as no hand-made module was refused at the handshake, the manifests of all *other* modules agree with the
registry and are apart from what the current module ships, since each was accepted or refused later than its
capabilities; `Built` declares exactly what it ships, so the handshake cannot fail for it.

`RpcProofs`, for any calls, tenants, adapters, pipes, bounds and ledger left by an earlier kernel that satisfy
`RpcAssumption` (normalising an id twice is normalising it once; what an earlier kernel left is a sequence of
rows about its own lines, each thing of one tenant); the last two also use `EarlierAssumption` (that kernel
opened sessions and pauses and ran none; kernels that die in the middle of a run and are followed by another
are in the model itself, `KernelDies` and `Restart`):

* `TenantsAreApart`: `RpcSpec => []TenantsApart`
* `WireIsOrdered`: `RpcSpec => []WireOrder`
* `AnswersAreOnRecord`: `RpcSpec => []AnswersMatchRecord`
* `AccountsAlwaysAgree`: `RpcSpec => []AccountsAgree`
* `SummariesCoverStreams`: `RpcSpec => []UsageCoversStreams`
* `SessionLogsAreKept`: `RpcSpec => SessionsKeepLog`

The argument. Lines are numbered in the order the shell writes them, and everything recorded, streamed or
answered is about a line that was taken already (`Numbered`): a line just taken is later than all there is. So
what a new row is about is either new, or found on record for the very tenant the row is written for (`Shape`:
every step appends at most one such row); that keeps `OneTenantEach`, and with `RowsOfTenants` it is why
`event.tail`, which queries with an unnormalised id, shows nothing foreign. `OnWire` adds that what the kernel
is busy with follows all that is on the wire; `Due` that what it is about to write is on record. An answer
stays true because only the line in service gets rows, and that line is later than every line answered
(`AnsweredIsFinal`).

The other three speak of the ledger as it is read: the rows of a run or a session in their order. `TypesOf`
picks them by rank, without recursion, so that a row appended at the end is one type appended at the end
(`TypesGrow`) and no induction is needed. `Accounts` then says that what the run has in hand is what is on
record of it. `Covered` counts, per session, the turns streamed, the one on record about to be streamed and
the runs nobody closed, and `Summed` says that a summary counts all turns on record but those it overlooks (a
death after an append and before its event is sent leaves such a run); `LogInv` gives the newest record of the
session whose run is under way, which is what `SessionLog` asks about. `UsageInv` and `LogInv` were checked
with TLC on the instance of `kernel` before they were proved.

Only model-checked: liveness, that is `RunReturns`, `CallsReturn`, `RunEnds` and `LinesAreServed`, which rest on
fairness and therefore on ENABLED, out of the prover's reach. Every other property a passing run checks is
proved as well, under the hypotheses named above; the runs show that these can be met and that the properties
are not vacuous (each has a mutant).

## 6. Plan

The order was: the runner, because it is what the kernel is for; the ledger and HITL queue, where
threads meet; sessions and harness, where processes meet; then the RPC loop that composes them and the
module SDK; then the proofs of all that is not liveness. Still to come: a guard module for `_executing` with two
threads that enter `run()` of one instance.

Not modelled, and why: the tenant context (`kernel/context.py`: no other module of the repository enters a
scope or reads one); the scope guard (a pure function of path strings and the file system; its refusal is
`ScopeRefused`, which `run()` would settle at any event but nothing in the repository raises there); value
contracts and the shell manifest but for its error codes (validators and constants); the text of JSON-RPC
lines and observability (formatting).
