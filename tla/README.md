# Watchkeeper: a verification project

TLA+ models of Watchkeeper, a durable record of intents for workflows whose side
effects are hard to undo: what its parts promise, TLC runs that check it on small
instances, and TLAPS proofs of the safety properties for every instance. Paths
below are relative to the repository.

1. [Inventory](#1-inventory)
2. [Modules and their code](#2-modules-and-their-code)
3. [Properties](#3-properties)
4. [Runs, bounds and fairness](#4-runs-bounds-and-fairness)
5. [Proofs](#5-proofs)
6. [Findings](#6-findings)
7. [Not modelled](#7-not-modelled)
8. [Plan](#8-plan)

## 1. Inventory

| component | state | operations | talks to |
|---|---|---|---|
| **Operation life cycle** `internal/domain/state.go` | none: a table of permitted transitions | `CanTransition`, `ValidState` | the reference for the store |
| **Store** `internal/store`, `migrations/watchkeeper` | `workflows`, `operations`, `receipts`, `reconciliation_attempts`, `observations` | `Prepare`, `AuthorizeDispatch`, `Confirm`, `BeginRetry`, `RequestReconciliation`, `ManualResolve`, `ClaimRecovery`, `RenewClaim`, `SubmitRecoveryResult`; reads `GetOperation`, `ListOperations`, `ListEvents` | every other part, through the API |
| **Audit tables** | `operation_events`, `recovery_decisions` | appended by the same transactions | served as the history of an operation |
| **HTTP API** `internal/api`, client `pkg/client` | none that outlives a request | one handler per transaction: authenticate, decode, validate, call, map errors | worker, coordinator, administrator |
| **Lists** `postgres.go`, `internal/store/cursor.go` | cursors, in the hands of callers | one page per request | readers of operations and histories |
| **Workflow worker** `internal/workflow` | its copy of the row, the receipt it was sent | `Execute`, `send`, `confirm` | store (calls), service (a request) |
| **Recovery coordinator** `internal/recovery` | the claims of its batch | `RunOnce`, `EmailVerifier.Verify` | store (claims and results), service (lookups) |
| **Email service** `internal/simulator` | `email_effects`, `email_keys`, `email_dispatches` | `send`/`Commit`, `Status`, `Inspect`, capabilities | answers workers and coordinators |
| **Administrator** (API, admin token) | none | requests reconciliation, resolves by hand | store |
| **Demo** `cmd/demo` | a trial: a child process, the phases it reports, an outcome | `act`, `worker` | store, service, a running coordinator |
| **Benchmark** `internal/benchmark` | `manifest.json`, `running.json`, `result.json`, `raw.jsonl`, `experiment_runs`; child processes and fault barriers within a trial | `Run` (also resuming), `saveResult`, `CheckAssertions`; `runTrial`, supervision, proxy, reports | all of the above, plus other strategies |
| **Console demo, smoke test, migration, health check** `cmd/*` | none of their own | scripts | all of the above |

Processes share nothing but the two databases. A row of `operations` is what
ties them together: its `version` moves with every change of state,
authorization or token, and callers quote the version they have seen. Everything
that is gathered outside a transaction (a receipt, a lookup, a copy of the row)
may be stale when it is used.

What is hard, and what correctness means:

* **Store.** Nine transactions, four kinds of callers, no order among them.
  `SubmitRecoveryResult` looks at neither the state nor the kind of the row it
  decides about; `ManualResolve` and `BeginRetry` leave lease columns behind;
  `RenewClaim` does not look at the version. *Correct:* a result is applied only
  to the row its claim saw; an older claim can do nothing; final states are
  final; every edge is one of `allowedTransitions`; one grant per attempt.
* **Audit.** Every transaction builds its event with versions and states of its
  own making. *Correct:* a gapless, contiguous history that agrees with the row,
  and one decision for every resolution.
* **Requests.** Transactions run under READ COMMITTED: two of them may insert the
  same workflow or operation, or read one row and write it one after the other;
  statements and commits fail, a commit may succeed unheard, callers hang up.
  *Correct:* an error tells the truth about what was written; concurrent callers
  agree; one writer per version; nobody waits for ever.
* **Lists.** Sort keys are drawn before their rows can be seen: `created_at` when
  a transaction begins, an event's id at its `INSERT`. *Correct:* a sweep repeats
  nothing and misses nothing that was there all the while; a history is read
  without gaps.
* **Worker.** Replies are lost, requests take effect after their callers gave up,
  the process dies between grant, send and confirmation and is run again; its
  copy of the row is stale whenever a claim intervenes; row and receipt are read
  one after the other. *Correct:* one effect; one sender; every run ends.
* **Coordinator.** Claims are worked off one by one under leases taken together;
  evidence is overtaken by the service's late commits, results by other claims.
  *Correct:* nothing is completed that did not happen, nothing is retried that
  may still happen.
* **Service.** Accepted work outlives its caller and a client transport may
  repeat a keyed request. *Correct:* a key binds one effect and one receipt.
* **Demo.** A process is killed between an effect and its record and started
  again while a coordinator recovers; its phases and its exit race in a `select`.
  *Correct:* the number of emails shown, and an outcome no better than the truth.
* **Benchmark.** A suite runs for hours and is killed, interrupted and resumed; a
  result goes to a file, to `raw.jsonl` and to the database one after the other.
  *Correct:* no trial is lost or counted twice, what was saved stands, and a suite
  that passes has a result for every trial.
* **System.** *Correct:* at most one effect per operation under any combination
  of failures; every intent eventually settles.

`PROJECT.json` lists these hazards one by one with the line where each bites and
the properties that watch it.

## 2. Modules and their code

```
 RequestHandling      the transactions, statement by statement; refines AtomicRequests
 Listing              pages over what the transactions commit
 BenchmarkSuite       the controller around everything below

 Capabilities        OperationLifecycle          abstract promises
     |    \                ^  refines
     |     OperationStore -+--------- AuditTrail     store + history tables
     |      |          |
 EmailService          |
     |      |          |
     +- WorkflowWorker +- RecoveryCoordinator -- DemoTrial   the demo
             \            /
              Watchkeeper                            the system; refines Delivery
```

| module | models | notes |
|---|---|---|
| `Capabilities` | capability profiles, observations | `Replayable` is the set of operations that declared `idempotency_only` |
| `OperationLifecycle` | `state.go` plus the single-send permit | abstract; no rows, versions, leases or time |
| `Delivery` | what the system promises about an intent: recorded, permitted, performed, completed | abstract; `Watchkeeper` refines it |
| `AtomicRequests` | what the API promises of concurrent requests: one step between call and answer | abstract; `RequestHandling` refines it |
| `OperationStore` | the nine writing transactions | open callers: any argument at any time |
| `AuditTrail` | the same transactions with their event and decision rows | `RereadingSubmit` is the caller of finding 1 |
| `RequestHandling` | `pkg/client`, the handlers of `internal/api`, and the statements of a transaction | fingerprints as equality of canonical payloads |
| `Listing` | `ListOperations`, `ListEvents`, cursors | transactions that begin, draw a number, and commit late or never |
| `EmailService` | `simulator/email.go`, and what `EmailVerifier.Verify` concludes from it | requests in flight are a set |
| `WorkflowWorker` | `worker.go` | one action per store call, send, answer, and failure |
| `RecoveryCoordinator` | `coordinator.go` | claim, verify, submit, and a failure at each |
| `Watchkeeper` | all of them, an administrator, the clock, a failure budget | refines `OperationStore!Spec`, `EmailService!ServiceSpec` and `Delivery!Spec` |
| `DemoTrial` | `act` and `worker` of `cmd/demo/main.go` | with the store, the service and a coordinator |
| `BenchmarkSuite` | `Run` and `saveResult` of `internal/benchmark/runner.go` | a trial is the outcome of `runTrial` |
| `MC*` | small instances for TLC | constants and the bound on versions |
| `*Proofs` | theorems | section 5 |

**The store.** Each variable is a column (as a function of the operation) or a
table. Every transaction first locks its row (`getOperationForUpdate`), so it is
one action whose guard is the conjunction of the code's early returns; that this
is sound is the matter of `RequestHandling` and its `TransactionsAreSerial`. A rejected call changes nothing, so
it is no step of the store; callers that act on a rejection use the named guard
(`MayAuthorize`, `MayConfirm`, `MayBeginRetry`, `MayAnswer`). `Confirm`'s
`version` column is the row's own increment, the others' the argument plus one;
the two agree under the guards and `AuditTrail` keeps them apart. Time enters in
three comparisons with `now()`: `aged` (`prepared_at` against the grace period),
`due` (`next_reconcile_at`) and `ttl` (`lease_expires_at`); the clock actions
`GraceElapses`, `ScheduleDue` and `LeaseAges` let them change at any moment.
PostgreSQL's `now()` is the start of the transaction, so a lease may be found
live a little after it ran out; this is the same as the transaction having run at
its start, because whatever intervened on that row would have moved version or
token. A token is the number of the attempt it was issued with: 32 random bytes
never collide. `attempt_number` and `attempts` are kept apart, as in the code.

**Requests.** A connection carries one request through `stage`: it arrives
(token, JSON and fields are looked at in this order), its transaction inserts or
locks (`draft`), commits, and is answered. `Contended` is how PostgreSQL makes a
statement wait: at a unique index for whoever has inserted the same key, at a row
for whoever has locked it. `Commits` shows all of a transaction at once.
`CommitUnheard` is a commit whose acknowledgement is lost and which the code
reports as 503; `Fails` is any other failure. A handler whose caller has hung up
goes on until a statement fails. Of the handlers that quote a version only what
they share is modelled here: the lock, the comparison, the answers. Whether the
rest of a row allows the change is the matter of `OperationStore` and a choice
here. All answers between 200 and 299 of these handlers are `Done`.

**Lists.** `Commits` decides whether a row passes the filter from then on, so any
filter on state is covered. `owed` is a ghost: what passed the filter when the
sweep began and ever since.

**The service.** `Keyed` is the profile the *service* runs with; `ProfileOf` is
what the *intent* declared. `Commit` is `send` from the end of its accept hook to
its answer. `CommitUnanswered` and `Refuse` are its error paths and the crash of
the service after and before the commit. `Repeat` is external: Go's HTTP
transport resends a request that bears an `Idempotency-Key`. The k-th effect of
an operation has receipt k. `Evidence` is `Verify` when the service answers and
`Unreachable` when it does not, or when the endpoint does not exist, which
`RunOnce` treats the same way.

**The worker.** `at` is the call a worker is about to make; `view`, `got` and
`tries` are its locals where they still matter. `LoseReply` turns any store call
into an error for the worker and leaves the request in `late`, from where
`DeliverLate` may execute it at any time or never. `Reread` and `Compare` are the
two statements of `GetOperation` in `confirm`, with anything in between. The
other reads look at the row only and are one step. `ReadFails` is a failed
`GetOperation`: `Execute` then acts on its old copy again.

**The coordinator.** `work` holds claims not yet verified, `verdict` the
observation about to be submitted, `overdue` results whose coordinators have
stopped waiting; they may be applied at any later time. `Claims` takes any batch
within the limit, because `SKIP LOCKED` may pass over any row.

**The administrator** resolves by hand only what the evidence shows
(`Substantiated`): the API demands an evidence reference and takes the operator's
word for it, so this is an assumption about people. `compensation_recorded` is
always allowed.

**The demo.** `reached` is the channel of phases, `step` the process, `controller`
the function `act`. Phases that only make narration are left out. A blind trial
uses a fresh operation ID in each life of the process (`BlindSend`), which is why
the ledger is counted by message (`Emails`).

**The benchmark.** Two kinds of variables: what is on disk and in the database,
which a kill leaves alone, and what is in the controller's memory, which `Ends`
forgets. `controller` is the next thing `Run` or `saveResult` does; every write is
an action, so a kill (`Crashes`), a signal (`Interrupted`, which cancels the
context) or a failed write (`CannotSave`, `CannotBegin`, `CannotRegister`) comes
between any two. A write that is under way when the controller dies may have been
done (`UnderWay`). Files are put in place by rename; `raw.jsonl` is appended to,
and a torn append counts as done or not, since nobody reads the file back. The `flock` and the advisory
lock are why there is one controller. The trial is a choice of what `runTrial` may
return, with the one fact that decides about a suite: whether there were too many
effects. Statuses and the order of the matrix are the code's; seeds follow from
repetitions, and the shuffle is the order of `Matrix`.

## 3. Properties

| property | module | in words |
|---|---|---|
| `ClaimsAreSnapshots` | OperationStore | a claim whose version is current describes its row exactly |
| `OnlyNewestClaimHolds` | OperationStore | the stored token is that of the newest claim, which is unanswered |
| `ReceiptIffConfirmed` | OperationStore | receipt, `resolved_at` and state agree: the two CHECKs on final states, kept by all transactions together |
| `TerminalIsFinal` | OperationStore | nothing touches a confirmed or reconciled operation |
| `LifecycleSpec` | OperationStore | the store implements `OperationLifecycle` |
| `AuditTrailComplete` | AuditTrail | gapless, contiguous, agrees with the row |
| `DecisionsExplainEvents` | AuditTrail | decision versions are unique; recovery moves nothing without one |
| `OneGrantPerAttempt` | AuditTrail | between two grants lies a retry |
| `ResultsTakeLegalTransitions` | AuditTrail | recovery results take edges of the table (holds for shipped callers; finding 1) |
| `RefusalsAreFinal` | RequestHandling | an error other than 503 means that nothing was written |
| `PreparesAgree` | RequestHandling | those who prepared one operation at once agree on it, and one made it |
| `ConflictsAreReal` | RequestHandling | no conflict because of a spelling or a row that was rolled back |
| `OneWriterPerVersion` | RequestHandling | of those who quote one version one at most writes |
| `LooksAtomic` | RequestHandling | requests are linearizable: `RequestHandling` implements `AtomicRequests` |
| `EveryRequestEnds` | RequestHandling | no transaction waits for ever, none for each other |
| `ListedOnce`, `SweepIsComplete` | Listing | a sweep repeats nothing and leaves out nothing that was there throughout |
| `HistoryIsPrefix` | Listing | what was read of a history is a beginning of it |
| `OneEffectPerKey`, `ReceiptsAreDistinct` | EmailService | keys are idempotent; receipts name effects |
| `AtMostOneEffect` | Watchkeeper | the reason the system exists |
| `NoFalseCompletion` | Watchkeeper | completion only with an effect; a worker that ends with success is about a completed operation |
| `FreshAttemptIsUnsent` | Watchkeeper | open to a new send only while nothing was sent or is on its way |
| `OneSender` | Watchkeeper | one worker between grant and confirmation |
| `ReceiptIsOwn` | Watchkeeper | who finds its operation confirmed finds its own receipt |
| `RefinesStore` | Watchkeeper | every call of the system is one the open store model allows |
| `KeepsPromise` | Watchkeeper | the system implements `Delivery`: an effect only for an intent on record, once, under a grant that nobody has taken back, and completion only after it |
| `EveryIntentSettles`, `EveryRunEnds` | Watchkeeper | liveness |
| `TrialCounts`, `ShownIsSo`, `TrialEnds` | DemoTrial | the table the demo prints |
| `TrialsAreRetained` | BenchmarkSuite | an execution the database knows has a result or a mark that a resume finds |
| `ResultsStand` | BenchmarkSuite | no start of the program changes what an earlier one saved |
| `RecordsAgree` | BenchmarkSuite | files, `raw.jsonl` and rows do not contradict one another |
| `PassedIsEarned` | BenchmarkSuite | a pass means exactly one result that counts for each trial |
| `FlagProvesUndispatched`, `UncertaintyIsShown` | Watchkeeper, DemoTrial | what the docs say and the code does not do: findings 2 and 3 |

`AuditTypeOK`, `SystemTypeOK` and `ListingTypeOK` are the type invariants of runs;
those of `OperationStore`, `EmailService`, `RequestHandling` and `BenchmarkSuite`
are proved only, and so are `ReceiptsAreDistinct` and `NobodyWaitsInACircle` (of
`RequestHandlingProofs`).

Two abstract specifications say what is left when the mechanism is taken away.
`Delivery` has intents and nothing else. `permitted` is mapped to a grant that is
on record, unless the operation has been handed out again (`retryable`), and
`Withdraw` is possible only while nothing was performed, after which nothing is:
a late request that commits after its grant was taken back would be a `Perform`
without permission. The mapping is restricted to `Delicate` operations: with
`idempotency_only` recovery sends again on purpose and the service's key absorbs
it, which is the matter of `OneEffectPerKey`; with `indirect_unique` the content
must be unique, as for `NoFalseCompletion`. `AtomicRequests` has the same rows as
`RequestHandling` but no stages and no drafts. A request acts once between call
and answer. A refusal must be true at the moment it is decided, and only a 503
leaves open whether the step was taken. As in `RequestHandling`, what else of a row
may stand in the way of a change is a choice (`Conflicts`, `Repeats`).

`AtMostOneEffect` and `ReceiptIsOwn` have one precondition: an operation that
declares `idempotency_only` runs against a service that has it. Otherwise
recovery may rely on a guarantee that is not there, and the HTTP transport may
repeat a request it takes for idempotent. `NoFalseCompletion` has one: operations
with `indirect_unique` have contents of their own, which is what that
capability's name says and `Inspect` takes for granted.

`SweepIsComplete` speaks of rows that were committed when the sweep began. A row
whose transaction began before the sweep and commits behind the cursor is missed
by it, and the model has such behaviours; nothing in the code or its
documentation promises otherwise. For events there is no such gap, because the
lock on the row is taken before an event draws its number. `SweepIsComplete`,
`ListedOnce`, `HistoryIsPrefix` and the cursors of `ListingTypeOK` are about callers
that pass `next_cursor` on as they got it, with the same filter or operation; what
the code does with other cursors is in section 6.

`EveryIntentSettles` counts `uncertain` as settled: it shows that recovery is not
postponed for ever, not that it uses all the tries it has before it gives up.

Definitions marked `Mutant:` are plausible bugs. Each is substituted for the
definition it precedes to see that the property named in `PROJECT.json` fails.

## 4. Runs, bounds and fairness

| run | instance | states | asks |
|---|---|---|---|
| `audit_one` | 1 operation (`idempotency_only`) with its whole history, 2 receipts, versions to 11, leases of 2 ticks | 2*10^5 | the store and the history under arbitrary callers |
| `audit_reread` | the same with 1 receipt, versions to 8, and a caller that rereads | - | finding 1 |
| `requests` | 2 connections, 1 workflow, 2 operations, 2 strategies, 3 spellings of 2 payloads | 4*10^5 | concurrent requests, what callers learn, and that requests look atomic |
| `listing` | 3 operations, pages of 1, 2 moments, 3 events | 1.5*10^6 | sweeps while transactions commit late |
| `system_status` | 2 workers and 2 coordinators on 1 operation, `receipt_status` | 5*10^5 | safety, refinement of the store, and of `Delivery` |
| `system_keyed` | 2 workers, 1 coordinator, `idempotency_only` | 7*10^5 | one effect per key where sends are repeated on purpose, and that the loop of retries settles |
| `system_unique` | 2 operations, a worker each, 1 coordinator, batch of 2, `indirect_unique` | 10^6 | evidence found by content |
| `system_flag` | 1 worker, 1 coordinator, `idempotency_only` | - | finding 2 |
| `live_status` | 2 workers, 1 coordinator, `receipt_status` | 2*10^5 | everything settles, every run ends |
| `demos` | blind, status-based and no-evidence trials, 1 coordinator | 3*10^3 | the demo's table |
| `demo_summary` | the same | - | finding 3 |
| `benchmark` | 3 trials, one of them unsupported, 5 executions, 3 starts | 3.5*10^6 | a suite killed, interrupted and resumed anywhere |

Bounds.

* `MaxVersion` (of `MCAuditTrail`) limits the open store runs only: 11 versions
  hold a grant, a claim, a postponement, a second claim, a result, a retry and
  the same again. The modules themselves have no such bound.
* In the system runs failures (`MaxFaults`, 2) and interventions
  (`MaxInterventions`, 1) are what bounds a behaviour. Two failures are needed to
  lose a grant and crash, to crash and outrun a lease, or to lose a reply and have
  its request arrive late; each class of failure can happen in each order.
* `TransientLimit` is 2 (5 in the code) and `ConfirmTries` 2 (5): what matters is
  one try before the limit and one at it.
* `MaxEffects` is 2, enough to see a duplicate: a behaviour
  that would record one more stops there, and has violated `AtMostOneEffect`
  or `OneEffectPerKey` before.
* `Listing`: with three operations and pages of one, a page lies before, at and
  behind every cursor; two moments make `created_at` collide and differ; three
  event numbers let one be lost between two that are read.
* `Requests`: the requests offered are prepares of one operation in three
  spellings, of another with either strategy, and posts that quote version 1 in
  each way a handler tells apart. Versions stay at two or below.
* `Benchmark`: three trials put an unsupported one between two that run; three
  starts let a resume be killed itself, and five execution IDs let two trials be
  replaced. A suite that has used up its IDs or starts goes no further.
* `CHECK_DEADLOCK FALSE` where things end: settled operations, trials that were
  shown, suites that ended, and the bounds on versions, numbers and time.
  `requests` is checked for deadlock: a handler that could not go on would be one.

One operation is enough for the store, because each of its actions but
`ClaimRecovery` reads and writes one row; the proofs are for any number.

A **failure** is a crash of a worker or coordinator, a reply or request lost or
late, a read that fails, a request refused or left unanswered by the service, a
repeated request, a failed verification, or a clock that outruns a live process:
the grace period elapsing while a worker is between two of its calls, or a lease
while its holder still has the claim (`Timely`). The last is what makes recovery
race with work in progress. Otherwise the default grace period (5 s) and lease
(30 s) are long against the calls in between; a claim whose holder is gone, or an
operation no worker is busy with, ages for free.

**Fairness.** `FairSpec` (system) is weak throughout, and what the code's loops
give: a worker that is between calls makes the next, and one that was stopped is
run again by whoever wants the workflow done (with `Prepare` idempotent, any
rerun); `cmd/recovery-coordinator` polls for ever; the service's handler runs to
its end under its own 30 s context; and time passes. Failures, administrators and
late requests are never fair. `RequestSpec` is strongly fair for each connection:
PostgreSQL queues those who wait for a row or an index entry and serves them in
turn, so a statement that can run again and again is run at last; failures need
not happen. `DemoSpec` is weak for the process, the controller, the coordinator,
the service and time; neither timeout of `act` is fair, so `TrialEnds` shows that
a trial needs none.

## 5. Proofs

Every theorem is for any set of operations, callers, workers, coordinators,
profiles, receipts, limits and budgets, from the `ASSUME`s next to the constants:
`CapabilityAssumption`, `StoreAssumption`, `ServiceAssumption`,
`WorkerAssumption`, `BudgetAssumption`, `DemoAssumption`, `ListingAssumption`,
`RequestAssumption` and `SuiteAssumption`. They give constants their types, and say
no more than this beyond them: the worker's receipts are the numbers the service
issues, operations are finite in number for lists, a matrix names no trial twice,
no strategy or spelling is the value for "no row", and the two processes of a blind
trial make up different operation IDs for the same content, as `act` has them do.
The runs evaluate all of them.

`OperationStoreProofs`, the store under open callers:

| theorem | argument |
|---|---|
| `StoreTypeOK` | each transaction, each table |
| `ClaimsStaySnapshots` | `ClaimsAreSnapshots` is inductive with the type invariant and `AbsentUnclaimed` (no claims before the row exists: otherwise `Prepare`, which sets the version to 1 instead of moving it, could meet an old claim). `Fencing` is that conjunction. The key lemma `RowStep` says that a step leaves a row as it is (`Quiet`), raises its version past every claim (`Moved`), or claims it (`Claimed`), so an old claim stops being current instead of becoming wrong |
| `NewestClaimHolds` | `Newest`: claiming sets the lease to the new last index, clearing sets it to 0, answering closes only the attempt whose lease it clears |
| `FinalStatesAreFinal` | a result's claim is a snapshot, so its row is prepared or uncertain; every other guard excludes final states |
| `ReceiptsMatchStates` | `Fencing` tells that a result finds no confirmed row |
| `ImplementsLifecycle` | refinement: each transaction is a step of `OperationLifecycle` under `status <- state`, `permit <- authorized`, or a stutter. For `SubmitRecoveryResult` `Fencing` again supplies the state the code does not check |

That `ClaimsAreSnapshots` carries most of them is the point: the optimistic
version check replaces every other check in `SubmitRecoveryResult`, and it does so
only because no transaction changes state, authorization or token without moving
the version.

`AuditTrailProofs`:

| theorem | argument |
|---|---|
| `AuditRefinesStore` | a transaction with its history is that transaction, so all of the above holds here |
| `AuditTypesHold` | `WritingStep` reduces every transaction to six kinds of writing about one operation, and the rest is about these |
| `TrailIsComplete` | the new event has the next version and starts where the row stood |
| `DecisionsAreExplained` | a decision is written with its event under one version, and versions are never used twice |
| `GrantsMatchAttempts` | `Grantings`: attempts are one more than the retries, a retry lies between any two grants, and the flag is set exactly while a grant follows every retry |
| `ResultsAreLegal` | from `Fencing`: the claim that is answered was of a prepared or an uncertain row |

`AuditKeepsStorePromises` and its two fellows below carry the store's theorems over
to what refines it.

`RecoveryCoordinatorProofs`, what the system and the demo's trials share, the
service and the coordinators: `ServiceTypeCorrect`; `KeysAreIdempotent`, where
`OneEffectPerKey` is strengthened to `KeyIsBound` (a keyed operation has an effect
exactly when its key is bound, because one transaction writes both);
`ReceiptsStayDistinct`; and the lemmas about a coordinator's step: the claims it
holds, or gave up while answering, were issued (`Issued`), so it calls the store
as the open store model allows, and it never sends.

`WatchkeeperProofs`, the composed system. `Linked` joins the invariants of store
and service with what connects them: `Issued`; every receipt on its way to the
store and in it is that of a recorded effect (`Backed`); a row has a version (`Numbered`); a
confirmation under way has a try left (`TryLeft`). With it every step of the
system is a step of the open store and of the open service:

| theorem | argument |
|---|---|
| `SystemRefinesStore`, `SystemRefinesService` | `StoreStep` and `ServiceStep`: callers quote versions and claims that exist, so theirs is one of the arguments the open models allow |
| `SystemTypesHold` | `Linked` |
| `SystemKeepsStorePromises`, `SystemKeysAreIdempotent` | by composition: the refinements, and the theorems of what is refined |
| `EffectsAreSingle`, `AttemptsStartUnsent`, `SendersAreSingle` | `OneAttempt`, for operations without replay: a grant is a token. It is with nobody (`Fresh` implies `Unsent`), with one worker about to send, or spent on one request, whose effect is the only one. The steps are `GrantStep`, `SendStep`, `RequestStep`, `AnswerStep`, and `CalmStep` for all others. With replay the key does it (`KeyIsBound`) |
| `ReceiptsAreOwn` | the receipt on file and the one a worker compares are both of recorded effects (`Backed`), and there is at most one |
| `SystemKeepsPromise` | refinement, from `OneAttempt` and `NoFalseCompletion`. `StoreOrService`: a step changes effects or the store's rows, not both. Those of the store are steps of `OperationLifecycle`, and each of these is one of `Delivery` or a stutter (`PromisedByStore`); a request that causes an effect has its grant, and is the first (`PromisedByService`) |
| `CompletionsAreTrue` | `Attested`: a coordinator that is about to report completion has seen an effect, and effects are never taken back. `Informed`, for what workers report: one that is done, or is about to be, and one that has seen a final row, is about a row that is final (`Settled`). Its copy may be stale; final rows are not touched again, so that copy cannot be wrong |

`DemoProofs`, a trial of the demo. `Tracked` is inductive, and no part of it is
without the others: `SentOnce` follows each message from the process that sends it
to its effect (nothing, one request, or one effect: `Untouched`, `Pending`,
`Delivered`); it needs `GrantUsed` (the second process of a protected trial cannot
be granted another send) and `Killed` (the controller kills the process when it
hears of the effect, and then only: with an earlier kill the count might be zero);
`GrantUsed` needs `Copied` and `Halted` (a row that is uncertain is not due and not
claimed as such, so nothing releases the grant); `Truthful` says that what is told
over the channel, and what the controller makes of it, stays so.

| theorem | argument |
|---|---|
| `TrialsCount` | `SentOnce` when the second process has ended. The ledger is counted by content, so the two operation IDs of a blind trial add up (`EmailsCount`) |
| `ShownIsTrue` | `Truthful`, when the controller shows the trial |
| `TrialRefinesStore`, `TrialRefinesService`, `TrialKeepsPromises` | process, coordinators and service call store and service as their open models allow |

`ListingProofs`: `HistoriesArePrefixes` needs `Tables` (a row has at most one
transaction, and its number is larger than those of the operation's committed
events) and `Read` (what was read is all up to the cursor); `NothingIsListedTwice`
and `SweepsAreComplete` follow from `Swept` (listed means not behind the cursor,
owed means listed or still to come). That a page which leaves something over has a
last row is `Pages`, from the well-foundedness of finite sets. `ListingTypesHold`
adds `Bounded`: a cursor is the key of a row, and rows keep their keys.

`RequestHandlingProofs`: `Served` says of each connection what its transaction
holds (`Drafted`), what it has found (`Checked`) and what its answer stands for
(`Answered`), and of any two that they hold nothing in common (`Apart`).
`RequestTypesHold`, `RefusedNeverWrote`, `PreparersAgree`, `ConflictsExist` and
`WritersAreSingle` follow, without fairness. `TransactionsAreSerial` is why
`OperationStore` may take a transaction as one step: although `RequestHandling`
runs its statements one by one, with others in between, each change of the rows
that anyone can see is the whole of one prepare or one change of version, and what
that read before is still so then (`OneTransaction`). It needs `Founded`, that no
operation is without its workflow. `WaitsAreAcyclic` is the absence of deadlock
among any number of connections: who waits at an operation or a row waits for a
transaction that only has to commit, and who waits at a workflow waits for one
that is no longer at a workflow (`WaitsAreShort`), so a chain of waits has two
links at most. `RequestsLookAtomic` is the refinement of `AtomicRequests`. A request acts when
its transaction commits, or when it is refused; the rows are then as its earlier
statements found them, by `Drafted` and `Checked`, and the answer is the one that
this step gives. Beyond `Served` and `Founded` it needs `Grounded`: only an
admissible request has a transaction, and one that commits without having locked
its row repeats a receipt of an operation that exists.

`BenchmarkProofs`: `SuiteInv` joins what is needed about a controller that may stop
anywhere. `Phases` says what each point of the program has on disk already, for
instance that an execution has no result until it is filed and no line in
`raw.jsonl` until it is journalled:

| theorem | argument |
|---|---|
| `SuiteTypesHold` | each action, with `Phases` for what is being saved |
| `TrialsStayRetained`, `RecordsStayInAgreement` | from `Phases`, whatever part of a write under way was done; a mark is removed only after its result is there |
| `SavedResultsStand` | only `Files` writes a result, and only where there is none |
| `PassesAreEarned` | `Ledger`: what the controller takes for done is on disk (`Known`), and everything it has passed in the matrix is done, new, or a failure it remembers. `Single`: a trial that is known is never drawn again. `Kinds`: results fit what is supported. `Marked`: marks without a result are in the controller's hands |

Every invariant and every action property that a passing run checks is so a
theorem, and so are all refinements. Only model-checked: liveness
(`EveryIntentSettles`, `EveryRunEnds`, `EveryRequestEnds`, `TrialEnds`), which is
out of the prover's reach.

## 6. Findings

Each of the first three is a run in which TLC shows the behaviour.

1. **A recovery result's transition is not validated.** `docs/architecture.md:70`
   says a result "validates the live lease token, attempt ID, expected version,
   observation, and permitted state transition in one transaction".
   `SubmitRecoveryResult` (`recovery.go:204`) checks all of these but the
   transition. `ManualResolve` keeps the lease on a row it makes retryable; a
   caller that then quotes the row's current version moves it from `retryable` to
   `uncertain` or `reconciled`, edges `allowedTransitions` lacks (run
   `audit_reread`). The shipped coordinator quotes its claim's version, and for
   such callers `ResultsAreLegal` proves the check unnecessary.
2. **The flag speaks of the attempt, not of the operation.** `docs/recovery.md:62`
   says "the durable authorization flag proves no compliant worker could have
   dispatched". `BeginRetry` clears the flag; after a keyed operation was sent and
   released for replay, it is prepared and unauthorized with an effect on record
   (run `system_flag`). Nothing goes wrong, because such sends are absorbed by the
   key, and without one `FreshAttemptIsUnsent` holds.
3. **The demo may show an uncertain trial as "exactly once".** `docs/demo.md:64`
   says it "compares blind retry, status-based Watchkeeper recovery, and
   no-evidence uncertainty". `act` takes phases and the exit of the restarted
   process from one `select` (`cmd/demo/main.go:297`), and after the exit passes
   the phases that are left to `trace` only (`:349`), which ignores outcomes. While
   `act` narrates (650 ms a line, `:104`) the process reports `uncertain` and exits,
   so both are there, and either may be taken; the summary then stays what it was
   initialised to (`:295`). The count of emails is right in every case
   (`TrialCounts`).

Met while reading, without a run:

* `docs/api.md:100` gives 400 for "malformed JSON, invalid fields, or bad
  cursors"; the code answers 422 for the last two (`server.go:566`).
* `docs/api.md:104` gives 413 for a body over the limit; `decodeJSON` answers 400
  like for any other decoding error (`server.go:544`).
* `docs/api.md:94` says "Invalid or mismatched cursors return a validation error".
  A cursor carries a key and nothing else, neither the filter nor the operation
  (`cursor.go:20`, `:44`), and `listOperations` and `listEvents`
  (`internal/api/server.go:366`, `:392`) compare it with nothing. A cursor from
  another filter or another operation's events is accepted, and the list starts
  behind that key. So is one that was made up, if it decodes; where its `id` is
  no UUID, the cast in the query fails and the answer is 503 (`postgres.go:239`).
* `docs/benchmarks.md:21` says "Interrupted trials are marked invalid and retained".
  A trial that is cut short by SIGINT or SIGTERM is retained, but filed as `failed`:
  its error is the cancelled context's, not `ErrInvalid` (`runner.go:208`). Then the
  `UPDATE` of its row fails for the same reason.
* A kill after `result.json` is in place and before `raw.jsonl` is appended leaves
  `raw.jsonl` without that line and the row `running` for good: the resume finds the
  result and removes the mark (`runner.go:169`). Summaries and assertions read the
  result files, so nothing is scored wrongly; `RecordsAgree` is stated accordingly.
* A resume runs failed trials again (`runner.go:155`), as new executions; the suite
  may then pass, with the failures on record as results that do not count.
* The restarted process of the demo calls `AuthorizeDispatch` on a retryable
  operation without `BeginRetry` (`cmd/demo/main.go:628`), which is always
  refused: that branch ends the trial as failed (`AsksToSend`).

## 7. Not modelled

* `observations` (written once, read by nobody in the code), `email_dispatches` (a
  ledger for the benchmark), timestamps that nothing compares.
* Which fields are invalid in which way, the wire format, and how canonical JSON
  and fingerprints are made byte by byte: `Malformed`, `Invalid` and `Canonical`
  stand for them. Metrics and the access log.
* Callers that make cursors up or use one with another filter or operation. The
  code accepts what decodes, against `docs/api.md:94` (section 6); nothing is claimed
  about the lists they get.
* Operations that share their content under `indirect_unique`: `Inspect` would
  find one's effect for the other, which the capability's name excludes.
* A caller that renews its lease for ever bars its operation from recovery; no
  shipped caller renews. A worker that is always slower than the grace period
  goes round with recovery for ever; liveness is checked for workers that are
  slow a bounded number of times.
* The console demo (`cmd/watchkeeper-demo`) proxies a browser's requests to API
  and simulator under one mutex, and the smoke test calls the API in a fixed
  order: behaviours the open store model has. The demo's repeated trials and its
  narration.
* Within a trial of the benchmark: supervision, barriers, proxy, ledgers, scoring
  and the other strategies. It measures the system from outside, and the faults it
  injects are failures of the model. Of the controller: a configuration or source
  that changed (refused before anything is written), a torn last line of
  `raw.jsonl` (nobody reads it back), figures and reports.
* Configuration, migrations and health checks: start-up and input.

## 8. Plan

Done, in this order: life cycle and store; audit tables; service; worker;
coordinator; the system; proofs of store and service; lists; requests; the demo;
proofs of the audit trail, the composed system, the lists and the requests; the
benchmark's controller with its proofs; proofs of the demo, of workers' reports and
of transactions as single steps; the abstract delivery of intents and the atomicity
of requests with their refinement proofs, and the absence of deadlock.

What is left:

1. Within a trial: `supervise` and the barriers of `child.go`, and `score.go` as
   pure operators checked against a reference definition of duplicate, omission
   and false completion.
2. The baselines of `child.go` around the same service, with the violations they
   are there to show (`DemoTrial` has blind retry).
3. `RequestHandling` as a refinement of `OperationStore` itself: `AtomicRequests`
   and `TransactionsAreSerial` cover the columns that decide conflicts (workflow,
   content, version), and a mapping of all columns would cover the rest.
4. Liveness with more failures and two operations.
