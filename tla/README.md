# TLA+ models of the AI-engineer knowledge services

This directory holds the TLA+ specifications of the stateful cores of the
repository, the TLC configurations that check them on small instances, and the
TLAPS proofs of the properties that hold for every instance. All definitions are
read from the source; `PROJECT.json` (`map`) names the lines each one stands for,
`runs` lists the model-checking runs, `theorems` the proved results and `hazards`
what the properties are for.

## 1. Inventory

The repository is a TypeScript monorepo around one PostgreSQL database whose
migrations live in another repository (the "database contract"); SQL triggers and
functions are therefore external and modelled from how `src/` calls them.

| Part | State | Operations | What is hard |
|---|---|---|---|
| Canonical operation ledger, `packages/persistence/src/postgres.ts` | operation, operation_step, lease, receipt, operation_event, outbox rows | create, cancel, retry, reconcile, claim, heartbeat, complete, fail | concurrent workers, lease expiry, READ COMMITTED snapshots, crash between claim and receipt, lost replies |
| Outbox of the ledger, same file | outbox rows with claim token and visibility timeout | claim, ack, nack, extend | redelivery, exhausted deliveries, late acknowledgements |
| Canonical worker, `apps/worker/src/canonical-worker.ts`, `apps/worker/src/index.ts` | the claim it holds, heartbeat timer | reconcile, runOnce, execute | heartbeats beside the activity, stale leases, process loss |
| Retrieval caller, `packages/application/src/knowledge/retrieval/canonical-retrieval-executor.ts` | none of its own | completeOperation, failOperation | uses the ledger beside the workers, with keys of its own |
| In-memory ledger and service, `packages/core/src/runtime/ledger.ts`, `packages/application/src/operations/surface.ts` | operations, steps, receipts, idempotency map | create, claim, heartbeat, complete, fail, cancel, retry, reconcile | the local profile has no triggers: its code alone keeps terminal states |
| JEV host, `packages/jev/src/service.ts`, `store.ts` | job rows, worker slots, deadlines, startup counter | submit, dispatch, cancel, timeout, worker events, close, restart | child processes whose messages race cancellation and exit |
| Structured extraction, `apps/worker/src/verification-structured-extraction-runtime.ts`, `packages/persistence/src/verification-structured-extraction-*.ts`, `verification-provider-response-capture.ts` | binding, lifecycle, capture, failure checkpoint and publication rows of an operation | recover, bind, initialize, capture, retain, publish, report | a provider call that must not be repeated, crash after dispatch, an answer that comes late |
| Provider accounting, `packages/persistence/src/verification-provider-accounting.ts`, `packages/application/src/verification/operations/verification-provider.ts` | budgets, attempts | reserve, claimDispatch, settle, markUncertain, reconcile | one budget for many operations, calls whose outcome is unknown |
| Durable recovery, `packages/persistence/src/verification-recovery-durable.ts`, `packages/application/src/verification/recovery` | cases, plans, receipts, executions, dependency claims | open, plan, claim, reserve, ensure, link, reconcile, settle, wait, resume | claims that expire, budget over replanning, receipts composed from stale reads |
| Callback replay, `packages/persistence/src/callback-replay.ts` | callbacks seen | register | duplicated and replayed callbacks |
| Vector publications, `packages/retrieval/src/vector-backends/publication` | active pointer, publications, events, queue of transactions | publish, rollback, reconcile | a remote inspection before the local commit |
| Ingestion, `packages/knowledge-db/src/ingestion` | ingestion plan, receipts | plan, apply, reconcile | idempotent application, partial application |
| Publication evaluation, governance, checkpoints, drift outbox, source discovery, `packages/persistence/src` | their own tables | single transactions | optimistic versions, idempotency keys |
| Verification executor, `apps/verification-executor/src` | a run's state file, receipt files and lines, fence | the steps of a run, export of a checkpoint | steps that overlap, files written in several steps, a crash between them |
| Core domain, `packages/core/src/domain` | none | transition tables, digests, authority | tables against what the stores do |
| Contracts, client, CLI, API, MCP, policy, preparation, sources, evaluation, verification libraries, testkit, parser and docling services | none or request-scoped | pure functions, I/O | formats rather than state |

### How the parts interact

* The API, the CLI and MCP create, cancel, retry and reconcile operations in the
  ledger. Workers are separate processes that poll the same tables; the only
  communication between them is rows, row locks and leases that run out.
* Retrieval requests run inside the API process. They create an operation like
  any other, do the work first, and then claim the steps themselves to record it,
  while canonical workers may claim the very same steps.
* In the memory profile the API, the evaluation route and the workers share one
  event loop and one `InMemoryOperationLedger`; whatever happens between two
  turns of a worker happens during the `await` of its activity.
* The Jev host is a supervisor process with a SQLite file and child processes. It
  talks to a child over an IPC channel; replies, disconnections and the close
  event arrive as separate callbacks, in that order for one child and in any
  order between children, and interleave with clients' calls and timers.
* A recovery client plans repairs of a case and submits each as an operation of the
  ledger; the operations' provider calls ask the case's rows for leave, and the
  client reads the operations' results back into receipts. Clients share the rows.
* An extraction runs inside a canonical worker's activity. Each of its stages is a
  transaction that checks the worker's lease; only the request to the provider is
  outside. Extractions share a budget; an operator may settle the call of an ended
  operation, or retry the operation.
* The publication coordinator asks a remote vector store before its transaction;
  transactions of one process queue behind one another.
* The verification executor serves steps of a run in one process; the steps share
  the run's files and await hosts and providers between reading and writing them.

### What makes each modelled part correct

* Ledger: one holder per step; lease, step and operation agree in every committed
  state; steps run in order; one receipt per success; attempts are bounded; ended
  operations stay ended; an open operation ends.
* Jev host: a running job belongs to one child, a live child works on a wanted
  job, capacity and attempts are kept, ended jobs stay ended, submitted jobs end.
* Memory ledger: one holder per step, success means receipts and receipts of every
  step mean success or a cancellation, finished steps are not run again, open
  operations end. That a cancelled operation is not finished by a late worker does
  not hold (see "Disagreements found").
* Durable recovery: repairs of two cases never share a key, the budget is neither
  exceeded nor replenished, an unsettled repair has its plan, a plan whose repairs
  are authorised ends.
* Structured extraction: the provider is asked once per operation, an answer that
  was kept is carried on and never refused, one without an answer never gets one
  after its refusal; budget, attempt, capture and publication agree.
* Vector publication: pointer, publications and events tell one history, history
  only grows, every call returns.
* Verification executor: a readable state never mixes conclusions of different
  results, a sealed decision was routed, each step has its receipt however it ended,
  a checkpoint is
  what the files hold while no step is under way.

## 2. Modules

| Module | Models | Composes |
|---|---|---|
| `OperationLedger` | the ledger's transactions, canonical workers, retrieval callers, faults | instance of `OperationLifecycle` |
| `OperationLifecycle` | abstract: what a client may rely on | |
| `OperationLedger_proofs` | typing, fencing, order, status, leases, attempts, finality, refinement, receipts | extends `OperationLedger` |
| `JevQueue` | the Jev supervisor, its store, its children | instance of `JobLifecycle` |
| `JobLifecycle` | abstract: what a client sees of its jobs | |
| `JevQueue_proofs` | typing, attachment, wanted work, attempts, capacity, refinement | extends `JevQueue` |
| `InMemoryLedger` | the memory profile's ledger, service, workers, evaluation route | |
| `InMemoryLedger_proofs` | typing, holders, receipts, finished steps | extends `InMemoryLedger` |
| `DurableRecovery` | the recovery store's transactions, the client's calls, the operations of the repairs | instance of `RepairWork`, uses `Totals` |
| `RepairWork` | abstract: repairs, their calls, budget, keys and results | |
| `DurableRecovery_proofs` | typing, plans, claims, charges, the budget, refinement | extends `DurableRecovery`, `Totals_proofs` |
| `StructuredExtraction` | the stages of extractions, their workers, the accounts of their provider calls | instance of `ProviderCall`, uses `Totals` |
| `ProviderCall` | abstract: request, answer, charge and result of an operation | |
| `StructuredExtraction_proofs` | typing, calls, refusals, publications, answers, the budget, refinement | extends `StructuredExtraction`, `Totals_proofs` |
| `VectorPublication` | the coordinator's calls, the repository's transactions, a store that drifts | instance of `PublicationHistory` |
| `PublicationHistory` | abstract: publications, pointers and events without calls | |
| `VectorPublication_proofs` | typing, histories, queue, refinement | extends `VectorPublication` |
| `VerificationRun` | the executor's steps, the files of a run, exports of a checkpoint, a crash, receipts that cannot be written | |
| `VerificationRun_proofs` | typing, coherence, routing, receipts, checkpoints | extends `VerificationRun` |
| `Totals` | sums of calls, reservations and charges | used by the two models with budgets |
| `Totals_proofs` | the laws of such sums | extends `Totals` |
| `MC...` | values of the constants for TLC | extend the modules they are named for |

Definitions called "Mutant of ..." are variants of a definition with a plausible
bug. Nothing uses them; `PROJECT.json` pairs each property with one that breaks it.

### `OperationLedger`

One row of `operation_step` is one element of `Steps`; `opStatus`, `stepStatus`,
`attempts`, `maxAttempts` are columns, `lease` and `fence` the lease row, `receipts`
and `failures` the two kinds of receipts by idempotency key. A transaction of
`postgres.ts` is one action with everything it changes, the reconciliation at its
end included (`Settle`). The exception is `#claim`: its SELECT reads lease,
operation and predecessors from a READ COMMITTED snapshot and locks the step row
only, so `ClaimSnapshot` and `ClaimStep` are separate and any transaction may
commit between them; `ClaimStep` rechecks only what PostgreSQL rechecks, the
locked step row. The trigger that keeps terminal rows terminal belongs to the
external schema and is modelled from the errors the code and its tests expect
(`TriggerAdmits`): a refused update rolls the whole transaction back.

An executor's `pc` follows `#execute`: claim, first heartbeat, activity, receipt,
or the `catch` that calls `failStep` and swallows its errors. A reply may be lost
after a commit: `CompleteStep` lets a worker go on to its `catch`. Time is
abstract: a lease that nobody extends may expire at any moment (`Expire`, fair),
one that somebody should have extended only by a `Stall`, which counts as a fault
like a `Crash`. The conditions of `#claim` that only narrow the choice
(eligible kinds, `available_at`, the order among claimable steps) are a
nondeterministic choice. Later heartbeats have no action: while they succeed
nothing changes that the model shows, when one fails it is `ActivityFails`.

### `OperationLifecycle`

Two variables: the status of operations and the set of succeeded steps. Steps
succeed once, after those before them, in open operations only; the last success
and nothing else makes an operation succeeded; an ended operation can only be
queued again after a failure. The mapping is `status <- opStatus` and
`done <- {s : stepStatus[s] = "succeeded"}`; attempts, leases, receipts and the
executors are hidden.

### `JevQueue`

Every callback of `service.ts` runs to its end, so it is one action together with
the `dispatch` it ends with. `proc` is what the supervisor's event loop can still
see of a child: `up`, `dying` (killed or dead, its channel not read to the end),
`cut` (channel closed, close event to come). `reply` is the outcome in the
channel. `submitBatch` is two actions around its `await`s. `budget` stands for the
sliding window of `requestsPerMinute`: any number of the dispatches in it may
leave it at any moment. Deaths of children (a timeout's kill
included), `close` and the death of the host are bounded by `MaxFaults`. The three
idle exits of the code are kept as a literal.

Left out: idempotency keys of submissions, a second host on the same database
(the lock is the operating system's), reused PIDs, children that survive a killed
host, replies whose message id does not match.

### `JobLifecycle`

The status and attempts of the jobs, as a client polls them. An attempt starts from a
waiting or a new job, within the bound, and ends with a result, a failure or the wait
for another attempt. A handler may change several jobs at once (it dispatches what it
freed), so a step is a move of each job; that a job whose attempt ended is not tried
again in the same step is what the delay of a retry promises. Mapping: `status` and
`attempts` as they are; the host, slots, children, channels, timers and the minute's
budget are hidden.

### `InMemoryLedger`

A method of the service is one action; a worker's `runOnce` is two, up to and
after the `await` of its activity. `attempts` doubles as the lease token, since a
claim makes a new one of each. `fresh` says that the lease has not run out.
Snapshots, events, results and the map of contexts are left out. The code counts
no attempts against a limit, so retryable failures and lost leases are bounded by
`MaxAttempts` in the guards.

### `DurableRecovery`

A store method is one transaction that locks its case, hence one action; a client
may be lost or overtaken between any two, so clients are not actors of the model.
`state`, `active`, `plan`, `receipt`, `past` are the case and its plans, `exec` the
executions, `row` the dependency claims, `op` and `attempts` what the ledger and
the provider accounting know of the repairs' operations. The revision of a case is
only compared for equality: every action that bumps it drops the receipt that was
composed before (`Revise`), which is what `settle` does to a stale one. Claim
tokens are UUIDs: a token that nothing refers to stands for a new one. `Reserve`
may be called with any token, so with a stale claim.

Left out: cost in micros, probes, coverage and invalidations (they are summed and
compared like calls, or only reported), replays that return an existing row (they
change nothing), the route "reconcile" for originals without a result. The results
of the repairs are read together; reading them one by one only misses one that
finishes a little later.

### `RepairWork`

Five variables per repair: whether it is authorised and settled, the calls granted and
made, the keys it touches while it runs, and its result. A repair is authorised once; the
grant fits what the budget of its case has left, counting settled repairs by their calls
and running ones by their grants; its original has a round left and no other repair
running, and no other case has a repair running on its keys. A settlement ends running
repairs of one case with a verdict each; nothing changes them after. Mapping: executions
that are not settled run and touch the keys of their case's plan, the calls are the
provider attempts, the result is the operation's verdict once the execution is settled.
Plans, claims, tokens, receipts, waits, deadlines and the ends of operations are hidden.

### `StructuredExtraction`

A worker's `pc` follows `execute` of the runtime from the recovery of a published
result to the worker's report; every place is a transaction or the request. `lease`
names the worker that holds an operation's step: the ledger is cut down to claims,
expiry, cancellation, retry and the two reports, since `OperationLedger` shows the
rest. `attempt` is the provider attempt with what it was charged, `budget` the row
all attempts of a budget share, `capture` what the answer's bytes are read as,
`stage` the execution binding, the lifecycle and the failure's checkpoint, which
follow one another. `call` is the snapshot of the attempt that a worker publishes.
"refused" is a failed operation whose error names the lost call. `sent` counts
requests and is read by nothing.

A lost reply is a `Fail`, `Stumble` or `Crash` after the commit; an answer that is
not kept, a request that times out and one that is never sent are `Stumble`.
`Fail` is an activity that throws and whose worker reports it with `failStep`: the
attempt ends, and the step is queued again if it has attempts left and the error is a
retryable one, which malformed data for example is not. Once a failure has its
checkpoint `failStep` throws instead and the worker swallows that: this is
`FailRefused`, after which step and lease stay as they are until the lease expires.
`Cancel` and `Expire` may come at any moment, `GiveUp` is the worker finding out.
`MaxLimit` bounds what operator retries make of the attempts a step may have. A
published failure is reported under a key without the attempt, so `ReturnFailure`
succeeds once and `ReturnAgain` is what happens after a retry.

Left out: the artifacts, their digests and signatures, which replays derive from the
same captured bytes; the comparison of the runtime's identity with the bound one
(a `Fail`); the hosts for claims and reports, which use the same stores; budgets of
recovery cases, which `DurableRecovery` has; attempts without an operation.

### `ProviderCall`

Five variables per operation: its status, the requests made, the answer, the charge, and
the result. A request is made once, also after the end, since a slow worker may send it
then; the answer is kept once and while the operation runs; the charge is the one the
answer states, or an operator's once the operation has ended; the result is of the
answer and states the charge; success needs a result, a refusal no answer. The mapping
takes the charge from the attempt (`Charges`) and the kind and charge from the published
result (`Stated`). Leases, stages, the states of an attempt, the budget and the places
of workers are hidden, so most steps are.

### `VectorPublication`

A call is `inspect`, `wait`, `commit` around the three `await`s of the coordinator;
`Look` is the second read of a reconciliation. `queue` is the chain of promises of
the serializable repository, `work` the copies a callback works on, `threw` that it
threw. `Drift` changes what the store would report at any moment, so an inspection
may be stale when its transaction commits, as in the code. One tenant is modelled:
the repository keys everything by tenant. The events are kept by space, which is
how they are read. What a request verifies (counts, manifest, receipts, decisions)
is one `content`, its candidate evidence another.

### `PublicationHistory`

Publications, pointers and events, changed by one publication or one rollback at a time,
each made from what is there at that moment: a publication follows the active one of its
space, a rollback returns to one of the space, and an event is used once. Mapping: the
committed database; calls, inspections, the queue and the transactions' copies are hidden.

### `VerificationRun`

One action per read or write of a file. An artifact is named by the step that put
it and carries those it was made from, which is what digests do; captures,
extraction results and report checks are `items`. `writeFile` empties a file and
then writes it; where two overlap, a mixture may be left (`Torn`). A step works on
the copy it read (`draft`), `Save` writes it and goes on where `then` says. `Fail`
is any error of a step's own work, at its reads, at the notification or at the seal;
it drops the copy, and a failed receipt is written (`Throw`). The receipt of a step is counted, filed and appended
by three actions; its line and the release of the fence are one, since nothing
reads both in between. `AppendFails` is an error while a receipt is written, before or
after the write it was at took effect. After a successful step the code's `catch`
takes it for a failure of the step and writes a failed receipt, perhaps beside the
first; after a failed one the step returns without. `broken` names the steps that met
this, and `MaxFaults` bounds them together with crashes. `StartExport` to `Keep` are an export: receipts, then the
state, then the comparison with the fence. `Routed` says that the host routes
recoveries and requires it. `Crash` loses copies and fence and keeps the files.

Left out: the checks on each artifact's content, the second reading of the
files by an export (it only refuses more), the restoration of a checkpoint, a
second process on the same directory, writes of the state file that fail and receipt
lines of which only a part is written.

## 3. Runs

In all runs the system may really stop (all operations or calls ended), so
deadlock is not checked.

| Run | Instance | Shows |
|---|---|---|
| `ledger_executors` | one operation of two steps, of which the first has two attempts and the second one and, after an operator's retry, two; two workers, a caller that reuses its own key, two outputs, two faults, fair | type, leases, status, order, attempts, one receipt per success, the refinement of `OperationLifecycle`; an open operation ends unless a fault took the last attempt of a step |
| `ledger_last_attempt` (violation) | one worker, fair | a step whose worker is lost on its last attempt stays running |
| `jev_host` | two workers, three jobs of which two may be active, two submissions at a time, one fault, outcomes `ok` and `retryable`, fair | attachment, wanted work, capacity, the refinement of `JobLifecycle`; every job ends or the host reports a boot failure |
| `memory_workers` | two workers, two operations of two steps, one of them evaluated, one retry, fair | holders, success and receipts, finished steps, termination |
| `memory_cancelled` (violation) | one worker, one operation of one step | a worker that was under way finishes an operation after its cancellation |
| `recovery_cases` | two cases that share a key, an original and a repair each, three tokens | repairs under way of two cases share no key; the refinement of `RepairWork` |
| `recovery_settles` | one case, two originals, two calls of budget, two rounds, a deadline, checkpoints, fair | budget, charges, plans, checkpoints; an authorised plan ends |
| `recovery_stuck` (violation) | one case, three repairs, no deadline, no checkpoint, eager clients | a claim that expires between two authorisations strands both repairs |
| `extraction_calls` | two operations on a budget of two reservations, two workers, two attempts for one operation and one, doubled by a retry, for the other; a charge above the reservation; symmetric workers | the refinement of `ProviderCall`, budget, refusals without an answer, publications and accounts agree, answers are taken up |
| `publication_calls` | two calls, two spaces, three publications, three events, two versions, eight requests, fair | pointers, predecessors and events tell one history; publishes stay; the refinement of `PublicationHistory`; calls return |
| `executor_steps` | three steps, two at a time, one crash or one step whose receipts cannot be written, routed; symmetric steps | coherence, routing, receipts, checkpoints |
| `executor_receipts` (violation) | two steps at a time, no fault | receipts out of order, after which no export succeeds |

Why the bounds are enough. Two executors, workers or steps are the least that race,
and no guard reads more than one other. The two workers of
`ledger_executors` have equal keys, the caller others: all enter the ledger by the same
claim. Several operations share nothing but receipt keys, which the two steps share
already; the theorems cover them. A second overlapping submission to the Jev
host lets one insert its jobs between another's count and insertion; a terminal
outcome ends a job at once as `ok` does and is left to the theorems. Two ordered
steps of an operation are the least with an order; two attempts the least with a first
that is not the last; two faults let an attempt be lost twice or a crash meet a stall.
Two cases with one
common and one private key are the least where a partly free claim is refused; two
rounds and a budget of two calls let a plan fail, be charged and be planned again
within what is left. Two publications of one space and one of another give
rollbacks a target before, after and outside the active one; each event is asked
for twice. Two attempts of an extraction let one worker take over from
another that is still waiting for the answer; the other operation can only be taken
up again by a retry, so both ways are there, and a charge above the reservation lets
one operation stop the other at its reservation or at its dispatch. Two reservations
fit that budget, so whether `Reserve` compares with the ceiling shows only beyond it:
that charges above the reservations are all the budget is overrun by (`OverrunOnly`)
is a theorem and in no run. One fault of the executor is a crash or a step whose
receipts fail, once or twice; beside an export steps begin until the fence has moved
twice (`MaxDisturbed`), after which it is refused anyway, so two may overlap there. A third step of a run lets a result come between a decision and its
seal, which two cannot.

### Fairness

* Ledger: `StartWorker` and `Poll` per worker (a supervisor restarts workers and
  the loop of `index.ts` polls), `Proceed` per executor (an activity returns or
  throws, and each `await` of a database call does), `Expire` per step (the clock).
  Clients are not fair: nobody has to cancel or retry. `Poll` is weakly fair only,
  which is what a polling loop gives: `SKIP LOCKED` may pass a step over.
* Recovery: any client may reconcile, and one does: `Compose`, `EnsureOperation`,
  `Link` and `Finish` are weakly fair. `Settle` is strongly fair, because other
  calls may change the revision between a composition and its settlement; a client
  retries until one stands. `EagerSpec`, for the violation run, also lets clients
  claim and authorise again and again, so that what stays stuck there is not for
  want of a caller.
* Extraction: no liveness is claimed; an operation whose last attempt is lost stays
  as it is, which `ledger_last_attempt` shows.
* Publication: awaited inspections, reads and turns return. Nobody has to call.
* Executor: no liveness is claimed; hosts and providers may take for ever.
* Jev: the provider call ends by its own timeout, channels and handlers make
  progress, the timer fires, an operator opens and starts the host again after it
  ended. Faults and clients are not fair.
* Memory: workers poll and activities return.

### Disagreements found

Each is a run that TLC finds violated, with the quoted document in `findings`.

1. A step whose worker is lost on its last attempt stays `running`: the claim
   refuses it, and neither reconciliation nor retry ends it. Cancelling does.
2. When the claim of a recovery plan expires between the authorisations of two of
   its repairs, the second can never be authorised, since every unsettled execution
   must carry the claim's token, and the first never reconciled, since
   reconciliation wants all of them linked.
3. A run that served two steps at once may number or append receipts out of order,
   and every later export of it is refused. A process that ends between a receipt's
   file and its line, or an append that fails there, leaves the same.
4. In the memory profile a worker that completes the last step of an operation after
   its cancellation turns the operation from `cancelled` to `succeeded`
   (`ledger.ts:238`, `reconcile`), which `state-machines.ts:48` does not allow.

Seen while modelling. Of the ledger: `#claim` locks the step only, so of two claims
that read the same expired or released lease both may pass, and the second gives the
step a new token while the first's lease is live; fencing keeps this safe
(`SingleHolder`), it costs the first worker its attempt. `failOperation` of the
retrieval executor numbers its failure receipts by step only, so after an operator
retry the second failure is answered by the first receipt and the step stays
running; a retryable failure takes an operation from `running` back
to `queued`, which `state-machines.ts:43` does not list. Of the Jev host: children
killed by cancellation whose late receipt freed their slot count as workers that
cannot start, and three of them fail the whole queue (`service.ts:261`); the slot
such a receipt frees belongs to a dying process, and the next job may be sent to it
and lose an attempt; `submitBatch` does not test `workerBootFailed` again after its
`await`s. The in-memory ledger reconciles cancelled and failed operations to whatever
their steps add up to, also back into open ones or to success; it offers the later steps of a failed operation, and claims steps out of
order or two at a time. Of structured extraction: a published
failure has a receipt key without the attempt, so after an operator retry the same
worker is answered by the old receipt and leaves the step running, and another
worker meets the failure's checkpoint and can report nothing else; a reservation whose operation ends before the dispatch is
never released, since reconciliation takes dispatched and uncertain attempts only.
A replayed publish with another candidate evidence digest is
answered by the publication that exists. Of the executor: a step that writes its
copy back undoes what another acknowledged meanwhile; a run that lost its recovery
authority this way and has a result is refused every later `verifyClaims`
(`executor.ts:592`); two seals at once return different audits; two overlapping
writes may leave a state file that never parses again.

## 4. Proofs

### `OperationLedger`

The theorems are about `Spec` for any operations, steps,
workers, callers, outputs, keys, key derivations and bounds that satisfy the
assumptions of that module: each step belongs to an operation and has an ordinal
of its own in it, each operation has a step, executors derive keys in `Keys`,
workers and callers differ, bounds are numbers. The code justifies them:
`createOperation` inserts the steps of an operation with distinct ordinals.

None of the properties is inductive alone. The invariant grows in layers, each
proved from those before:

1. `Typed`: `TypeOK`, and an executor that claims or works has a step.
   `TypeCorrect`.
2. `TokensUnique`: held tokens come from the sequence and working executors hold
   different ones. With it `LeaseExclusive` (`SingleHolder`) follows.
3. `Ordered`: steps exist with their operation, started steps and working
   executors have an attempt, and what a claim read of the predecessors still
   holds when it writes (`ClaimsInOrder`). The last needs that success is final
   (`SuccessIsFinal`). `AttemptedInOrder` (`StepsInOrder`).
4. `Followed`: with `StatusFollowsSteps`. It needs the order: because two started
   steps of an operation cannot both be unfinished, a claim never starts a step
   beside a failed one, and a retry never requeues beside a running one
   (`FailedStandsAlone`, `ClaimedStandsAlone`). `StatusCorrect`.
5. `Leased`: with `LeaseBacksRunning`. From it `SettlesOpen`: whoever ends an
   attempt ends that of a running step of an open operation. `LeasesCorrect`.
6. On top: `AttemptsCorrect` (`QueuedHasAttempt`), `FinalityCorrect`
   (`FinalStays`: a succeeded or cancelled operation keeps its status, and none of
   its steps is recorded as finished or failed later; no run lists it),
   `LifecycleImplemented`
   (`ImplementsLifecycle`: the initial states map to initial states, each action to
   an abstract one or to a stutter) and `ReceiptsCorrect` (`OneReceiptPerSuccess`, by
   the stronger statement that the set of keys naming a step is a singleton or empty).

`NextCases` sorts the next-state relation by what a step writes: the client's
actions, the claim, `Local` steps that write nothing of the ledger and `Settles`
steps that end an attempt. `LocalEffect` and `SettlesEffect` state once what the
last two groups do, so most proofs have one case for each group.

### `DurableRecovery`

For any cases, originals, repairs, keys, tokens and limits. `TypeOK` alone is not
inductive: a settlement takes the verdict of a repair's operation, so the layer
`Typed` adds that a draft is a receipt of the current plan (`DraftFits`), that a
repair without an execution has no operation (`Traceless`) and that plans contain
repairs of their own case (`PlansOwn`). `Within` bounds attempts by reservations.
`Planned` is `OpenWorkHasPlan` with what an unopened case lacks (`AbsentEmpty`).
`RepairsExclusive` rests on three facts about claims: the keys of an unsettled
repair are still owned by its case, live or expired (`KeysOwned`); all unsettled
repairs of a case carry one token (`OneToken`); live claims belong to active cases
(`ClaimsActive`, which `ReadyOwesNothing` needs too).

The budget is where three counts of the same calls meet: `attempts` counts those made,
`exec` those authorised, `receipt` and `past` those charged. `Covered` (with
`BudgetNeverExceeded`) says that what is charged and reserved fits; it says nothing of
what was really called. `ChargedAsCalled` does: plans before the latest were charged
what their repairs' operations called, and these have ended, so they call no more; a
receipt was charged what its repairs called, the executions of the latest plan share
its reservation. It is inductive only with `EndedDone`: a plan ends when its receipt
names all its repairs as done, so replanning moves exactly what the receipt charged
into the past. `CallsAreCovered` and `BudgetIsKept` follow from the two by the laws of
sums, splitting the repairs of a case into earlier, settled and unsettled ones. TLC
checked both parts on the instances of the recovery runs before they were proved.

`WorkImplemented` takes the two invariants together and adds that a plan repairs an
original once (`PlansDistinct`) and that settled repairs have ended operations
(`SettledDone`). The hard step is `Reserve`. Its budget guard compares reservations of
one plan only: that this bounds the calls of all repairs of the case is
`ExposureCovered`, of which `BudgetIsKept` is a consequence too. Its claim guard looks at
the rows of its own keys only: no other case works on them, since `KeysOwned` says that
their rows would then name that case (`ReserveCompatible`). A later plan changes the keys
that are touched by no repair, since it begins when none is running.

### `JevQueue`

For any worker slots, jobs, attempts, capacity and rate. Five handlers end with a
dispatch, over values they have computed but not written, so the invariant `Kept` is
an operator over values: each handler shows it of what it hands over, `DispatchKeeps`
once that a dispatch keeps it. `Channels`: what a slot's process, job and unread
reply say of each other (a closed channel has no reply, a host without children has
no processes). `Places`: slots have jobs of their own, and those run or were
cancelled; this is why an exit or a reply can only end the attempt of its slot.
`Attached` adds that no running job is without a slot. `Rows`: rows exist in the
order of their numbers, so that a submission's batch is new; it makes the
`Cardinality` of a finite set part of the proof, as `Bounded` (the capacity) does.
`FreedSlot` is shared by the two handlers that free a slot.
`LifecycleImplemented` needs of every handler that it ends the attempts of running jobs
only, and that what it queues again has to wait (`Lives`, `EndsLive`): a dispatch in the
same step takes none of those, so no job makes two moves at once. The theorems state
`TypeOK` and `QueuedHasAttempt` too, which no run lists.

### `InMemoryLedger`

For any workers, operations and steps. `ReceiptsMatch` ties receipts to succeeded
steps and, in both directions, to succeeded operations (`SucceededIsReceipted`), but
that an operation with all receipts may be left cancelled; it is inductive because every step that is
claimed, evaluated or ended was not succeeded before. `TokensApart` (a claim's token
is an attempt of the step, no two are the same) gives `SingleHolder`. `RowsExist`
keeps late workers and reconciliations from operations that do not exist. That a
claim finds the first claimable step rests on the well-foundedness of the naturals
(`FirstIsMember`).

### `StructuredExtraction`

For any operations, workers, costs, budget and attempts. `Typed` adds to `TypeOK`
that a worker past the answer works on a captured one (`TypeCorrect`). `Counted`: a
call that was not recorded was neither made nor answered, who is about to make one
recorded it, and no two are about to make the same; most steps are `Quiet`, so only
`Dispatch` and `Send` need an argument (`CalledOnce`). `Staged`: no worker is ahead of
its operation's stage, and the last stages are those of the answer's kind; it holds
because stages only go `Forward`, also under a worker without the lease. `Rows` and
`Held`: what the rows of an operation say together, and what the holder of its lease
may conclude from its place. A step is `Local`, it writes the rows of its own
operation and with the lease only, so what another holder concluded stays true.
`RefusedStaysUnanswered`, `PublicationsAgree` and `AnswersTakenUp` follow. For
`BudgetIsSum` (`BudgetHolds` and `OverrunOnly`), `AccountSteps` shows that whatever a step does, it leaves the accounts
alone, reserves a call that had no attempt (`Take`), moves an open attempt on (`Move`)
or charges an open attempt (`Bill`); the last needs that an answer is booked only on an
attempt that is still open, also when two workers book it. Each of the three keeps
the row equal to the sums. `CallsImplemented` puts these together: `Counted` gives the
one request, `Asked` that an answer that is kept or awaited was asked for and that who
reports has a result, `Held` that the refusing worker sees no answer and that what the
publishing one read of the attempt still is the charge. `SentOnce` (`CalledOnce`) is a
consequence of the refinement, which the run checks in its place.

### `Totals`

A sum is the cardinality of the set of its units. The community modules' sums fold
over a set, and what a fold computes needs an induction with an operator parameter,
which the provers cannot instantiate; cardinalities have laws in `FiniteSetTheorems`.
`Totals_proofs` derives from them the laws the two budgets need: the sum is a natural
number, of disjoint sets it adds up, and it is monotone, unchanged by what lies
outside the set, and zero where all amounts are.

### `VectorPublication`

For any calls, requests and reports. The invariant says of a database that its
spaces are traced and its publications were activated (`Sound`), of the committed
one and of each transaction's copies (`Copies`), of the queue that its head alone
has begun and that who waits or commits is in it once (`Turns`), and of what a call
has read that it was a publication and pointer that existed (`Reads`). `HistoryImplemented`
needs one fact more, `Prepared`: the copies at the head of the queue are what its
request comes to on what is committed when the transaction ends, not only when it began,
and a rollback's target, read before the wait, is still a publication of its space. So
the end of a transaction, which replaces everything, is one `Publish` or `Rollback` of
`PublicationHistory` or changes nothing (`RanIsHistory`).

### `VerificationRun`

For any steps and bounds, routed or not. `Works`: every copy a step holds is
coherent, its makers have begun and its seal was routed, and it has what the step
needs where it is heading (`Equipped`: a copy on its way to a notification has a
decision). `Fenced`: the fence counts the steps under way, which makes
`Cardinality` of a finite set part of the proof. `Rested`: an export whose
revision is still the fence's has read a run at rest. `ReceiptPerStep` is inductive
with `Due`: a step under way that already has a line is one whose receipt failed, the
line says that it succeeded, and what it writes now will say that it failed.

### Only model-checked

Liveness (`SettlesUnlessLastAttemptLost`, `JobsSettle`, `OpenSettles`,
`ReservedPlanSettles`, `CallsReturn`), because TLAPS does not prove it under
fairness, and the four violated properties. `OverrunOnly` is the
reverse, proved and in no run. Every invariant, every action property
and the five refinements of the passing runs are theorems.

## 5. Not modelled

`PROJECT.json` (`components`) lists every part with its status and reason. The
main ones: callback replay and ingestion are stateful and planned; the outbox is SQL of the external schema with
no consumer here; contracts, clients, adapters, conversion, search and evaluation
keep no state between calls. The map covers a small share of the repository's lines
because most of them are of these kinds.

## 6. Plan

Done: the ledger, the Jev host, durable recovery, structured extraction and vector
publication with abstract specifications they are proved to implement, the
in-memory ledger and the verification executor, all with proofs of
their safety properties. Left, in this order:

1. `CallbackReplay`: duplicated callbacks.
2. `LockOrder`: the row locks of cancel, complete, fail and claim, and which pairs
   can deadlock.
3. Ingestion: partial application and receipt reconciliation.
