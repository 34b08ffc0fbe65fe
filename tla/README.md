# A verification project for workmill

workmill is a multi-tenant batch-work platform: a tenant submits an order of
items, a runner process takes the items from a durable queue in PostgreSQL (or
PGlite), sends each one through an LLM gateway, and files the answers and the
bill; a console lets an operator run the tenants. This directory holds TLA+
models of its parts, TLC configurations that check them on small instances, and
TLAPS proofs, for every value of the constants, about all of them: the queue and
its metering, the runner, the interleaved statements, the model call with its
schema check, the process with its event streams, and the control plane.

Paths below are relative to the repository root; `queue/claim.ts` is short for
`src/queue/claim.ts`.

## 1. The system: inventory

| part | state it keeps | operations | talks to |
|---|---|---|---|
| **Job queue** `queue/{enqueue,claim,lifecycle}.ts`, `sql/002`, `sql/005` | rows of `work_orders`, `jobs`, `job_results` | submit, claim, heartbeat, finish, fail, reap, requeue, cancel, mark cancelled, close order | the database only; called by the runner and the tenant API |
| **Metering** `metering/{ledger,limits}.ts`, `sql/006` | `token_ledger`, `entitlements`, `work_orders.blocked_reason` | upsert a bill, sum the day, budget status, stamp and clear orders, refuse a submit | called inside finish and claim, and by the tick |
| **Runner** `runner/run.ts` | the tick's batch, the heartbeat's findings (in memory) | `runOnce`, `runClaimedJob`, `Heartbeat` | queue, metering, gateway, event bus |
| **Scheduler** `runner/schedule.ts` | timer, stopped flag, sweep in flight | `sweepOnce`, `startRunnerLoop`, `stop` | runner, one tenant after another |
| **Gateway** `gateway/{client,complete,schema}.ts` | one call: abort controller, timer, rounds, usage | `chatCompletion`, `runCompletion` with up to two re-asks | HTTP |
| **Event bus and SSE** `ops/events.ts`, `server/app.ts` | ring of recent events, listeners, sequence number; open connections | publish, subscribe, replay, gap test, stream, close | runner publishes, dashboards listen |
| **Process** `main.ts`, `bin/` | loop handle, server, engine, stop-once flag | start, stop, signals | everything |
| **PGlite engine, PostgreSQL driver** `db/{pglite,pg}.ts` | one connection and a promise chain; a pool of connections | query, transaction | everything that touches rows |
| **Tenant seam** `seam/withTenant.ts`, `sql/001` | the session's role and tenant | `withTenant`, `withAdmin`, row policies | every call of a tenant |
| **Tenancy** `tenancy/*.ts`, `sql/003` | tenants, members, invites | provision, invite, accept, revoke | API and console |
| **Workflows** `workflows/*.ts`, `sql/004` | workflows and their immutable versions | create, edit, rename, archive, pin | submit pins a version, the runner loads it |
| **API tokens, guards** `server/{auth,guards}.ts` | token hashes, expiry | mint, resolve, revoke | API |
| **Tenant API** `server/api.ts` | none | submit, cancel, requeue, reads | queue, workflows, metering |
| **Operator console** `operator/*.ts`, `server/operator-api.ts` | entitlements, tenant state, support grants, audit trail | provision, edit limits, suspend, grant, revoke | tenancy, metering |
| **Migrations, demo seed and reset** `db/migrate.ts`, `demo/*.ts` | `schema_migrations`; the demo tenant | migrate, seed, reset | database |
| **Pages** `dashboard/page.ts`, `console/page.ts` | in the browser: the token, the open order or picked tenant, the stream, a poll timer | load a panel, act, follow the stream | tenant API, operator console, SSE |
| **Configuration, metrics, operations log, CLI** | read once at start; counters; lines | parsing, rendering | process |

How they interact: every row change is one `withTenant` transaction. A runner
tick is a *sequence* of them with no lock in between (reap; read the budget;
stamp or clear orders; claim; then per job a beat, beats during the call, and
one settling transaction). So the tenant's cancel and requeue, the operator's
edits, another process's tick and the clock may fall between any two. On
PostgreSQL the *statements* of two transactions interleave too; on PGlite they
do not. Nothing but rows is shared between processes: the event bus, the loop
and the model calls die with theirs.

### What is hard

* **Stale workers.** Only the job in hand is beaten for. The leases of the jobs
  behind it in the batch run, and another process may reap and re-claim them
  while the first still means to work on them.
* **What asks and what does not.** `heartbeat` asks whose job it is; `finishJob`
  and `markCancelled` ask only whether it runs; `failAttempt` asks nothing.
* **Cancel against everything else.** A cancel can only ask a running job to
  stop; the request is heard by a later beat, or by nobody.
* **Closing orders.** Five calls can retire an order's last job, three of them
  close it, and a requeue reopens it.
* **Crashes.** Nothing but the leases brings back the batch of a dead process.
* **Budgets.** Read in one transaction, obeyed in the next two.
* **READ COMMITTED.** What a statement looked for may have changed when the next
  one relies on it: closing an order, counting what runs, failing a job.
* **Aborts.** A model call has three ways to be stopped (timer, relay, signal)
  and a part of its life, the body, that none of them reaches.
* **Streams.** Replay and subscription must not leave a gap between them; the
  sequence dies with the process; a closed connection may be noticed by nobody.
* **Stopping.** A sweep, live streams and a log line stand between a signal and
  the exit, and a second signal comes at any of those points.
* **Read, then act.** The console, the invites and the submissions look a row up
  in one step and write in the next, while the demo reset deletes whole tenants.

PROJECT.json lists each hazard at its line, and the properties that watch it.

### What makes each part correct

* *Queue:* a lease exactly while running; attempts within `max_attempts` and
  consistent with the state; an answer is never reported without its row and
  its bill; an open order has work left; orders move only as documented; claims
  respect cap and budget.
* *Runner:* a batch is the worker's own until settled; settled jobs stay
  settled; orders and cancels come to an end; stamps are lifted; a worker that
  lost its lease cannot renew it.
* *Scheduler, process:* after `stop()` no tick touches the database; a second
  signal does not cut the first stop short.
* *Gateway:* every call ends; every token reported is billed; a cancel reaches
  the call in flight.
* *Event stream:* no gap goes unannounced; a closed connection leaves nothing.
* *Tenancy, workflows, console:* an invite is accepted once and not after
  revocation; a pinned version never changes; every operator act has a receipt;
  an expired or revoked grant opens nothing.
* *Engine and seam:* no call changes another tenant's rows; on one connection a
  call of several statements is as good as atomic; transactions do not wait for
  each other for ever.

## 2. What is modelled

### `JobQueue.tla`: the rows

The durable state of one provisioned tenant, one action per queue call, each
action a whole transaction.

| variable | column | action | code |
|---|---|---|---|
| `jstate`, `attempts`, `claimedBy`, `cancelReq` | the same columns of `jobs` | `EnqueueOrder` | `enqueueOrder` |
| `lease` | `lease_expires_at`: null, ahead of the clock, behind it | `ClaimJobs` (`Allowance`, `Candidates`) | `claimJobs` |
| `runAt` | `run_at`, as a rank among the pending rows | `Heartbeat`, `HeartbeatReply` | `heartbeat` |
| `ostate`, `blocked` | `work_orders.state`, `blocked_reason` | `FinishJob`, `RecordAnswer` | `finishJob`, `recordUsage` |
| `result` | `job_results.ok`, or no row | `FailAttempts`, `FailAttempt`, `ReapExpiredLeases` | `failAttempt`, `reapExpiredLeases` |
| `tokens`, `billed` | `token_ledger.total_tokens`, `usage_day` | `MarkCancelled`, `CancelOrder`, `RequeueJob` | the same names |
| `cap`, `budget` | `entitlements` | `BlockOpenOrders`, `ClearOrderBlocks`, `UpdateEntitlements` | the same names |
| | the clock | `LeaseExpires`, `DayRolls` | `now()`, `usage_day` |

`Next` lets anyone call anything at any time, stale callers included; the only
things it holds a caller to are that it fails jobs that were claimed at some
time, and marks cancelled only jobs that were asked to stop. A call the code
refuses (a lost heartbeat, `JobNotRunningError`, a requeue of a pending job)
changes no row and is not a step.

Abstractions. `dead_at` follows the state and is not kept apart; `last_error`
and `failure_trail` decide nothing. `run_at` matters only through the claim
order, so it is a rank, and every retry is due at once, as in the code (see
section 5); rows stamped by one transaction (a submit, a reap) tie and fall back on creation
order. A tenant without an entitlements row is left out. `assertSubmitAllowed` refuses or does nothing,
so a refusal is a step not taken.

### `Runner.tla`: the processes

Extends `JobQueue` with what each process holds in memory: `pc` (where in
`runOnce` it is), `batch` (claimed and not yet settled, in order) and `heard`
(what the current job's beats said). `StartTick`, `ReadBudget`, `BlockTick`,
`ClearTick` and `ClaimTick` are the transactions of a tick; `FirstBeat`,
`Pulse` and the `Settle...` actions those of `runClaimedJob`, with its order of
precedence (cancel heard, lost, gateway failure, answer). `FinishThrows` is the
`JobNotRunningError` that escapes `runClaimedJob`; `TickThrows` is a process
that dies, a transaction that throws, a definition that does not load, or an
answer that breaks off: the tick ends and its batch is forgotten.

A model call is the time between `StartModel` and a `Settle...`: as long as it
likes, with beats or with none (a beat that throws is swallowed, and leaves no
news). `Heartbeat.stop()` awaits the beat in flight, so no beat falls between
answer and settling. The call's outcome (answer, invalid answer, failure) is
free. Events and the operations log are not modelled: nothing reads them back.

`claimant`, `crashes` and `requeues` are history variables; the last two carry
the bounds `MaxCrashes` and `MaxRequeues`.

### `OrderPromise.tla`: what a tenant is told

The abstract specification of an order: none, open, done or cancelled, and
whether anything of it is left to run. It is open exactly while something is
left, and cancelled for good. Two modules are shown to implement it: `Runner`
(`KeepsPromise`, the rows and processes together) and `Transactions` on one
connection (`SerialPromise`, statement by statement). With two connections it is
not implemented; findings 5 and 6 are the two ways it fails.

### `Transactions.tla`: the statements

The queue's eight calls again (`claim`, `heartbeat`, `finish`, `fail`, `reap`,
`requeue`, `cancel`, `mark`), this time one SQL statement per step. `row` holds
the committed rows, `wrote[c]` what connection c's transaction has written and
therefore locks, `tx[c]` the call and its next statement, `settings[c]` the
session's role and `app.tenant_id`. `Execute` is every UPDATE: it selects the
rows its WHERE matches in the snapshot, takes them in any order, waits at one
another transaction holds, and asks the WHERE again of that row alone.
`Claim` counts and takes in one statement with `SKIP LOCKED`; `ReadExpired` and
`ReadAttempts` are the SELECTs whose results later statements obey; `Crash` and
`BreakDeadlock` end a transaction from outside. `pool` is chosen at the start:
one connection is PGlite with its promise chain, several are PostgreSQL, so one
run compares the engines. A claim may take fewer rows than are free, as its batch
limit, a spent budget and `run_at` make it. Beats, answers and marks may come
late, of a job that has been reaped, claimed again or settled; only a failure is
of a running job when its transaction begins, since a late one breaks the promise
on any engine (finding 1). The budget and the bill are left to `JobQueue`, and any
tenant may name any row, so that the row policies decide.

### `Exchange.tla` and `SchemaCheck.tla`, joined by `Completion.tla`: one model call

`Exchange` is `gateway/complete.ts` over `client.ts`. `phase` is where the
exchange is (waiting for headers, reading a body, over); `signal`, `relayed`,
`tripped` and `timer` are the worker's controller, `abortedByCaller`, the
exchange's own controller and its timeout. `Headers`, `Body`, `BodyBreaks`,
`Rejected` and `Unreachable` are what the network does; `Read` is the
synchronous turn in which a reply is parsed, checked and returned or asked
again; what it reads as and whether the schema admits it are the parameters
`Parsed` and `Admitted`. `SchemaCheck` is `gateway/schema.ts`, and `Completion`
the two together, with `ParseJsonObject` and `Valid` for the parameters. JSON
values and schemas are trees. `JSON.parse` is external, and a reply is what it
makes of the three texts the code cuts out of it: the whole, what the fence
encloses, and what reaches from the first brace of that to the last. `Readable`
says which triples a reply can give: braces in its prose or in a string may be
the first or the last, and then the span is no JSON or an object nobody sent.
`Candidates` are those that parse, in the order they are tried. The values and
schemas there are (`Documents`, `Subschemas`) are parameters that hold what they
nest, so that the code's recursions are recursive functions over them. `Check`
follows `check()` keyword by keyword; `Admits` is the reference it is compared
with, which looks at every place of the value on its own.

### `Lifecycle.tla`, `EventStream.tla`, composed by `Service.tla`

`Lifecycle` is one process from its configuration (which of environment, file
and default decides a setting, and what is refused) through the migrations, one
transaction each and possibly raced by another instance, to listening, sweeps
over the tenants, the two signals, `stop()`'s four stages and the exit; after any
end it may be started again. `EventStream` is the bus (numbers, ring, listeners)
and the `/events` route with one await at a time, and the client the route is
written for, which sends the last id it saw. `Service` joins them: a tick in
hand publishes, streams are accepted while the process listens, they die with
it, and `server.close()` waits for them. Here a tick only ends, well or not: what
it does is `Runner`'s.

### `Tenancy`, `Workflows`, `Demo`, `Console`, composed by `ControlPlane.tla`

| module | state | calls taken apart | code |
|---|---|---|---|
| `Tenancy` | `tenant`, `user`, `seat`, `invite` | `BeginAccept`, `FinishAccept` | `tenancy/{provision,members}.ts`, `demo/reset.ts` |
| `Workflows` | `token`, `flow`, `orders`, `request` | `Mint`, `InsertVersion`; `Ask`, `LookUp`, `ReadVersion`, `Enqueue` | `workflows/store.ts`, `server/{auth,api}.ts`, `queue/enqueue.ts` |
| `Demo` | `seeding` | `SeedBegins`, `SeedProvisions`, `SeedFills`, `SeedDies` | `demo/seed.ts` |
| `Console` | `limit`, `grant`, `audit`, `command` | `LookUpTenant`, `Act`; `TellProvisioned` | `server/operator-api.ts`, `operator/*.ts` |

A call whose statements nothing can come between is one step. `open` holds the
clients inside a transaction of several steps; `serial` says whether the engine
lets anyone else run meanwhile. A deleted tenant takes its rows with it
(`Cascade...`), and its id is never used again.

The three parts share nothing but `tenants`: no call of one reads a table of
another. A behaviour therefore follows one of them (`part`), with tenants
provisioned and cleared under it; which one it is changes nothing the others
could notice. The console's part is serial because its transactions are one step
each, and seeding belongs to the orders' part, whose rows it writes.

### Proof and model-checking modules

The modules named `...Proofs` hold the theorems: `JobQueueProofs`,
`RunnerProofs` (any processes, and one), `TransactionsProofs` and
`SerialProofs` (any pool, and one connection), `CompletionProofs`,
`ServiceProofs` and `ControlPlaneProofs`. `Recursions` holds the lemmas about
recursion itself that the model call and the day's spend share. Those named
`MC...` are the instances for TLC. Operators commented `Mutant:` are plausible
faults of the operator they stand before; no specification uses them. Putting
one in its place breaks the property PROJECT.json pairs it with.

## 3. What is checked

The queue and runner runs have one order of two items, so that "the last job of
the order" and "the job behind the one in hand" both exist, `BatchSize = 2`, and
`MaxTokens = 1` with a budget of 1, so that one answer spends a day.
`MaxAttempts` is 2 (a first attempt and a last one) except where said.

| run | instance | shows |
|---|---|---|
| `queue_calls` | two claimants, caps 1 and 2 | every sequence of calls, by callers however stale, keeps the six queue invariants (`SpendIsBounded` among them) and the two step properties `ClaimsWithinEntitlements`, `OrderMoves` |
| `runner_single` | one process, one crashed tick, one requeue, fair | `HeldIsRunning`, `DoneIsQuiet`, `SettledStays`, the refinement `KeepsPromise`, and the liveness properties `OrdersSettle`, `CancelSettles`, `BlocksLift` |
| `runner_pair` | two processes with ids of their own | every step of either is one that `JobQueue` allows (`Spec`), and only the last claimant revives an expired lease (`RenewedByClaimant`) |
| `stale_failure` | two processes, three attempts | a late failure puts an answered job of a done order back to pending: `DoneIsQuiet` fails |
| `late_answer` | two processes | an answer after the reap throws away the rest of the batch: `BatchIsSettled` fails |
| `cancelled_claimed` | one process | a job of a cancelled order is claimed again: `CancelledIsNotClaimed` fails |
| `shared_id` | two processes with one id, as by default | a worker that lost its lease is told "renewed": `RenewedByClaimant` fails |
| `transactions` | a pool of one or two connections, two items, the owner and a stranger, cap 1 | on any pool: a job is claimed once, answers land on running jobs, cancels are final, other tenants' rows are untouched, no deadlock without a reap or a cancel; on one connection also the promise, the cap and the attempts |
| `orders_left_open` | the same | two finishers leave an order open with nothing to run: `NothingLeftIsDone` fails |
| `completion` | four schemas and those inside them, twenty-three replies, two re-asks | what is read is the object between the reply's braces and the verdict is the reference's, a call that returns bills all its rounds, an aborted call asks nothing more, every call ends |
| `service` | two tenants, two connections, a ring of two and four events, one migration, two files and two environments | no hole in a stream goes untold, a stop drains, every tenant is ticked, a stop ends or a browser holds it |
| `control_plane` | two tenant ids, two slugs (one of the demo), two clients, two addresses and invites, one token and one workflow name, three versions, one order, two audit entries | `RowsAreSound`, `OrdersPinTheCurrent`, `InviteSettlesOnce`, `EveryChangeHasReceipt` |

`transactions` and `control_plane` use symmetry, of jobs and connections and of
tenants, clients, addresses and invites: their properties are safety ones, and
no definition tells the members of those sets apart.

Deadlock checking is off in two runs, whose systems may really stop:
`completion` (a call ends) and `control_plane` (ids are used once, and versions
and audit entries are bounded).

**Why the bounds are enough.** One crash suffices to orphan a whole batch, at
any point of the tick; one requeue to reopen a closed order or to put a job
into a cancelled one. `runner_pair` has neither, since what it asks about, two
processes overtaking each other, needs neither; the refinement and the
invariants it inherits are proved for any number (section 4). With one order
and a budget of 1, `OrdersSettle` includes waiting for midnight. What the
instances cannot show: orders that compete for one tenant's cap. `queue_calls`
reaches the bound of `SpendIsBounded` (a budget of 1, a cap of 2 and answers of
1: nothing is spent when both jobs are claimed, so that the day may come to 2
where 3 would break it); larger limits are the theorem's.

In `transactions` two connections are enough for every pair of calls to overlap
at every pair of statements, and two jobs for a reap and a cancel to lock in
opposite orders and for each of two finishers to be the other's last job. A
longer deadlock cycle needs a third connection; it is covered by the proof of
`DeadlocksNeedBulkCalls`.
`completion` has schemas of two levels with every keyword (a list of types, an
unknown type, an enum with `null`, required, closed, nested items), values that
fail each, arrays of one object and of two (whose span is torn), and braces that
are not of the value: in the prose, and in strings that are complete, or halves,
of an object's text. In `service` the ring is shorter than what a browser may
miss, and two connections let a new stream overlap with the remains of an old one. In
`control_plane` a demo tenant can be cleared and provisioned again under
another id with a request of the first still under way, which is what two ids
are for; `MaxOrders` limits when a submission may begin, so two clients may
have one under way together.

**Fairness.** In `runner_single`, `WF(Work(p))`: the loop
is an interval that skips a beat while a sweep is busy, the busy flag is cleared
in a `finally`, and each await of a sweep ends. The weakest of those is the
gateway call: its timeout bounds it up to the response headers, and from there
only the gateway or the network ends it (a hazard). `WF(LeaseExpires)` and `WF(DayRolls)`: time passes. Nothing is assumed
of beats (they may all fail), of the tenant, or of the operator. `OrdersSettle`
holds because each failed run spends an attempt, and `MaxRequeues` is finite: a
tenant who requeues for ever keeps an order open for ever, and rightly. The
budget of the run is 1: a budget of 0, which `sql/003` allows, claims nothing, and
an order under it stays open until the operator raises it.

In `completion`, the timer fires and an aborted fetch rejects: that is the event
loop. That a body once begun ends or breaks off is asked of the gateway and the
network, and without it `CallEnds` is false: no timer is armed then. In
`service`, the loop's timer ticks and finds the database sooner or later, ticks
end (of the body a tick may be reading, that is asked of the gateway and its
network), `stop()` goes on when what it awaits is there, and the awaits of a
stream's handler return. Nothing is asked of browsers, signals or crashes; hence the escape of `StopEnds`, a browser that holds its stream. The other runs
check safety only.

## 4. What is proved

Every theorem below holds for all values of the constants that satisfy the named
assumptions, which TLC evaluates in the runs. The invariants named were first
checked by TLC on the runs' instances.

| module | inductive invariant | from it |
|---|---|---|
| `JobQueueProofs` | `IInv` (`QueueInvariant`) | `TypeCorrect`, `LeasesMatchStates`, `RetryBudgetHolds`, `AnswersAreBilled`, `OrderStatesAreTrue`, `ClaimsStayWithinEntitlements`, `OrdersMoveAsPromised`, `SpendStaysBounded` |
| `RunnerProofs` | `RInv` (`RunnerInvariant`) | `RunnerTypeCorrect`, `RunnerImplementsQueue`, `RunnerKeepsQueueInvariant`, `RunnersSpendWithinBound`; with ids of their own, `RenewalsAreTheClaimants` |
| | `QuietInv` (`SoleRunnerInvariant`) | for one process: `HeldStaysRunning`, `DoneStaysQuiet`, `SettledJobsStay`, and the refinement `SoleRunnerKeepsPromise` |
| `TransactionsProofs` | `TInv` (`TransactionInvariant`) | `TransactionsTyped`, `ClaimsAreExclusive`, `AnswersLandOnRunning`, `CancelsLast`, `TenantsAreApart`, `DeadlocksAreOfBulkCalls` |
| `SerialProofs` | `SerialInv` (`SerialInvariant`) | `SerialRunsWithinLimits`, and the refinement `SerialKeepsPromise` |
| `CompletionProofs` | `CallInv` (`CallInvariant`) | `CallTyped`, `UsageIsSpent`, `VerdictsAreOfTheLastReply`, `AbortsStopCalls`, and with the reader and the check opened up, `VerdictsAreRight` |
| `ServiceProofs` | `ServiceInv` (`ServiceInvariant`) | `ServiceTyped`, `StreamsAreWhole`, `StopsDrain` |
| `ControlPlaneProofs` | `CInv` (`ControlPlaneInvariant`) | `NoRowOutlivesItsTenant`, `PinsHold`, `InvitesSettle`, `ChangesHaveReceipts` |

So every safety property a passing run checks is proved as well.

### The queue and the runner

`IInv` is the conjunction of the queue's invariants but the spend. Two of them do
not stand alone. *OpenOrderHasWork*, one half of `OrderStateIsTrue`, needs the
other, `CancelRequestedInCancelled`: `markCancelled`
takes a job out of work and closes nothing, which is right only because its
order is cancelled already, and stays so whatever is requeued. *RetryBudget*
needs `RowsExist`: a pending row has an attempt left because a new one has its
whole budget. There is one lemma per kind of step; type correctness comes first
(`TypesStep`), since it needs the rest of the invariant nowhere.

The refinement of the queue is the identity on the rows, and rests on `RInv`: a
job in a batch was claimed once (`HeldWasClaimed`), and a cancel heard was
requested (`CancelHeard`). Both last only because nothing ever clears
`claimed_by` or `cancel_requested_at`. `RequeueJob` leaves both as they were,
which the proof needs.

With one process more is true. `HeldIsRunning` alone is not inductive: settling
the head of a batch must leave the rest running, so no job is in a batch twice
(`NoRepeats`); and the worker must not walk away from a job it was wrongly told
it lost (`NeverLost`). `QuietInv` adds what `DoneIsQuiet` needs. The refinement
of `OrderPromise` follows, because the process reaps only when it holds nothing:
no failure of a job it gave up is still to come.

### The day's spend

`SpendIsBounded` is inductive beside `IInv`: a claim starts below the budget and
stops at the cap, so that what it lets run adds one answer at most for each job
of the cap; an answer moves one job from what may still be spent to what is; nothing
else adds to either (`SpendStep`). It speaks of the day as recorded, and of claims
that are atomic, as they are on one connection; on several, claims that overlap
may pass the cap (a hazard), and with it this bound. The work is in the sum.
`UsedToday` is a fold, which takes out whichever job `CHOOSE` names, while an
answer concerns a job of its own. `SumsUnfold` shows that the fold is defined at
all, `SumAny` that any job may be taken out, and `SumSame` that other bills do not
matter, each by a smallest set of jobs that fails it (`SmallestBad`).

### The statements

`TInv` says of each connection where its call can be and which row it has in
hand (`Placed`), that the session is pinned to the caller's tenant (`Pinned`),
that it has written, and will write, rows of that tenant alone (`OwnRows`), and
what committing would do to each (`Promised`); and that no row is written by two
(`Exclusive`). `Promised` is the point: a job goes up one attempt only from
pending, an answer only replaces a running row, a cancelled order stays
cancelled. It is established when a statement asks its WHERE of the newest
committed row, and no commit of another connection disturbs it, since nobody
else can write a row that is held.

`JobThenOrder` says who may hold what while it waits: the calls with a single
job have nothing when they wait for it, and only a reap waits on while it holds
an order. Any set of transactions that wait for each other in a cycle
(`DeadlocksNeedBulkCalls`) therefore consists of reaps and cancels, and of calls
that are caught at an order a reap holds. Which statement comes by its rows in
which order does not matter, nor how long the cycle is.

On one connection `SerialInv` is about the rows as the one call sees them. What
it has read is still so (`Current`); an order may be behind its jobs only while
the next statement will put right that very order (`Settled`); the cap and the
attempts hold in that view (`Limited`). A commit publishes the view, so it is the
one step of the call that `OrderPromise` sees.

### The model call

`CallInv` adds to the properties that an abort has been heard while the call
waits (`AbortIsHeard`: the signal implies the relay, the relay implies that the
exchange is tripped), which is why no headers are accepted after it, and that
what is returned is the check's verdict on the last reply (`VerdictStands`), a
reply the model may give (`RepliesAreTexts`). Up to here nothing is assumed of
the reader and the check: `Parsed` and `Admitted` are any operators.

`VerdictsAreRight` puts `ParseJsonObject` and `Valid` in their place and compares
them with the reference, for replies and schemas nested to any depth. Both sides
recurse, and what a recursive function computes is known only once some function
is known to solve its equation, because TLA+ defines it by `CHOOSE`. `Recursion`
(module `Recursions`) builds that solution, rank by rank, for any nodes each of
which depends on nodes of lower rank; here the rank is `Depth`, since every step
down a schema is also one down the value. Induction then needs no axiom: of the
places where check and reference disagree, one has the lowest rank (`Lowest`, from
the well-foundedness of `<`), and the unfolded equations refute it. In this way
an empty list of problems is the same as every keyword holding at every place,
whatever the depth. Of the reading the theorem says that what comes out is what
lies between the reply's braces (`ReaderIsRight`), which is right because the
first reading that parses is either the object itself, and then its own span, or
what is given up.

### The process and its streams

`ProcOK` ties the stages of a stop to the sweep, and `LinkOK` the streams to the
process: whoever is connected is connected to a running process, and the last
two stages have nobody connected. `StreamsOK` is why no hole goes untold. For
the one stream that is held, and the set of the watched tenant's events so far:
the frames in flight begin with a gap or not at all with one, each event in them
is followed by the next of the set, and the last is the newest (`Whole`); and the
first follows what the browser saw last, if that was of this process (`GoesOn`).
Publishing appends the newest (`WholeAppend`), reading drops the first
(`WholeTail`), and a replay starts whole: either the ring still reaches back to
the event after the last one seen, or the gap is written first (`WholeReplay`,
from `ReplayInOrder`: every event of the ring after an id, once, in order).
A restart forgets the browser's place together with the events.

### The control plane

`CInv` has a part for each of the four modules. Rows refer to tenants that exist
(foreign keys), and so must what a call in flight has read, or its tenant is
gone for good (`AcceptOK`, `MintOK`, `AskOK`): an id once spent is never used
again, which is why a submission, an acceptance or an edit that was under way
when the demo was cleared cannot land in the tenant provisioned after it. That a
workflow's versions are `1..current` rests on the lock an edit takes and on no
two edits having minted the same number. `InviteSettlesOnce` needs, on the engine that
serialises, that an acceptance in hand still finds its invite pending.

### The assumptions

* `JobsAssumption`, `PoolAssumption`: finitely many rows, every job of one order
  and its order's tenant, every order with a job (`enqueueOrder` refuses an
  empty one, and the composite foreign keys tie the tenants); at least one
  attempt and a cap of at least one (CHECKs of `sql/002`, `sql/003`).
* `WorkersAssumption`, `RunnersAssumption`, `LimitsAssumption`, `ReaskAssumption`,
  `MigrationAssumption`, `BufferAssumption`: ranges of settings and bounds.
* `TenancyAssumption`, `FlowsAssumption`, `GrantsAssumption`: the absence of a row
  is not a row.
* `DocumentsAssumption`, `SubschemasAssumption`: JSON values are finite trees, and a
  value or a schema comes with what is inside it; `SchemasAssumption`: the
  workflows' schemas are among them, each asks for an object at the top
  (`assertValidDefinition`), and a reply's three readings are such as JSON's grammar
  allows (`Readable`); `ReaderAssumption`: the exchange
  reads with `ParseJsonObject` and checks with `Valid`.
* `TenantsAssumption`: the tenants listed for a sweep are a sequence.
* Of a deployment, as hypotheses of the theorems that need them: `SoleWorker`
  (one process works the tenant, as one container does) and `OwnIds` (processes
  have names of their own, which is the operator's to see to: finding 4 shows
  what the default does).

**Model-checked only.** All liveness: TLAPS handles neither fairness nor
`ENABLED`.

## 5. What the work found

Shown by a run whose property fails:

1. **A late failure resurrects a settled job** (`queue/lifecycle.ts:262`, run
   `stale_failure`). `failAttempt` asks neither for the state nor the claimant.
2. **A late answer drops the batch** (`runner/run.ts:392`, run `late_answer`).
   Nothing catches `JobNotRunningError`.
3. **A job of a cancelled order can be claimed** (`queue/lifecycle.ts:354`, run
   `cancelled_claimed`). It is bounded: `CancelSettles` still holds.
4. **The default worker id defeats the lost-lease check**
   (`config/config.ts:267`, run `shared_id`).
5. **Two finishers leave an order open** (`queue/lifecycle.ts:434`, run
   `orders_left_open`). Each still sees the other's job running.

The first two and the fourth need two processes on one tenant (two deployments
on one database, or a drain beside the loop); the fifth needs two connections of
PostgreSQL. With one process neither of the first two can occur: `HeldIsRunning`
and `DoneIsQuiet` in `runner_single`. With one connection the fifth cannot:
`SerialPromise`.

Met while modelling, each without a run of its own. The models contain all of
them but 17, which is in a page, and 19, which is in a read.

6. **A requeue loses to a close under way** (`queue/lifecycle.ts:340`): it finds
   the order still open, and the finisher then closes it over the pending job.
7. **A reap overrides a renewal** (`queue/lifecycle.ts:262`): the heartbeat commits
   between the reaper's SELECT and its UPDATE, which asks for the id only.
8. **`failAttempt` obeys a stale count** (`queue/lifecycle.ts:255`) and may bring
   back a job another failure has retired.
9. **A retry is due at once** (`queue/lifecycle.ts:266`). The comment at line 237
   promises a `run_at` in the future; the update writes `now()`.
10. **A broken-off body is not a `GatewayError`** (`gateway/client.ts:282`), so the
    runner takes it for a bug and drops the tick (`runner/run.ts:376`).
11. **The first reading that parses decides** (`gateway/schema.ts:215`): a reply
    that is an array holding one object is refused, although the span between its
    braces is an object and the comment promises three tries. `VerdictIsRight`
    says which replies are given up: those that read as something else, and those
    without a span that parses (`Using {level}: {"level":"low"}` has none).
12. **A second signal cuts the first stop short** (`main.ts:117`).
    `OneSignalDrains` speaks of stops that end by themselves.
13. **A stream held open keeps the stop from ending** (`main.ts:120`): nothing ends
    the streams the server waits for. It is the escape that `StopEnds` names.
14. **The event sequence starts again with the process** (`ops/events.ts:126`); a
    client with an older id is told of no gap. `NoSilentHole` speaks of one
    process.
15. **A provision and its receipt are two transactions**
    (`server/operator-api.ts:187`); `EveryChangeHasReceipt` covers every other
    change.
16. **An acceptance overwrites a revocation** (`tenancy/members.ts:147`), on several
    connections: its update asks for the invite's id only. On one connection it
    cannot: `InviteSettlesOnce`.
17. **The page never sends the id it saw** (`dashboard/page.ts:577`), so replay and
    gap serve other clients only.
18. **A stream closed early is never released** (`server/app.ts:188`), phase
    `orphan`.
19. **Grants are read by two clocks** (`server/operator-api.ts:260`).

## 6. What is left

The models could say, and do not yet: how orders compete for one tenant's cap;
and how far overlapping claims on PostgreSQL may pass cap and budget.
A run of `transactions` with three connections would show longer deadlocks at
work; their shape is proved.

## 7. Not modelled, and why

* **The pages.** They ask and render; what could go wrong in them (answers
  applied out of order, a second stream after connecting again) is in the hazard
  list without a property, since the server refuses what matters and a poll
  repairs the rest.
* **The text of things**: YAML parsing (`config/yaml.ts`), prompts, the encoding
  of values, metrics, log lines, error messages, the failure trail. Nothing reads
  them back to decide.
* **Reads**: listings, reports, the fleet panel, progress. Each is a statement
  that changes nothing.
* **The guard that refuses a nested transaction** (`db/pglite.ts`): it tells
  nesting from concurrency by async context, which is the language's, not the
  program's.
* **Renaming a workflow**, the stamp of a token's last use, the operator's static
  bearer, arguments of the command-line tools: no other call depends on them.
* **A caller's view** of a commit that fails after its reply was sent
  (`server/api.ts:171`, a hazard): the models know rows, not what a client was
  told.
* **Spend taken off the day** when a job is billed again
  (`metering/ledger.ts:59`, a hazard): the upsert is modelled, a history of spend
  to compare it with is not.
* **Several tenants in one queue.** `JobQueue` and `Runner` follow one;
  `Transactions` has two callers, and `Lifecycle` sweeps two.
