# Verification of the IFNOTUS hosting backend

TLA+ modules, TLC configurations and TLAPS proofs for the FastAPI backend in
`src/backend/app`. Paths below are relative to that directory unless they say
otherwise. `PROJECT.json` maps every definition that models code to its lines,
and lists the runs, the mutants, the findings, the hazards and the theorems.

The repository is a shared-hosting platform: customers order plans, pay (Mobile
Money confirmed by staff, or Paystack), get a subscription, a domain row and an
environment on the host, renew, lapse, and are suspended and terminated by an
hourly sweep. A Vue client and staff panels call the API; Postgres holds most of the
state that matters; a Redis list hands background jobs to a worker process;
sites, archives, traffic counters and web server configuration are files.

## 1. Inventory

| Component | State | Operations | What is hard | What makes it correct |
|---|---|---|---|---|
| Subscription billing and lifecycle (`services/platform/billing.py`, `lifecycle.py`) | `subscriptions`, `customer_environments` rows | hourly `tick`, `renew`, `change_plan`, `set_auto_renew`, `suspend`, `restore`, `terminate` | every call is a transaction over rows loaded earlier, nothing is locked; the sweep is long; dates | paid terms are kept; service and billing agree; grace is granted; data is destroyed only after long non-payment; termination is final |
| Task queue and worker (`workers/*`, `enqueue.py`) | Redis list and status keys, in-memory retry timers | submit, pop, execute, mark, retry, stop, crash, restart | the message is gone before the task runs; each Redis call can fail either way; timers die with the process | one live copy; effects repeated only after a fault; outcomes recorded; every task settles |
| Orders and payments (`orders.py`, `paystack.py`, `routers/v1/platform_admin.py`) | `orders`, and what is delivered for them | checkout, walk-ins and gifts, claims, confirmation, rejection, status form, activation, retry, webhook | customer, several staff and an at-least-once webhook act on one order; checks are made on loaded rows | delivered once, and only if paid; one name, one subscription; one transaction id, one invoice; one open draft |
| Provisioning and storage pool (`provisioning.py`, `storage_pool_ledger.py`) | `platform_jobs`, environments, host | run a job step by step, reuse an environment, fail, retry, check the pool | enqueued before commit; failure overwrites the order; worker and inline runs; the pool is checked without a lock | one environment per subscription; nothing for an order that is not paid; nothing terminated is rebuilt; no more allocated than the pool |
| Bandwidth (`bandwidth_accounting.py`, `bandwidth_governance.py`, `bandwidth_enforcement.py`) | a cycle file per environment, a position in the log, block files, what nginx has loaded | tick, grant, plan change | no file is locked, and an await lies between load and save; logs rotate; workers die; reloads fail | traffic is counted once; a block is on record; an exhausted site is blocked, and is released again |
| Backups (`backups.py`, `workers/tasks_platform.py`) | rows, local and off-site archives, the site | queue, make, upload, prune, delete, restore, daily tick | files change at once, rows at the commit; tasks are sent before their row exists | what is called a success can be restored; pruning keeps enough; one automatic backup a day; failures are recorded |
| AI credits (`credits.py`, `routers/v1/customers.py`) | wallet row, operations | start, settle, refund, confirm, complete, top up | a chat holds the wallet row while the model answers, and others write what they loaded before | the balance never goes negative; bought is left or used; used is what operations cost |
| Coupons (`coupons.py`) | `usage_count`, redemptions | validate, record | the count is computed from the row loaded when the coupon was checked | never used more often than allowed, in all and per customer |
| Hostnames (`student_hostname.py`, `staff.py`) | `orders.domain_name`, `customer_domains` | allocate, claim, rename; staff enter addresses | an address is reserved by nothing but the order that carries it, and staff bypass lock and check | no two customers hold one address |
| Authentication (`services/auth*.py`, `phone_otp.py`, `password_reset.py`) | challenges, sessions | issue, attempt, consume | attempts and expiry under concurrency | a code is used at most once |
| Abuse control, cron and git deployments, resource governance | counters and host state | periodic sweeps | restarts, escalation racing restore | see the plan |
| Web hosting services, system accounts, provider adapters, monitoring, notifications, frontend | files, processes, external systems | I/O | partial failure of commands | not modelled, see section 8 |

Components interact in four ways: they share rows of one Postgres database,
each request or task in a session of its own; they call each other within a
session (`OrderService` calls billing, coupons, hostnames and provisioning);
they hand jobs over through Redis; and the worker's tickers enqueue the
periodic sweeps.

### Sessions

Sessions are where most of the hazards come from. A
SQLAlchemy session keeps the rows it has loaded and writes, at flush, the columns
it changed; the database is READ COMMITTED; there are no version columns. A
handler is therefore at least two steps: **load**, then **commit**, which merges its
changed columns into whatever is committed by then. Between the two any other
handler may commit. How much of the rest of Postgres a module needs differs:

- `SubscriptionLifecycle` and `OrderPayments` have load and commit only
  (`MergeRow`, `Column`): their services write shortly before they commit and
  lock nothing before they read.
- `Provisioning` and `AiCredits` flush early and then work for a long time, so
  the row locks that an UPDATE takes decide who waits for whom: a writer waits, and
  then writes what it had loaded before. `Provisioning` also has unique indexes
  and the deadlock Postgres resolves by failing one of two transactions.
- `Checkout` has the one explicit lock, the advisory lock of
  `student_hostname.py`, and the row lock that the coupon's UPDATE takes.
- `Backups` keeps the row a task makes locked; archives change at once and are
  not undone by a rollback. `Bandwidth` has files only and no lock at all.

Several properties cannot hold of all interleavings: two transactions that race lose
a write. Each such module has history variables that say exactly when that
happened (`raced`, `reopened`, `gaps`, `spoiled`, `crossed`, `loose`,
`together`, `unbilled`), and its properties are about everything else. They still range over
every interleaving: they say that the handlers are correct up to the named ways, that
there is no other way, and that each guard is needed. Section 4 and
`PROJECT.json`'s hazards say what the named ways cost.

## 2. Modules

| Module | What it is |
|---|---|
| `SubscriptionLifecycle` | one or more subscriptions with their environments, the calendar, sweeps and requests |
| `WorkerQueue` | Redis list, worker process, loops, retries, faults |
| `TaskDelivery` | what the platform expects of a background task; `WorkerQueue` implements it |
| `OrderPayments` | the orders of one customer and what is delivered for them |
| `Provisioning` | jobs, the runs that execute them, environments and the storage pool |
| `Bandwidth` | log, cycles, blocks; ticks against grants and plan changes |
| `Backups` | the backups of one environment, their archives, tasks and restores |
| `AiCredits` | the wallet of one customer under concurrent requests |
| `Checkout` | what the checkouts of several customers share: addresses and a coupon |
| `Sums` | the sum of a function's values, as `Provisioning`, `Bandwidth` and `AiCredits` use it |
| `...Proofs` | the theorems of `SubscriptionLifecycle`, `WorkerQueue`, `OrderPayments`, `Provisioning`, `Bandwidth`, `Backups`, `AiCredits`, `Checkout` |
| `MC...` | the sets, owners and symmetries that TLC is given |

Operators whose comment begins with "Slip" are plausible bugs in the definition
that follows them. They are not used by the specifications: `PROJECT.json`
names, for every checked property, the slip that breaks it.

### SubscriptionLifecycle

`sub` and `env` are the committed rows, `sweep` and `req` what the transactions
in progress have loaded, `day` the calendar. `TickBegin` is the select at the
top of `tick()`, `TickSub` the read of one subscription's environments and
`TickCommit` the commit of the worker task (`tasks_platform.py:270`); `TickRow` and
`TickEnv` are what the loop body computes: lapse into grace (or the free
automatic renewal when no Paystack key is set), end of grace, end of
retention. A request is `Load` and then one of `Renew`, `Upgrade`,
`SetAutoRenew`, `Suspend`, `Restore`, `Terminate`; `Abort` is an exception, an
early return or a dead process.

`NextDay` moves the calendar by a day. The start of grace is a comparison of days in
the code (`billing.py:317`); the ends of grace and of retention are comparisons of
timestamps (377, 384), set at the hour of an earlier sweep or payment. The hours are abstracted to what
decides: on the day of a deadline a sweep runs before it or after it (`Hours`,
`Reached`), either of which may be the case. Hours of different sweeps are not
related to each other, which only adds behaviours.

`raced` collects the subscriptions that some transaction wrote although a row it
had loaded had been changed since; the invariants are about all others.

### WorkerQueue

`queue` is the list, `status` the keys `mark_completed` and `mark_failed` set,
`loop` what each `_worker_loop` is doing, `timers` the coroutines in
`_requeue_after`. A failing Redis call ("blip") may or may not have reached the
server, and the module has both outcomes of each. `Crash` kills the process in any state; a task being
executed has then taken effect or has not. `Start` is the container restart
(`docker-compose.prod.yml:56`). `lost` and `excused` record which fault took a
task away, or made somebody believe it had not run: properties blame every
loss and every repetition on one.

`ImplementsDelivery` maps this state to `TaskDelivery` with `Promise`: a task
is owed while a copy of it exists, done when it has taken effect, given up
when all attempts failed, lost when a fault took it.

### OrderPayments

`order` are the rows, `subs[o][n]` counts subscriptions created for an order
under a name, `applied[o]` how often a renewal or upgrade was applied, `req`
what each call in progress has loaded. One action per call of `OrderService`,
and `SetStatus` for the payment-status form of `platform_admin.py`. A check made
by the database rather than the session, the unique name of a
`customer_domains` row, is a guard of the commit (`NewSubscription`). An order
without a name has no domain row, so nothing but the order's status guards it.

`CreateFree` is what delivers in the transaction that creates the order: a checkout of
total 0, an operator's grant (`provision_for_customer()`), and a walk-in of a free
plan, which `create_walk_in_order()` sends to billing as "submitted" after
`create_order()` has delivered it (`orders.py:863`), although its docstring
says "do not provision yet". `ProvisionFree` is the grant of a free plan, which delivers
twice (232-240 and 894).

`raced` is as above; `reopened` collects the orders that a call took out of
paid, failed or cancelled (a late claim, the status form, the walk-in of a free plan),
or paid while they were paid (a second confirmation, the grant of a free plan). `DeliveredOnce`, `DeliveredIsPaid` and `UnpaidInvoiceReplaced`
are about orders in neither, `TxnUsedOnce` about those not raced on,
`NameServedOnce` about all.

A job handed to a worker (rather than run inline) expires the order in the
session, and the next attribute read, `orders.py:920`, raises in an async
session: the call rolls back. The module therefore has one outcome
for it, no commit; `Provisioning` follows the message.

### Provisioning

`order`, `sub`, `env` and `job` are committed rows, `queue` the messages, `run`
the sessions; `run[r].w` is what run `r` has written and not committed. `Verify`,
`Activate` and `RetryProvision` are the three calls that start a run,
`Take` a worker that takes a message. A run then goes through `Open...` (the
request's rows are flushed, the job is running), `Find` (the environment of the
subscription is looked up), `Gate` (`assert_can_allocate()`), `Build`, `Complete` and
`Commit`; `HostFails` is any failure of a step on the host, `Fail` what
`_fail_job()` writes, `Deadlock` Postgres' choice of a victim, `Die` a dead
process. `WaitsFor` is the whole lock graph. `SyncCommit` is the commit that the
inventory of the host makes in the middle of a request. `Suspend`, `Restore` and
`Terminate` change environments meanwhile, as in `SubscriptionLifecycle`, and
`ChangePlan` (`billing.py:165-229`) sets the limits of an order's environments to
those of another plan: `grown` are the environments that count for `More[o]` above
the size ordered. A run may write an environment that it loaded before (`large`).

The message of a verified payment is sent before the commit, which then never
comes: `OpenTask` finds no job, makes an ephemeral one, fails and is
retried (`orphans`). `gaps` are the ways things go wrong: `race`, two runs
passed the pool's check side by side; `flip`, a failed environment, which the
pool does not count, was suspended or restored; `leftover`, a run the pool
refused left its environment behind as "provisioning"; `upgrade`, a change of plan raised what an
environment counts for without asking the pool (`billing.py:229`); `revival`, a run wrote over
an environment that was terminated since it was looked up.

### Bandwidth

`cycle` is the JSON file per environment, `unread` the log from the saved position
on, `conf` the block files, `loaded` what nginx serves, `tick` and `req` the
sessions: ticks in the worker, requests in the API process. A tick reads the log to its
end and saves the position (`Ingest`), or fails on the way and saves none
(`IngestFails`), then, per environment, loads or starts the cycle (`LoadRow`), awaits the
host names, writes or removes the block (`Judge`) and writes the cycle
(`SaveRow`); `EndTick` reloads nginx if anything came or went. Grants and plan
changes load the same file (`LoadGrant`, `LoadPlan`), remove the block
(`Clear`), reload nginx (`Reload`) and then write it (`Save`); any step of a tick may come
between any two of these. `Die` and `Drop` are a dead worker and a restarted API.

`due` is a history variable: what was logged since the cycle began. `gaps` has
"usage" once a log rotated before it was read or was read twice, traffic of a
suspended site was skipped, a process died or a save overwrote another; "block" once a
cycle rolled under a block, a process died, a save overwrote another, or a tick put a
block back in the time between a request's (or another tick's) removing it and writing
that down. In this last case the block stays with no record of it.

### Backups

`rows` are committed, `local` and `remote` the archives, `site` the document
root, `queue` the tasks, `act` what each worker or request is doing. `RunBackup`
is `run_backup()` up to its commit: the archive, of the whole site or without the files
that could not be copied (`Copied`, `backups.py:536` and `615`), upload, the local
archive unlinked, old backups pruned with their archives. `QueueBackup`, `BackupInline` and
`DailyRefused` are the three outcomes of `queue_backup()`, by a customer or by the
daily tick; `BackupEnvironment`, `RunRestore` and `TaskFails` what a worker does with
a message; `Commit`, `Fail` and `Die` how a transaction ends. A restore empties the
document root first (`RunRestore`) and fills it later (`Fill`).

`spoiled` collects backups known to have no good archive (made with files skipped, or of
a site that a restore had torn, damaged in an upload, dropped by a transaction that then failed);
`crossed` says which of daily ticks, prunes and deletions overlapped.

### AiCredits

`account` and `op` are the committed rows of the wallet and its operations, `call[c].mine` and `row` the copies of a
request. `StartOperation`, `GrantCredits`, `GetOp` and `AssertCredits` load,
the `Flush...` actions and `CompleteOperation` write and take the row locks
(`MayWrite`), `SettleChatUsage` and `RefundStream` change the flushed rows,
`Commit`, `CutShort` (a stream whose session ends before it is settled) and
`Abort` end the transaction. An UPDATE writes the columns the session changed, so
a charge and a top-up that overlap do not simply lose one of the two: `gaps` has
"stale" if a call wrote over another, "topup" if one of them was a top-up,
"twice" if an operation was confirmed twice. `unbilled` are operations completed
without a confirmation, and so without a charge.

### Checkout

`order`, `served` (the `customer_domains` rows of platform addresses), `coupon` and
`redeemed` are tables, `call` the checkouts and renamings in progress: `Begin`
(plan checks, unpaid invoices cancelled), `Allocate` (advisory lock on the
surname, first free address), `Validate`, `Insert` (the coupon's row lock),
`Commit`. `Holds` is the condition `_is_taken()` puts on orders: paid, or unpaid
and less than 30 days old, and not dropped. The calls that pay, claim, reject and
activate orders are single steps here (`Put`): their races are the subject of
`OrderPayments`. A call that loaded an order before a checkout cancelled it
shows as one that takes a cancelled order. `Place` is a renewal, upgrade, credits or
theme order: it carries no address, until a renaming gives it one.

Customers rename an environment within `Allocate`'s lock (`Rename`). Staff enter any
address (`Entered`), which nothing allocates, locks or looks up among the orders: where
they confirm or activate an order (`Confirm`, `Activate`), for an order (`EnterName`,
`update_order_domain()`) and for an environment (`RenameByStaff`, the staff route
`platform_admin.py:976`). `Follow` is what a renaming does, by either: the domain row
moves, and with it all the customer's orders of the old name or of none
(`staff.py:938-946`). A staff renaming that overlaps a renaming in progress by the same
customer, and would be computed from the same old name, is left out (`Renaming`).

`loose` collects orders that came to hold a name again without allocating it
(late payment, a claim on a closed order, activation after a failure), or that staff's
entries gave one to; `together`
pairs of customers whose checkouts checked the coupon before either had
committed. The lock's key is the surname asked for, and "mensah2" is both Mensah's second
address and the first one of somebody called Mensah2: those two hold different locks, so
`HostnameHeldOnce` is about addresses that are tried under one lock (`OneLock`).

## 3. Runs

| Run | Configuration | Shows |
|---|---|---|
| `SubscriptionLifecycle` | one subscription, one sweep, one request at a time, days 0-4, sweeps before or after each deadline's hour, each session open past at most one midnight | type invariant, three invariants, three action properties |
| `SubscriptionDailySweep` | as above, with a completed sweep each day, days 0-5 | overdue service is bounded |
| `ReleasedThoughRenewed` | a sweep and a request | violation: a renewed subscription is terminated |
| `WorkerQueue` | three tasks, one unknown; two loops; two attempts; one blip; one stop or crash | safety, liveness, refinement of `TaskDelivery` |
| `OrderDelivery` | two hosting orders (paid for, free, walk-in or granted), a renewal and an upgrade, two names, two concurrent calls, four commits | delivery, names, transaction ids, drafts |
| `Provisioning` | a small and a large order that do not fit the pool together, an upgrade of the large one, two sessions, two attempts, two jobs of the small order, one fault | environments, pool, unpaid orders |
| `Bandwidth` | one environment on a plan with or without a limit, a tick and a request, two responses or failed reads, two periods, one fault | exact metering, blocks on record; liveness: the exhausted are blocked |
| `BlockOutlivesCycle` | as `Bandwidth`, without requests and faults | violation: a block survives the cycle that caused it |
| `Backups` | three backups, keep one, two sessions, two days, one restore, deletion or termination, one fault | restorable, retained, daily |
| `BackupFailureForgotten` | two backups, one session | violation: a failed backup stays queued |
| `AiCredits` | three operations, two calls, two credits, one top-up of two, chats of one or two credits | conservation, recorded charges |
| `Checkout` | two customers, one with two checkouts or with a checkout and a renewal, two calls at a time, staff who may enter one address for one order, two addresses, two surnames one of which is the other's second address; the coupon allows two uses and one per customer, or one and two | addresses, coupon limits |

Bounds. *Subscriptions:* `MaxDay` covers a whole life under the short periods
used (term 1, grace 1, retention 2), with a renewal in the middle; on the day of a
deadline a sweep may run before or after its hour, and on other days the hour decides nothing, so
longer periods add days in which nothing new happens.
`SessionDays` lets a session see midnight. One sweep and one request already
give every race of two transactions. `SubscriptionDailySweep` has a constraint
(`NotYetRaced`) that stops exploring once a stale write happened, where the
property says nothing. The bound it checks, the grace period and two days, is tight: the lapse is
seen on the day after the expiry, and the sweep of the day on which grace ends may run before its hour. *Orders:* `MaxCalls` 4 is create, claim, confirm,
activate, the longest regular life of an order. *Queue:* two attempts are the
first and the last one; one blip and one stop can each fall on any step.
*Provisioning:* the second job of the small order is what a retry inserts; a
pool of two fits the large plan alone or the small one twice, so that the gate
decides; two sessions are one race, on the order, the environment or the pool; an upgrade of the
large plan exceeds the pool by itself.
*Bandwidth:* two responses pass from unused to exhausted to over the limit; two
periods and one grant make the cycle end, and the flag clear, at every step of a tick.
*Backups:* three rows are the one that is kept, the one above the limit and the one
being made; two overlapping restores need `MaxAsked` 2, which was checked with two
backups and is too large with three. Backups are numbers in the order of `created_at`, by
which `_prune_old` decides. *AiCredits:* the wallet runs out after two
reserves, and a chat can cost more than its reserve and more than is left.
*Checkout:* the third checkout finds one address or one use left; only one order is
renamed, by its customer or by staff, which is one rename between two checkouts. The address
staff may enter for it is the first that the other customer's checkout tries. The
third checkout and the renewal are not explored together, and the renewal only with the
coupon of one use (`OneMore`). Section 5 lists the
properties that are proved for all values of these numbers.

Deadlock is not checked: the calendar, the number of calls, messages, traffic
and orders end, and then the system may stop.

Fairness is assumed in two modules. `WorkerQueue`: the event loop keeps running its
coroutines, so a loop that can pop, time out, execute or record eventually
does; a timer whose delay is over fires; the caller runs its inline attempt; the
process exits once its loops have stopped, and the container is restarted.
`Bandwidth`: a tick that can take its next step does, and a request that has loaded
a cycle clears, reloads and saves it, or is dropped in one of the bounded restarts. The worker's ticker sends a tick every five minutes, whatever
became of the last one, and `EveryTaskSettles` of the queue is that a message sent
is executed, unless a fault took it; a tick that dies is one of the bounded faults.
Nothing makes a blip, stop, crash, response or new period happen, and a call that
can succeed is not bound to fail for ever. `tick()` of billing has no liveness property: instead
`SubscriptionDailySweep` states its deadline as an invariant, given that each
day sees a sweep completed (the hourly ticker, `runner.py:136`).

## 4. Findings

1. `ReleasedThoughRenewed`: `tick()` acts on rows selected at its start
   (`billing.py:301`). A renewal that commits meanwhile is followed by termination, with the notice
   that the subscription was not renewed. The same cause, a row computed from a
   stale load, makes two renewals confirmed at once extend the subscription once
   (`billing.py:110`), which `PaidTermsApplied` excepts as `raced`.
2. `BlockOutlivesCycle`: a new cycle starts without the flag and the event of the old
   one (`bandwidth_accounting.py:171`), so that the tick that rolls the cycle, and every later
   one, has no reason to take the block away. The run has no request: a tick blocks, the
   period ends, a tick rolls the cycle, and the block stays; the page shown to visitors promises it for the next cycle. A grant or a change
   of plan removes it.
3. `BackupFailureForgotten`: the handler that records a failed backup
   (`tasks_platform.py:331`) uses a class it never imports, and swallows the
   exception. The row stays queued, and counts as the backup of the day.

The hazards in `PROJECT.json` list what else is excepted by a history variable: claims
on cancelled drafts, double confirmation, walk-ins and grants of free plans, the coupon's
count, the pool's race and upgrades past the pool, lost top-ups, overwritten cycles, blocks
put back while they are cleared, backups with files skipped, addresses entered by staff.
No property covers what it excepts; the hazards say so.

## 5. Proofs

All proofs hold for any number of rows, workers, requests, calls and names, any
settings, and any bound. The assumptions are those of the modules: the
settings are numbers, and functions like `SubOf`, `KindOf` and `Owner` are functions
to the sets they should be. Two are more than typing. No transaction of
`SubscriptionLifecycle` stays open for a whole billing term (`SessionDays <=
TermDays`; a term is one month or more); only `OverdueIsBounded` uses it. And where a
module sums over a set, the set is finite.

Three invariants are about sums: what is committed of the pool, the credits the
operations cost, the traffic the ticks have in hand. What a fold computes cannot be
proved without induction over sets. `Sums` therefore defines the sum of natural
numbers as the number of the units it is made of, a set of pairs, and the library's
theorems about cardinalities do the rest: the lemma `TotalChange`, in each of
the three modules of proofs, says that a sum changes by what one of its terms changes.

**SubscriptionLifecycleProofs.** `TypeCorrect`; then the invariants
`ServiceAgrees`, `GraceIsDated`, `PaidTermsKept` and the action properties
`DestroysOnlyUnpaid`, `GraceIsGranted`, `TerminationIsFinal`. The invariants are not
inductive: what a transaction in progress has loaded has to be constrained as well
(`SessionOK`: its clock is not ahead, it has loaded the rows it says). The key
lemmas, `SweepIsSerial` and `RequestIsSerial`, say that a
subscription outside `raced'` is either not written by the step or written as
if the handler had run alone on the committed rows. Each handler is then
looked at alone. `OverdueIsBounded`, the bound on unpaid service at whatever hour deadlines fall, is the hardest. Under
the daily sweep it needs what the last day's sweep left behind (`SeenBy`: paid up to that
day, or in grace with a deadline ahead) to survive sessions that began on an earlier day
or loaded older rows. `Young` gives the first: a term granted by a session still open
reaches today. `Passed` gives the second: where a sweep of today has loaded a row
that it will leave alone, whoever has written the row since has left it as good as
the sweep would have.

**OrderPaymentsProofs.** `TypeCorrect`, `NamesServedOnce`,
`DeliveredAtMostOnce`, `DeliveriesArePaid`, `TxnsUsedOnce`,
`UnpaidInvoicesReplaced`. The same idea (`FlushIsSerial`), with two
strengthenings: `LoadedAsCalled`, only a checkout has loaded an order that does
not exist; and `DeliveredIsServed`, what was delivered is paid *and active*, since
it is the active status that stops the calls that deliver. `OrderlyStep` says
what one step may do to an order no call raced on or reopened: nothing
(`Keeps`), or one delivery for an order that was not served (`Delivers`); keep its
transaction id or take one that no other order has (`TxnKept`); become unpaid
only as the only one (`UnpaidKept`). `NamesServedOnce` needs none of this: the
database's unique name is enough.

**AiCreditsProofs.** `TypeCorrect` is more than typing here: balances are natural
numbers, so it says that no charge or refund makes one negative. That rests on
`Covered`, what a call has asserted of its own copy before it charges. `CreditsConserved`
rests on the row locks: two calls that have written the wallet do not exist at once
(`LocksHold`), and what a call found when it took the lock is what it still finds
when it commits; the columns it does not write then agree with those it does, unless
one of two overlapping calls was a top-up. `EveryChargeIsRecorded`, that the wallet's
use is the sum of what the operations cost, needs each call's copies to fit the rows
(`RecordInv`): unless an update was lost, the copy of the wallet that a call is about to
save is the committed one plus the cost it puts on its operation (`WalletFits`); two
calls never settle one operation at once (`Apart`, from the row lock on it); and a call
that confirms finds the operation still confirmable (`RowFits`).

**CheckoutProofs.** `TypeCorrect`, `HostnamesHeldOnce`, `CouponsWithinLimit`,
`CustomersWithinLimit`. An order *keeps* an address if it holds it or has its domain
row. The strengthening `AllocatedIsFree` says that what a call has allocated is kept by
no other customer for as long as the call has its lock, and `CallsOK` that no two calls
that try one address have their locks at once. The lemmas `NoGain` and `OwnGain` then
say that no step but the end of such a call, or one that makes the order `loose`, lets an order keep what it did not
keep. A renaming is the exception that `FollowIs` and `MovesIs` take care of: orders of no name
get the customer's own, and staff's renaming makes all that follow `loose`. For the coupon, `CouponOK` counts redemptions and calls that hold a checked
coupon; while `together` is empty there is at most one of those, and the count it
loaded is the current one.

**ProvisioningProofs.** `TypeCorrect`, `UnpaidGetsNothing`, `OneEnvironmentEach`,
`NeverRebuilds`, `PoolIsGated`. The invariant `Inv` says of each session how what it has
written relates to the rows it has not committed yet (`RunOK`); that unique keys and row
locks keep two sessions from inserting one subscription or writing one
environment (`Apart`); and that every message names a job that exists or has been
rolled back. `One` adds what `OneEnvironmentEach` needs: at most one environment of an
order is live, and what a session has written is that one, or is inserted where
none is, until a run writes over a terminated environment ("revival").
`FaultOrFresh` adds what `NeverRebuilds` needs: as long as there is no fault, a
verified payment ends in a message for an order that is still unpaid, so that no
worker ever builds for it, and a run of staff inserts the subscription it
provisions. `Pooled` adds what `PoolIsGated` needs. A session is *granted* from its
passing the gate until it has committed or given up the environment it may then build;
as long as none of the `PoolGaps` has happened, at most one is, and the pool has room for its plan on top of
all that is committed (`HasRoom`). A run adds up the pool with its own write in it, so
what it compares is no less than what is committed (`SeenIsMore`); and a run that never
got through the gate has written no more than the word "provisioning", to an environment
that exists, which is the gap "leftover" when its failure commits it (`MadeOK`). What an
environment counts for above its plan (`Extra`) only ever grows by an upgrade, a gap of its own.

**BandwidthProofs.** `TypeCorrect`, `BlocksRemembered` and `MeteringIsExact`. The flag in a cycle is not
inductive, since a change of plan computes it anew from the events; `Recorded` says
that the event "reached" is in the cycle, or a tick that has written the block is about to
put it there; `EventKept` that a session between load and save changes everything of a
cycle but the events; and `Away` that, while a session is between taking a block away and
writing that down, the block is not there. For the meter, `Counted` says
that such a session has added exactly the tick's delta to what it loaded, or, as a grant or
change of plan, nothing; unless the save overwrites another, the tick's share of the sum
then goes into the cycle.

**BackupsProofs.** `TypeCorrect`, `BackupsAreRestorable`, `BackupsAreDaily`,
`BackupsAreRetained`. The lemmas say of each step that it is nobody's, the start of a
session, its end or a commit (`NobodyMoves`, `Starts`, `Stops`), and what it does to the
archives. `Tidy` says that rows, tasks and sessions agree: a backup has at most one
task, which waits only until it is made; what a session makes was not there or only
queued, and is nobody else's but for a deletion that has to wait for the lock on its
row; what it drops had been made. `Restorable` adds that what is about to be committed as a
success is whole, `Daily` that a day's automatic backup may be in a session. `Kept`, for the
number of backups, is the least obvious: a prune counts what is committed, and any
number of others may commit before it does. It says that of any group of sessions that
have made a backup, one counted so late that what it keeps leaves room for the whole
group (`Fits`), from which the bound of the limit plus one for each that can be at work
follows; and that the newest backups, as many as are to be kept, are dropped by none of
them (`Top`), whoever commits first.

**WorkerQueueProofs.** `TypeCorrect`, `CopiesAreSingle`, `EffectsHaveCauses`,
`OutcomesAreTrue`, and `ImplementsTaskDelivery`, the refinement. The first lemmas say
what a push, a pop, a turn of a loop and a timer do to the copies of one task
(`Queued`, `Held`, `Timed`). `TaskStep` then lists the few things that can happen to one
task in any action (`IsStepped`), all others being `Untouched`; only the end of the
process strikes several. The invariant has three parts: `Tidy`, there is never more than one
copy of a task, an unknown name is not retried, and loops that have stopped hold
nothing; `Account`, how often a task took effect plus what may still do so
(`Pending`) is at most one more than the faults that excuse it; `Outcome`, what the
recorded status implies. For the refinement, `PromiseStep` shows that each of those few
things is a step of `TaskDelivery` or a stutter.

Every invariant and action property that a passing run checks is also proved. Only
model-checked are the violations, whose counterexamples need no proof, and the two
liveness properties, `EveryTaskSettles` and `ExhaustedIsBlocked`: liveness under
fairness is out of the prover's reach.

## 6. Plan

Done: `SubscriptionLifecycle`, `WorkerQueue` refining `TaskDelivery`,
`OrderPayments`, `Provisioning` with the storage pool, `Bandwidth`, `Backups`, `AiCredits`,
`Checkout`. What remains, in order:

1. Domain and theme orders in `OrderPayments`, and a run with two environments on one
   subscription.
2. Abuse escalation against `restore()`: the reason of a suspension as state.
3. Composition of orders and subscriptions: what is paid is served, including
   renewals of terminated subscriptions and deletion of a customer.
4. One-time codes (attempts, expiry, single use), cron slots, the dump of the
   platform's own database.

## 7. How to run

    tlc -workers 2 -config SubscriptionLifecycle.cfg MCSubscriptionLifecycle
    tlapm SubscriptionLifecycleProofs.tla

`PROJECT.json` names the module of each configuration. A run takes up to three
minutes, a proof module one to five.

## 8. Not modelled, and why

Within the modelled components: e-mails, audit rows and side effects on the
host (best effort, failures swallowed); the status "expired", which nothing
sets; deletion of a customer (`staff.py`); the loss of Redis' data; panel theme
and bare domain orders; domain rows
freed by termination. An environment whose row in the host's domain panel an operator has
deleted (`services/hosting/domains.py:274`; the foreign key is set to NULL) is not
taken up again by a retry: `provisioning.py:632` falls through to 673 and a second
environment is inserted for the subscription. The panel is not part of `Provisioning`, so
`OneEnvironment` is about environments whose panel row is left alone. In `OrderPayments` a renewal stands for an AI-credits order, and the payment-status
form, which accepts any text, is given the statuses the code uses. What the steps of a
provisioning job do on the host is one step that may fail. Traffic is counted in
units and percentages are exact. The names of archives are taken to differ. What a
coupon takes off, its dates and plans and its editing by staff are left out, and so
are the addresses generated for customers who ask for none (`provisioning.py:189-200`, and
`orders.py:503-508` when staff activate an order that has none), two renamings of one
customer's environment at once, of which one is by staff, and the writing of zones.

Components left out altogether: one-time codes and deletion are planned (section 6).
The others are by far the larger part of the code - routers that query and format,
web server, DNS, certificate and database administration, containers, system accounts,
metrics, the panel of an external provider, notifications, the frontend - and have
little state of their own: they run commands, whose success or failure is what
the modules above see of them. `PROJECT.json` gives the reason for each.
