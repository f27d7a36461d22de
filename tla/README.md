# Verification of enova-video

TLA+ models of enova-video: the parts that hold money and jobs, and the ones
around them that share state between concurrent actors.  With them go the TLC
configurations that check them on small instances, and proofs of the most
important theorems for every value of the constants.  Paths below are relative
to the repository.

## 1. The system

enova-video is a monorepo: a NestJS API (`apps/api`), a BullMQ worker
(`apps/worker`), a Next.js client (`apps/web`) and packages with the domain
logic.  PostgreSQL holds the truth, Redis holds queue, leases and locks.  A user
buys credits, asks for an image or a video, and pays credits for the result.

    client --> API --(tx: job + reservation + outbox)--> PostgreSQL
                |                                           ^
    dispatcher (API, 5 s) -- queue.add --> BullMQ --> worker slots -- provider
                |                            ^           |
    reconciler (API, 5 s)                    +-- poll ---+

### Components

| component | state | operations | what is hard | what makes it correct |
|---|---|---|---|---|
| Credit wallet (`packages/billing/src/wallet.ts`) | `wallets`, `credit_reservations`, `wallet_ledger` rows | reserve, capture, release, recharge, refund, adjust, repair | concurrent transactions, retries with the same or another key, lock order | pool = what reservations hold; balance = sum of the ledger; a job pays once, at most what it held |
| Generation API (`apps/api/src/generations`, `admin/generations.admin.service.ts`) | `generation_jobs`, `generation_dispatch_outbox` | create, cancel, forceFail, replayOutbox | reads before writes, a cancel racing the worker | credits follow the job; ended jobs stay ended |
| Outbox dispatcher and reconciler (`outbox.dispatcher.ts`) | outbox row | dispatchBatch, reconcileOrphanJobs | crash between `queue.add` and commit, stale list of orphans, lost queue entries | a queued job is dispatched; a cancelled one is not |
| Worker pipeline (`apps/worker/src/generation`, `main.ts`) | job row, provider task id, BullMQ tasks | execute, poll, cancel, failed handler | two workers on one job, crashes at every await, late handlers, retries | delivered exactly when charged; one provider id; a second chain of polls only after a fault; every job ends |
| Attempts log (`attempts.repo.ts`) | `generation_attempts` | start, mark | cancelled calls stay RUNNING | diagnostic only |
| Payment (`apps/api/src/payment`, `packages/payment`) | `orders`, `payment_transactions` | create, notify, query, close, simulate | duplicated and late notifications, close racing a payment | one credit per paid order; a paid order is never lost |
| Subscription fulfilment (`subscription-fulfillment.service.ts`) | `subscriptions`, order's fulfilment | fulfill, reconcile | failure after payment, no caller of the reconciliation | granted once, eventually |
| Manual refunds (`orders.admin.service.ts`) | `manual_refund_records` | record, retry revocation, close, retry fulfilment | stale read before the retry, a different key | revoked once; nothing granted after a refund |
| Entitlements (`entitlement.ts`) | `subscriptions`, counts of jobs | authorizeJob | check and insert in two transactions | a limit is passed only by requests that overlap |
| Coupons, pricing (`coupon.ts`, `pricing-engine.ts`) | versions, rules, quotes, redemptions | quote, redeem | rule precedence, limits of redemption | price of the rule that matches best |
| Provider credentials (`redis-credential-manager.ts`) | Redis leases, credential status | acquire, markSuccess, markFailure | lease expiry, cooldown, a late success | one holder; a cooled-down credential comes back |
| Worker settings and resources (`worker-settings.ts`, `worker-resources.ts`) | cache entries, built clients | get, invalidate, rebuild | a read that ends after an invalidation, overlapping rebuilds | the last configuration wins |
| Resource cleanup (`resource-cleanup.service.ts`) | Redis lock, asset rows, objects | lock, renew, delete, release | lock expiry, one step of several failing | one cleaner; row and object agree |
| System update (`admin/system-update`) | Redis lock, operation record | update, rollback | lock freed while the deploy goes on | one deploy at a time |
| Accounts (`apps/api/src/auth`) | users, sessions, tokens | register, login, reset, verify | token used twice, quota at registration | single use; quota holds |
| Billing reconciliation, analytics, settings, RBAC, rate limits, assets, uploads, mail, migrator, web, SDK | rows of their own | reads, single-row writes, I/O | little concurrency | see `PROJECT.json` |

`PROJECT.json` lists each with its sources and status, and the hazards of the
code line by line with the properties that watch them.

### How the modelled parts interact

The wallet has no life of its own: its calls run inside the transactions of
`create`, `cancel`, `forceFail`, `finalizeSuccess`, `fail`, `cancel` of the
worker, and of the failed handler.  `Wallet` shows that any sequence of calls is
safe, `WalletTx` that concurrent transactions behave like a sequence, and
`Generation`, which has a reservation of one job only, that the callers make
the right calls.  Payments, fulfilments and refunds are the other callers of the
wallet: `Payment` EXTENDS `Wallet` and its steps move the wallet's own rows with
the wallet's own operators, while jobs reserve and release next to them.

The modules of `MCPlatform` meet the others at single points: a worker's call
to a provider (`Generation`'s `Call`, `Status`) runs under a lease of
`Credentials`; a request passes `Quota` and `Pricing` before `Generation`'s
`Create`; the storage that `Settings` rebuilds is the one `Cleanup` deletes
from, which `Cleanup` sees as a storage that is replaced at any time; `Coupon`
is the part of a checkout's transaction that precedes `Payment`'s `Insert`.

## 2. Modules

| module | models |
|---|---|
| `Sums` | sums over an index range, used by the wallet's properties |
| `CreditAccount` | the wallet's promise: funds, holds, and closing a hold once |
| `Wallet` | every writing transaction of `WalletGateway`, one step each |
| `WalletDrift` | the start in a wallet that an earlier version left drifted |
| `WalletTx` | the same transactions taken apart: row locks in the code's order, reads, commit, rollback, deadlock victims |
| `JobLifecycle` | the job's promise: submitted, started and ended once, delivered and paid for or given back |
| `Generation` | the life of one job: API, dispatcher, reconciler, administrator, BullMQ, workers and their faults |
| `Payment` | orders from checkout to manual refund, the payment channel, fulfilment, on the wallet of `Wallet` |
| `Coupon` | the redemption of a coupon inside the checkout's transaction |
| `Settings` | settings rows and their history, administrators, invalidations, the worker's cache and the rebuild of its resources |
| `Credentials` | provider credentials: leases in Redis, calls under them, marking, administrators |
| `SystemUpdate` | update.sh and rollback.sh, the operations of the API that start them, the files and containers they change |
| `Cleanup` | the worker's resource cleanup and its lock |
| `Quota` | concurrent and daily limits of a plan |
| `Accounts` | registrations and first set-ups |
| `Pricing` | which entry of the dynamic rules prices a request |
| `MCWallet`, `MCWalletTx`, `MCGeneration`, `MCPayment`, `MCCoupon`, `MCCredentials` | instances for TLC |
| `MCPlatform` | one instance of Settings, Credentials, SystemUpdate, Cleanup, Quota, Accounts and Pricing |
| `WalletProofs`, `WalletTxProofs`, `GenerationProofs`, `PaymentProofs`, `SettingsProofs`, `QuotaProofs`, `CleanupProofs` | theorems about the module of that name |
| `PlatformProofs` | theorems about Accounts, Pricing, Credentials and SystemUpdate |

**Wallet.**  `wallet`, `reservation` and `ledger` are the rows of one workspace;
actions carry the names of the methods.  A key is a pair (purpose, id), as
callers build it.  A call that returns early or throws changes nothing and is
no step.  `Commits` states the UNIQUE index and the CHECK constraints that would
abort a transaction.  `Math.max(0, ...)` of the code does not appear: `captured +
released <= reserved` is a constraint of the table, and the type invariant and
`ClosedHoldsNothing` show that the calls never come near it.  Amounts are
integers; the 32-bit width of the columns is not modelled (a statement that
overflows aborts its transaction).

**WalletTx.**  A transaction is a script of statements.  `SELECT ... FOR UPDATE`
waits for the lock and reads the committed row; the idempotency lookup reads the
committed ledger; `Commit` writes what was computed from the reads.
`release in handler` is the worker's failed handler, which takes reservation,
wallet and job in this order, while all other callers lock the job first.  Rows
of other jobs are not locked by anyone, so one job is enough for lock conflicts,
and `recharge` and `refund` stand for the callers that only need the wallet
(`adjustBalance` is in the module; it differs in having no lookup).  A transaction
may be rolled back at any time, so the victim of PostgreSQL's deadlock detector
is a rollback like another.  With two transactions TLC sees cycles of two; the
theorem covers cycles of any length.

**Generation.**  One job, its reservation (status, and whether captured), the
`PROCESS` outbox row, the BullMQ tasks (`process`, `cancel`, polls), worker
slots with a program counter, and requests in flight.  Steps are cut at every
await on another system: a crash, an error or another actor fits between any
two.  A database transaction is one step (`WalletTx` is the reason); the row lock
of the job makes those that end it exclude each other.  The provider's answers
are nondeterministic.  `asset` stands for the asset and the usage rows, both
written in `finalizeSuccess`'s transaction and unique per job.  Left out:
`generation_attempts`, cost events, progress, titles (nothing reads them to
decide); quotes and entitlement before `create`; commits whose outcome the
client does not learn.  BullMQ is external, modelled from how it is used: an id that is
present in any state is not added again, an active task nobody owns is put back
once and then failed, a finished task keeps its id.

**Payment.**  A request is cut at every await on the channel and between its
transactions; a transaction that locks the order is one step.  The channel is
external: it opens a trade when asked (its answer may be lost), is paid, and
repeats the notification until it is answered with 200.  The link to pay is in
the answer, so nobody pays an order whose checkout has not answered or failed.
`ref` is the class of `provider_ref`: the adapters of alipay and wechat return
the order's own id as a placeholder, the notification brings the trade's number.
The amounts of a refund are all the cents up to the order's.  `Spend` stands for
jobs, which decide whether enough credits are left to revoke.  Left out:
`queryPayment`, a trade number that another order already has, subscription
periods, the audit rows.  `Refs` and `Amounts` are the wallet's constants; that
what the orders bring to the wallet is among them is `WalletServesOrders`.
`creditsToRevoke` is a floor of a floating-point product, which may fall just
below a whole number: both results are possible.

**Coupon.**  The transaction of `createRecharge` and `createPlanOrder` up to
the order's insert, statement by statement, on one coupon.

**Settings.**  Administrators read versions and write under them; a group is
written as a whole.  The invalidations are a queue of keys that may lose
messages.  The worker caches the keys in `CachedKeys` for a time; secrets and
the storage's location go past the cache.  A rebuild reads its settings one by
one and swaps the holder at the end.

**Credentials.**  One step of time is the interval of renewal, a third of a
lease; a call that misses three renewals in a row has lost its lease, as in
the code, where nothing tells it.  `missed` and `edits` only count: `missed` is
reset by a renewal that finds the call's token, and stops at a whole lease.
A token is a random id in the code, so there are always enough of them
(`CredentialsAssumption`: one per call and disturbance).

**SystemUpdate.**  A run of a script is an operation of the API or an operator's
shell.  Every phase of a script is a step that may fail; the flock of lib.sh
excludes runs, the lock in Redis does not reach that far.

**Cleanup.**  `storage` of a run is the storage it fetched at the start of its
phase.  Two overlapping runs of one instance share a field of the class and are
excluded: the interval is six hours by default, and a run that lost its lock is not modelled
beside its own successor.

**Quota, Accounts.**  Checks and inserts with the locks between them.  Jobs and
accounts are what the checks count.  `overlap` of `Quota` is a history variable: the
most requests that ever were between check and insert at once.

**Pricing.**  A request says what it wants by a name, a size, dimensions, or
several of these; the module returns the entry that prices it.

**MCPlatform.**  No two of its components share a variable, so every property of
the composition is a property of one component.  `focus` is the component that
moves; the first step picks it.  The fairness of `Settings` is part of the
specification and asks nothing of behaviours in which another component moves,
as none of its fair actions is enabled before a setting changes.

Definitions named `X_<what is wrong>` are mistakes that a property must catch:
each property has one in `PROJECT.json`, `mutants`, and nothing else uses them.

## 3. Runs

| run | states | checks |
|---|---|---|
| `Wallet` | 227 389 | two jobs of 1 or 2 credits, balance 2, up to two rows of other kinds: invariants of the tables and refinement of `CreditAccount`; or, in a second workspace, a drifted wallet of an earlier version and a new job: only the repair changes the drift |
| `WalletTx` | 398 484 | two concurrent transactions, all calls on one job: atomicity, early return of repeats, deadlocks only with the failed handler |
| `Generation` | 1 988 869 | image or video, two workers, two polls, two attempts, two polls at most, one fault: credits, delivery, provider id, chains of polls against faults, refinement of `JobLifecycle` |
| `GenLive` | 341 288 | a video, one worker, one fault, fair scheduling: jobs end, queued jobs are recovered |
| `Payment` | 362 282 | two orders (a plan or a recharge over wechat, a recharge in the sandbox), two requests, one refund number, one fault: credits granted and revoked once, revenue is what was paid and references agree, who paid is settled |
| `Platform` | 612 210 | seven components, one moving: two administrators, a worker with a cache and one concurrent read; two credentials, two calls, three tokens; two operations and one shell on three versions; two cleaners, two assets, three storages; three requests on a limit of two; two set-ups and two registrations; three pictures and three clips |

The following runs find a disagreement between the code and what its comments
or documents say; `PROJECT.json`, `findings`, quotes both.

| run | shows |
|---|---|
| `QuotaRace` | two requests pass the check one after the other before either inserts its job, and the workspace is over its limit |
| `GenSubmit` | a crash between `submitVideo` and `persistProviderJob` makes the retry submit again |
| `PayClose` | a notification settles the order while `closePayment` waits for the channel; the close overwrites SUCCEEDED with FAILED |
| `CouponOrder` | the redemption is inserted before the order it refers to, so every checkout with a coupon is refused as "already redeemed" |
| `CredCooldown` | a credential in COOLDOWN is never selected again, although its cooldown ends and workers go on calling |
| `UpdRestore` | `rollback.sh --restore-db` stops all services, postgres included, before it calls psql in the postgres container |

**Known disagreements without a run.**  They were met while modelling and can be
reproduced on the modules named.

- `Wallet`: a release after a capture turns the status to RELEASED
  (`wallet.ts:351`), so a repeated capture throws, where `wallet.ts:182` says it
  is skipped.  The amounts stay right (`ClosedAmountsAreFinal`).
- `WalletTx`: capture and release lock the reservation before the wallet
  (`wallet.ts:209-219, 327-332`), ADR 0004 line 56 says the wallet comes first.
  `DeadlocksAreOfHandler` says which order keeps callers from deadlock instead:
  job, reservation, wallet, which the failed handler alone breaks.
- `Generation`: the reconciler acts on a list of QUEUED jobs and makes the outbox
  row of a job cancelled meanwhile PENDING again (`outbox.dispatcher.ts:161`
  says it does not); the worker skips such a job (`ImplementsLifecycle`).
- `Generation`: a job whose attempts and failed handler all met a database error
  stays QUEUED, since BullMQ keeps its failed id and ignores every re-add
  (`outbox.dispatcher.ts:194-198`).
- `Generation`: the worker moves RUNNING jobs to CANCELED and QUEUED ones to
  FAILED, which the table of `state.ts` does not have; nothing consults it.
- `Payment`: a fulfilment that failed is not reconciled: the comments at
  `payment.service.ts:459, 466` say it is, `reconcilePendingFulfillments` has no
  caller.
- `Payment`: a full refund recorded before the fulfilment does not stop it; the
  subscription it grants stays active (`orders.admin.service.ts:236` cancels only
  what exists).
- `Settings`: a rebuild may read a value from the cache that another reader
  stored after its invalidation; `worker-resources.ts:63` says the last
  configuration wins.  `StoredConfigurationWins` is therefore about the settings
  that are read past the cache.
- `SystemUpdate`: an update that succeeds replaces the api container that waits
  for it, so its operation stays "running"; an update killed after it wrote
  version.env is "already latest" when repeated (`update.sh:83-91`); a pull that
  fails has already overwritten the previous version (`update.sh:171`).
- `Cleanup`: `cleanupOrphanedAssets` looks for asset rows of failed and cancelled
  jobs, which the pipeline never writes.

**Bounds.**  The new workspace of `Wallet` uses two of the three jobs
(`TwoNewJobs`), the old one's third job is the first of today's version.  Two
jobs are enough for one job to take another's credits, and two
costs for a partial capture.  Two movements of the balance let a retry of one
meet the other.  Two transactions make every pair of calls race; the database's
locks are pairwise.  Two workers, two polls and a stalled task give two workers
on one job with a third task waiting.  `MaxPolls = 2` gives one poll that goes
on and one that hits the limit; `MaxAttempts = 2` one retry.  `MaxFaults` bounds
crashes, lost locks, errors and lost queue entries together.  `MaxDispatch = 1`
makes the row be superseded after one failed dispatch.  Two orders let a refund
number or a key of one meet the other, and let one order's revocation wait for
the other's credits; two requests are a race between any two calls, and a plan
of one credit beside recharges of two makes partial refunds round (`Amounts` and
`MCRefs` are the amounts and keys these orders use).  Two groups
of versions per setting (`MaxVersion = 2`) give a lost update; one cached and one
stored setting read by the rebuild give both of its paths.  Three tokens are two
calls and one token left behind; `Limits = {1}` makes every slot the last one.
Three versions give an update on top of a failed one.  The third storage of
`Cleanup` is again the first, and the second is an incomplete configuration.
Three requests on a limit of two are one more than the limit admits.  One
disturbance of `Credentials` is too few to let a live call's lease lapse, which
takes three missed renewals; `NoSlotIsLost` and `SlotsAreGivenFairly` cover it.  The cutoff
arguments are informal; the theorems do not depend on them.

**Deadlock** is not checked: a workspace may be idle and a finished job has
nothing left to do.  `JobsEnd`, `QueuedJobsAreRecovered`,
`PaidIsSettled`, `CacheConverges` and `StoredConfigurationWins` say what must
not stop.

**Fairness.**  `Wallet` and `WalletTx` assume none.  `Fairness` of `Generation`: the dispatcher's and the reconciler's intervals
go on (weak), a worker goes on with what it started (weak; provider calls have
timeouts), and a waiting or stalled task is taken by some worker when workers
become idle again and again (strong).  Users and administrators owe nothing,
faults are not fair, and `JobsEnd` makes no promise once a fault happened:
a RUNNING job whose poll is lost is not recovered by anyone.
`PaymentFairness`: a request that runs goes on (weak), and a notification that is
not answered with 200 is repeated until it is (strong: an idle handler of the
API is found again and again, not all the time).  Customers and administrators
owe nothing.  `SettingsFairness`: a request that has read goes on to write and
publish, messages that are not lost arrive, reads and rebuilds end, cached values
expire (all weak).  `CredentialsFairness`, used by `CredCooldown` only: workers
have calls to make, and time goes on.

## 4. Proofs

Every invariant, action property and refinement that a passing run checks is
also a theorem, for every value of the constants that satisfies the modules'
assumptions.  `PROJECT.json`, `theorems`, pairs them (`RepairAloneChangesDrift` is
about the property of `WalletDrift`, which `MCWallet` instantiates).  An assumption is a type,
a distinctness of names, or one of the two stated below where they are used.

**`WalletProofs`** (any number of jobs, any positive costs and amounts:
`WalletAssumption`).  It opens with what `SumTo` yields, proved by writing it as a
recursive function: its partial sums exist; adding, changing and bounding a term.

- The types are inductive alone (`WalletTypes`).
- `PoolMatchesReservations`: a release subtracts what the *row* says, so the
  proof needs that a row's parts never exceed its whole, which is part of
  `TypeInv`; then each action changes the pool and one term of the sum by the
  same amount.  `HeldCreditsAreReleasable` follows, since no term exceeds the sum.
- `LedgerExplainsBalance` adds the amount of the appended rows;
  `LedgerCanBeReplayed` needs that a capture's second row repeats the images of
  the first.  `JobsPayWhatTheyCaptured` weighs the rows of one job: each call on
  a reservation adds to the ledger what it adds to the row.
- `RepairAloneChangesDrift` holds in wallets that have drifted too, so it does
  not use the invariant.
- `WalletImplementsAccount`: a step of the wallet changes one reservation in one
  of three ways (it opens, closes, or only relabels a closed one) or moves
  the balance alone; these are `Hold`, `Close`, a stutter and `Fund`.

**`WalletTxProofs`** (any set of transactions and calls: `TxAssumption`).
`TransactionsRefineWallet` says that transactions which interleave at every lock
and read commit what the one-step calls of `Wallet` do.  The invariant `TxAll`
has the wallet's types, its pool and keys, and `TxInv`: of each transaction that
the rest of its script is a suffix of its call's script (`Planned`), that what
it locked and read is still what the tables say (`Fresh`), and that a locked row
belongs to a running transaction (`LocksOK`).  `Fresh` is the point: it holds
because a transaction reads a row only under its lock, and the lookup of the key
only under the lock of the wallet.  Without the lock, or with the lookup before
it, `Commit` would not be a step of `Wallet`, and those are the mutants of the
run.  `RepeatedCallsReturnEarly` and `TransactionTypes` rest on the same invariant.
`OnlyTheHandlerDeadlocks` ranks the locks: every other call takes the job's row,
then the reservation's, then the wallet's, so whoever waits for a lock holds
only lower ones (`OrderInv`), and of transactions that all wait for each other
the one that wants the highest lock would wait for nobody.

**`GenerationProofs`** (any number of workers, polls, attempts and faults:
`GenerationAssumption`, by which no poll is named like a task).

- *Money.*  `Typed` adds to the types that a busy slot works on a task.  `Money`
  is the conjunction of the two credit invariants and `NothingBefore`; neither
  is inductive alone, since `finalizeSuccess` is safe only because an open job
  still holds its reservation, and `fail` only because a delivered job's captured
  flag survives a release.  `NextIsMoneyStep` shows that every step is one of five
  transactions as far as the money is concerned (`Created`, `Started`,
  `Delivered`, `EndedBy`, `Kept`), and `MoneyInductive` that these preserve the
  invariant; that separates the queue's interleavings from the argument.
- *Polls.*  `WorkerMeaning` shows that a worker's step goes along one of a few
  edges, adds a poll, leaves its task, or goes on in the handler.  `PollsFindTheirTask`
  then needs what each place of a slot implies (`Knows`): a video call is
  recorded before the next poll is added, and a slot past `run` works for a job
  that has started.  `ProviderIdsStay` is a property of the steps alone.
- *Chains of polls.*  `ChainsNeedAFaultEach` counts what has its next poll still
  to add: tasks that wait to be taken (`Waiting`) and workers that go on with one
  (`Going`).  A step without a fault moves a chain from a task to a worker or
  back, or ends it; a fault leaves at most one task more to be taken and one
  worker without its lock (`Lost`).  The invariant `ChainInv` bounds `Waiting` and
  `Going` together by the faults plus one, and `Lost` by the faults.  When
  the task of a job cancelled before it began is removed from the queue, that
  bound may fail, but then nothing has been submitted and nothing will be
  (`NotBegun`).  It rests
  on BullMQ's deduplication (`Add`) and on the lock of an active task (`Locks`),
  and needs that workers and polls are finitely many.
- *Refinement.*  `GenerationImplementsLifecycle` puts the two together.  Besides
  `Money`, it needs that the worker which delivers works for a job that has
  started (`Knows`), so that nothing is delivered from the queue, and that
  before a job exists nothing has happened (`Pristine`: the state is an initial
  one), so that no late release touches the reservation of a job to come.  The
  five transactions are then `Submit`, `Start`, `Deliver`, `GiveBack`, or
  nothing: a start of a running job, a second settlement and a release of a
  captured hold leave what the user sees as it is.

**`PaymentProofs`** (any sets of orders, requests, prices and refund numbers:
`PaymentAssumption`, `WalletAssumption` and `WalletServesOrders`, by which the ids
and amounts of the orders are among the wallet's).  `PaymentUsesTheWallet` shows that
the wallet sees nothing but its own calls, so every theorem of `WalletProofs`
holds inside `Payment`.  `OrdersInv` speaks of one order at a time: what its row,
its transaction, the channel and its refund record tell of each other, and that
what a request in flight remembers is still so (`RequestFacts`).
`CreditsAreGrantedOnce` and `RefundsMatchTheLedger` tie an order to the ledger rows
that carry its keys (`GrantsOK`, `RevokesOK`): their weight is what the order says
was granted and revoked, and a new row of another key leaves it alone.
`RefundsAreRecordedOnce` rests on `OrdersInv`, and so does `RevenueFollowsSettlement`:
revenue is the order's amount when it was settled, and what the notification
compared it with, the amount paid, does not change after the payment.

**`SettingsProofs`** proves `HistoriesExplainRows` for any keys, groups and
administrators, from `SettingsAssumption`.  The history alone is not inductive:
a write appends what its request *read*, so the invariant adds that what a
request read is the row that is there unless the row's version has grown
(`ReadOf`), and that a row without a version has no history.  The worker's steps
leave all of it alone.

**`QuotaProofs`** proves `LimitsArePassedByOverlaps` for any finite set of requests
and any positive limits, from `QuotaAssumption`.  The invariant counts the requests
that have passed a check as if their job were there already: whoever passes the
check finds fewer jobs than the limit, and those that have passed it and not
inserted yet are at most `overlap`.

**`CleanupProofs`** proves `LocksAreKept` and `OldStoragesKeepLeftovers` for any
number of instances, assets and storages, from `CleanupAssumption`.  The first
rests on the types alone.  The second needs that an asset which expired was
stored in no later storage than any run under way has fetched, so that a run
whose deletion did nothing deleted in a later storage than the asset's.

**`PlatformProofs`**.

- `OneAdministratorIsCreated` (any set-ups and registrations): a set-up past its
  count holds the lock, and no administrator comes before it ends (`SetUpsAlone`),
  because nobody else creates one.
- `PriceIsOfWhatIsAsked` (any tables, names, sizes and dimensions) is a case
  analysis over what the request says and which entries match; it needs that
  a size is not also the name of a picture (`PricingAssumption`), as otherwise an
  entry for the one would price the other.
- `NoSlotIsLost` and `SlotsAreGivenFairly` (any finite sets of calls and tokens):
  tokens are not shared, the lease of a call has at least what its missed
  renewals leave of it (`Kept`), and no more tokens are left behind than workers
  died.  The second counts: the calls that keep their lease are mapped one to one
  to tokens in the credential's set.  An earlier version of the module reset
  `missed` for a call whose token was already gone; the proof of `Kept` failed
  there, while the run had too few disturbances to show it.
- `RecordsTellTheTruth` (any operations, shells, versions and faults): at most one
  script is past `acquire_lock`, and how far it has come says what it has changed
  (`Fits`).

**Only model-checked** are the liveness properties `JobsEnd`,
`QueuedJobsAreRecovered`, `PaidIsSettled`, `CacheConverges` and
`StoredConfigurationWins`: fairness and ENABLED are out of the prover's reach.
The runs that find a disagreement are counterexamples and need no proof.
`Coupon` has no theorem: its only run is one of them.

## 5. Not modelled

- The web client (`apps/web`, 20 000 lines), the generated SDK, DTOs,
  controllers, language files and tests: they keep no state that another actor
  shares, or are generated.  They are most of the repository's lines, so the map
  covers a small share of it.
- Billing reconciliation, analytics, listings, health: they read and log.
  `checkReservationInvariant` reads wallets and reservations in two statements
  and may report a drift that a commit in between made.
- `generation_attempts` and cost events: written beside the job, read by nobody
  who decides.  A call marked SUCCEEDED becomes FAILED when the ingest fails.
- Rate limits, RBAC, sessions: single statements or pure filters.  Reset and
  verification tokens are read before the transaction that marks them used
  (`auth.service.ts:500-548`), which a module of tokens could take up.
- Multipliers and rounding of prices, discounts, retention days and other data:
  abstracted where no property needs them.
- HTTP, signatures, S3, mail, the migrator: I/O; what they answer is an input.

## 6. Plan

1. Wallet, WalletTx, Generation and their first theorems (done).
2. Payment, Coupon and the modules of MCPlatform (done).
3. Proofs: every safety property of a passing run, and the refinements of
   `CreditAccount`, of `Wallet` by `WalletTx` and of `JobLifecycle` (done).
4. What is left to prove: an abstract order (asked for, settled, granted,
   refunded) that `Payment` implements, as `Generation` implements
   `JobLifecycle`.
