# Verification of the proxy shop backend

This directory holds TLA+ models of the parts of the backend where money, orders and
proxies can go wrong when request handlers, workers and cron jobs interleave, the TLC
configurations that check them on small instances, and TLAPS proofs of the main
theorems. Paths are those of the repository; everything modelled lives in `src/src/`.

## 1. The system

The shop sells proxies that it buys from external providers. `ecosystem.config.js`
runs one API process (`proxy-server`) and one worker process (`proxy-worker`).
Both talk to

- a standalone MongoDB: one update of one document is atomic, nothing larger is,
  and there are no transactions;
- one Redis: lists used as queues (`LPUSH`, `BRPOP`), `SET NX EX` keys used as
  locks, and cached answers;
- the providers, over HTTP, through one adapter each.

Only the API process schedules cron jobs (`ScheduleModule` is imported by
`app.module.ts`): the voucher reconciler every 30 s (with a busy flag, so one runs
at a time), re-push of pending orders every 30 min, of processing orders every 5
min, recovery of failed orders every 2 min, expiration every minute, bandwidth
every 10 min, statistics every 5 min and automatic renewal at 8:00. The worker
process pops `orders:pending` and `orders:processing` with several concurrent
consumers. Inside each process Node.js interleaves handlers at every `await`; the
two processes and the database calls of every handler interleave freely.

The documentation speaks of a constant `COMMERCE_DISABLED`; the code reads the
environment switches `PURCHASE_ENABLED` and `DEPOSIT_ENABLED`
(`common/feature-flags.ts`, `commerce-policy.ts`). When one is off its handlers
refuse at their first line, so the models assume both on; it also means that
`holdForReview` in the webhooks is never reached.

### 1.1 Inventory

| Component | State | Operations | Meets the others through |
|---|---|---|---|
| Voucher purchase, `vouchers.service.ts` | voucher (`reserved`, `used`, `reservations[]`, `revision`, `audit[]`), intent (`state`, frozen order), `users.voucher_receipts[]` | `create`/`write`, `purchase`, `existing`, `recover`, `dispatch`, `release`, `reconcile` | inserts the order, pushes `orders:pending`, writes the ledger |
| Voucher fulfilment, `vouchers.service.ts` | the order's `voucher_*` fields, receipts, commission | `materialize`, `settle`, `confirmFailure`, `refund`, `recoverAffiliate`, `reconcile` | called by worker, poller, manual sync, admin, cron |
| Purchase without voucher, `orders.service.ts` | order documents, cached answer and lock of an idempotency key | `buy`, `buySync`, `create`, `updateStatus` | wallet, ledger, `orders:pending` |
| Life of an order, `orders.service.ts` | status, refund, proxies | `approveRefund`, `adminRefund`, `refundMissingQuantity`, `retryOrder`, `importProxies`, `syncProviderOrder` | wallet, both queues, providers |
| Self service, `orders.service.ts`, `proxy-rotate.service.ts` | quota, credentials, allowed addresses, cool-downs | `topUpBandwidth`, password and address edits, rotation, `refetchProxies` | wallet, providers |
| Renewal, `orders.service.ts`, `renew/` | end date, renew count, selections, scan and day locks | `renewByUser`, `renewByAdmin`, `bulkRenewByUser`, the daily scan | wallet, providers |
| Order worker, `orders.worker.service.ts` | `orders:pending`, `lock:order:<id>`, claim fields | pop, lock, claim, `provider.buy()`, store, publish, queue for polling | provider, proxies, `orders:processing` |
| Processing poller, `orders-processing.worker.service.ts` | `orders:processing` | poll up to 20 times, store, publish, time out | provider, proxies |
| Schedulers, `orders*.scheduler.ts` | Redis locks of each scan | re-push, recovery, expiration, bandwidth usage | both queues, proxies, commissions |
| Deposits, `webhook.service.ts`, `deposit-credit.service.ts` | transactions (status, `credit_plan`), promotion intents, `deposit_credit_receipts[]`, ledger, notification marker | webhooks (bank, Binance), `approveTransaction`, `rejectTransaction`, `credit`, `claim` | wallet, ledger, notifications |
| Promotions, `deposit-promotions.service.ts` | one catalogue document under a revision | `save`, `remove`, `edit`, `quote`, `createIntent` | deposits read the promotion in force |
| Users and wallet, `users.service.ts`, `wallet/` | `money`, `wallet_transactions` | manual deposit and deduct, ledger rows | every component above |
| Affiliate, `affiliate.service.ts` | commissions, withdrawals, `affiliate_balance` | create, confirm, credit, withdraw one or all, approve, reject | orders, expiration scheduler |
| Catalogue: services, pricing, countries, partners | services, partners, cached coverage | edits, price computation, country policy, snapshot for the worker | checkout, worker |
| Provider adapters, `proxy-providers/` | none of their own | preflight, buy, fetch, renew, top up, edits, readings | workers, order service, schedulers |
| Auth, notifications, content, statistics, seeds | not about orders or money | CRUD, sockets, Telegram | none |

### 1.2 What is hard here

- **A saga without transactions.** A voucher purchase touches four collections and a
  Redis list; request retries and the cron run the same recovery function on the same
  intent at once, each with its own stale reads, and a process may die between any two
  writes.
- **Several writers of one order.** Worker, poller, reconciler, recovery and expiration
  schedulers, sync, refund, renewal, top-up and retry write the same document; some
  writes are conditional, others (Mongoose `save()`, `findByIdAndUpdate`) are not.
- **Locks that expire, are deleted by key, or are never released.** `lock:order:<id>`
  lives 300 s and a slow buy outlives it; the `finally` block of one worker deletes
  another's lock; idempotency locks live 60 s; the day lock of a selection stays.
- **The provider is asked first, the database is written after.** What was charged,
  renewed, topped up or changed at the provider may be lost with its answer, with the
  process, or with the failing write.
- **Purchases that must not be repeated**, while readings are repeated freely.
- **Repeated and reordered webhooks**, racing approvals and rejections.
- **Values checked, cached or copied long before they are used**: coverage of a package,
  the service a worker reads again, a template made for another order.

### 1.3 What makes each component correct

- *Voucher purchase*: the counters count the reservations; the total and per-user
  quotas hold; a paid purchase holds its place; a refused one costs nothing; the
  customer pays the price in force; every intent ends; every paid order is queued.
- *Fulfilment*: one purchase from the provider, one outcome, one refund of one planned
  amount; place and commission follow the outcome; a crash never strands an order.
- *Purchase without voucher*: every debit is an order in the ledger, and a retry buys
  nothing more.
- *Ordinary orders*: one buyer at a time, one buy where a repeat costs money; no refund
  shown that was not paid; nothing sold that is not stored; every order leaves PENDING
  and PROCESSING.
- *Renewal and self service*: what is taken is given or paid back, once; the order
  promises and shows what its provider holds; a spent quota is noticed.
- *Deposits and promotions*: every transfer credited at most once, to one user, with its
  ledger rows; one bonus per intent; rejection and credit exclude each other; one
  promotion in force at a time.
- *Affiliate*: no commission leaves twice, and none is PAID without a paid withdrawal.
- *Catalogue and adapters*: what was checked is bought, what was billed is done, a lost
  answer is never bought twice by the adapter, what was bought can be fetched whole.

`PROJECT.json` lists the hazards one by one, with the line where each bites.

## 2. Modules

| Module | Models | Status |
|---|---|---|
| `VoucherQuota` | what a voucher promises: places taken, used, returned, within both limits | abstract specification |
| `VoucherPurchase` | `write`, `purchase`, `existing`, `recover`, `dispatch`, `release` | checked, proved, refines `VoucherQuota` |
| `VoucherPurchaseProofs` | the proofs | TLAPS |
| `VoucherFulfilment` | one voucher order after its insertion, with every handler that knows of vouchers | checked, proved |
| `VoucherFulfilmentProofs` | the proofs | TLAPS |
| `DirectPurchase` | `buy` and `buySync` with idempotency cache and lock, orders made or edited by hand | checked, proved |
| `OrderLifecycle` | one ordinary order from debit to end: queues, lock, worker, poller, schedulers, admin | checked, proved |
| `OrderLifecycleProofs` | the proofs | TLAPS |
| `SelfService` | one bandwidth order at its provider: top-up, edits, rotation, refetch, usage scheduler | checked, proved |
| `SelfServiceProofs` | the proofs | TLAPS |
| `Renewal` | renewals by the user, in bulk, by the administrator and by the daily scan of selections | checked, proved |
| `Payouts` | commissions from the expired order to the bank transfer | checked, proved |
| `WalletsProofs` | the proofs about `DirectPurchase` and `Payouts` | TLAPS |
| `DepositCredit` | transfers, promotion intents, wallet receipts, ledger, notification | checked, proved |
| `DepositRenewalProofs` | the proofs about `DepositCredit` and `Renewal` | TLAPS |
| `Promotions` | the catalogue of deposit promotions and its edits | checked, proved |
| `Procurement` | from the catalogue to the request a provider gets: price, product, country, snapshot | checked, proved |
| `ProviderContract` | what a caller may rely on: one call is charged at most once, only what was done is claimed | abstract specification |
| `ProviderAdapters` | the eight adapters, request by request | checked, proved, refines `ProviderContract` |
| `SupplyProofs` | the proofs about `Promotions`, `Procurement` and `ProviderAdapters` | TLAPS |
| `Totals` | lemmas about sums over finite sets, for the ledgers of the other modules | TLAPS |
| `MC*` | model values, instances, symmetry and compositions for TLC | |

The convention is the same everywhere. **One action is one database, Redis or
provider call**, with the synchronous code up to the next `await`. `pc[p]` (`stage[p]` in
`Renewal`) is where execution `p` of some handler stands; what a call returned is kept per execution
(`seen`, `held`, `frame`, `job`, `task`) and is as stale when it is used as it is in the
code. `Abort(p)` (`Crash(p)`) is the death of the process, or a call that throws out of the
handler, at any point. `PROJECT.json` `map` gives the lines of every definition.

### 2.1 VoucherPurchase

Variables are fields of the voucher (`revision`, `config`, `reserved`, `used`,
`token`), of the intents (`state`, `terms`), of the users (`money`, `receipt`,
`refund`), and the order, queue and ledger. The labels follow `recover()` line by
line: load, reserve (the aggregate condition of the update: active, in its window,
the frozen revision, both quotas, array not full), tombstone, check, reject, debit,
refuse, release, order insert, ledger, dispatch. `seen` holds the quoted revision
and price between the quote and the insert. The environment of the module reduces
the life of an inserted order to what feeds back: it is claimed, fulfilled (place
used) or failed (refund, place returned), the administrator edits the voucher
(`Write`), its window closes, the wallet moves for other reasons.

`KeepsPromise` is `VoucherQuota` under a refinement mapping (`phase <- Standing`): where a
purchase stands is read off its reservation and its wallet receipt. The abstract
specification has no counter, no revision and no execution: places are held by
intents, with both limits on their number.

### 2.2 VoucherFulfilment

One order with its reservation and its refund receipt. `materialize()` is the chain
`mFreeze … mPublish`, `settle()` is `use`/`release`, `recoverAffiliate()` is
`commission … clear`, `refund()` is `rPlan … project`; callers enter these subroutines with a
`frame` that says where to return. Handlers start at any time (`role`): the queues
only decide when, and with losses, duplicates and re-pushes that may be any time.
Roles: worker, poll, sync, confirm (failure), refund, reconcile, expire, recovery. The saved answer of the
provider is a number of proxies; `Nameless` is one with neither proxies nor an order id. `recovered` is a
history variable: the recovery scheduler, which does not look at the resolution, has written the order.

### 2.3 DirectPurchase and OrderLifecycle

`DirectPurchase` follows `buy()` from the cached answer of the key (`prior`, `cached`)
over the lock, the validation, the debit, the insert, the push and the kept answer
to the release of the lock; `buySync()` then polls the order. Two requests of one key,
or of different keys, run at once; the lock may lapse, a call may fail, a
process may die. `OrderLifecycle` takes one such order from the debit on, for each kind of
provider: GPNIP (`fenced`, its buy is never repeated), the others with an order id,
and ProxyVN (`nameless`, whose orders cannot be asked for again). `pending` and
`processing` count the copies of the order in the two lists, `lock` is the Redis key.
A Mongoose document that was read stays in `held`, and `save()` writes the fields
that differ from that copy. `LockExpires` removes the lock, also under a running
worker (`MaxLapses` times); `LoseQueues` empties the lists.

### 2.4 SelfService

The order (`gb`, `used`, `status`, `copy`) and its provider (`remote`) are two sets of
variables that every operation writes one after the other. Passwords, allowed addresses
and proxy addresses are version numbers. `unsure` is a history variable: the aspects
that two operations wrote at once or that one left half done, of which the code
promises nothing, and an address that the provider's answer left out; the properties speak of all others. The cron
starts `SyncStart` if this order is among the 50 it reads, `SyncFetch` asks for the usage, `SyncMark` writes DEPLETED.

### 2.5 Renewal

`Renew` is `renewOrderProxies()` (debit, provider, rollback or save, ledger), entered by
`Single` (one order), `Bulk` (chosen proxies of several orders, in turn, with the
pruning of those that were not picked) and `Scan` (the daily run: scan lock, day lock
per selection, then a bulk renewal or the switching off of the selection). `remote` says until which
day the provider keeps each proxy; `live` which proxies are not soft-deleted; `overlap`,
`unsaved`, `behind` and `drained` are histories of what overlapping or cut-off
executions leave behind. `Answers` is the end date of a provider's answer: ProxyVN's adapter takes the latest of the proxies it
renewed (kind "latest"), the other adapters that renew proxy by proxy what the provider says, the end of any of
them (kind "slots"); any answer may also carry none. An adapter that renews proxy by proxy may answer, or throw,
after some of them (`AcknowledgeSome`, `Refuse`). So the
proxies of one order may end on different days: those that were not renewed with the
others and are not pruned are in `behind`, and the order may outlast them.

The identifiers of `Renewal` (`RenewalSpec`, `RenewalNext`, `stage`, `task`, `wallet`, `booked`) differ from
those of `DepositCredit`, because one module holds the proofs about both.

### 2.6 Payouts

Commissions, balance and withdrawals are three collections; each handler is a chain of
one operation on each. `Carried` is the money that an execution has taken from one and not
yet put into the next. Single withdrawals, withdrawals of everything, approvals,
rejections and their rollbacks interleave freely.

### 2.7 DepositCredit and Promotions

`wire` is what the bank says of each transfer and never changes. The chain is record
(webhook), `load`, `claim` (intent reserved), `plan` (frozen by a conditional update),
`credit` (balance and receipt in one update), `deposit` and `bonus` (ledger rows upserted by key),
`finalize`, `notify`, `send`. Approval by the administrator enters at `load`; rejection is
one conditional update. Binance Pay records the transfer as PROCESSED and raises the
balance afterwards.

`Promotions` is the loop of `edit()`: create the document if there is none, read it,
apply the change to the copy, write the whole list under the revision that was read,
or try again. `InForce(m)` is what `quote()` and `createIntent()` find at moment `m`.
`granted` is a history: the list that results from applying the accepted edits in turn.

### 2.8 Procurement and ProviderAdapters

`Procurement` has the computations of a checkout as operators (price tiers and plans,
product, country list, template) and the checkout, the cached coverage with its shared
questions, and the worker as actions; services and partners are drawn from sets of documents
the administrator may save, and change, close or disappear at any time. A table of tiers is the list as it was saved, in any
order and with rows that do not count; `Before` is the order `sort()` puts it in, `TierAt` the tier in force,
`NextTier` the one after a tier, on which both the upper end of a row and the hint rest.

`ProviderAdapters` is one order in one adapter's hands. An action is one HTTP request
with its answer; every request may be refused, lost on the way out or back, or given up
and still arrive later (`late`). A template is the set of fields it fills in, each with a
stale value, and may have been written for a package of another kind. `KeepsContract` is `ProviderContract` on the variable `calls`; the callers
(`OrderLifecycle`, `Renewal`, `SelfService`) are modelled on that contract: a call that
threw may have been carried out, or not.

### 2.9 Compositions and switches

The modules meet in what each takes for its environment. `VoucherPurchase` and
`DirectPurchase` end where `VoucherFulfilment` and `OrderLifecycle` begin (an order
inserted, an entry in `orders:pending`), `Procurement` fills in the step "validate" of both,
and `ProviderAdapters` their provider calls. A combined state space would be a product of
unrelated histories, so no run explores it.

Some MC modules hold several instances that one run checks in turn. A variable chosen
in the initial state says which one acts while the others rest: `crowded`
(`MCVoucherRaces`: scarce places, or a nearly full reservation array), `recovering`
(`MCVoucherOutcomes`: every role, or the recovery scheduler), `returned`
(`MCVoucherDelivers`: delivery, or refund), `acting` (`MCSupply`: checkouts, calls of an adapter,
or promotions), `buying` (`MCWallets`: `DirectPurchase`, or `Payouts`). They share no variable, so nothing that could interact is cut.

## 3. Runs

| Run | Module | Question | Bounds |
|---|---|---|---|
| `races` | MCVoucherRaces | do the counters count, is the quota specification implemented, is anything charged twice, lost, ordered unpaid or at an old price | 2 purchases of 1 user in 2 executions; 1 place for all or 1 each with 1 foreign wallet move, or 1 free entry of the array with 1 edit |
| `resolves` | MCVoucherPurchase | does every intent end, and is every paid order queued | 1 purchase, 2 executions, lost queue items; 1 death, 1 foreign wallet move or 1 edit |
| `fulfil` | MCVoucherOutcomes | is there one purchase, one outcome, one refund of the planned amount | 2 proxies, price 2, 2 executions of 7 roles, 1 death; or the recovery scheduler beside worker, confirm, refund and reconcile, without deaths |
| `delivers` | MCVoucherDelivers | does the reconciler finish what was begun, refunds included | 2 proxies, worker, poller, reconciler, expiration, two different ones at a time, legacy orders, 1 death; or 1 proxy and refunds |
| `recovered` | MCVoucherFulfilment | *violation*, see 3.2 | 2 proxies |
| `orders` | MCOrderLifecycle | one buyer, one buy, honest refunds, nothing sold that is not stored | 11 roles, 2 at a time, 2 admin requests, 1 lock expiry |
| `settles` | MCOrderLifecycle | does the order leave PENDING and PROCESSING | 1 proxy, 2 polls, 1 death or lost list, 1 retry |
| `deposits` | MCDepositCredit | is every transfer credited once, to one user, with its rows | 2 transfers, 2 users, 1 intent, 2 executions; 1 death and 1 other spending per user, or fractions in the wallets |
| `renews` | MCRenewal | is what a renewal takes given or paid back, once a day, and does the schedule serve | 2 orders of 2 adapters, 3 proxies, 1 selection, 2 executions, 2 instances of the cron, 2 days, 1 failure, edit or lapse, 1 request; a second one, without the scheduler, where a failure left a renewal unsaved |
| `wallets` | MCWallets | is every direct purchase paid and every retry free; does no commission leave twice | 3 requests on 2 keys or none, 2 orders, 1 failure; or 2 commissions, 2 withdrawals, 2 executions, 1 death |
| `serves` | MCSelfService | is every top-up paid and shown, and a spent quota noticed | 1 order, 2 requests of one key or none, 2 cron processes, a wallet for 0 to 2 of them, 1 failure, edit or lapse |
| `supply` | MCSupply | is what was checked bought, what was billed done, what was bought fetched; is one promotion in force | 2 checkouts of 9 kinds of service, 4 adapters, 1 edit; or 1 order in any of 8 adapters, 2 proxies, 2 calls that cost money; or 2 editors, 2 programmes, 2 moments, 3 edits of 2 attempts |

Why the bounds are enough. The hazards are races of two executions on one document with a
third step (crash, edit, expiry) in between: two executions and one such step reach
each of them, and every property has a mutant (a plausible bug in one definition) that TLC finds in
the same instance, so the interesting states do occur. Two proxies are the least number at
which full, partial and empty deliveries differ; two purchases and one place the least at
which a quota can be exceeded; two transfers the least that can claim one intent; two commissions
the least at which a withdrawal of everything can meet a withdrawal of one; two attempts the least at
which an edit of the promotions can succeed after a conflict. Constants of the code are scaled
down: `MAX_POLL_ATTEMPTS` 20 to 1 or 2, `MAX_RETRIES` 3 to 1 or 2, 20 attempts of `edit()` to 2, the
array caps and `MAX_SAFE_INTEGER` to small numbers so that they are reached. The theorems of
section 4 hold for all values of the constants.

`CHECK_DEADLOCK FALSE` stands in the configurations of all modules but `VoucherPurchase`: their
one order, few transfers or bounded requests come to rest.

Symmetry (of executions, purchases or buyers) is used only in runs whose properties are
invariants or step properties; no liveness property is checked under it.
`resolves` and `deposits` have an action constraint, `OneDisturbance`; it bounds only steps without fairness. So
does `SecondAfterFailure` of `renews`, which has no liveness property.

### 3.1 Fairness

An execution that is not interrupted goes on (weak fairness of its steps): Node.js
resumes every handler, and a call that hangs is bounded by time-outs or is an `Abort`. The cron
jobs start again and again: strong fairness of their start actions where something else can
take the document between two starts. Deaths are bounded by `MaxAborts`, so eventually no one
dies. In particular:

- `VoucherPurchase`: strong fairness of the reconciler's start (`StartRecover`), weak
  fairness of the worker's pop.
- `VoucherFulfilment`: strong fairness of the reconciler, and of its giving up an
  abandoned dispatch (a condition on elapsed time, which is not modelled).
- `OrderLifecycle`: strong fairness of pops and of the re-push, re-poll and
  expiration scans, weak fairness of the lock's expiry.
- `DepositCredit`: no background job finishes an interrupted credit; the assumption is
  that an administrator approves, or the bank repeats, a transfer that stays CREDITING.
  Without it `CreditResolves` is false. Nothing takes a fraction out of a wallet by fairness.
- `SelfService`: weak fairness of every execution. Users ask for nothing by fairness, and the usage cron
  owes nothing to one order: it reads 50 active ones, unsorted (`orders-bandwidth.scheduler.ts:52`), so with
  more of them some may never be read. `SpentIsDepleted` supposes that the order is read again and again (`ReadAgain`).

`Renewal`, `Payouts`, `DirectPurchase`, `Procurement`, `ProviderAdapters` and `Promotions` have
safety properties only. `ScheduleServes` is one: the calendar is a variable, so that "before it
expires" is an invariant.

### 3.2 Where the code departs from what it says

- `recovered`: `tryRecover()` (`orders-recovery.scheduler.ts:201`) sets ACTIVE or PARTIAL
  on a voucher order without `voucher_resolution`, so `settle()` never uses the place,
  although `docs/vouchers.md` says that ACTIVE/PARTIAL consumes usage. The place stays reserved.
  For the same reason `FailureIsFinal` and `OutcomesAgree` speak of orders that this scheduler has not written.
- A worker that dies after it saved an answer with neither proxies nor an order id (ProxyVN's
  `provider_order_id` is always `''`, `proxyvn.provider.ts:136`, and its list of proxies may be empty) leaves the
  order PENDING and claimed: `reconcile()` adopts answers with proxies or with an id (`vouchers.service.ts:391-392`)
  and gives up dispatches without an answer, and this is neither, although `docs/vouchers.md` says that saved
  provider responses are recovered. The models contain it, and `DispatchResolves`, a part of `OrderCompletes`, excepts it.
- A template with a `period` on a package that is not static makes `buildBuyBody()` delete the billed
  duration and nest the country (`gpnip.provider.ts:199-234`); `preflightBuy()`, which reads what the package is, lets it
  pass, although `gpnip.provider.spec.ts:257` says that purchases have the actual duration rather than a stale
  template's. What the provider then delivers is not known; the model says 0 days. `BilledIsDone`
  promises the days and the country where the template fits the package (`TemplateFits`, as `docs/gpnip-setup.md`
  asks of the administrator), quantity and gigabytes always.

Behaviour the models contain and no property denies, because the code does not prevent it
and nothing in the repository promises otherwise, or only in a word:

- *Refunds and delivery.* `approveRefund()` credits `total_price` whatever was refunded before,
  and every refund checks a copy read earlier: two together may exceed the price. Two pollers of
  one order may both find no proxies and insert twice. An order refunded in full may be retried and
  delivered. An unfenced provider may be asked to buy again after a lost answer. A ProxyVN
  order without proxies whose queue entry is lost stays PROCESSING.
- *Purchases.* A wallet that holds a fraction is neither debited nor refused (`vouchers.service.ts:179`), so a
  voucher purchase from it waits in `reserved` for as long as the fraction stays, whatever the
  reconciler does; `PurchaseCompletes` excepts it. A request that overlaps another one of its key between the read of the cache and the
  lock, or outlives the lock, buys again. `create()` makes unpaid PENDING orders, which the scheduler queues.
- *Top-ups.* Orders that are DEPLETED never expire, and an order that becomes DEPLETED during a paid
  top-up stays so.
- *Renewals.* A renewal that throws after some proxies (`proxyvn.provider.ts:158-187`, `2proxy.provider.ts:177-195`) is paid back
  whole, and one that answers for some is not paid back for the others; a later one may set an end date beyond that of a proxy it
  did not renew (`behind`). Overlapping renewals of one order overwrite each other's `end_date` and `renew_count`. The
  comment at `orders.service.ts:2972` promises one atomic debit of the total; the code debits order by
  order. Nothing keeps two selections from holding different proxies of one order: the one renewed last
  sets its `end_date`, back to an earlier day if the provider answers with the end of its own proxies, and
  the order may then expire although both schedules are on.
- *Proxies.* `refetchProxies()` sets `is_active` whatever the order's status and leaves gateway credentials as they were.
- *Affiliate.* Commissions credited while `requestWithdrawAll()` is under way become REQUESTED outside any
  withdrawal; the rollback of `requestWithdraw()` sets CREDITED unconditionally; two withdrawals of everything may undo
  each other; a commission that is CREDITED before the balance is raised may be paid without its money
  if the process dies.
- *Deposits.* A Binance transfer whose credit died after PROCESSED is never credited. A wallet that holds a fraction
  is refused every credit (`deposit-credit.service.ts:49`), and one at its maximum too: the transfer stays CREDITING for as long as that lasts.
  `CreditResolves` promises the credit to a wallet that takes it from some moment on.
- *Catalogue.* Nothing refuses two tiers with equal `min_gb`: the last of them is sold, but `findIndex` at
  `orders.service.ts:184` finds the first, so the hint names the tier in force, or of two next ones the one that is not
  sold. `QuotedAsSold` states the rows and the price for every table, and the hint for tables without such a pair. With
  fractions of a gigabyte in `min_gb`, rows that end at `min_gb - 1` leave gaps, whatever the comment at
  `orders.service.ts:108` says;
  the tables of `deriveIdService` differ from those of `product-mapping.ts`; `duplicate()`
  omits the bandwidth tiers; the hint "cheaper by" ignores the discount of the user.

### 3.3 Bounds and exceptions inside the models

- `VoucherFulfilment`: the provider delivers at most what was ordered; the `audit` row of a
  confirmed failure is not modelled; `LegacyRepaired` holds with the roles of `delivers`, where
  no manual sync takes the legacy order first; `RefundCompletes` is checked with one execution at a
  time (two refunds at once are the subject of `RefundFollowsPlan`).
- `OrderLifecycle`: an insertion may drop any number of documents (`ordered: false`); the
  30-minute window of the recovery scan and the 120 s lock of the schedulers are left out (a scan may
  start at any time); the end date passes only in ACTIVE and PROCESSING; `SoldIsStored`
  excludes retried orders and `ProcessingResolves` excludes ProxyVN orders, for which they fail;
  `orders` runs without crashes, which `settles` has.
- `DirectPurchase`: every purchase costs the same; the failure to keep an answer's error
  (`BuyErrorFails`) belongs to the failure that made the error; `RetryIsFree` excludes keys of which two requests
  overlapped or whose lock lapsed.
- Several handlers start a ledger row that they do not wait for right after a `save()` (`orders.service.ts:1956`):
  the models have both in one action, so a row that is lost alone is not in them.
- `VoucherPurchase`: prices are such that one purchase costs nothing (`TightConfigs`); its order is released on a
  confirmed failure without a refund, since `refunded_amount` is 0 by default (`Refunded`).
- `SelfService`: one gigabyte a top-up; the answer kept for a key does not lapse (24 hours in the code), so `KeyTopsUpOnce` speaks of
  that time; properties exclude the aspects in `unsure`.
- `Renewal`: `renews` has an order of GPNIP and one renewed by proxy; orders sold by duration and delivered in full; `RenewalsCounted` excludes overlapped orders;
  `ScheduleServes` speaks of days without failures and of orders whose end date one selection alone moves on
  (`Serves`): no other holds proxies of the order, and either the provider answers with the latest end (kind "latest") or,
  of kind "slots", the selection holds all proxies; fewer schedules are due on a day than a scan reads (50).
- `Payouts`: one referrer; the rounding of amounts is left out.
- `DepositCredit`: a transfer and a bonus are worth 1 each; an upsert is atomic (two Binance webhooks
  at once may insert twice, as there is no unique index; that is not modelled); an intent reserved by a
  transfer that is then rejected stays reserved, as in the code; intents exist from the start.
- `Promotions`: names, tiers and caps of a programme are left out; moments are small numbers.
- `Procurement`: one service and its partner; one adapter at a time; the age of coverage counts from the
  provider's answer, a little later than the request. `ProviderAdapters`: credentials, hosts, ports and
  prices are left out. Gigabytes are whole numbers in the tables of tiers too, although
  `BandwidthTierDto` accepts fractions of them.

## 4. Proofs

### 4.1 Voucher purchases

`VoucherPurchaseProofs` proves, for every set of intents, users and executions and
all caps and terms:

| Theorem | States |
|---|---|
| `TypeCorrect` | `Spec => []TypeOK` |
| `CountersCorrect` | `Spec => []CountersMatch`: `reserved` and `used` are the numbers of entries so marked |
| `WalletsBalance` | `Spec => []WalletBalanced`: each wallet is what it began with and what was paid into and out of it, summed over all intents |
| `PurchasesAreSettled` | `Spec => []PurchasesSettled`: a paid purchase holds its place until its price is paid back (of price 0: it failed), a rejection cost nothing, an order was paid |
| `AdmissionAtPriceInForce` | `Spec => PriceInForce`, an action property |
| `ImplementsQuota` | `Spec => KeepsPromise`: the saga refines `VoucherQuota` |

The argument is an inductive invariant

    IInv == TypeOK /\ IntentInv /\ ProcInv /\ PriceInv /\ CountersMatch

None of the safety properties is inductive: a rejected intent is clean because
the execution that rejects it has seen a tombstone or the voucher's refusal, and
that stays true while it waits. `IntentInv` relates, for each intent, its state, the
entry of the voucher's array, the wallet receipt and the order; `ProcInv` says what an execution at each
label knows to be still true of its intent although others moved (for instance: at
`release`, the wallet holds the refusal, so no debit can ever arrive); `PriceInv`
says that an intent's frozen price is the one its frozen revision gives as long as
that revision stands. There is one lemma per group of actions and one step per action; the
refinement theorem maps each action to a step of `VoucherQuota` or to a stutter.
`WalletsBalance` follows from the same invariant and from `Totals` (4.6): an intent that is debited or
refunded changes one summand. The proofs rest on `PurchaseAssumption` only, which TLC evaluates in every run of the module.

### 4.2 Deposits

`DepositRenewalProofs` proves, in its first part, for every set of transfers, users, intents and
executions and whatever the bank says of the transfers:

| Theorem | States |
|---|---|
| `TypeCorrect` | `Spec => []TypeOK`, with the cap on every balance |
| `WalletsMatch` | `Spec => []WalletMatches` |
| `BonusesPaidOnce` | `Spec => []BonusPaidOnce` |
| `StatusesAreTrue` | `Spec => []StatusIsTrue`: PROCESSED has receipt and rows, REJECTED has neither |

The inductive invariant is the conjunction of the types and

- `BusyInv`: an execution that is under way has a transfer and a user (without it the plan it writes
  need not name anyone);
- `PlanInv`: a transfer with a plan is CREDITING or PROCESSED, and a plan with a
  bonus is backed by a reservation of the intent;
- `ReceiptInv`: a receipt says what the plan of its transfer says;
- `PostedInv`: a planned transfer that is PROCESSED has its receipt and rows;
- `ProcInv`: what an execution knows at its label;
- `NoticeInv`: only one execution of a transfer stands between the marker and the message;
- `WalletInv`: receipts are finite and balances match.

What an execution knows survives the steps of the others because of one lemma,
`StepGrows`: no step changes a plan that is there, takes back PROCESSED, moves a
reservation or removes a receipt or a row. That a rejected transfer is free then needs no argument
about races at all: a receipt needs a plan, a plan excludes REJECTED. The proofs rest on
`DepositAssumption`.

### 4.3 Fulfilment of a voucher order

`VoucherFulfilmentProofs` proves, for every price, quantity and number of executions, and with
every handler and any number of deaths, orders of the old scheduler included:

| Theorem | States |
|---|---|
| `TypeCorrect` | `Spec => []TypeOK` |
| `BoughtAlone` | `Spec => []BuysAlone`: one purchase, and no manual sync inside it |
| `FailuresAreFinal` | `Spec => []FailureIsFinal` |
| `RefundsFollowPlans` | `Spec => []RefundFollowsPlan` |
| `OutcomesDoAgree` | `Spec => []OutcomesAgree`: proxies, resolution, place and commission tell one story |
| `ResolvedOnce` | `Spec => ResolutionIsOneWay`, an action property |

The inductive invariant is

    IInv == TypeOK /\ ControlInv /\ DispatchInv /\ FlowInv /\ RefundInv /\ PastInv /\ OutcomeInv

`materialize()`, `settle()` and `refund()` are shared by seven roles, so `ControlInv` says first which label
an execution of each role can be at and where its frame returns. `DispatchInv` is the argument for
the single purchase: one execution at most owns the dispatch, and what only an answer of the
provider can bring (an order id, a saved result, a frozen count) is not there before; an answer need not bring an
id, so the invariant says an id or a result.
`FlowInv` says of each step of `materialize()` what it still holds, whoever froze the
result meanwhile; `RefundInv` why a refund on its way was allowed, by the first plan; `PastInv` that a document read
at any time is still true in what never goes back, which is all that the stale copies
of the code may rely on. The parts that the recovery scheduler breaks are stated for orders that it has not
written, as are the properties (3.2). The proofs rest on `FulfilmentAssumption`.

### 4.4 Ordinary orders

`OrderLifecycleProofs` proves `BuysOnce`, `RefundIsCredited` and `SoldIsStored` (`BoughtOnce`,
`RefundsAreCredited`, `SoldAreStored`), for every price, quantity and number of executions, with any number of
lapses, lost lists, retries and administrators' requests. `BuyInv` is the exclusion
of the lock and the claim taken together: as long as no lock has lapsed, or the claim of a GPNIP order is not stored,
one worker at most is past the lock; and the claim is stored before `provider.buy()`. So a lapse
leaves room for a second worker, but not for a second purchase of GPNIP. `RefundInv` bounds what each execution is about to write
as refunded by what the wallet received, although `save()` overwrites what another one wrote;
`StoreInv` says that an execution about to sell has proxies in hand or counted them. The proofs rest on `LifecycleAssumption`.

### 4.5 Self service

`SelfServiceProofs` proves, for any number of executions, keys and requests:

| Theorem | States |
|---|---|
| `TypeCorrect` | `Spec => []TypeOK` |
| `ShownTruly` | `Spec => []ShownIsTrue`: order and provider agree in every aspect that is not `unsure` |
| `DepletedWhenSpent` | `Spec => []DepletedIsSpent` |
| `TopUpsArePaid` | `Spec => []TopUpsPaid`, with the wallet as a sum over the executions |
| `KeysTopUpOnce` | `Spec => []KeyTopsUpOnce`, a part of `TopUpsPaid` |

The invariant goes aspect by aspect (`GbInv`, `AllowedInv`, `PasswordInv`, `AddressInv`): while an aspect is not
`unsure`, one execution at most changes it (`AloneInv`), and what the provider answered to that one
is what it has in hand, or what the order shows. `StatusInv` does the same for DEPLETED, where a
sync must meet neither a top-up nor another sync; `KeyInv` says who holds the lock of a key that never lapsed. The proofs rest
on `ServiceAssumption`.

### 4.6 Sums

Four ledgers are sums over finite sets (`SumFunctionOnSet`, a fold). `Totals` proves what they need:
the sum over a set is the sum without one element plus that element, sums of
naturals are naturals, and `SumChange`: when one summand changes, the sum changes by as much. The library
defines the fold by recursion over subsets and its induction theorems take operators, so the lemmas
argue by a least counterexample instead: among the subsets for which a
statement fails, one of least size (`WFMin` of the well-founded sizes) is neither empty nor
the extension of a smaller one.

### 4.7 Wallets: direct purchases and withdrawals

`WalletsProofs` proves over `Payouts`, for every set of commissions and executions,
`WithdrawalsAreBacked`; over `DirectPurchase`, for every set of requests and keys, `PurchasesArePaid` and `RetriesAreFree`;
and of the composition the run explores, all three (`WalletsAreRight`).

`PayInv` adds to `WithdrawalsBacked` the two facts that make it inductive: an execution that may set commissions
back to CREDITED took them from a state in which they were credited (`OursInv`), and the withdrawal that an
approval is paying is PAID and lists them (`PayingInv`). `ShopInv` says which labels have a key, an order
or an answer (`HandInv`), that a kept answer names an order (`CacheInv`), the sum of the wallet
(`MoneyInv`), and `KeyInv`: while no lock of a key lapsed and no two requests of it overlapped, one
request at most is inside and an order of the key is guarded by the lock or by the kept answer. The proofs rest on
`PayoutsAssumption` and `PurchaseAssumption`, the latter through `ShopAssumption` of `MCWallets`.

### 4.8 Supply: promotions, checkouts, adapters

`SupplyProofs` proves, for each of the three parts and for the composition `Supply`:

| Theorem | States |
|---|---|
| `CatalogueIsKept`, `CatalogueStays` | one promotion in force, no edit undone |
| `CheckedAreBought` | `Spec => []CheckedIsBought` |
| `CountriesAreCovered` | `Spec => CountryIsCovered`, an action property |
| `BilledAreDone` | `Supply => []BilledIsDone` |
| `BoughtAreReachable` | `Supply => []OrdersReachable` |
| `ContractIsKept`, `CallsKeepContract` | the adapters implement `ProviderContract` |
| `QuotesAreSold`, `QuotesHold` | `[]QuotedAsSold`: rows, hint and list say what is charged, in every table of tiers |
| `CheckoutsHold` | the two theorems of the checkouts, of `Supply` |

*Promotions.* `OneInForce` is not inductive: an edit is checked
against a copy. `CatalogueInv` adds `Disjoint`, that no two active programmes of the catalogue overlap,
and `ReadInv`, what an editor about to write knows: its copy is the catalogue if it has the
catalogue's revision, and its change was accepted on that copy. So a write that passes the filter is an
accepted change of the current list (`ChangeStaysDisjoint`), and since the list is the one the
accepted edits made so far, none is lost.

*Checkouts.* `CheckoutInv` says that the service is one that was saved, open or closed, or deleted (`DocumentInv`), what
each checkout has settled on by its label (`JobInv`), that what was sent is what was kept (`OrderInv`), and, for the age of coverage, that a
country named by a kept answer was last covered no longer ago than the answer is old (`CoverageInv`). The last is why one
cache shared by checkouts is sound: a question under way brings what is covered at its answer to all who wait for it.

*Prices.* What a quote displays is computed from the rows that follow each other, what is charged from a search of
the table. `TierRows` shows that the order of the tiers is total, however they were saved; that a tier is first, last or next
is then an argument by least numbers (`FirstTier`, `LastTier`, `NextIs`), without a sorted sequence, whose existence
would take induction over data. The row of the tier in force is the one that holds the gigabytes (`OneRow`): a
row before it ends below the next tier's least, which is no more than they are.

*Adapters.* `AdapterInv` has one part per promise. `FigureInv` bounds the figures a request may carry by what was billed, through preflight,
template and override, and splits off the days and the country, which depend on `TemplateFits`; `ListingInv` says how far a listing has got while proxies become ready;
`CallsInv`, `LateInv` and `OpenInv` say that no unit is charged twice by the call under way, and that a request which was
given up (and may still arrive) asks only for units that nobody else will ask for. The refinement of `ProviderContract` reads
the open call off `calls`; a late arrival is charged to a call that has ended by an exception, which the contract allows,
never to one that claims something else. The eight adapters differ in their operators, not in their
actions, so each step is proved once, and the operators once per adapter.

`SuppliesApart` takes the composition to its parts: a step of one is a stutter of the others. The proofs rest on `ProcurementAssumption`, `DocumentAssumption`
(what a document of a service, a partner or a request looks like) and `SupplyAssumption`, which is the assumption of the adapters and of the
promotions. One of its conjuncts is a bound of the code: `MaxQuantity <= PageSize * MaxPages`, beyond which a
listing is cut off.

### 4.9 Renewals

`DepositRenewalProofs` proves, in its second part, for every set of orders, proxies, selections and executions, every
wallet, term and threshold, any number of days, instances of the cron, requests and failures:

| Theorem | States |
|---|---|
| `RenewalsArePaid` | `RenewalSpec => []RenewalsPaid`: every debit is booked, paid back, under way or lost with its execution; renewals that do not overlap are all counted; a selection debits an order once a day |
| `PromisesAreKept` | `RenewalSpec => []PromiseKept`: no order outlasts its proxies at the provider, but for those left behind or about to be pruned |
| `SchedulesServe` | `RenewalSpec => []ScheduleServes`: unless something got in the way, an order that one schedule serves expires only when that schedule was switched off for want of money |

The inductive invariant is

    RenewalInv == /\ JobInv /\ DayInv /\ WalletRenews /\ PromiseInv /\ CountInv
                  /\ PickInv /\ CalmInv /\ ServeInv

- `JobInv`: types, and what an execution has in hand at each label (its order, its debit, its answer).
- `DayInv`: a debit of a selection needs its day lock, one run holds it, and that run has not yet debited
  the orders on its list. The scan lock plays no part: it may lapse under a running scan, and no selection is charged twice.
- `WalletRenews`: the wallet, the ledger, what is in the hands of executions and what died with them add up, as
  a sum over executions; it is inductive on the types alone.
- `PromiseInv`: `PromiseKept` for every proxy, whatever part of a renewal was carried out before it threw, and why a renewal of some proxies only may be saved: a bulk one
  prunes the others next, any other has noted them as behind when the provider answered.
- `CountInv`: of an order without overlap, one execution at most has it in hand, what that one read of it still
  stands, and number, end and quantity are right up to what it is about to save. `save()` of a copy read long before is sound
  for this reason only, which is why overlapped orders are excepted.
- `PickInv`: every renewal but a bulk one has picked all the proxies it is for.
- `CalmInv`: while nothing was disturbed, partners are open, nobody pays back, schedules run on the day they are due, and no
  proxy that the one schedule of an order holds is left behind.
- `ServeInv`: an order that ends tomorrow is still to be scanned today, or on the list of a run that
  has it to renew, or that ran out of money and switches the selection off (`Owes`); what a run saves is a term later at
  least (`Prolongs`). Tomorrow comes only when today's cron has fired and its scans are over (`NextDay`), so the order then has a later end, or no schedule.

`ScheduleServes` says that something happens in time and is proved as an invariant: the calendar is part of the state, and
a day does not end before its cron has fired and its scans are over: a scan takes minutes. The proofs rest on `RenewalAssumption`.

### 4.10 What is only model-checked

Every safety property of the passing runs is proved. Every liveness property is only model-checked: `PurchaseCompletes`,
`OrderCompletes`, `RefundCompletes`, `OrderResolves`, `CreditResolves`, `SpentIsDepleted`. They rest on fairness, and so on
`ENABLED`, which TLAPS does not reason about.

## 5. Plan

Done: every module of section 2, and the proofs of all safety properties the runs check.

What could follow:

1. That `VoucherFulfilment` implements the order in the environment of `VoucherPurchase`.
2. The issue of promotion intents, so that an intent is shown to carry a promotion that was in force.
3. Two orders in `OrderLifecycle`, to check that the lists serve every order and not only one.

### Not modelled

- *Authentication and guards*: stateless checks in front of the handlers; the models start behind them.
- *Notifications*: sockets and Telegram messages, pure output; only the marker that limits a deposit
  message to one is in `DepositCredit`.
- *Content, uploads, statistics*: CRUD and reports that nothing else reads.
- *DTOs, seeds*: shapes and test data. Of the schemas the fields the handlers use are the variables.
- *Partly modelled components*: quote caching and rate limits of vouchers; the lists, exports and searches of
  the order service; manual deposit and deduction by an administrator (one update and one row each);
  reordering and duplication of services; connection tests of partners; edits of the proxies and the threshold of a
  selection, and the unnamed selection "of the last time", which cannot be scheduled; switching
  off of a failing partner.

## 6. Running

Each configuration is named after its subject and its run; the module is the one the table of
section 3 names:

    tlc -workers 2 -config VoucherPurchase_races.cfg MCVoucherRaces.tla
    tlc -workers 2 -config VoucherPurchase_resolves.cfg MCVoucherPurchase.tla
    tlc -workers 2 -config VoucherFulfilment_fulfil.cfg MCVoucherOutcomes.tla
    tlc -workers 2 -config VoucherFulfilment_delivers.cfg MCVoucherDelivers.tla
    tlc -workers 2 -config VoucherFulfilment_recovered.cfg MCVoucherFulfilment.tla
    tlc -workers 2 -config OrderLifecycle_orders.cfg MCOrderLifecycle.tla
    tlc -workers 2 -config OrderLifecycle_settles.cfg MCOrderLifecycle.tla
    tlc -workers 2 -config DepositCredit_deposits.cfg MCDepositCredit.tla
    tlc -workers 2 -config Renewal_renews.cfg MCRenewal.tla
    tlc -workers 2 -config Wallets_wallets.cfg MCWallets.tla
    tlc -workers 2 -config SelfService_serves.cfg MCSelfService.tla
    tlc -workers 2 -config Supply_supply.cfg MCSupply.tla
    tlapm Totals.tla
    tlapm VoucherPurchaseProofs.tla
    tlapm VoucherFulfilmentProofs.tla
    tlapm OrderLifecycleProofs.tla
    tlapm SelfServiceProofs.tla
    tlapm DepositRenewalProofs.tla
    tlapm WalletsProofs.tla
    tlapm SupplyProofs.tla

The largest run is `orders` (about 3.8 million distinct states); each takes one to four minutes with
two workers.
