# Formal models of the Jewelry Shop platform

The repository is a multi-tenant Django application for jewelry shops: point of
sale, inventory, transfers between branches, procurement, customers, repairs,
accounting, gold prices, reports, backups, webhooks and administration, on PostgreSQL,
with Celery workers and a browser client that sells while offline. These modules describe the
parts where several actors change the same rows, as TLA+ specifications that TLC
checks on small instances and TLAPS proves theorems about. Module and action
names follow the source; `PROJECT.json` gives, for each definition, the lines it
models.

Contents: 1 inventory, 2 plan, 3 the modules and the code, 4 what the runs show,
5 bounds, 6 fairness and deadlock, 7 proofs, 8 disagreements found, 9 what is not
modelled, 10 how to run.

## 1. Inventory

### How the parts interact

All requests go through Django with `ATOMIC_REQUESTS`: each is one PostgreSQL
transaction at READ COMMITTED, in a worker that serves one request at a time. So
two requests meet in the rows only: a plain `SELECT` returns the last committed
version and no lock, `select_for_update` waits for the row and reads it afterwards,
a write takes the row's lock if the transaction has none, and all locks last until
the end. Model instances are copies; `save()` writes every column of the copy,
`save(update_fields=...)` the named ones, neither looks at what the row now holds.
Most of the hard behaviours below are a copy that outlives what it was read from.

Celery tasks run outside a transaction: every save is a commit of its own, and a
worker that dies loses the task it has taken (tasks are acknowledged when taken).
Beat starts the periodic tasks. The browser keeps offline sales in IndexedDB and
sends them to the same endpoints as online ones.

Tasks have no request, hence no tenant. The models take it that the database role is one
row-level security does not bind (`config/settings/development.py:32` connects as
`postgres`). Under the application role of `apps/core/migrations/0006`-`0007`, with
FORCE ROW LEVEL SECURITY, the pricing and reporting tasks, which do not bypass it, would
find no rows and do nothing.

| Part | State | Operations | Meets | Hard behaviour | Correct when |
|---|---|---|---|---|---|
| **Point of sale** `apps/sales` | `Sale` (status, number), `SaleItem`, `Terminal` | create, void, refund, hold, edit | inventory rows; signals to CRM and accounting | unlocked status checks, item locks in cart order, numbers computed from a maximum, whole-row save of the edit page | stock moves once per sale and by whole baskets for each reversal; a closed sale is reversed no more; numbers run on; requests end |
| **Stock corrections** `apps/inventory` | `InventoryItem.quantity` | API adjustment (locked); adjustment form and item form (unlocked) | the same rows as sales | a level computed from an old copy | stock is never negative; a correction changes the level by what it reports |
| **Offline sales** `static/js/pos-*` | IndexedDB store, each tab's queue, `syncInProgress` | save offline, store, load, sync, validate, post, record | service worker messages; sale endpoints | several tabs on one store, a lost response, a tab that dies in mid-sync, a failed validation | one sale per transaction; synced means sold; nothing is forgotten or waits for ever |
| **Transfers** `apps/inventory` | `InventoryTransfer` (status, number), its items, stock | request, approve, reject, ship, receive, cancel | inventory rows, sales | items read without a lock line by line, deadlocks, failure on a later line, cancel against ship | the workflow; all lines move once, together; stock is never negative |
| **Webhooks** `apps/core/webhook_*` | `Webhook` (active, failures), `WebhookDelivery` (status, attempts, next retry), Celery queue | trigger, deliver, mark, record, schedule, sweep, toggle | the triggering request's transaction, the endpoint | two sources of retries, stale copies across a 30-second call, lost tasks, rollback after queueing | given up only after all attempts; every retry ends; success is final |
| **Procurement** `apps/procurement` | purchase order, goods receipts, stock | create, approve, send; receive, complete | inventory rows | completion on an unlocked copy; but no form of the code can create a receipt with an item (section 9) | each unit received enters the stock and the order once |
| **Customers** `apps/crm` | points, store credit, purchases, tier; gift cards; their transaction logs | redeem, give, transfer, expire, credit, spend, edit, issue, use, cancel; loyalty signal on each sale save | the till's sale, which locks the customer | unlocked read-check-write of balances; whole-row save of the form; the award repeats on later saves; crossing transfers | a balance is the sum of its log and never negative; the till's copy is current; one award per sale |
| **Repair orders** `apps/repair` | django-fsm status, photographs, estimates | status changes, work, delivery, custom-order approval | notifications | transition bodies that save before the state is set | the stored state is the one shown; the workflow |
| **Gold rates and prices** `apps/pricing` | rates per market, rules, item prices and their log, overrides | fetch, recalculate (all, or one karat), request, approve, reject | item prices, the item form | deactivate and insert in two commits; fetches that overlap; prices computed from copies; a log row that does not fit poisons the transaction | a rate is active again and again; price and log agree; an override is applied once or never |
| **Subscriptions** `apps/core/stripe_*` | subscription, tenant status | API calls, Stripe events, admin pages | Stripe | events arrive out of order or twice; pages save whole rows over them | tenant status follows the last event that Stripe made |
| **Accounting** `apps/accounting` | journal entries, bills, invoices, assets, reconciliations | sale signal, payments, depreciation, reconciliation | sales, django-ledger | most handlers that change balances end in an exception and roll back (section 9) | entries balance; one entry per sale and per month |
| **Tenancy** `apps/core/tenant_*` | session variable, RLS policies | set and clear per request | every query | session state on pooled connections | a request sees its tenant |
| **Authentication, limits** `apps/core` | sessions, counters in the cache | login, lockout, throttling | cache | counters shared between workers | lockout at the limit |
| **Notifications** `apps/notifications` | notices, mail and SMS rows, campaigns | create, send, schedule, provider callbacks | providers | duplicate sends | a message per recipient |
| **Reporting** `apps/reporting` | `ReportSchedule` (status, frequency, last and next run), executions, Celery queue | scan, run, retry, daily refresh; create, edit, pause, resume, delete | mail | stale copies written in two commits, scans and retries of one schedule at once, a date the calendar lacks, dead workers | no run is skipped; what is due is served; tasks change no status but by completion and by their last failure; a next run is not lost before the end |
| **Data import and export** `apps/core/data_*` | files | run | the same models | | |
| **Backups** `apps/backups` | `Backup` rows, files in three stores, the WAL directory, restore logs, row-security switch, a Redis lock | dump, compress, upload, verify, archive WAL segments, two retention tasks, restore, recovery | pg_dump, storage services, the `tenants` table | uploads that fail or lie, two runs on one segment, retention against tasks that write whole rows, workers dead between file and row or between the two ALTER TABLE | a path in a row names a file; a segment is removed only when stored; row security comes back on; nothing stays in progress but what a dead worker left |
| **Administration, caching, deployment** | alerts, jobs, flags, audit log, cache; compose and k8s files | single-row edits | | | |

### Hazards

`PROJECT.json` lists the hazards of the modelled parts at their lines, with the
properties that would catch them. By kind: reads that are not locked (sale status, items in
transfers and item pages, balances, overrides, gift cards), copies that outlive a network
call or a report (webhook attempts, schedules, backup rows), order (sale numbers), failure
half-way (second line of a shipment, tab closed between sale and status, worker dead between
two commits, one of three uploads), repeated calls (two retries of one delivery, the loyalty
signal, two scans), waiting (item locks in cart order, transfers of goods and of points),
dates that do not exist. Those without a property say why.

Smaller ones, and those of parts that are not modelled, are only named here: the service
worker reads a request's body after `fetch` has consumed it
(`static/js/pos-service-worker.js:196`); transfer numbers count the day's transfers
(`apps/inventory/models.py:655`); a reported count is used as it came (`:725`);
`record_failure` increments a copy (`apps/core/webhook_models.py:194`);
`calculate_retry_delay` indexes with the count after the increment
(`apps/core/webhook_tasks.py:485`); a cart that names an item twice deducts from two copies
(`apps/sales/serializers.py:423`); a journal entry per save of a sale
(`apps/accounting/signals.py:31`); django-fsm transitions that save before the state is set
(`apps/repair/models.py:171`); the order of Stripe events
(`apps/core/stripe_webhooks.py:130`); restores read a format the dumps do not have
(`apps/backups/tasks.py:2059`, section 8).

## 2. Plan

In this order, most important first:

1. `StockLedger`, `PosSales`: sales and corrections on shared rows. **Done**, proved.
2. `OfflineSync`: the offline queue in front of it. **Done**, safety proved.
3. `TransitLedger`, `StockTransfer`: the other writer of the inventory rows. **Done**, proved.
4. `WebhookDelivery`: Celery tasks, retries and sweeps. **Done**, invariants proved.
5. `CustomerWallet`: points, store credit and gift cards with their logs, and the till's
   sale among the requests that change them. **Done**, proved.
6. `GoldPricing`: rates, recalculations, overrides. **Done**, safety proved.
7. `Backups`: tasks, files, retention, restore. **Done**, safety proved.
8. `ScheduledReports`: schedules, their tasks and the daily refresh. **Done**, safety proved.
9. Next: `Subscription` (unordered Stripe events against whole-row saves of the admin pages),
   `RepairOrder` (django-fsm with saves inside transitions), `SaleSignals` (the journal
   entries of repeated sale saves), `SaleLines` (a cart that names an item twice).

A `GoodsReceipt` was planned and dropped: no request can bring the program into its states
(section 9).

Compositions: `PosSales` and `StockTransfer` implement abstract ledgers over the same
stock; `StockTransfer` contains the sale step of the point of sale as its environment,
`CustomerWallet` the part of that step that touches the customer, `GoldPricing` the item
form's save.

## 3. The modules and the code

| Module | Role |
|---|---|
| `StockLedger` | What the point of sale promises: sell once, reverse once, correct. No requests, no locks. |
| `PosSales` | Requests of `apps/sales` and the stock corrections as transactions with locks and copies. |
| `PosSalesProofs` | Theorems about `PosSales`. |
| `OfflineSync` | Tabs, IndexedDB, connection, server, for the offline sales of one terminal. |
| `OfflineSyncProofs` | Theorems about `OfflineSync`. |
| `TransitLedger` | What transfers promise: goods leave once and enter once. |
| `StockTransfer` | The six transfer endpoints with the reads and locks of `mark_shipped` and `mark_received`. |
| `StockTransferProofs` | Theorems about `StockTransfer`. |
| `WebhookDelivery` | Celery tasks of one webhook's deliveries. |
| `WebhookDeliveryProofs` | Theorems about `WebhookDelivery`. |
| `CustomerWallet` | Requests of `apps/crm` and the till's sale on customers and gift cards. |
| `CustomerWalletProofs` | Theorems about `CustomerWallet`. |
| `GoldPricing` | The rate task, recalculations and override decisions of `apps/pricing`. |
| `GoldPricingProofs` | Theorems about `GoldPricing`. |
| `Backups` | The tasks of `apps/backups` on rows, files and the row-security switch. |
| `BackupsProofs` | Theorems about `Backups`. |
| `ScheduledReports` | Beat, tasks and people on the rows of `ReportSchedule`. |
| `ScheduledReportsProofs` | Theorems about `ScheduledReports`. |
| `MC*` | Values of the constants for TLC. |

**`PosSales`.** `quantity`, `status`, `basket`, `number` are the committed columns.
`lock[r]` is the row lock's holder, `pc[w]`, `want[w]`, `txn[w]`, `seen[w]` are the
request in worker `w`: where it is, the row it waits for, the sale as it was read,
and the item copies. A transaction writes only rows it has locked, nobody else sees the
writes before it commits, and no request reads its own writes in a way that
matters, so all writes are put into the committing step. `BeginCreate` ..
`CommitCreate` is `SaleCreateSerializer.create`: lock the terminal, compute the number,
lock and check each line's item, insert and deduct. `BeginReversal` ..
`CommitReversal` is void and refund: the status is checked on an unlocked copy before
the items are locked, and again on that same copy. `BeginEdit`/`CommitEdit` is the edit
page, which writes the status it read. `PutOnHold` writes without looking. `AdjustStock`
is the API, one step because it locks, checks and writes one row;
`BeginItemSave`/`CommitItemSave` are the two web pages. `Abort` is a worker lost or timed
out, `DeadlockVictim` PostgreSQL's choice. A sale is created
with any of the four statuses, as the serializer admits them all (`serializers.py:160`), and its stock is deducted in each case.
Histories: `corrected` is the net change the corrections reported, `returned[s]` how often the items of `s` were put back,
`levels[i]` every quantity `i` has had. `StockLedger` has the last three as well: it sells a basket once and from stock that
is there, puts a whole basket back for each accepted reversal, and corrects from the current level or, as an unlocked page
does, from one the item has had. The model thus keeps every race of the code: what the ledger promises holds under all of them, and that a sale is reversed once (`ReversedOnce`) does not.
Abstractions: prices, customers, payment and taxes; one day's numbers; a cart
names each item at most once (plan, 9); serialised items; the order of a cart's lines is
free (more orders than a fixed cart has).

**`OfflineSync`.** `inbox` is what the service worker posted to a tab, `disk` the
IndexedDB status, `queue` the tab's `pendingTransactions`, `at` and `cur` the place
and the transaction of the running `syncPendingTransactions`. One await of the code is
one step: validation, the POST, its response, the status write. A request while offline
fails; a drop between `Post` and `Receive` loses the response. `CheckoutCutOff` is an
online checkout whose response is lost, after which the sale is also stored offline.
Server stock is one number, reduced by other terminals down to `Reserve`. Two histories name what the code does not protect:
`doubtful`, the transactions it may send twice (a checkout cut off, a tab closed between the POST and the status, a tab that loads what
another has in its queue), and `orphan`, those a closed tab had in memory until some tab loads the store again.

**`StockTransfer`.** `BeginMove` locks the transfer and checks its status; `ReadItem`
reads one line's item without a lock and checks it; `WriteItem` waits for its lock and
overwrites; `CommitMove` makes it visible. A count is taken as the receiver reported it, below zero too (`Reported \subseteq Int`,
`models.py:729`); `counted` records it. `Decide` is approve, reject or cancel,
one step because nothing but the transfer's own locked row is touched. `Sell` stands for the
point of sale. `Quiet` names items for which nothing else moves stock during a
shipment: the code does not ensure that, so `ImplementsTransit` speaks about these
only, while everything else is checked and proved with all items contended.

**`WebhookDelivery`.** `cur[w]` is a task's copy of delivery and webhook, `queued` the
waiting tasks, `todo` a sweep's list of copies. Every save is a step. `ScheduleRetry`
queues the task's own retry, the sweep queues the same delivery again: both exist in the
model as in the code. `Unexpected` is the last handler of `deliver_webhook` (copies keep what
the failed save had put in them), `Die` a killed worker. `EndRequest` decides whether
the triggering transaction commits after its task was already queued. Delays are "later" or
"now"; `accepted` is a history variable of the endpoint. `Toggle` is one step: the view
writes the one flag it read, and a step in between has no effect that a Toggle before or
after it has not.

**`CustomerWallet`.** `row[c]` are the four wallet columns, `card[k]` a gift card;
`copy`, `other`, `held` are what a request has read, `lock` the row locks. A request begins
with its unlocked read and its check (`BeginOne`, `BeginTransfer`, `BeginExpire`,
`BeginCard`), and ends with a save of the named columns (`Save`: `update_fields`, all
columns for `EditCustomer`). Transfers that wait for each other in a circle end in
`DeadlockVictim`. `BeginSale` is the till: it waits for the customer's row, locks it
and reads it; `FinishSale` is the save of the sale with its signal, then that of the
customer. `BeginResave`/`Resave` is a later save of a completed sale, which runs the signal
again. Expiry is read, mark, save (`ListOld`, `MarkOld`, `Expire`), in the order of the view.
`lost` is a history variable: the rows some request has written over a change it had not seen.
That happens, so the balance properties speak of the other rows; they still say that
tier multipliers, expiries, refusals, partial updates and transfers keep the log and the
balance together. The `books` are histories of the transaction rows. Abstractions: one tier; amounts
are whole; a transaction's age is a choice of the expiry; referrals, which nothing calls.

**`GoldPricing`.** `active` are the active rates of one market, oldest first, `fetch[f]` a fetch
task between its commits. `seen`, `todo`, `wrote`, `doomed` are one recalculation: what it read, what is to come, what
it has saved in its transaction, and whether a statement failed (`TooFar`: the percentage does not fit the log's column), after
which PostgreSQL refuses everything and the commit keeps nothing. `BeginReview`, `Reject`, `Approve`,
`Apply` are the manager's requests, with the row locks of their saves. `SaveForm` is any
save of a whole item row. `raced` and `unlogged` are histories that name what the code does not
protect: overrides decided by two managers at once, items saved by a form. Abstractions: one market; the price is rate
times a weight, as the rule's other factors do not change; a bulk request is the daily task's code.

**`Backups`.** `status`, `paths`, `encName`, `age` are the rows, `held[f]` the stores that hold a file,
`original` and `scratch` the WAL directory, `forced` the row-security switch,
`log[b]` a restore. `cur[w]` are the local variables of the task in worker `w` at the place `pc[w]`; each commit,
upload, and external command is a step, and can fail. `Begin` .. `Done` is a full, tenant or
configuration backup, `ScanWal` .. `ConfirmWal` a segment, `BeginExpire` .. `ExpireRow` and
`BeginCleanup` .. `DeleteOrphans` the retentions, `TriggerRestore` .. `EndRestore` the restores. `Error` is the exception that
reaches a handler after the copy was changed, `Die` a killed worker. An upload may store the file and report a failure.
`broken` is a history variable: a task died between the two ALTER TABLE statements, or the second failed. Tasks
take half an hour at most, rows age by weeks: `GrowOld` does not happen under a running task, nor do two
cleanups overlap. Two runs may take up one segment (`ScanWal` has no guard against it, as `tasks.py:1017` has none): they
write one scratch file, and a half-written file can replace a whole one in a store. `contended` is the history of the segments that two tasks have handled
at once, `died` that of the rows whose worker died. Nothing calls `cleanup_old_backups`: its docstring says it "should run daily at 5:00 AM" (`tasks.py:3372`), the beat
schedule (`config/celery.py:33`) has no entry for it. `BeginCleanup` may therefore happen, started by hand, and never has to. Contents, sizes, keys, checksums and alerts are left out.

**`ScheduledReports`.** `row[s]` has status, frequency, last and next run. `Scan` queues a message for what is due,
`Take` acknowledges it and reads the row, `Run` makes and mails the report, `SaveNext` and `SaveRun` are the two commits of
`update_next_run()` and `save()`, `Fail` the exception handler with Celery's retry, `Crash` a dead worker. `refresh` is the
daily task's list of copies, saved newest first; a date that does not exist raises in all of them (`Raises`). `form` is a
page between its read and its save, `MarkStatus` the admin actions. The dates, a pair of start and end, are a column like the frequency: forms
create and edit them (`SaveForm`, which refuses an end that is not after the start, `models.py:252`), and every copy a task or the
refresh has read keeps those it read. `latest`, `had` and `failures` are history variables: the latest run or start the
schedule has had, the frequencies it has had, its failed attempts. Abstractions: executions, counts and files are left out; a period is a number of instants, and the instants without a
counterpart one period later are given.

## 4. What the runs check

Passing runs:

| Run | Instance | Shows | Distinct states |
|---|---|---|---|
| `pos_shared` | 2 workers, 2 terminals, 2 items, 2 sales, 3 requests of every kind, any number at once per sale, sales created in any status | `ImplementsLedger`: every behaviour is one of `StockLedger`; `LockInvariant`: locked copies are fresh and stock never negative; `NumbersConsecutive`; `Answered`: all requests end | 254 262 |
| `off_faults` | 2 tabs, 2 transactions, closing and loading, cut-off checkouts, a drop | `SyncedHasSale`: a transaction marked synced was sold, whatever failed; `NoDuplicateSale`: two sales only in the three named situations; `NoneForgotten` | 735 953 (transactions symmetric) |
| `off_settles` | 2 tabs that stay open, 2 transactions, cut-off checkouts, 2 drops, stock that runs out | `StoredIsSettled`: what is stored gets an outcome | 142 058 |
| `trn_overlap` | 2 transfers, 3 items, 2 workers, sales, counts of 0 and below | `FollowsWorkflow`; `StockInvariant`: only a negative count takes stock below zero; `ImplementsTransit` for the quiet item; `Answered` | 359 992 |
| `hook_retry` | 1 delivery, 2 workers, 2 attempts, 1 fault, toggling | `RetryInvariant`: the columns agree however tasks overlap; `RetriesEnd` | 183 502 |
| `wal_all` | 2 customers, 2 gift cards, 1 sale, 2 workers, 3 requests of 14 kinds | `CreditAccounted`, `PointsAccounted`, `CardSettled`: what was not written over agrees with its log; `SaleSeesLatest`: the till's lock holds off every view; `Answered` | 151 731 |
| `price_all` | 2 items, one with a rule, 2 fetch tasks, 2 workers, 1 override | `PriceLogged`, `ReviewedOnce`, `RateReturns`: overlapping or dying fetches always leave a rate again | 1 226 080 |
| `bak_tasks` | 2 of 4 rows (full, tenant, 2 of one segment), 2 workers, overlapping runs of one segment, retention, a restore, 1 fault | `Restorable`, `VerifiedEverywhere`, `WalKept` | 5 371 463 (workers symmetric) |
| `bak_settle` | 2 of 3 rows (2 full, a segment), 2 workers, 1 fault or death | `RowSecurityBack`; `BackupsSettle`: no row stays in progress unless its worker died | 827 889 |
| `rep_all` | a schedule, daily or monthly, two pairs of dates and one the forms refuse, a missing date; 2 workers, 1 retry, 1 edit or death, time 0..2 | `NoPeriodSkipped`, `StatusMoves`, `NextRunKept`, `DueIsServed`, `Rescheduled` | 550 095 |

Where the code does lose a race, the property says so by an exception that is part of it, and the run keeps the race: `NoDuplicateSale`
excepts `doubtful`, `NoneForgotten` excepts `orphan`, `Restorable` and `WalKept` except segments in `contended`, `BackupsSettle` rows in
`died`, the balances rows in `lost`, `ReviewedOnce` overrides in `raced`, `PriceLogged` items in `unlogged`, `StatusMoves` and `NextRunKept` copies whose dates the row no longer has.
Each exception is recorded by the step that opens it, so that the property still says that nothing else does. A contended
segment, for one, spoils no other file. Two cases are left out by the instance instead, as what they would show is plain: `ImplementsTransit` speaks of quiet items (section 3), and in
`off_settles`, which asks what must eventually happen, tabs stay open.

Two runs show a disagreement: `wal_award`, with a violation of `AwardedOnce`, and `pos_void`, with one of `ReversedOnce` (section 8).

Each property of a passing run has a mutant in `PROJECT.json`: a change of the modelled
code, such as a dropped lock, a status not set, a reload of failed transactions, with
which TLC finds that property violated.

## 5. Bounds

- `MaxRequests` 3: a sale and two more requests meet, or two sales and one, which is
  what every known interference needs (create, read, other request, write). Two workers give
  all pairwise overlaps; a third worker adds only queues for a lock.
- `Basket` is one of each item, or two of the first: carts that share items, one that can run short,
  both orders of locking. `Opening` leaves the second item for one sale only; `Plenty` for two, so
  that number collisions are reached.
- `Level` 0..3 bounds what a correction can leave; levels above the opening are included.
- `MaxDrops`: two drops let a first sync and its repetition both be cut off.
  `Stock`, `Reserve`: the stock may run out (`Reserve` 0).
- `Lines` asks for two different sets, one more than stock after the other; `Reported` {0, -1} is a line that did
  not arrive and a slip of the pen, beside the count as sent.
- `MaxAttempts` 2 and `DisableAt` 3 (5 and 10 in the code): a first, a middle and a last attempt, and a webhook that is switched off
  by failures of one delivery. `MaxTasks` 2 counts waiting tasks up to two: more are not told apart.
  `MaxFaults` 1 puts one death or escaped error at every point. One delivery: deliveries of one webhook meet
  only in its failure count and flag, which `Toggle` and overlapping tasks already change at any time; the theorems hold for any number.

- `wal_all`: three requests are enough for a read, a write in between and a stale save, and for a third to read the
  result; two customers for crossing transfers; one card with and one without a customer; the opening purchases are at the tier's
  threshold, so that multipliers of both tiers occur.
- `price_all`: rates 1 and 3 with `MaxRise` 1: one item's change fits the log and another's does not. Two fetch tasks overlap in every way;
  nothing else is bounded (requests recur for ever).
- `bak_*`: `MaxBackups` 2 is a pair of backups, among them full with full (`bak_settle`) and a segment with its repetition (`bak_tasks`);
  `MaxFaults` 1 puts one failed step, false report, error or death at every point of it. One cloud store stands for two, as the code
  treats them alike; the theorems have any number. `RowSecurityBack` needs two full backups, `BackupsSettle` one row of each sort of task besides.
- `rep_all`: periods of 1 and 2 instants and time up to 2 give runs before and after the end (1), a run from an instant without a monthly
  counterpart (1), and a change of frequency or dates. `Dates` are an early start with an end, a later start without one, and a pair the form refuses. `MaxEvents` 1 is one edit or death at
  every point. Two workers: tasks of one schedule overlap, with different copies. `MaxQueued` 1: more waiting messages of one retry are not told apart. One schedule:
  schedules meet only in the order of the refresh. The theorems hold for any number of schedules, workers and edits. ONCE and CUSTOM are not chosen: the calculation is mapped, but its
  next run is never due twice.
- `off_*`: two transactions and two tabs give every overlap of two loops on one store; one drop and a close at every point (`off_faults`), two drops and
  a stock for two sales (`off_settles`).

The theorems of section 7 have none of these bounds.

## 6. Fairness and deadlock

- `PosSales`: weak fairness of each worker's step, the database's deadlock detection included. No fairness for
  arrivals or aborts. Weak fairness suffices because the number of requests is bounded: a lock cannot be taken for ever by others.
- `StockTransfer`: strong fairness of a worker's step, because sales and decisions never run out, and PostgreSQL serves the
  waiters of a row in order.
- `OfflineSync`: weak fairness of each tab (event loop and five-second timer of `startPeriodicSync`) and of the connection's return.
- `WebhookDelivery`: weak fairness of a task's own steps and the clock; strong fairness of taking a waiting task and of starting the
  sweep, because the queue hands tasks out in order. Faults are bounded, toggling is not.

- `CustomerWallet`: weak fairness of each request's next step; the number of requests is bounded, so a row cannot be locked for ever.
- `GoldPricing`: weak fairness of a fetch task's step (beat starts one every five minutes, a provider answers at times), and strong fairness of the
  commit that creates a rate: not every task dies before it. No fairness for anything else.
- `Backups`: weak fairness of a task's steps (commands have time limits). No fairness for new backups, restores, faults, ageing, nor for `cleanup_old_backups`, which no
  entry of the beat schedule starts: a row whose worker died stays in progress, and `BackupsSettle` excepts it.
- `ScheduledReports`: weak fairness of the scan and the daily refresh (beat) and of a task's steps, strong fairness of taking a waiting
  message. None for time, people and deaths.

What each of them needs of the locks is proved too (`NobodyStuckHolds`, section 7): requests never all wait for each other.
Sales and transfers of goods or points can wait in a circle, and PostgreSQL ends one of them; prices cannot, as a recalculation takes its items in one order and an approval its request
before its item.

TLC checks for deadlock in the `pos_*` runs (`AllServed` marks the state where nothing is left to do), `price_all` and `rep_all`. The other runs
say `CHECK_DEADLOCK FALSE`: once all offline sales are settled, transfers closed, deliveries done, the bounded requests served or the rows old, nothing need happen.

## 7. Proofs

Checked by TLAPS for every value of the constants that meets the named assumptions
(`PosAssumption`, `TransferAssumption`, `WebhookAssumption`, `WalletAssumption`, `PricingAssumption`, `BackupAssumption`,
`ScheduleAssumption`, `OfflineAssumption`: sets disjoint, sentinels outside them, quantities natural; TLC evaluates them in each run).

**Point of sale** (`PosSalesProofs`).
`TypeCorrect`; `LockCorrect`; `StockNeverNegative`; `PosImplementsLedger`; `NumbersCorrect`; `NobodyStuckHolds`. All are for every kind of request, any status
a sale is created with, and any number of requests per sale.
That stock is never negative is not inductive: a commit subtracts from a copy. `LockInvariant` says what
makes the copy good: locks are held only in the phases that lock (`LockPhases`), a request waits for a row of the right
kind (`WaitsForRow`), the copy of a locked item is the committed quantity (`FreshWhileLocked`), a sale's copy
covers its basket (`EnoughLocked`), and a page's copy plus its change is not negative (`SavesNonNegative`). It holds
for all kinds of request, so the double void and the lost correction do not make stock negative: they make it wrong.
How wrong, `PosImplementsLedger` says. Its `CopyInvariant`: what a request has read of a sale's basket is the basket, which is never changed
(`BasketCopies`), though the status it read may be stale; and every copy a page will save from was once the item's quantity
(`LevelsRecorded`). The refinement maps `sold` to the basket of a committed sale; each commit is a ledger step, all else stutters. `NumberInvariant` says that a sale has a number exactly if it is there (`NumberedSales`), that a request finds
its sale there exactly if it does not create it (`CopiesExist`), that two creating requests are about two sales (`NewSales`), and that a number picked is one more than
a committed number, or 1 (`PickedNumbers`), which a number never ceases to be, since none is deleted. That the number is still free at the commit is the unique
constraint's doing. `NobodyStuckHolds`: whenever requests are in hand, one of them waits for no lock or is one that deadlock detection ends. It is what `Answered` needs of the
locks; that the request then moves is fairness, and TLC's. It follows from the locking half of the invariant: locks are held only by requests in hand, so if all of these wait,
they wait for each other.

**Transfers** (`StockTransferProofs`). `TypeCorrect`; `MoveCorrect`; `TransferStockCorrect`; `WorkflowFollowed`; `TransferImplementsTransit`; `NobodyStuckHolds`, as for sales.
`MoveInvariant`: a moving request holds its transfer's lock and the status is what it checked (`HoldsTransfer`), requested
transfers do not exist yet (`Requests`), locks belong to moving requests (`LocksHeld`), the lines are the transfer's
(`MovesItsLines`), a shipment's copies allow its deductions (`EnoughRead`), copies of quiet items are current
(`CurrentCopies`). `StockInvariant` adds that quantities and copies of an item are not negative unless a receipt was reported with a negative count of
it (`Miscounted`): a shipment deducts no more than its copy holds, stale or not, so it cannot go below zero, though it may undo a sale. A miscount is never undone, as a
transfer is counted when it is received and not before (`CountedOnReceipt`).

**Webhooks** (`WebhookDeliveryProofs`). `TypeCorrect`; `RetryCorrect`. `RetryInvariant` is inductive with `TypeOK`: every
task writes status, attempts and due time together, in `mark_as_failed`, and from one copy, so the columns
agree with each other even when the copy is old.

**Customers** (`CustomerWalletProofs`). `TypeCorrect`; `SaleCorrect`; `CreditCorrect`; `PointsCorrect`; `CardCorrect`. The invariant adds to
the types that a request's copy allows what it is about to write (`Check`: each request checks and writes from one copy, which is why no
balance is ever negative, though changes are lost), that the till holds the lock of its customer, whose row its copy then is (`Lock`), and that a
listed expiry is what it says (`MemoryOK`). `Accounts` are the three balance properties.
These except the rows in `lost`; what the exception is worth, three theorems say. `SalesLoseNothingHolds`: whatever else has copied the customer, a sale
writes over nothing, as its row is locked before it is read. `NothingLostAtTills`: so nothing is lost however many tills sell to the same customers. `BooksBalance`: then
credit and points balance without exception. `AwardedOnceUntilSavedAgain`: without the request that saves a completed sale again, points are awarded once, however all else overlaps, so the
defect of section 8 is that save's alone. `NobodyStuckHolds`: its invariant says which row each request holds at which place (`Holders`); if
all wait, the till's customer is held by a transfer, and every transfer's by another, which is a circle.

**Gold prices** (`GoldPricingProofs`). `TypeCorrect`; `PriceCorrect`; `ReviewCorrect`. Price and log change in one transaction; an approval's
row lock and `Missed` tie `applied` to the status. `ReviewedOnce` excepts overrides two managers decided at once. `NobodyStuckHolds`: among the transactions of pricing no circle is possible (`Ordered`: a
recalculation holds items below those it has yet to take, an approval only its request), so here deadlock detection is not called on. The item form takes one lock, and is one step.

**Backups** (`BackupsProofs`). `TypeCorrect`; `RowSecurityReturns`: whoever finds the switch off is in a dump, or a history of failure excuses it;
`VerifiedHolds`: a verified row's file was found in all stores, and what could remove it, a retention listing, holds only rows older
than a month, by an invariant over the lists of running retention tasks. `RestorableHolds` and `WalKeptHolds` hold for every overlap; they except the segments that two tasks have handled at once (section 8). Their `FileInvariant`: whoever writes a name's files is alone, no other row names it, and no retention task has it on its
list for a cloud store (`WritesAlone`), because a segment is not taken up again while a row has its final name, and becomes contended if another task handles it; what a
retention task has listed belongs to one row, old enough (`ListedAlone`); a task's list of stores names only stores that hold the file (`StoredHeld`), and a
segment's encrypted file is whole when it is sent (`Shape`), unless it is contended, which it remains. The 36 actions of a worker fall into six kinds: a task goes on (`GoesOn`), saves its row, starts, deletes a file, clears
paths or rows, or reads. What each kind leaves alone is a lemma (`GoesOnFrame` and so on), and the invariants are preserved kind by kind.
`PlainBackupsHeld` needs no exception: of full, tenants' and configuration backups the file a row names is there until it expires, since
a name is used once. `RowSecurityFaultFree` sharpens `RowSecurityReturns`: before the first fault the switch is off only
between the two ALTER TABLE statements.

**Reports** (`ScheduledReportsProofs`). All for any number of schedules, workers, retries and edits. `NoPeriodSkippedHolds`: `Chosen` says that every copy's frequency is one its
schedule has had and its dates were chosen for it, `InTime` that the last run and the start in every copy, of tasks, refresh and form, are no later than `latest`, so that whatever is computed from it comes too early
at worst, or within a period it has had. It cannot be bounded by the present start and period: a refresh that read the row before an edit writes the next run of the old ones, until it runs
again (`Rescheduled`). `StatusMovesHold`: `Counted` says that a message or task with `r` retries stands for `r` failures, and that a completing task has found the end of its own copy of the dates passed: the
row's end, unless it was edited since. `NextRunKeptHolds` is the safety half of what TLC checks of due schedules: a next run is taken away from a recurring schedule only after its end, or by
a copy with other dates. A form may take one away: saved after its row was deleted, it inserts the row paused, without a next run, and it waits for the daily refresh.

**Offline sales** (`OfflineSyncProofs`). `TypeCorrect`; `SyncedCorrect`: between validation and the status write a tab has a transaction
in hand, and once it has the response the sale exists (`InHand`). `NoDuplicateCorrect`: a transaction not in `doubtful` is waited for by one tab at most
(`OneSender`), what the loop has yet to take is unsold (`NotYetSold`), and what is sold is either no longer pending or the
transaction in hand (`SoldIsRecorded`), so that loading the queue anew cannot bring it back. `ConflictCorrect`, with the same exception:
what is marked as a conflict has not been sold. `NoneForgottenHolds`: a sale the cashier
was told of is in the inbox of some tab until it is stored, and what is pending is in the queue of some tab that has not passed it, unless it is an orphan of a closed tab. All three are for any number of
tabs that open, close and overlap. The last is the safety half of
`StoredIsSettled`: nobody has to reload a page for a sale to be sent.

Model-checked only: the liveness properties (`Answered`, `StoredIsSettled`, `RetriesEnd`, `RateReturns`, `BackupsSettle`, `DueIsServed`, `Rescheduled`), which
TLAPS does not reach. All safety properties of the passing runs are proved.

## 8. Disagreements with the documentation

The run `wal_award`: `award_loyalty_points_on_sale` looks for a `LoyaltyTransaction` of the sale, but `add_loyalty_points`
creates one without a sale, so each later save of a completed sale awards its points again. The
comment at `apps/crm/signals.py:51` says "Check if we've already awarded points for this sale", `:38` "to avoid duplicate awards on subsequent saves".

The models show the following too; each can be reproduced with a change of a configuration, or by adding the formula given.

| Where | What happens | What the repository says | To see it |
|---|---|---|---|
| void, refund (run `pos_void`) | two voids both pass the unlocked check, both restore the stock | "marks the sale as cancelled and restores inventory" (`apps/sales/views.py:193`), "This sale cannot be cancelled" (`apps/sales/models.py:391`) | `pos_void`, `ReversedOnce` |
| edit page | an edit that overlaps a refund saves the old status | the page edits customer, notes, discount, payment (`apps/sales/views.py:117`) | `pos_shared`, `[][\A s \in Sale : status[s] \in {"CANCELLED", "REFUNDED"} => status'[s] = status[s]]_vars` |
| item form | the form saves a level computed before a sale | "Increase/decrease quantity" (`apps/inventory/web_views.py:317`) | `pos_shared`, `ImplementsLedger` with `Correct(i, from, n)` of `StockLedger` left out |
| offline sync | a network failure during the sync makes the transaction `failed` or `conflict`, never retried | "Will sync when connection is restored" (`static/js/pos-offline.js:599`) | `off_settles` with `Reserve = 2` and `CutOffs = FALSE`, `\A t \in Txn : told[t] ~> sales[t] >= 1` |
| receipt of goods | the receipt adds to the source branch's own item | "adds inventory to the destination branch" (`apps/inventory/views.py:1152`) | `trn_overlap`, `[][\A t \in Transfer : status[t] = "in_transit" /\ status'[t] = "received" => \A i \in Item : quantity'[i] <= quantity[i]]_vars` |
| webhook | a delivered delivery is taken up again by its second retry and becomes RETRYING or FAILED | `can_retry` leaves out SUCCESS, `completed_at` is "success or final failure" (`apps/core/webhook_models.py:354`, `:407`) | `hook_retry`, `[][\A d \in Delivery : status[d] = "SUCCESS" => status'[d] = "SUCCESS"]_vars` |
| restore | dumps are made in the plain format (`apps/backups/tasks.py:121`), `pg_restore` reads only archives: every restore of a database fails | a test expects `-Fc` of the dump, "Custom format" (`apps/backups/test_daily_backup.py:106`), as does the comment on the `pg_restore` command (`apps/backups/tasks.py:2053`) | `bak_tasks`, `[][\A w \in Worker : pc[w] = "restore" /\ log'[cur[w].job] = "FAILED" => faults' # faults]_vars` |
| WAL | two archiving runs on one segment write one encrypted file; a half-written one can be the last one stored | | `bak_tasks`, `WalKept` without `File[b] \in contended` |

The edit of the dates has such a case too: a task that read the end before it was extended writes COMPLETED over the schedule
(`apps/reporting/tasks.py:107`), and `StatusMoves` without `TaskOvertaken` shows it in `rep_all`. `cleanup_old_backups` "should run daily at 5:00 AM" by its docstring
(`apps/backups/tasks.py:3372`) but is started by nothing (`config/celery.py:33`): that is a matter of configuration, which no run can show.

Also, without a text they contradict: a schedule is queued again by each scan until its run is saved, and the report is
mailed twice (`apps/reporting/tasks.py:56`); from the 31st, a monthly schedule mails its report at each retry, ends as FAILED, and stops the daily refresh of all
older schedules (`apps/reporting/models.py:285`, `tasks.py:319`); a CUSTOM schedule never runs (`models.py:296`); a task that gives up writes FAILED over a
pause; a schedule past its end whose next run the refresh has cleared stays ACTIVE.

## 9. Not modelled

- Procurement: no path of the code creates a goods receipt with an item. The item form offers an empty list of order items
  (`apps/procurement/forms.py:316`) while the formset demands one item (`:360`), and the admin form has no tenant (`admin.py:179`). What
  completing a receipt would do, adding again what its creation had added (`views.py:1121`), is unreachable.
- Accounting: the handlers that change balances create `AuditLog` rows with fields the model does not have (`views.py:4147`, `4312`,
  `4395`, `4527`, `4860`; `services.py:2063`, `2176`, `2294`, `2767`), or compare role names that do not exist (`views.py:2416`); they raise and their request is rolled back.
  What is left is arithmetic over django-ledger and a depreciation run that a unique constraint makes harmless to repeat.
- Subscriptions, repair orders, sale signals, repeated items in one cart: next in the plan.
- Tenancy and row-level security: policies of the database session; each model is inside one tenant.
- Authentication, roles, rate limits: decided per request; the models take requests as authorised. Who may approve, ship or receive
  is therefore left out of `StockTransfer`.
- Notifications, data import and export: provider calls and file formats.
- Alerts, jobs, flags, audit, announcements, caches: single-row administrative edits; no modelled decision reads them.
- The service worker: as written it passes its request to `fetch` and reads the body afterwards, so `handleOfflinePostRequest`
  answers 500 and no transaction reaches a tab. `OfflineSync` takes its messages as inputs.
- Deployment: it fixes the assumptions on scheduling. `docker-compose` workers do not consume the queue `webhooks`, only
  `k8s/celery-worker-deployment.yaml` does; fairness of `WebhookDelivery` is justified for the latter.
- In webhooks: alerts, cleanup after 90 days, editing and deletion, signatures. In inventory: categories, soft deletion. In sales: receipts,
  searches, lists. In backups: alerts, capacity, the monthly test restore, the integrity sweep. In reports: executions, files, mail, their cleanup. In pricing: alerts, cancelled requests.

## 10. Running

    tlc -config pos_shared.cfg MCPosSales.tla      # any run: config and MC module
    tlapm PosSalesProofs.tla                       # any *Proofs module

Prefixes name the modules: `pos_` with `MCPosSales`, `off_` with `MCOfflineSync`, `trn_` with `MCStockTransfer`, `hook_` with
`MCWebhookDelivery`, `wal_` with `MCCustomerWallet`, `price_` with `MCGoldPricing`, `bak_` with `MCBackups`, `rep_` with
`MCScheduledReports`. The largest runs, of `bak_`, take nearly three minutes with two workers.
