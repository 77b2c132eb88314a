# Flash ERP: verification project

Flash ERP runs retail chains: a headquarters (HQ) web application on SQL Server, tills
(Electron) that keep selling from a local database while HQ is unreachable, an online store, a
mobile app, and the finance, stock and HR ledgers behind them. This directory holds TLA+ models
of the parts where several actors change the same state, model-checked with TLC and, for the
safety properties, proved with TLAPS for every value of the constants.

What matters most in this system is that a sale taken offline reaches HQ's books exactly once,
and that what HQ publishes reaches the tills. The models start there, and go on to the order a
customer pays on the web and collects at a shop, which crosses every part of the system, and to
the caches behind the web pages.

## Reading and running

```
tlc -workers 2 -config UpstreamRace.cfg MCUpstreamSync      # model-check
tlapm UpstreamSyncProofs.tla                                # check the proofs
```

| Module | What it is |
| --- | --- |
| `ReliableDelivery` | abstract specification: what sync promises in either direction |
| `UpstreamSync` | store outbox, sync cycles, network, HQ ingest; implements `ReliableDelivery` |
| `SaleBooks` | abstract specification: what HQ's books promise of sales and movements |
| `SaleProjection` | what HQ's projectors do with a sale and its stock movements; implements `SaleBooks` |
| `DownstreamSync` | HQ's queue of publications, store inbox; implements `ReliableDelivery` |
| `PrepaidOrder` | abstract specification: what an order paid in advance promises |
| `OnlineOrder` | one web order: payments, gateway, staff, publications, till, projections; implements `PrepaidOrder` |
| `BoundedStaleness` | abstract specification: how old a cached answer may be |
| `SharedCache` | in-process read cache over Redis: loads, locks, generations, invalidations; implements `BoundedStaleness` |
| `MC*` | values for model checking |
| `RankedSelection` | lemmas about `ORDER BY ... LIMIT n`, used by both sync proofs |
| `*Proofs` | theorems and proofs |

`PROJECT.json` lists components, runs, mutants, hazards, theorems, and the source lines each
definition stands for. Abbreviations: *till service* is
`src/apps/store-desktop/src/main/offline/local-store-service.ts`, *HQ sync* is
`src/apps/enterprise-web/src/server/repositories/store-sync.repository.ts`, *payments* is
`src/apps/enterprise-web/src/server/ecommerce/ecommerce-payments.ts`, *orders* is
`ecommerce.repository.ts` beside it.

## Inventory

| Component | State | Operations | Interacts by | Correct when |
| --- | --- | --- | --- | --- |
| Store outbox and sync cycle (till service) | `sync_outbox` rows: status, attempts, retry time, failure kind | record, expire, select, count attempt, mark accepted / rejected / failed, requeue, renumber | HTTP push and pull; local database shared with the detached sync worker | nothing recorded is lost or forgotten; acknowledged means projected |
| Store inbox (till service) | `sync_inbox` rows, local copies of HQ records | apply page, re-apply failures, report, acknowledge, requeue | pull response, push request | applied once; the newest version wins |
| HQ sync ingest (HQ sync) | `SyncInboundEvent`, `SyncInboxCheckpoint` | push, reprocess, request resend | HTTP; operators; one transaction per push | projected once; an acknowledgement is final |
| HQ downstream queue (HQ sync) | `SyncOutboxEvent` | publish, pull, redeliver, expire, acknowledge, record failure, replay | HTTP; operators | every packet is acknowledged or shown to an operator |
| HQ projectors (HQ sync) | `PosTransaction`, `InventoryLedgerEntry`, `InventoryBatch`, serials, variants, customer accounts, sales orders, transfers | one projector per aggregate | called by ingest inside its transaction | effects all there and once, in any order of delivery |
| POS accounting, finance catch-up | GL journals, cashbook | post sale, post cost, materialise | called by projectors and by finance screens | one journal per document, none without its document |
| Sync scheduling | timers, worker processes, watchdogs | start, drain, stop, kill | spawns processes on the same database | cycles keep coming; overlap does no harm |
| Till business rules | baskets, shifts, stock, layaways, transfers | checkout, return, reserve, receive ... | one local transaction each, with outbox rows | row and business write commit together |
| Postgres / SQL Server engines | the same tables | ports of the till service | several tills on one store database | same protocol |
| Online store | `EcommerceOrder`, `SalesOrder`, its parked `PosTransaction` with payment rows, `EcommercePayment`, idempotency keys | checkout, initialise and verify payment, webhook, accept, move, cancel, publish | payment gateway, staff, HQ stock, tills | recorded once, accepted only with money, at the till only when accepted, money taken is recorded |
| Online store fulfilment | fulfilments, network transfers | allocate over branches | stock, transfers | no line promised twice |
| Caches | Redis records, locks, generations; a map in each web worker | load, refresh, lock, wait, invalidate | Redis commands and messages, fallback to the database | nothing older than an invalidation that was heard; every read answered |
| Rate limit | Redis counters, per-process counters | count | Redis, with fallback to memory | the limit holds per process at least |
| Document numbering, posting engine | sequences, journals | compare-and-set, post | every finance workflow | unique numbers, balanced journals |
| ERP finance, payroll, HR, fuel | documents and approvals | request-sized workflows | database | business rules per request |
| Sessions, MFA, trials | sessions, codes, trial tenants | sign in, expire, provision | mail, worker | each step once |
| Mobile app | offline queue | enqueue, flush | HTTP | queued work is sent once and not forgotten |
| Pricing and customer rules (`packages/sync-core`) | none | pure functions | called by till and HQ | same result on both sides |
| UI, reports, printing, scripts | none of their own | | | |

Hard behaviour: two processes running sync cycles over one database; requests whose response is
lost or that commit after the sender's timeout; kills between two local writes; partial writes
kept by a caught exception; sale and stock movements arriving in any order; failed packets
re-applied after newer ones; operators requeueing, replaying and reprocessing at both ends; a
payment verified by the customer's page and two webhooks at once; a transaction that writes back
what it read before another one committed; one record changed at HQ and at the till, each with its
own version; a cache load that outlives the invalidation of what it loaded. The hazards, with
their lines, are in `PROJECT.json`.

## The models

### UpstreamSync

`status`, `attempts`, `waiting`, `kind` are the columns of a store's `sync_outbox` rows;
`waiting` holds the rows whose `next_retry_at` is ahead. An event stands for the row id and its
idempotency key; `renamed` holds the rows whose id and key the receipt-number repair changed,
which makes answers to the old id miss them. Each member of `Workers` is a process that runs
`runRemoteSyncCycle`; its `phase`, `batch` and `answer` are the locals of that function.
`inbound` is `SyncInboundEvent.status`; `applied` counts committed projections and exists only in
the model. `verdict` is what HQ's projector would answer now; it turns to `accepted` when HQ gets
what was missing.

| Action | Code |
| --- | --- |
| `Record` | outbox rows written with a sale (and with every other business write) |
| `StartCycle` | `expireExhaustedOutboxRetries`, `getPendingUpstreamRows` |
| `PullFailed`, `StartPush` | the pull loop between selection and push; `markOutboxAttemptStarted` |
| `HqPush`, `HqLatePush` | `pushStoreNodeSync` as one transaction, for a waiting and for a vanished sender |
| `PushFailed`, `ReceiveResponse` | `markOutboxTransportFailure`; `markOutboxAccepted` and `markOutboxRejected` |
| `Crash` | the worker is killed by its watchdog, the window closes, power fails |
| `Requeue` | `requeueDeadLetters` with `repairLegacyPosTransactionConflicts` |
| `HqReprocess`, `HqCorrects` | `reprocessStoreInboundEvent`; HQ's users supply what was missing |

### SaleProjection

What happens inside `HqPush` to a sale and its movements. A projector looks up, writes, looks up
the next thing and writes again; `applyInboundProjectionEvent` catches the error *inside* the
transaction, so the writes before it are committed with the failed status. Each action is one
delivery of one event and performs every write up to the first obstacle. Obstacles are the
`<<sale, hurdle>>` pairs of `blocked`, which HQ's users remove one at a time (`PutRight`), and
batches HQ does not have yet or not enough of; a receipt creates a batch or adds to it
(`BatchArrives`). Where an obstacle is met decides what it leaves behind:

| Action | Obstacle | What stays |
| --- | --- | --- |
| `SaleRefused` | product missing, customer is another one | everything, the parked handoff included |
| `SaleLacksVariant` | variant missing, or of another product | the parked handoff is deleted, nothing replaces it |
| `ProjectSale` | serials, then credit | the completed transaction, without what follows |
| `ProjectSale`, `ProjectMove` | posting, numbering, cost (`Book`) | the above, and the journals before the failure |
| `MoveLacksProduct` | product missing | everything |
| `MoveFallsShort` | batch missing or too small | the allocations before it are taken |

`Book` is the accounting both projectors call,
`MaterializeSale` and `MaterializeCost` are the finance screen's catch-up. Counters (`variants`,
`customer`, `journal`, ...) say how often an effect was written. Quantities are one unit for each
batch allocation; one ledger entry stands for the entries of all allocations, which are created
by one statement.

### DownstreamSync

`queue`, `tries`, `waiting` are HQ's `SyncOutboxEvent` rows for one store; `inbox`, `received`,
`acked` the store's `sync_inbox`; `content` says which packet the store's copy of a record comes
from. Packets are numbered in creation order. `StartCycle` re-applies failed inbox rows, `HqPull`
expires, serves and redelivers (`forced` for manual and tray syncs, which do not wait for the
retry window), `ApplyPage` applies a page, `SendPush` and `HqPush` report failures and
acknowledgements. `Guarded` are the records whose payload carries a version that the store
compares; for other records the payload applied last wins.

### OnlineOrder

`order`, `sale`, `source`, `rows` and `payment` are HQ's tables for one order: what the customer
sees, the sales order behind it, the parked transaction, its payment rows, and the payment
requests. `till` is the till's copy of the sales order. `call` and `task` hold the locals of
running handlers. Nothing in these handlers raises the isolation level, so a transaction's reads may be
stale when it writes; each handler is therefore split between its reads and its writes. From its
first write on it holds the rows its rivals need, so the writes are one step.

| Action | Code |
| --- | --- |
| `Initialize`, `CheckoutReady`, `InitializationFails` | `initializeEcommercePayment` |
| `Capture` | the customer pays at the gateway (external) |
| `Verify`, `GatewayAnswers`, `GatewayFails`, `Refuse` | `verifyEcommercePayment` up to its transaction, called by the customer's return page and by webhooks |
| `CheckPaid`, `ReadSale`, `ReservationFails`, `RecordPayment`, `RecordingFails` | its transaction |
| `Decide`, `Accept`, `Advance`, `Cancel`, `MoveFails` | `updateEcommerceOrderStatus`: the read and the guard, then the transaction |
| `Apply` | the till's handler of `sales-order.published` |
| `ReceivePayment`, `ReleaseReservation`, `Close`, `Fulfil` | `receiveLayawayPayment`, `releaseLayawayReservation`, `expireLayaway` and `cancelSalesOrder`, completion of the sale |
| `ReadPacket`, `ProjectOrder` | `projectStoreSalesOrder`: version check, then the writes |
| `ReadSalePacket`, `ReplaceSource` | `projectStorePosTransaction` for the handed-over sale |

Some behaviour one would not guess, all of it in the model: a run that asked the gateway too early
marks the payment `FAILED` even when another run has recorded it since, and then a later run
records it again (one payment row, but the paid amount and the version grow again); the
publication's key ends in the version and is unique, so a version HQ makes twice makes the second
transaction fail; a completed sale without payment rows is refused as invalid.

### SharedCache

One key of `getEnterpriseCachedRead` over `getEnterpriseSharedCachedRead`. A value is the number
of commits it reflects. `entry[w]` is the key's entry in the map of worker `w`, with the load that
is pending in it; `record[g]` and `lock[g]` are the Redis keys of generation `g`; `load[l]` is a
run of the shared read with its phase, and `task[c]` the invalidation after commit `c`. The code
keys a record by two counters, a global and a namespace one; the generation stands for the pair.
A load reads the generation, the record, takes the lock, runs the loader, writes under the
generation it read, releases. A stale record is answered at once and refreshed in the background.
Any command may fail, with or without effect; a `SET` may execute after its timeout; a worker may
restart. A load answers into the entry *object* it was started for, which may have left the map
(`Attached`); a failed one deletes by *key*, whatever entry is there (`Failed`).

### How the modules fit together

A sync cycle of the till runs the upstream and the downstream half in one function and one push.
The halves share no rows: the outbox half never reads the inbox, and HQ treats events and packets
of a push one after the other. They are therefore two modules; a failed push is `PushFailed` in
one and `CycleFails` in the other. `SaleProjection` details the single step `Project` of
`UpstreamSync` for two kinds of event: `UpstreamSync` decides which deliveries happen (any number
until the event is acknowledged, none afterwards, by `HqAckIsFinal`), which is the guard of every
delivery in `SaleProjection`.

`OnlineOrder` uses both directions of sync: its `down` and `up` are the packets of `DownstreamSync`
and `UpstreamSync` for one order, delivered once each and in any order, which is what those
modules show (a publication the till finds invalid stays in the queue). `ReplaceSource` is the
parked handoff of `SaleProjection` seen from the order. `SharedCache` shares no state with the
others: what it caches is read-only for its readers.

### ReliableDelivery

The receiver projects only what the sender recorded, never forgets it, and the sender calls
confirmed only what is projected. `UpstreamSync` and `DownstreamSync` implement it, with store
and HQ in opposite roles (`ImplementsPromise` in each).

### PrepaidOrder

Money is recorded only when the gateway has it, the order is accepted only after money was
recorded, it comes to a till only after it was accepted, and none of this is taken back.
`OnlineOrder` implements it (`ImplementsPrepaid`) with `held` the captured payments, `recorded`
those verified at least once, and `delivered` that the till has a copy.

### SaleBooks

What HQ commits about sales, whatever number of deliveries that took and wherever they failed: a
transaction touches one sale; a sale moves its variants and charges its customer only as it is
completed, in that order; only a completed sale has revenue; cash is written with the revenue or
never; costs are those of entered movements; nothing is taken back. `SaleProjection` implements
it (`ImplementsBooks`) with `completed` the sales HQ holds as `COMPLETED` and the other sets
those whose counter is positive. A projection that fails halfway still commits a prefix of its
writes; the abstract steps say which prefixes there are.

### BoundedStaleness

A cache may answer with an old value, but with one that was committed, no older than the newest
commit its holder has been told of; being told of a commit empties it. `SharedCache` implements
it (`ImplementsStaleness`) with `held[w]` the value of the map entry of worker `w`, if it has one.
Generations, locks, records, late writes and Redis faults are all hidden: they change how long a
value is reused, never this promise.

## Runs

| Run | Question | Bounds |
| --- | --- | --- |
| `UpstreamRace` | what holds with two cycle processes? | 1 event, 2 processes, 3 attempts, 3 faults, 1 requeue, 1 late request |
| `UpstreamLive` | does every row settle, a good one arrive, and an acknowledged one stay so, with one process? | 2 events (one always refused, and ahead of the other), 1 process, 1 row per batch, 3 attempts, 2 faults, 1 requeue, 1 late request |
| `SaleProjection` | any order, failure and retry of sales, movements, finance; is a failed sale completed at last? | 2 sales, 2 movements, 2 batches (one shared) of 1 unit and up to 2 receipts each, five hurdles for one sale, a missing product for the other |
| `Downstream` | delivery, re-application and order of versions; what becomes of requeued rows? | 2 versions of one record, 1 packet per page, 2 attempts, 2 faults, 1 late push, 1 operator action |
| `OnlineOrder` | does the order keep its promise, whatever verifies, accepts, cancels, fulfils and projects when? | order or layaway of total 2, deposit 1; 1 payment, 2 concurrent verifications, 1 staff action at a time, till versions up to 3, orders moved as far as `PROCESSING` |
| `SharedCache` | what may the caches still hold? | 2 workers, 2 loads (both at the first), 1 commit at either worker, 1 fault |
| `UpstreamOverlap`, `UpstreamRequeue`, `SaleResume`, `StockTwice`, `DownstreamStale`, `OnlineForgotten` | counterexamples to claims of the repository, see Findings | smallest that show them |

Why these bounds suffice. In `UpstreamSync` rows interact only through the batch limit and a
common cycle, so one row shows the races of processes, and two rows with a batch of one show
starvation; three attempts are enough for a row to be requeued, sent by both processes and
exhausted. In `SaleProjection` sales interact only through batches, so two movements over two
batches, one shared, reach a shortage caused by the other sale, and a second receipt ends it. One
sale, which is parked at first, may meet any set of five hurdles; the other may lack its product.
The customer hurdle is met in the same place as the product, the serials just before the credit
rule; they are left out of the run and covered by the theorems (and by `SaleResume` for what
follows a rejection behind the creation). In `DownstreamSync` order matters between two versions; a page of one packet
makes a redelivery compete with a new packet for room. The real limits (12 attempts, batches of
25, pages of up to 100) change none of the guards, and the theorems cover them for safety.

In `OnlineOrder` two verifications of one payment are the race of the page and the webhook;
deposit 1 of total 2 leaves an instalment to the till or a cancelled and refunded layaway; three
versions let the till change a copy that HQ changes too. A second payment, a second staff action
or the last four statuses multiply the states past what TLC does in minutes and meet the same guards;
the theorems are for any number of each. In `SharedCache` both loads run at one worker so that a
load that lost its entry meets the next one; the other worker changes the data and needs no map
for that. One commit makes two generations, and one fault is a restart, an expired lock, a lost
message or any failed command; combinations of faults are covered by the theorems.

Deadlock is checked for the sync models. In `SaleProjection`, `OnlineOrder` and `SharedCache` all
work may be done, so there it is not.

### Fairness

`FairSpec` of `UpstreamSync`: a cycle is started again and again (the poller of the desktop
shell), retry delays elapse, an HTTP request is answered or fails (20 s timeout), and the local
answer handling runs. `StartPush` is strongly fair: the pull before it may keep failing for a
while but not for ever; without this, a store that is offline for good would refute any
liveness. `DownstreamSync` uses the same without strong fairness: faults there are bounded by
`MaxFaults` and a failing cycle is replaced by a next one. Nothing is assumed of operators, of
new business, of faults or of requests nobody waits for. The bounded number of faults is part of
`FaultsAreSurvived`, which says that fewer faults than attempts cost no event.
`OnlyFaultsUseUpRetries` is the safety behind it and needs no bound on faults. The same fairness
of `DownstreamSync` gives `RequeuedIsNotLost`: an inbox row that an operator requeued is selected by
no cycle of the store, and is applied because HQ delivers the packet again, or stays on HQ's list
of failed packets.

`FairSpec` of `SaleProjection`: an event HQ has not acknowledged is delivered again, by the cycles
of the store or, once the store has given up on it, by HQ's reprocessing (dead-lettered events stay
on the list of HQ's operators); and what was reported as missing is put right at last. Both are
the work of people as well as of programs, and `NoSaleIsLost` says what follows if they do it:
whatever a failed delivery left or deleted, a later one completes the sale. Nothing is assumed of
movements, receipts or finance.

`FairSpec` of `OnlineOrder`: a running verification goes on (weak fairness of its steps). Of the
gateway, which is outside, it assumes what gateways document: the webhook of a captured payment is
sent again until it is answered with success, and a verification request is answered at last; of
the shop, that the stock a layaway reserves is there at last. These are the strong fairness
conditions in `Webhooks`. Nothing is assumed of customers, staff, tills or queues.
`CapturedIsRecorded` names its two exceptions: an order closed before its payment is recorded, and
a version whose publication key is taken (then every verification of an accepted order fails with
the unique key, until something moves the version).

`FairSpec` of `SharedCache`: every await of a load ends (Redis commands by their timeout, waiting
by its deadline, the loader by the database's timeouts), and lifetimes of records and map entries
run out. Invalidations need no fairness: `StaleDiesOut` holds when all of them fail.

## Proofs

The proof modules prove, for any constants that satisfy the named assumptions (finite sets,
positive limits, injective ranks and orders):

* **UpstreamSync.** Types; `ConfirmedIsProjected`, `ProjectedAtMostOnce`, `HqAckIsFinal` and
  `ImplementsPromise` from one inductive invariant. A row may be marked acknowledged only because
  a cycle's `answer` says so, long after HQ answered: the invariant therefore carries what an
  answer in flight means (accepted implies acknowledged and projected at HQ and not foreign), that only
  acknowledged inbound events have been projected, and exactly once, and that batches and late requests
  contain only recorded rows. `DeadLetterHasCause` is inductive with the types.
  `AttemptsBounded` needs a count of the processes that have read a row and not yet sent it: each
  of them may add one attempt beyond the limit, the one that adds it stops being a reader.
  `RetryWindowRespected` and `StoreAckIsFinal` hold for one process and are proved under the
  assumption `OneProcess` (stated in the theorem). `UpstreamOverlap` shows that it is needed for
  the first. It is for the second, too: with two processes, one that selected a row before the
  other marked it acknowledged writes its own failed push over the acknowledgement, and the row is
  sent again. No line of the repository excludes this, and HQ recognises the repeated event
  (`ProjectedAtMostOnce`, `HqAckIsFinal`, with two processes).
  `OnlyFaultsUseUpRetries`, also for one process: a row HQ can project, once queued, is
  dead-lettered only after `MaxAttempts` failed requests or kills. It talks of two moments, so the
  proof carries a budget from the first to the second: `Budget(e, n)` says the row's attempts
  since it was queued are paid for by faults since fault `n`, one attempt more while a request is
  out. The budget opens because a queued row has no attempts (`QueuedAfresh`) and no answer to
  it is on the way: a row that was sent is in flight, not pending (`HeldRows`). Its
  corollary, fewer faults than attempts kill no such row, is the safety half of
  `FaultsAreSurvived`. `BatchesAreBounded` and `RowsAreTakenInOrder` say what the selection query
  does: a due row is passed over only for a full batch of rows ranked before it.
* **SaleProjection.** Types (stock never goes negative), `EffectsOnce`, `PostedHasSource`, from
  an invariant that adds: a sale that is not completed has no effects. `LedgerMatchesStock` by
  itself: the last allocation is taken in the step that writes the ledger entry, all before it at
  least once. `CompletedIsFinal` from the guards of the steps. `ImplementsBooks` is a refinement
  of `SaleBooks`: every delivery, accepted or failed at any hurdle, and every catch-up of finance
  is one abstract step. Two claims that runs refute are proved under the condition that saves
  them, which says how far the finding reaches: `SaleIsResumed` where no sale meets the serial
  or credit rejection behind its transaction's creation, `StockTakenOnce` where a movement draws
  on one batch.
* **DownstreamSync.** Types with the attempt limit; `AppliedOnce`; `ImplementsPromise`;
  `StoreHasLatest` if every record is guarded (assumption of the theorem), from an invariant that
  ties acknowledgements in flight to applied inbox rows, applied counts to the inbox, and a
  guarded record's copy to the newest packet applied. `PagesAreBounded` and
  `NewPacketsAreServedFirst` are about the page of a pull: redeliveries only fill what new packets
  leave. They rest on the pigeonhole argument of `RankedSelection`.
* **SharedCache.** `RecordNotOlderThanGeneration`, `EntryNotOlderThanMessage`, types and
  `LockOnlyByOwner`. The argument is about what a load may come to hold. A loader runs after its
  load read the generation, so its value is no older than the commits before that generation
  opened; the invariant says so of every load past that point, of every late write, and of every
  record. For the map: a message deletes the entry, so a load that is still the pending one of
  its entry read a generation that opened after every commit its worker has heard of.
  For this the message of a commit must be published after the generation that follows the commit was
  opened, which is the order of `INCR` and `PUBLISH`. That the generation stays within the number
  of commits needs a count: commits whose task has not reached `INCR` make up for the rest.
  `ImplementsStaleness` adds that every value anywhere (records, loads, late writes, entries) was
  committed, and that an action changes the entry of one worker only.
* **OnlineOrder.** One inductive invariant of independent parts. `Vouched`: a verification past
  the gateway's answer is about captured money. `Released`: while the order is not accepted,
  nothing is published or at the till, and no run has read another status than `PLACED`, unless the
  sale is closed. `Opened`: until a payment of the opening amount is recorded nothing counts as
  paid, every payment request is at least that amount and nobody is about to accept. With these,
  `AcceptedWithMoney` survives the gap between reading the order and moving it. `RecordedOnce`,
  `CustomerSeesSale` and `TillNeverGoesBack` are close to inductive; `ImplementsPrepaid` maps each
  action to at most one step of `PrepaidOrder`, with the invariant giving its guards.

Refinement is proved step by step: each action maps to one abstract action or to a stutter. Only model-checked:
`EventuallySettles`, `FaultsAreSurvived`, `QueueDrains`, `RequeuedIsNotLost`, `NoSaleIsLost`,
`LoadsAnswered`, `StaleDiesOut` and `CapturedIsRecorded`, because liveness under fairness is outside the prover.

## Findings

Each is a run that TLC ends with a counterexample, and quotes the claim in `PROJECT.json`.

* `UpstreamOverlap`: docs/09 says only rows whose retry window has elapsed are retried; with two
  cycle processes a row is sent inside its window.
* `UpstreamRequeue`: the requeue message says conflicts are left unchanged; a legacy-numbered
  sale is renumbered and stays dead-lettered.
* `SaleResume`: docs/03 calls sync resumable; a sale rejected after its row was created is
  acknowledged later without variant and customer postings.
* `StockTwice`: docs/03 calls sync idempotent; batches taken before a failure are taken again.
* `DownstreamStale`: docs/03 calls HQ's master data authoritative; a re-applied old packet
  overwrites a newer one and everything is acknowledged.
  No failed payload is needed for it: when the response that carried the old packet is lost, the
  new one is served while the old waits for its retry window or for room (a pull prefers new
  packets, `NewPacketsAreServedFirst`), and the redelivery is applied last.
* `OnlineForgotten`: docs/21 says the till's packets reconcile cumulative paid amounts; an order
  paid in full on the web shows paid 0 and `UNPAID` once the till has fulfilled it.

Read but not run: docs/09 line 18 says in-flight packets are redelivered only after the retry
window, while manual and tray syncs redeliver at once (HQ sync 15924). The model follows the code.

## Not modelled, and simplifications

* The store's pull loop also stops when a page does not move its cursor (till service 20992); the
  model may apply such a page once more, which only adds behaviour.
* A push, a pull and an operator action at HQ are atomic. The code runs each in one database
  transaction under read committed isolation; two of them on the same key can interleave between
  statements. Database errors abort the transaction and appear as a failed request.
* Standalone tills, the PostgreSQL and SQL Server engines (ports of the same protocol), node
  tokens, telemetry, checkpoints (informative cursors), policy and audit rows.
* The page of a pull mixes four classes of packets by share; the model has one class. The limit
  of 25 re-applied rows and acknowledgements and of 100 reported failures is not modelled.
* A downstream payload is applied whole or not at all; a payload handler that throws half-way
  leaves partial local writes, which is listed as a hazard.
* In `SaleProjection`: returns, serial rows, layaway deposits, non-expiry products (no batches),
  amounts.
* In `OnlineOrder`: reservations (except that making them may fail), fulfilment rows, network
  transfers, orders paid on delivery, the refund rules beyond the amount paid back. A payment
  request is created for amounts read in the same step.
* HQ's Online POS (`online-store.repository.ts`), the second writer of the same sales orders: it
  fulfils them (9628-9661, with the customer's order), cancels them
  (`cancelOnlineStoreSalesOrder`, 11462-11634), takes layaway payments
  (`receiveOnlineStoreLayawayPayment`, 11636-11764) and expires layaways
  (`expireOnlineStoreLayaway`, 11844-11930), the last three without touching the customer's order.
  What `OnlineOrder` shows is therefore about orders handed over at a till;
  `CustomerSeesSale` in particular does not hold of a layaway payment taken at HQ.
* In `SharedCache`: one key and one generation. An exact key (the session cache) is invalidated by
  deleting its record, without a new generation, so a load in flight may write the old value back;
  a generation counter that Redis loses starts again at 0; a price change invalidates
  `ecommerce:storefront:` and leaves `ecommerce:product-detail:` to its lifetime. These were read
  and are not modelled.
* Components without a model are listed with the reason in `PROJECT.json`.

Most of the repository is beyond these models, and stays so for reasons, not for lack of room. The
renderer and the web pages (a third of the lines) are forms and layout. The PostgreSQL and SQL
Server engines repeat the till service statement by statement. The HR, payroll, fuel, finance and
administration repositories are request-sized queries and edits by one actor; a model of them
would restate their assignments. What has several actors, retries or failures in the middle is in
the models or, where not, in the list of hazards with its reason.

## Plan

1. Done: `UpstreamSync`, `SaleProjection`, `DownstreamSync`, `ReliableDelivery`, with proofs.
2. Done: `OnlineOrder` with `PrepaidOrder` (payments, version checks of sales orders), and
   `SharedCache`, with proofs.
3. Open, in this order: statement-level steps of two pushes of one event (`HqPush` refined, customer
   balances as read-modify-write); inter-store transfers; the store's stock against published
   quantities; the mobile app's queue; priority classes of a downstream page.

Runs of later modules replace counterexample runs that have been answered in the code, so that the
set stays small.
