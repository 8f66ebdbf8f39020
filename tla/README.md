# Verification of POS-CAFE-ABILIZ

TLA+ models of the parts of this point-of-sale and ERP system in which money or
stock could be counted twice, or lost, when requests, workers and crashes
interleave. The modules are checked with TLC on small instances; the theorems are
proved with TLAPS for every value of the constants.

Paths below are relative to `src/`; `api/` stands for `apps/api/src/`.

## 1. The system

A NestJS API (one or several replicas over one PostgreSQL database), a React web
client, and an Android terminal that works offline and synchronises later.

| Component | State it keeps | Operations | Interacts with | What makes it correct |
|---|---|---|---|---|
| **Idempotency kernel** (`api/kernel/idempotency`) | one `IdempotencyRecord` per organisation and key: status, request hash, saved response | look up, insert the pending row, run the handler, complete, recover, release | wraps every money route and every sync operation; the handler's transactions write into the record (`recordBusinessOutcome`) | money of a key moves once; a success is only told for money that moved; a retrying client is answered |
| **Browser money requests** (`apps/web/src/lib/idempotent-request.ts`) | the key of each pending action in sessionStorage | send, release on a definitive answer | the kernel, through requests that may time out | one action of the user moves its money once |
| **POS sale** (`api/modules/pos`) | Order, Invoice, Payment | checkout, settle, bill, pay, refund | the kernel (recovery), cash sessions, stock jobs | each transaction of a sale happens once; a stopped sale resumes where it stopped |
| **POS orders and kitchen** (`api/modules/pos/order`, `pos.workflows.ts`) | Order: status, version, invoiceId; OrderItems with their printed quantities; kitchen tickets | create, save, append, void, cancel, reopen, merge, send to the kitchen, bill, close | several terminals on one order; billing reads it, the workflow engine writes its status | a bill has the items of its order; a save drops nothing its cashier has not seen; food is sent once; the back office, which edits the same orders, undoes none of it |
| **Split bills** (`api/modules/pos/split`) | `SplitBill` (open, settled), `SplitBillItem`: how much of each row of the tab's order a bill takes | add, split equally, assign, take back, move, merge, delete, cancel, settle | the order behind the tab, which terminals, the back office and the kitchen go on changing; billing; the table | no row is charged for beyond what was ordered; the last payment closes a tab that owes nothing; a paid bill is final |
| **POS invoices** (`api/modules/pos/billing`, `api/modules/invoicing/payment`) | `Invoice`: status, settlement, payment mode, what is due, paid and refunded; `PaymentAllocation`; the postings | bill, receive at the till, receive in the back office, put on account, refund, write off | the order it closes, the customer's credit limit, drawers, GL | ledger and invoice agree; an order closes only when nothing is due or the account carries it; nobody owes beyond the limit; what is refunded or written off is final |
| **Event outbox** (`api/kernel/events`) | `EventOutbox` rows, `DomainEventLog` facts | publish, claim, dispatch, ship | every module that publishes; consumers in the same process | a fact exists only for a committed write; consumers run in order, at least once |
| **Stock posting** (`api/modules/pos/billing/stock-posting.*`, `pos-invoice.service.ts`) | `StockPostingJob`: status, attempts, posted lines, claim; `InventoryException` | enqueue, claim, process, complete, fail, retry | billing enqueues, workers and closing sessions process, reservations are consumed | a line leaves the stock once; a job ends done or failed |
| **Reservations** (`api/modules/inventory/stock-reservation.service.ts`) | holds against availability | reserve, consume, release | billing, stock posting | a finished job holds nothing |
| **Sync push / pull** (`api/modules/sync`) | `PosDevice.lastPushSeq`, `SyncOpDeadLetter` | push a batch, dead-letter, resolve, pull | the kernel, POS, cash sessions | no operation is lost or applied twice, or out of order; dependents of a failed operation fail; the device is told the truth |
| **Android queue** (`apps/android/.../data/repo`, `sync`) | queued operations in Room | enqueue, push, mark | sync push | the queue survives restarts, order is kept |
| **Browser offline queue** (`apps/web/src/features/pos/offline-queue.ts`) | queued sales in IndexedDB | enqueue, replay | the kernel | a queued sale is replayed under its own key |
| **Cash sessions** (`api/modules/accounting/treasury`) | `CashSession`, `CashMovement`, the ledger of the drawer's account | open, move, pay, refund, bank, close, hand over, force-close, review, reconcile | POS sales, payments, orders on the floor, sync push, GL | one shift owns a drawer; its ledger is explained by the shifts; a closed shift is final; no drawer pays out what it does not hold; no shift ends over an unpaid bill |
| **Webhooks** (`api/kernel/webhooks`) | `WebhookDelivery` | enqueue, tick, deliver, retry | external receivers | a delivery is retried, then dead |
| Approvals, workflow, recurring jobs, authentication, sequences | rows and their status | transitions | all modules | see section 8 |
| Inventory valuation, GL, invoicing, procurement, manufacturing, HR, ... | documents | post, void, ... | GL | see section 8 |

### What is hard

- *Interleaving.* Retries, double clicks and replays of an offline queue run the
  same key at the same time; several replicas run the same workers; the row locks
  of the database are held for single transactions only, and most services read,
  wait and then write. The back office edits orders without their lock altogether.
- *Failure between two commits.* A sale is three transactions; an answer can be
  lost after a commit; a worker can die with a claim; an event can be published
  without the transaction it announces.
- *Time.* Records are "abandoned" after two minutes, claims are stale after a
  minute, the browser gives up after thirty seconds, whatever the server is doing and
  wherever its request is.
- *Catch blocks.* They read, or remember what was read before, and write by id.

`PROJECT.json` lists these as hazards, each at its line, with the properties that
cover it.

## 2. Modules

| Module | Models | Lines of state and actions |
|---|---|---|
| `OncePerKey` | the promise of a key | abstract: `moved`, `told` |
| `Idempotency` | `IdempotencyService.executeWithKey`, `recordBusinessOutcome`, the interceptor, and the handler it runs | one action per database round trip |
| `Idempotency_proofs` | the theorems of `Idempotency` and `IdempotentClient` | |
| `IdempotentClient` | `idempotentPost` in the browser, composed with `Idempotency` | the stored key, the outstanding requests |
| `EventDelivery` | the promise of an outbox | abstract: `announced`, `delivered`, `finished` |
| `Outbox` | `EventOutboxService`, `EventBus`, `OutboxWorker` of every replica | rows, ledger, workers |
| `Outbox_proofs` | its theorems | |
| `StockPosting` | `StockPostingJob` from `generateInvoice` to `retryJob` | one job, its workers, its hold |
| `StockPosting_proofs` | its theorems | |
| `PosOrder` | `PosOrdersService`, `PosInvoiceService.generateInvoice` as far as the order goes, the order workflow | orders, the kitchen, the terminals |
| `PosOrder_proofs` | its theorems | |
| `SplitBills` | `PosSplitService`, and the routes that change, cancel or bill the order that is split | one tab, its rows with quantities, its bills, the lock of its table |
| `SplitBills_proofs` | its theorems | |
| `PosInvoice` | `receivePayment`, `settleCredit`, `writeOff`, `refundInvoice`, `PaymentService.record` for an invoice, and the billing that starts it | the invoices with their amounts and postings, the transactions that hold a row |
| `PosInvoice_proofs` | its theorems | |
| `CashSession` | `CashSessionService` and what else moves the cash of a drawer, the floor lock and the orders it guards | shifts, the ledger, requests with what they have read |
| `CashSession_proofs` | its theorems | |
| `OfflineDelivery` | the promise to a device that works offline | abstract: `count`, `noted`, `told` |
| `SyncPush` | the queue of an Android till, its workers, and `SyncPushService.push` | the queue, the batches on their way, keys, dead letters |
| `SyncPush_proofs` | its theorems | |
| `MCIdempotency`, `MCIdempotentClient`, `MCOutbox`, `MCStockPosting`, `MCPosOrder`, `MCSplitBills`, `MCPosInvoice`, `MCCashSession`, `MCSyncPush` | TLC instances (symmetry sets, small constants, the day of a till) | |

### Idempotency

`record` is the row of each key (`responseJson` is reduced to the set of outcomes
merged into it), `effects` counts the commits of each transaction of the handler,
`paid` remembers for which bodies money moved, and `pc`, `req`, `err`, `ans` are
the local variables of the requests being processed. `effects` and `paid` are what
the business tables would show; the code's own guards read them where it reads
those tables (`Done`).

Nothing holds the record between two statements of `executeWithKey`, so the lookup,
the release of an abandoned row, the insert, the read of the winner, each
transaction of the handler, the final update, the read in the catch block and the
write of a rejection are separate actions. `Route` decides which of the two
expressions (`OUTCOME_ROUTES`, `recoverableSale`) the path matches; the sync push
calls `executeWithKey` with the operation type as path and matches neither.
`Handler` is a sale (order, invoice, payment: `PosService.checkout`) or a single
transaction (a cash movement, a transfer). `KeyGuarded` says whether the single
transaction's own write is unique per key, which it is for what
`treasury-guards.ts:71-82` keys and not for `CashSessionService.recordMovement`.

`Commit` requires the record to exist: `recordBusinessOutcome` updates it within the
business transaction and throws when it is gone. `Reject`, `Fail`, `InsertFails` and
`Crash` are the errors; a `Fail` after a commit is a lost answer. The status
`indeterminate`, which the code reads and nothing writes, is left out.

### IdempotentClient

One action of the user. `slot` is the sessionStorage entry; `Submit` uses its key
or makes a new one; `Receive` empties the slot when `isDefinitive` says so, and it
empties whatever the slot holds by then. `Serial` is a form that is disabled while
its request is outstanding. The user submits again until a success arrives. The server
is `Idempotency` on an outcome route, releases of abandoned records included.

`TimeOut` ends the wait wherever the request is, before its lookup or its insert as well
as in the handler or on the way back, and the server goes on with it. A request that is
given up before its handler has begun counts with the faults (`MaxFaults`); later
time-outs are the normal case and need no bound. The early ones matter: the retry can
then meet its predecessor at the insert, and the 409 of the loser
(`idempotency.service.ts:171-173`) does not say `OPERATION_PENDING`. `Refuses` lists the three answers
after which the browser gives the key up although its money may still move: that 409, a cached
rejection, and one that is passed on. `RefusedLast` says of each that it comes last: no outcome is
stored, and no other request of the key can still pay. The code does not see to that, so
every step is possible; one that breaks `RefusedLast` sets the history variable `hasty` (`Noted`), and
`MoneyMovesOnce` is about the behaviours in which none has. Section 7 says how money moves
twice after one.

### Outbox

An event in `ViaBus` is published by `EventBus.publish`, outside the transaction,
as two statements; the others are published with their transaction. The claim
statement locks its rows only while it runs (`Locked`), and leaves them pending.
The worker then dispatches row after row, in whatever order `RETURNING` gave them,
to the consumers in their order; an exception ends the dispatch of that row.
`Poison` lists handlers that always throw. A failed row goes back to the queue with its
old `createdAt` and nothing counts its attempts, so it is claimed again ahead of what is
younger; `PoisonFillsNoBatch` says that fewer such rows are pending than a batch holds, and
`HealthyIsDelivered` is conditional on it. `createdAt` is any value of `Clock`: it is
taken when the row is written, on the publisher's clock, and the row is seen when its
transaction commits, so rows need not appear in its order.

### StockPosting

One job and everything that touches it: `Claim` (the 30 s drain of a replica),
`DrainSession` (a closing session, which claims nothing), `ReadJob` (outside the
transaction, its `attempts` are what the catch block uses), `LockJob` (`FOR UPDATE`
and the second read), `PostLines` (the body of the transaction with
`completeStockPostingJob` and the commit, whose answer may be lost), `Abort`,
`Catch`, the release and consumption of the hold, and the administrator's
`RetryRead`/`RetryWrite`. `deducted` counts what really left the stock; the code
never sees it.

### PosOrder

Orders that carry no table, and the terminals that work on them. `rows` are the
OrderItems that are not cancelled, `sent` the ones whose `kitchenPrintedQty` is their
quantity, `version` the counter that every change of the items raises
(`recomputeOrderTotals`), `bill` the InvoiceItems. A transaction that locks the order's
row and writes only that order is one action. What is done outside such a transaction
is an action of its own, in the order of the code:

- a screen: `OpenOrder` and `OpenItems` (Prisma reads the order, then its items),
  `Save` with the version read first, and the automatic send that follows;
- a kitchen send: `FireRead` (`pos-orders.service.ts:708`, no lock), `FireTickets`
  (the locked transaction), `FireAdvance` (after the commit, with the order as
  `FireRead` saw it);
- a bill: `BillRead`, `BillItems` (both without a lock), `BillCommit` (lock, invoice
  and version again, status, binding).

`Transition` is the workflow engine: it finds the edge from the status of the entity it
is handed and writes the new status by id. Two of its callers hand it a row they
read before: `FireAdvance` outside any lock, `BillCommit` under a version check.

The back office (`OrdersService.saveItems`, `addItems`) edits the same orders without
locking them. `RewriteRead` reads the order and checks it (`assertEditable`);
`RewriteCommit` deletes every row and writes new ones, from what was read, from the page and
from new lines, and asks nothing any more. The new rows have no `kitchenPrintedQty`; a row
that another transaction adds after the deletion stays, with its mark. Its version check is
optional and not modelled, so the model can do more than a page that sends one. So an order that
was billed in between gets other lines than its bill, and a line that was cooked gets a second ticket.
Two history variables name these and no more: `rewritten` are the billed orders that
the back office has written since (`BillMatchesOrder` does not compare their lines), `copied` has the units it has
written anew after they were cooked (exempt from `CookedOnce`). `ScreenIsCurrent` has no exception,
since a rewrite raises the version.

A unit stands for one portion with its customisation (a signature of the code), so a
cart is a set and no line has a quantity; partial voids are left out. `punched` are the
units that have ever been on an order: a terminal adds new ones or keeps the ones on
its screen, and what is void does not come back as the same portion. `Merge` requires
that the orders have no unit in common, for the same reason. It writes new rows
for the source's lines, which the kitchen does not have; they too are in `copied` (section 7). A manager's approval may or may not be
given and is not modelled; nor are the waste entries and the ticket cancellations that
follow a void, which change nothing of the order.

### SplitBills

One tab: the order of a table, its rows with their quantities (a cancelled row never
returns under its id, a live row may be parked at quantity 0), and the bills it is shared
out over. `on[b][i]` is the quantity of the `SplitBillItem` of bill `b` and row `i`;
`punched` is a history variable, the most of each row that was ever ordered.

Every operation on bills runs under the lock of the table's row (`withTableLock`), which
the routes of the order do not take. So it is two actions: `ReadTab` takes the lock and
reads the order, the action of the operation writes and commits. Which operation it is
does not matter before, and `Refuse` is one that throws. What the operation checks in
between is checked on `reading`, what it reads last, in `recomputeBill`, on the order as
it is then: `Resolves`. The recompute throws when a line of the bill has lost its row or
takes more than the row has, and it looks at one bill only. Changes of the order
that fall between the recompute and the commit of the operation give the same result as
changes after the commit. `Settle` has both locks and is one action. `SplitEqually`
shares out whole portions; as in the code, every share is rounded and the last bill
takes the rest.

What the terminals do to the order holds its row and asks nothing of the bills: `SaveItems` and
`VoidItem` (with partial voids), `Cancel`, `Reopen`, which does not give the order its
seat at the table back (`linked`), and the invoice of the whole order. `Price` is the
unlocked first half of `generateInvoice`; every change of the version makes it
worthless, which is what its version check sees. `saveTabItems` and `settleTab`, which
do count the bills first, count without a lock and come to the same actions. Left out: that a save
may not drop what the kitchen has (so `SaveItems` can do more than the code), moving the
order to another table, prices and discounts, the register session. Settling writes an
order and an invoice for the bill; they appear as its status.

Two requests write the order without its row, from what they read before. The back office
finds it editable (`FindEditable`; `editing` holds the rows it found) and then deletes every
row and writes others under new ids (`Rewrite`); the lines of the bills keep the old ids, so
those that are open no longer resolve. A send to the kitchen finds the order confirmed
(`FindConfirmed`) and, after its tickets are committed, writes `in_progress` by id (`Advance`),
which makes a closed order an open one. The history variable `belated` has the rows that the back office
has put on an order that was closed by then; `ClosedIsPaid` demands of all the others on a closed order that they
are paid. A send that reopens the order ends the claim, until a payment closes it again. `PaidWithinPunched` is about rows: a portion the back
office has written anew is a new row, for which guests can be charged again.

### PosInvoice

Invoices from the bill to the last payment, whoever takes it. Every operation is one
transaction that locks the invoice's row before it reads it, and writes at the end
values computed from what it has read (`refund-operation.ts:151` and
`payment.service.ts:324-334` write absolute amounts, no increments). So each is two
actions: `Lock` takes the row and reads, with every check the operation makes
(`Accepts`); the action of the operation writes and commits, from `txn[s]` and
not from the invoice; `Rollback` is whatever fails in between. That the two agree
is the work of `RowFree`, the `FOR UPDATE` that all of them begin with. A sale on account also
takes the row of the customer (`PartnerFree`) before it adds up what is outstanding,
and keeps it to the end. `CreditAllowed` is asked there and nowhere else.

`receivable`, `badDebt` and `returned` are the postings and the allocations' refunded
amounts; they move by what is posted, the invoice by what is written, and `BooksAgree`
compares them. Amounts are whole units, larger than every tolerance of the code (0.01,
0.001, 0.000001). A payment of several tenders is one amount, since its transaction
books them one after the other under the same lock. A refund of lines is an amount;
which lines, restocking, and over which tenders the payout is shared out is left
out, as are the drawer a payment lands in (`CashSession`), store credit, the
customer's credit hold (a refusal more), printing, and the tables. Two other
locks are not in the model because they only take interleavings away: the shift's,
taken before the invoice's, and the share lock of a foreign key. A receipt that is
allocated to an invoice cannot be voided (`payment.service.ts:451`).

### CashSession

Drawers (`Registers`, each with its ledger account), their shifts, the payments that
land in a drawer (`Receipts`), orders as far as a close asks for them, and requests
that have read something and not committed yet. A transaction that begins with the
lock under which it reads everything is one action (`PayOut`, `Receive`,
`VoidReceipt`, `ReviewVariance`, `Reconcile`, the steps of an order). The others are two: opening
(`OpenRead`, `OpenCommit`), a movement, banking, a close and a handover each read,
and commit later, holding in between exactly the row locks the code has taken
by then: `ShiftFree`, `RegisterFree`, `AccountFree` and `FloorFree` derive them from
where each request is. So what may change between a read and its commit is what no
lock protects, and nothing else.

`ledger` is the balance of the drawer's account; `expected` is frozen when a shift
closes; `direct` counts what was posted to the account past any shift, `banked` what
was banked after a close, `last` is the latest shift of a drawer. The last three are
history variables; no guard reads them but through `Balance`. The back office can do
to an order whatever the till can. Left out: tenders other than cash,
their settlement, the gates of `Reconcile` on unsettled orders and pending postings,
approvals, the session an order was held in, and a change of a register's account.
`PayOut` stands for every payment from an open shift: refunds, supplier payments,
external pay-outs. `VoidReceipt` is for payments of invoices outside the POS, since
`payment.service.ts:451` refuses the others.

### SyncPush

Operations are numbered by `deviceSeq`; `Kind` and `Refs` say what each is and which
rows of earlier ones it refers to, so they describe a day of the till. A push is a
request that may be on its way together with others: the periodic worker, the
one-shot worker and the message screen exclude only themselves. `dev` is what the
device does about it, `srv` what the server does, and the two part when the device
gives up: the batch goes on, its results are thrown away.

On the server each operation of a batch passes `applyOp`: refused for its actor
(`Deny`), refused for a reference (`FailFast`), given the key (`Begin`), answered
from its record (`Replay`), or refused by the lock (`Locked`); a handler commits or
refuses (`Commit`, `Refuse`), the record is completed or the saved outcome answered
(`Complete`, `CompleteFails`). `executeWithKey` is taken as far as its record goes:
`Idempotency_sync` and its theorems have every round trip of the path, and show that the
pending row is an exclusive lock on this route, which is what makes one step of the
lookup and the insert sound. The three transactions of a sale are one commit for the
same reason: an attempt that stops between them leaves the key pending, and no other
attempt gets it. `Feasible` is what handlers ask of other operations: the rows they
refer to exist under the ids they were given, and the shift is open.

`mapped`, `failed`, `last` are the local variables of `push` and are forgotten with
the batch. `named` and `unnamed` tell a result that carries the server's ids from one
replayed from a saved outcome, which does not. `unwritten` are refusals whose dead
letter could not be written and that were only logged. The actor is checked per
operation and not once per batch and actor; a crash ends one batch, and a crash of
the process is several of them.

## 3. Runs

Runs that pass:

| Run | Instance | What it shows |
|---|---|---|
| `Idempotency_sync` | 3 requests, 1 key, 2 bodies, 2 faults | the pending row is an exclusive lock; a committed payment is always replayable; finished records stay finished; the protocol implements `OncePerKey` |
| `Idempotency_sale` | 2 requests, 1 key, 3 faults, fair | a recovering retry beside a live first attempt commits nothing twice, and a client that goes on is answered |
| `Idempotency_outcome` | 3 requests, 1 key, 2 faults, keyed postings, handlers of any length | requests that release each other's records move the money once and tell no false success |
| `Client_serial` | outcome route, keyed postings, prompt handlers, 2 requests, 3 keys, 2 faults, fair | the browser changes its key only after a definitive answer; the money moves once, wherever the browser times out, unless a refusal came too early; a user who goes on learns what became of it |
| `Outbox_delivery` | 2 replicas, 3 events (one through the bus), 2 consumers, two events poisoned, batches of 2, 1 fault, fair | order, completeness, facts of committed writes, delivery of healthy events while the poisoned rows do not fill a batch |
| `Stock_posting` | 2 workers, 2 lines, 2 attempts, 2 faults, fair | each line is deducted once, the job knows it, and it settles |
| `Orders_bills` | 2 terminals or back offices, 2 orders, 2 units, versions up to 2, any rewrite | bills are right but for later rewrites, screens that are current are complete, the kitchen is sent each unit once unless it was copied |
| `Split_bills` | 2 bills, 2 rows of up to 2 portions, one back office, one kitchen | paid bills charge for no more of a row than was ordered, a closed tab is paid but for belated rows, what is paid is final |
| `Invoice_money` | 3 invoices (two of a customer who may owe less than both, one of the walk-in customer), 2 transactions at once | ledger and invoices agree, the limit holds, closed orders are covered, refunded and written-off invoices are final |
| `Cash_shift` | 1 drawer, 2 shifts, 2 requests, 1 payment, 1 order, 1 coin per step | one shift owns the drawer, the ledger is explained, closed shifts are final, nothing is overdrawn, no unpaid bill is left behind |
| `Sync_push` | a shift, a sale and a close; 2 pushes, batches of 2, 1 fault, 1 retry, fair | operations take effect once, in order, the device is told the truth, nothing stays queued; the batches implement `OfflineDelivery` |

One run shows a disagreement between the code and its documentation (the finding of
`PROJECT.json` has the lines and the quotation):

| Run | What does not hold, and the shortest way there |
|---|---|
| `Sync_refs` | the server resolves the local id of a shift: it does so only within the batch that opened it, so a sale pushed later is refused and dead-lettered |

**Bounds.** `MaxFaults` bounds rejections, failures and crashes in one behaviour;
two are needed for the interesting cases (an attempt fails and so does its
recovery), the runs allow one to three. Two requests are enough for a race between a
first attempt and a retry, the third of `Idempotency_sync` and `Idempotency_outcome` lets a retry come while
two others race. One key is enough because keys do not interact in the kernel;
`Client_serial` needs three, one for each time the browser may give a key up. Two
lines let a run post one and fail the other; with two attempts a job can fail once
and be exhausted the second time. Two workers and a batch of two rows let claims
overlap; a third event is then outside the batch, and two values of `createdAt` put it
before, beside or behind the others. Two poisoned events are what a batch holds:
while only one of them is pending the healthy one must be delivered, and when both are it need not
be. `MaxVersion` of `PosOrder`
allows two changes of the items of each order: one between two steps of another terminal and
one after; two orders are what a merge needs, two units let a save keep
one and drop the other, and with two terminals every pair of requests overlaps. A
third terminal adds nothing a property can tell, since all of them are about what one
terminal has read and what any other has changed meanwhile; the theorems cover it
anyway. Of two bills one can be paid while the other is edited, added, merged or paid last;
three are too many for TLC and are covered by the theorems. One back office and one kitchen at a time: what
matters of them is that they write late, and a second one can only do the same. Two
portions of a row are what a partial void, a partial assignment and a second assignment
after a payment need, and two rows let a batch name one that is refused. Two invoices of 2 units each and a limit
of 3 let each of them go on account and not both; 2 units are what a part payment, a part
refund and a write-off of the rest need; two sessions overlap every pair of operations. Two shifts of one drawer are one
before and one after every close, handover or deposit; a second drawer is too large for
TLC, and what one drawer does to another (a cashier with one shift, payments that name
an account) is covered by the theorems of `CashSession_proofs` only. `MaxCash` bounds
every amount, count and balance; one coin is there, moved, miscounted or missing, and
the proofs have no use for the bound. Three operations and batches of two
put a batch boundary on either side of the sale, two pushes overlap, and one fault
reaches every catch block of `applyOp`; customers, movements and refunds differ from
these operations only in what they refer to, and are covered by the proofs. The other counters need no bound:
`attempts` is reset by `RetryWrite` and bounded by the faults and `MaxAttempts`.

**Symmetry** is used only in runs without liveness properties, over requests, keys,
workers, lines, terminals, orders, units, rows, bills, registers, shifts and payments, which occur only
as indices.

**Deadlock** checking is off: all these systems may really come to rest (a client
that is answered, an empty outbox, a job that is done, orders that are settled).

## 4. Fairness

- `Idempotency`: a client goes on retrying until it is answered (the browser's user,
  the Android queue), a request the server has received is processed to its answer
  unless it fails, and two minutes pass (`Age`). Faults are not fair.
- `Outbox`: every replica's timer fires again after each tick (`scheduleNext` in a
  `finally`), and it finishes the batch it holds. Nothing makes a failing consumer succeed or
  takes its row off the queue, so `HealthyIsDelivered` has the condition that such rows never come to fill
  a batch.
- `StockPosting`: the drain runs every 30 s on each replica, a worker goes on with
  its claim, backoffs and stale times expire. The closing session, the administrator
  and billing are not assumed to act.
- `SyncPush`: the workers push as long as something is queued (WorkManager retries
  with backoff, and the periodic work comes again), the app marks what it has received,
  the server ends the batches it has. Faults, kills and the user's retries are not fair,
  and both are bounded, as a device that never gets an answer settles nothing.
- `IdempotentClient`: the user submits until the outcome is known, the server processes
  what it has received, abandoned records age, and answers that no longer matter are
  dropped. The browser's receipt of an answer is strongly fair: it gives up after thirty
  seconds, so an answer may come too late again and again, but not every time for ever.
- `CashSession`, `PosOrder`, `SplitBills` and `PosInvoice` state no fairness: nothing in them has to happen.

All other fairness is weak.

With `Prompt = TRUE` a handler never lasts longer than the two minutes after which
its record counts as abandoned. The liveness of the outcome route needs it: were
every handler slower than that, retries could go on taking the record from one
another. The safety of that route does not: `GuardedAtMostOnce` and `MovesOnce` have no such
assumption, and `Idempotency_outcome` runs without it.

No other assumption restricts what a step may do. `hasty` (`IdempotentClient`), `rewritten` and `copied`
(`PosOrder`) and `belated` (`SplitBills`) are history variables: they record that a race the
code leaves open has been lost, no guard reads them, and the property that has the
exception still holds of everything else in the same behaviour or, for `hasty`, of every
behaviour without such a race.

## 5. What is proved

All theorems hold for every value of the constants; the only assumptions are the
`ASSUME`s of the modules (the counts are natural numbers, `ViaBus` and `Poison` are
made of events), which TLC evaluates in every run.

The type invariants of `StockPosting`, `CashSession`, `SyncPush`, `SplitBills` and `PosInvoice` are proved and not
repeated in their runs.

**`Idempotency_proofs`**

| Theorem | Says |
|---|---|
| `TypeCorrect` | the types, on every route |
| `CommitsAtMostOnce` | `AtMostOnce` where no pending row is released (sale, sync) |
| `GuardedAtMostOnce` | `AtMostOnce` on every route, if the money write is guarded |
| `SyncLocks` | `OneRunner` on the sync route |
| `SyncReplays` | `PaidIsReplayable` on the sync route |
| `SyncRecordStays` | `RecordStays` on the sync route |
| `KeepsThePromise` | the protocol implements `OncePerKey` (sale, sync) |
| `GuardedKeepsThePromise` | the protocol implements `OncePerKey` on every route, if the money write is guarded and a key carries one body |
| `ClientTypeCorrect` | `ClientTypeOK`: the types of the browser |
| `KeyStays` | `KeyStaysUntilAnswered` for a form that waits (`Serial`), on every route |
| `MovesOnce` | `MoneyMovesOnce` on every route with a guarded payment and on the sync route, for a form that waits and one body (`CarefulForm`) |

Those about the protocol first. None of them is inductive. `AtMostOnce` needs to know
that an attempt that runs does so under a record of its own body (`RunsUnderRecord`):
that is what makes the body in `paid` the body of the record (`PaidCounted`), hence
what a replay of the record (`SuccessIsPaid`) may call a success. On the sync route
the record is a lock (`Exclusive`): at most one attempt runs, and the record is
pending exactly as long as that attempt has not paid; without the second half nothing
would keep a new attempt from paying after the first has. `IInv` is the conjunction;
`AttemptMoves` covers the many steps that only move an attempt, one lemma each the
steps that write the record. `GuardedAtMostOnce` needs only the types and
`EachStageOnce`, because the guard is read in the transaction that counts.
`SyncRecordStays` is `Exclusive` read as an action property: whoever has not paid
finds the record pending, and a rejection is never cached there.

On the outcome routes a record can be released under the attempt that holds it, and
nothing of `Exclusive` or `RunsUnderRecord` is left. What remains is `GuardedInv`: the
guard of the payment (`PaidOnce`), and that a stored success, an attempt about to finish
and an "ok" on its way each have seen the money move. With two bodies under one key this
would not do, since the record of the second body may replay the payment of the first;
`OneBody` is what the browser guarantees, which stores a key under the fingerprint of the
method, the URL and the body (`idempotent-request.ts:18-25,38-46`). `StepMaps` is shared by
both refinement theorems.

`MovesOnce` is the theorem about the composition, and needs the most. It covers the outcome
routes with old records released under a live handler, the sale routes, where a pending record is
recovered by running the handler again beside the first, and the rest (`/orders/:id/invoice`,
`/procurement/landed-costs`), which follow the rules of the sync route; and the browser may give
up on a request wherever it is. So there is no lock to argue with, and several requests of one
action may be alive. What is invariant is `hasty \/ (MoneyInv /\ KeyPaysOnce)`: a step that is not
noted as hasty preserves the second half, one that is ends the claim (`NotedStep`).
`MoneyInv` counts keys: of the keys used at most one is alive (`OneLiveKey`), a dead
one having neither moved money nor a request that could (`Dead`), and a key the browser gives up
is dead unless it succeeded (`LeftBehind`). No step but a new request revives a key, and
the form only submits the stored one; `RejectionEnds`, `PaidIsStored` and `LastWord` say that what
is replayed or recovered tells the truth about that. `AttemptOnOwnKey` covers every step
of the server at once, since each touches only the record and the money of its own key. That the
one key pays once is the server's own invariant (`KeyPaysOnce`: `GuardedInv`, or `IInv` on the sync
route), which holds under the browser's steps too.

So `hasty` is exactly what can go wrong: a definitive refusal while another request of the key
could still pay, or over an outcome that is already stored; no time-out is among it, and no
ordinary refusal. When a retry loses the insert to a request that was given up early, or when a price or
an approval changes between an attempt and its retry, the code refuses beside a request that
pays, and money can move twice (section 7). The other hypotheses are needed as well: a double
click loses to its twin and gives the key up, another body under the key is answered with a
conflict while the first still runs, and an unguarded payment (a cash movement) is repeated by a
record released under its handler. `KeyStays` needs only that one request is waited for, and
that the slot holds its key.

**`Outbox_proofs`**: `OutboxTypeCorrect`, `FactsHold` (`FactsAreCommitted`) and
`DeliversAsPromised` (`Outbox` implements `EventDelivery`). The invariant says that an
event has no row before its publisher made it (`Unannounced`), that a row, a fact or
a delivery of an event published with its transaction means a committed write
(`RowsAreCommitted`, `DeliveredExist`), that workers hold rows that exist and that
the consumers before a worker's turn have had its row (`HeldRowsExist`,
`TurnsAreTaken`). The last two carry the refinement: a worker's progress through a row
is a fact about deliveries, whoever else claims, ships or drops the same row.

**`StockPosting_proofs`**: `JobTypeCorrect`, `DeductsOnce` (`DeductedOnce`) and
`RemembersDeductions` (`PostedIsDeducted`). `DeductedOnce` is not inductive, since a
worker issues what *it* does not know to be posted. The invariant adds that a line has
left the stock once if it is posted and never otherwise (`Counted`), and that a worker
inside its transaction holds the lock alone and knows exactly what is posted
(`LockHolds`); the second read under `FOR UPDATE` establishes it, and nothing can
change `posted` until the transaction ends.

**`PosOrder_proofs`**: `OrderTypeCorrect`, `BillsAreRight` (`BillMatchesOrder`),
`ScreensAreCurrent` (`ScreenIsCurrent`) and `DispatchedOnce` (`CookedOnce`). The
argument rests on one fact about steps, `Moved`: whatever changes the rows of an order
raises its version and finds it without an invoice or leaves it in `rewritten`. So a version that is still
current vouches for the items read after it (`Terminal`), which is all that `Save` and
`BillCommit` check under the lock, and all that `ScreensAreCurrent` needs, rewrites or not; and
what is billed changes only into `rewritten`. That
the version is read before the items is essential: in the other order the invariant
does not hold. `Moved` needs `Uncreated`, an order that does not exist has no rows. For
the kitchen, `Kitchen` says that a unit that is not in `copied` is on one order, or on the page a back
office is about to write of it, and that it has been cooked only if its row is marked; a rewrite takes
the marks away, and what had been cooked by then is in `copied` from that step on. That a terminal never brings a
voided unit back uses `Terminal` again, so `CInv` contains `IInv`.

**`SplitBills_proofs`**: `TypeCorrect`, `ClosedPaid` (`ClosedIsPaid`) and `PaidFinal`
(`PaidIsFinal`). `ClosedIsPaid` is not inductive: an operation on bills that saw the tab
open could still commit after the payment that closed it. `NoneFoundItOpen` excludes
that, because the payment takes the table's lock too; then no operation on bills gets
through on a closed tab (`ClosedBillsStay`), and no terminal changes its rows. The back office may,
since it looked at the order before it was closed: it deletes rows, keeps late ones as they are, and what it
adds is `belated`. A kitchen that reopens the order makes the claim void. In those two
the sum of what is assigned of a row is never expanded; `PaidFinal` needs only the types.
`PaidWithin` (`PaidWithinPunched`) is about that sum. `SettlePaysWhatWasPunched` is the case that
matters: the bill that is settled passes the check of the assignments against the order, so what it
adds, with what was paid before, is within what the order has, and that is within what was
punched (`OrderedWasPunched`: no route takes a row's quantity above it). Every other step
leaves the lines of paid bills as they are, the rewrites included.

**`PosInvoice_proofs`**: `TypeCorrect` (no amount is ever negative), `BooksAlwaysAgree`
(`BooksAgree`), `ClosedAreCovered` (`ClosedIsCovered`) and `EndedInvoicesStayEnded`
(`EndedStaysEnded`), for any number of invoices, customers and requests. Three facts make
them inductive. `Reads`: what a transaction has read of the invoice it holds is
how the invoice still is, so writing back a computed value is as good as an increment.
`Apart`: no two hold the same row; it is what lets `CommitPreserves` look at the one
invoice a commit writes. `Sound`: the books of one invoice, with `returned <= paid`
(else the refund of a residual could exceed what is left) and `Ended(i) => residual[i] = 0`
(which follows for a full refund only from the books).
`CreditLimited` (`CreditWithinLimit`) adds up what a customer owes over any number of
invoices. `CreditInv` needs that whoever has passed the check of the limit still passes it
until the commit (`Fits`), which holds because at most one transaction per customer is past
that check (`OnePerAccount`: the customer's row is locked) and every other step can only lower what is
owed (`AccountsDoNotGrow`); that an invoice settled at the till owes nothing
(`SettledIsPaid`), so it never enters the sum with a debt; and that the invoices on account are
finitely many at any time, whatever the constants (the sum of an infinite set would mean
nothing).

*Sums.* What a sum over a set of bills or invoices does when one of them changes is an
induction over finite sets. It is proved here by least counterexample (`RestInduction` in
`SplitBills_proofs`, `SubsetInduction` in `PosInvoice_proofs`): `SumFunctionOnSet` is a recursion
along the subset order, `WFMin` of `WellFoundedInduction` gives a smallest cardinality at which the
claim fails, and `SumUnfolds` takes one element out of that set. The few basic lemmas are
stated in both modules, so that each stands on its own.

**`CashSession_proofs`**: `ShiftTypeCorrect`, `OneOwner` (`OneShiftPerDrawer`),
`BooksAreExplained` (`BooksExplained`), `TotalsAdd` (`FrozenTotalsAdd`), `NeverOverdrawn`
(`NoOverdraw`), `UnpaidBillsKeepShiftsOpen` (`NoUnpaidBillBehind`) and
`ClosedShiftsAreFinal` (`ClosedStaysFrozen`), for any number of drawers, shifts, orders
and requests. Three arguments carry them. A request that has read the balance of an
account holds the account's lock, so the difference between the ledger and what was
posted past the shifts is still what it read when it commits; the adjustment it then
posts is the right one. An open shift is the last one of its drawer, and nothing was banked past it, so
what a shift inherits is what its predecessor left. And whoever is between the check of
a close and its commit holds the shift, so bills and payments of that shift wait.
The invariant is the conjunction of what is true of the books, of what each request
knows, of paid and unpaid bills; `Exclusive` says which locks exclude which.

**`SyncPush_proofs`**: `PushTypeCorrect`, `QueueOrderKept` (`HandledInOrder`) and
`DeliversOnce` (`SyncPush` implements `OfflineDelivery`), for every day of the till, any
number of overlapping pushes, faults and retries. Neither order nor delivery is
inductive. For the order, `BatchesInOrder`: whatever comes before an operation of a
batch is in that batch or has been handled. A push establishes it, since
`nextBatch` takes a prefix of what is queued (`BatchIsPrefix`, the one place where
sizes of sets matter) and what is no longer queued has been handled
(`QueueIsTrue`). For the delivery, `KeysAreHeld` and `OneHolder`: the pending record of an
operation that runs belongs to one batch, which has it at hand; so a commit finds the
operation not applied. `AnswersAreTrue` is needed because a batch answers long
after it has committed, and the device may store an old answer over a newer one.

## 6. What is only model-checked

Every safety invariant and every refinement that a passing run checks is a theorem. What
stays with TLC is liveness under fairness (`EventuallyAnswered`, `KeyIsResolved`,
`HealthyIsDelivered`, `Settles`, `EverythingSettles`), which is out of the prover's reach.
Some theorems name the routes they hold on; off those routes the property is false, not
merely unproved: `RecordStays` and `OneRunner` where a record can be released or recovered,
`ImplementsOncePerKey` on an outcome route with two bodies under a key, or without a guarded
payment, `MoneyMovesOnce` without any one of the hypotheses of `MovesOnce` (section 7).

## 7. Observations without a run of their own

- On the sale routes a retry runs beside the first attempt. If the retry is rejected
  while the record is still empty, and the first attempt pays between the retry's
  read (`idempotency.service.ts:201`) and its write (`:209`), the stored success is
  overwritten by a rejection that says `safeToRetry`. `AtMostOnce` still holds per
  key, but the caller may then use a new key. The same happens when the retry is told of
  its rejection first and the first attempt pays afterwards. `MovesOnce` proves that,
  for a form that waits and sends one body, a refusal beside a request that pays is the only way to
  pay for a sale twice.
- The same on the outcome routes, where it takes an early time-out. A request is given up before
  it has looked its key up (`web` waits thirty seconds, `api.ts:33-38`); the form submits again
  with the same key; both find no record, the first wins the insert and starts its handler, the second
  loses it and is answered with the 409 of `idempotency.service.ts:171-173`. That answer has
  no `OPERATION_PENDING` code, so `idempotent-request.ts:54` takes it for a definitive one and empties the
  slot, although its comment promises a replay of the first result (`:5-8`). The
  next submission has a new key and pays; the first request pays too. TLC finds such behaviours on the instance
  of `Client_serial` if `MoneyMovesOnce` is asked without its `~hasty`.
- The pending row is not "a distributed lock per (organizationId, key)" (`idempotency.service.ts:46-47`)
  on the outcome routes. `deleteMany` (`:137`) names the key, the status and the empty body, not the
  row it judged abandoned: two retries read the same abandoned row, the first deletes it,
  inserts its own and starts the handler, the second deletes that fresh row and runs the
  handler as well. With `KeyGuarded = FALSE` (a cash movement) `AtMostOnce` then fails on
  the instance of `Idempotency_outcome`, with two requests and one fault. So does
  `MoneyMovesOnce`, without any hasty refusal.
- Without `KeyGuarded`, a second release of an abandoned row also lets a body other
  than the paid one be told of success, since the record is replaced.
- Delivery of the outbox is not "at-least-once" (`event-outbox.service.ts:19`) for every event. As
  many poisoned rows as a batch holds stop the delivery of everything younger: no line limits
  the retries of a row, and the claim orders by `createdAt` (`outbox.worker.ts:61`). Operators are told to
  look at the rows by hand (`docs/BETA-POS.md:242-243`).
- A job whose per-line failures exhaust its attempts (`pos-invoice.service.ts:1128`)
  keeps its hold active, while a job that fails as a whole (`:1081-1089`) releases it.

- The claim of the outbox leaves `status = 'pending'`, and its WHERE clause asks neither
  for the token nor for `claimedAt` of a pending row (`outbox.worker.ts:58`), although
  the comment above says exactly one worker claims a row. Delivery stays as
  promised (`DeliversAsPromised` assumes no exclusive claim), consumers may run twice.
- The catch block of a stock job writes `failed` by id (`pos-invoice.service.ts:1077`):
  when the answer to the commit of its last attempt is lost, a job that is done and
  fully deducted is shown as failed. `retryJob` then deducts nothing twice
  (`DeductsOnce`).
- `fireKitchen` reads the order before its transaction and hands that row to the workflow
  engine after it (`pos-orders.service.ts:708`, `:796`), which looks the transition up
  from the status in it and writes by id. An order that was cancelled, billed or closed
  in between is `in_progress` again: a cancelled order can be edited and billed without a
  reopen, and a paid one does not close again. `PosOrder` has this behaviour
  (`FireAdvance`), and its properties hold nevertheless; so has `SplitBills` (`Advance`). A test
  states that the workflow "cannot reopen a closed order" (`pos.workflows.spec.ts:89`), which is true of
  the workflow and not of this caller.
- The back office checks that an order may be edited before it opens its transaction, and locks nothing
  in it (`orders.service.ts:264`, `:475`). An order billed in between gets other lines than its bill,
  although "Order is already billed and cannot be edited" (`:538`); a closed tab gets rows nobody has
  paid for, although "Order is closed" (`:540`), and paid rows come back as new ones, which can be charged again. The
  new rows have no `kitchenPrintedQty`, so what had been sent is sent again, although "dispatch is
  exactly-once" (`pos-orders.service.ts:719-723`). These are the exceptions `rewritten`, `belated`
  and `copied`.
- `mergeOrders` writes the source's lines as new rows, which the kitchen has not been
  sent; the next send cooks again what the source had already sent, and food that was
  cooked can then leave the order by a plain save, without the manager a void
  asks for. `absorbOrderInTx`, which merges tables, moves the rows instead.
- A source retired by `mergeOrders` keeps its rows, and `reopenOrder` takes any cancelled
  order without an invoice: what was merged can be billed twice.
- `fireKitchen` checks no status: the automatic send that follows a save may cook the
  food of an order that was cancelled in between.
- A failed handler's key keeps its pending row (`idempotency.service.ts:212`), although
  the class comment (`:48-49`) says it is deleted; off the outcome routes that key is
  blocked for good.
- A double click on the web: the loser's 409 (`idempotency.service.ts:171-173`) carries no
  `OPERATION_PENDING` code, so `idempotent-request.ts:54` takes it for a definitive
  answer and releases the key, although the comment (`:6-8`) promises a replay. With
  forms that are disabled meanwhile (`Serial`) it takes an early time-out, as above.
- The hold of a billed order is created after the commit that enqueues its stock job
  (`pos-invoice.service.ts:506`). If a worker finishes the job in between, it finds
  nothing to consume, and the hold then stays active beside stock that has left.

Split bills:

- Nothing keeps an order with bills from being billed whole. `settleResolvedOrder` counts the
  bills without a lock (`pos.service.ts:949`), because settling "would double-charge items
  already assigned to (and paid on) split bills"; `POST orders/:id/invoice`
  (`pos-orders.controller.ts:174`) does not count at all. The guests then owe the whole order
  beside what they have paid, although the class comment of `PosSplitService` says that
  the source is never billed. In `SplitBills` it is `Price`, `BillWhole` after a
  `Settle`; the other order is excluded (`PaidIsFinal`).
- "Σ assigned qty per item ≤ item.quantity is enforced on every mutation" of bills, but not of
  the order: a void or a save lowers a row below what is assigned, and every payment
  is then refused until someone takes it back. When the excess is on a bill that is
  paid, nobody can.
- A tab whose last unpaid row is voided after the last open bill was paid is paid in full
  and stays open: only a payment closes it, and no bill is left to pay. It cannot be
  saved or settled as a table; cancelling it is the way out.
- An order that is cancelled and reopened while bills of it are open is not the tab of the
  table any more; its open bills can only be deleted.
- A payment of a bill locks the table before the order, the payment of an invoice the
  order before the table.

Invoices:

- Only `receivePayment`, `settleCredit`, `writeOff` and a *full* refund close an order. A part payment
  followed by a refund of the rest, or a receipt booked in the back office (`Collect`),
  can leave nothing due on an order that stays open: `receivePayment` then refuses ("already fully
  paid"), and so do the account and the write-off. Of these operations only a refund of the rest
  still closes it.
- `writeOff` closes the orders with `updateMany` (`pos-invoice.service.ts:753`): past the workflow, and
  the `PosTableOrder` link stays open, which `closeOrderForInvoice` closes so that the running
  bill does not linger on the floor map.
- `POST orders/:id/invoice` with `paymentMode: 'credit'` stores the mode without the limit or the walk-in
  check (`pos-invoice.service.ts:389`); `settleCredit` then says "already settled on credit". What is due counts
  against the customer's limit from then on, but the order does not close, so
  `CreditWithinLimit` is about closed orders.
- `pos-customer-statement.controller.ts:103` says that `amountPaid` is set to the total by `writeOff`; it
  is not.
- `recomputeTableStatus` counts the items on a table and writes its status without locking the table.
  When a paid round leaves it while another terminal punches the next one, it may
  end up available with food on it, although the comment says "it can never drift".
- Creating an order locks the table before the shift, a payment the shift before the table: one
  of the two may be the victim of a deadlock.

Cash sessions:

- `reopenOrder` (`orders.service.ts:313`, and the till's) brings an order with items back
  to a held status without `lockFloorShared`, so a shift can close, or be handed
  over, with an open order on the floor, which `table-status.util.ts:47-50` rules out.
- An *empty* order does not block a close. Filled later, from the back office, it belongs
  to a closed shift: the till refuses it, and the guard of one open tab per table refuses
  a new one (`pos-orders.service.ts:218-226`).
- A payment may name the account of a drawer without naming a session, which the comment
  in `treasury-guards.ts:45-49` excludes. `direct` stands for it.
- `saveItems` and `addItems` of the back office read the order without a lock; two of
  them, or one and a terminal's round, may lose an update.

Synchronisation:

- Re-pushing a batch is safe for money (`DeliversOnce`), but not silent: while
  the first attempt still runs, the second finds the key locked (409), dead-letters
  the operation, and its dependents fail with 424; the first attempt then applies it.
  `sync-protocol.md:151-152` says the second attempt "returns `replayed`". The dead
  letter stays open. Two workers are enough for it: the comment of `SyncWorker` ("at most one
  run at a time via unique work names") does not hold across the two names.
- The key of an operation that a handler refused stays pending. So the device's "Retry"
  button, of which `sync-protocol.md` says there is deliberately none, only helps
  after a 403 or a 424; and a dependent that is pushed in a later batch than its
  failed parent reaches its handler and burns its key.
- A replay from a saved outcome (`business_completed`) has no `mapping`, and for a sale no
  `id`: the device never learns the server's id, and a refund in the same batch is not
  resolved, although the comment in `applyOp` says that replays re-establish the map.
- The device marks by `opId` whatever the row says (`Daos.kt:465`), so a late refusal
  overwrites a success and clears the sale's invoice id. The status is still
  true in the sense of `OfflineDelivery`: a refusal has been noted.
- `sync-protocol.md` says that open dead letters block every close;
  `cash-session.service.ts:352-361` warns.

## 8. What is not modelled, and the plan

`PROJECT.json` lists every component with its reason. What would come next:

1. **`FloorTables`**, composed with `PosOrder` and `SplitBills`: table status derived from orders,
   `moveTable`, `absorbOrderInTx`, transfer, item transfer and the split of a table's order
   under the lock
   of the table. Properties: one open tab per table, a billed order stays with its
   table, a table is free when nothing on it is open, no item is lost or billed twice.
2. **`Webhooks`**: delivery by several replicas, the retry schedule.
3. **Reservations with quantities**: `reserve` under the stock row lock; availability.
4. **Sync pull** and the resolution of dead letters.
5. Approvals and recurring jobs.

Outside the scope: arithmetic of prices, taxes, average cost and GL postings
(decimal arithmetic within one transaction each), user interfaces, generated code,
backup and other I/O, and authentication.
