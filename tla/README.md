# A TLA+ verification project for aptifum

aptifum is a multi-tenant ERP: a NestJS API (`src/apps/api`) over PostgreSQL
through TypeORM (`src/packages/database`), and a React client (`src/apps/web`).
This directory models the parts of the API that keep stock, documents and money
consistent while requests overlap, servers stop and messages repeat.  TLC checks
the models on small instances and TLAPS proves the main results for every
instance.  `PROJECT.json` lists the runs, the mutants, the source lines behind
each definition, the findings and the hazards.

    tlc -config MCStock.cfg MCStock     # the pairs are listed in section 3
    tlapm StockProofs.tla               # or another of the seven *Proofs modules, or Sums

Paths below are relative to `src/`; `database/` stands for
`packages/database/src/` and `api/` for `apps/api/src/modules/`.

## 1. Inventory

What all components share:

- One PostgreSQL database at its default isolation, READ COMMITTED.  Every table
  is scoped by tenant; the models are of one tenant.
- An operation is an HTTP request.  Most handlers read an entity with `findOne`
  outside any transaction, check its status, and then save it, alone or in a
  `dataSource.transaction`.  TypeORM's `save` is two statements, a SELECT of the row and
  an UPDATE of the columns in which the entity differs from it: a stale entity overwrites
  newer values, and two saves whose SELECTs both come first can mix their columns.
  The `version` column of the entities is plain: nothing compares or increments it.
- The only pessimistic locks are `product_stock` rows, the expiry-order query on
  `product_lots`, the `document_series` row and the `invoices` row of a payment.
- Events leave through a transactional outbox; the consumers are the tax
  documents (CFDI) and the e-mail notifications.

| Component | State | Operations | What is hard | What makes it correct |
|---|---|---|---|---|
| Inventory stock (`database/services/stock.ts`, `api/inventory/stock.service.ts`) | rows (quantity, reserved), lots, movements | movements of six types, transfer, reserve, release | lots in expiry order beside stock without a lot; several rows locked in one transaction; rows that do not exist yet | never oversold; movements explain quantities; lots within the row; transactions atomic and without endless waits |
| Sales orders and invoicing (`api/sales/orders.service.ts`, `invoices.service.ts`) | order kind and status, invoices, reservations | create, confirm, cancel, convert, invoice, direct sale, credit note | the order is read before the transaction that saves it | no invoice without a request that overlapped the first; final states stay final; reservations follow orders; documents explain the stock |
| Payments and idempotency (`invoices.service.ts`, `api/payments`) | paid amount, payments, idempotency keys, provider, Stripe sessions | post a payment, checkout, webhook, provider settings | lookup, payment and key in three transactions; webhooks repeated and overlapping; lost answers | never overpaid; a session pays once; an accepted webhook is recorded; captured money arrives |
| Outbox (`api/outbox`, `database/outbox`) | event status and attempts | enqueue, dispatch every 10 s, mark | ticks overlap on copies they read; batch limit; crashes | dispatched means delivered; given up means tried; every event settles |
| Document numbering (`database/services/document-numbering.ts`) | next number of a series | take a number | the series row is locked to the end of the transaction | journal numbers unique and without gaps |
| Accounting (`database/services/accounting.ts`, `api/accounting`) | accounts, periods, journal entries, revaluations | post, reverse, open and close a period, revalue | the period is read without a lock; two first postings of a month; stale reversals | entries balance; nothing posted into a closed period; reversed once |
| Purchasing (`api/purchasing`) | orders and received quantities, receipts, bills, supplier payments, reorders | create, approve, cancel, receive; generate, create, issue, cancel, pay a bill; pay in advance | overlapping receipts of an order; a receipt billed twice; payments on one balance | received means arrived; paid means there were payments; payables are what the documents say |
| Production (`api/production`) | production orders, bills of materials | create, edit, start, complete, cancel, remove | overlapping completions; a failure at a later material | made from the materials of its quantity; its lines are written once |
| HR (`api/hr`) | payrolls, leaves, attendance | generate, post, cancel; request, edit, approve, reject; clock in and out, amend, remove | overlapping decisions on the same read | posted once, decided once and the row of one request, where none overlapped on it; no more entries than requests at a time where they did |
| CRM (`api/crm`) | leads, opportunities, the customers they create | create, edit, convert, remove; win, lose | an opportunity is read again without a look at its stage | what was won, lost or converted stays so, unless requests overlapped on it |
| Authentication (`api/auth`, `apps/web/src/api/client.ts`) | refresh sessions, token families, the tokens a browser stores | login, refresh, logout, reset, prune, purge | several statements without a transaction; tabs that share a token; lost answers | a family has one live session; the limit holds; the session of a stored token is live unless a cause explains why not |
| CFDI, e-mail, reminders (`api/tax`, `api/email`, `api/reminders`) | tax documents, sent reminders | handle an event, run daily | errors swallowed by a consumer; the check before the emit | at most one document of an invoice |
| Exchange rates, US sales tax, master data, RBAC, users, tenants, reports, imports, audit, web client | independent rows, or none | create, update, look up, format | nothing of their own | see PROJECT.json |

Interactions: invoices, credit notes, purchase receipts and production call
`applyStockMovement` within their own transaction; orders call `reserveStock` and
`releaseStock`; all documents take numbers from series and post journal entries
in that transaction, and emit events into the outbox with it.  Payments reach
`recordPayment` from clients and from Stripe's webhook.

## 2. Modules

    StockRows <- Stock          <- StockProofs
              <- StockBatches   <- StockTx  --implements-->  AtomicBatches
                                   StockTx <- StockTxProofs
              <- OrderBook      <- SalesOrders --implements--> OrderBook
                                   SalesOrders <- SalesOrdersProofs
    Payments, Outbox, Revaluations  <- PaymentsProofs
    Journal   <- JournalProofs
    ReadCheckSave <- Purchasing, Production (with Warehouse <- StockRows)  <- Supply
                  <- HumanResources, Crm, Valuation
    BackOffice composes Supply, HumanResources, Crm and Valuation
                                   BackOffice <- BackOfficeProofs
    Sessions  <- SessionsProofs
    Sums      <- the proofs of Stock, StockTx, SalesOrders, Payments and BackOffice

Payments, Outbox and Revaluations share no variable or definition; one module proves all
three, since what a payment commits is what the other two start from.

Each component is parameterised by constants with a named assumption, an `MC...`
module gives the constants their values, and a `.cfg` file states a run.

**StockRows** is the arithmetic of one `product_stock` row, as constant operators:
when a movement, a reservation or a transfer is accepted and the row it leaves.
All stock modules share it.

**Stock** has one action for each way to call `applyStockMovement`
(`Receive`, `ReceiveLot`, `ReceiveIntoLot`, `Issue`, `IssueLot`), `transferStock`,
`reserveStock` and `releaseStock`.  `stock`, `lots` and `ledger` are the three
tables; `ledger` keeps the sum of the movements of a key, which is what the
properties ask about.  Consumption by expiry order is `FefoPicks`: what the loop
over the locked lots takes from each.  Each operation locks its row before it
decides, so it is one step here; StockTx looks inside.

**StockTx** runs lists of operations (a document's lines) statement by statement:
`SelectForUpdate`, `Save` or `Insert`, `Commit`, and every way to fail: refusal,
unique-index conflict, deadlock, lost connection.  A missing row cannot be locked, so two
transactions may both try to insert it.  The waiting and the abort of a circle
are PostgreSQL's and marked external.  **AtomicBatches** is what it promises:
a list happens at once or not at all.  Rows only; the lots of a key are guarded
by its row.  The series lock that some documents take first is left out, which
only adds interleavings.

**OrderBook** is the abstract specification of sales: each request is one step.
**SalesOrders** splits confirm, cancel, convert and invoice into the read of the
order (`ReadTo...`, with the checks of the handler) and the transaction
(`Commit...`), which works on the row read earlier and saves it over what it is by then;
`Rollback` is any failure.  Creation, direct sales, credit notes and receipts do
not read an order first and stay single steps.

**Payments** gives each request the phases of `withIdempotency` around
`recordPayment`: look the key up, wait for the invoice's lock, hold it, save the
key.  `Fail` is a refusal, an error or a crash at any of them.  Stripe
(sessions, webhooks sent until accepted, and again) is external, modelled from
how `PaymentsService` uses it.

**Outbox** has a dispatcher for each tick under way, holding copies of the rows
it read.  `MarkDispatched` and `MarkFailed` save the copy over whatever the row
says by then.  `delivered` and `errors` are history variables for the properties.

**Journal** follows `postJournalEntry` within whatever transaction calls it:
`FindPeriod` or `Refuse` on an unlocked read, `InsertPeriod` for the first entry of a
month (which waits for another's uncommitted insert, or fails on its unique index:
`RefuseDuplicate`), `LockSeries`, `Commit` with the mark of a reversed entry.
`ReadToReverse` is the check before the transaction of a reversal, dated by the day it
runs; `ReadToClose` and `Close` are the read and the save of closing a period.  `Fail`
is an inactive account, a later step of the document or a crash.

**ReadCheckSave** is the shape of the handlers of the back office: read a document,
check it, save the copy later.  `Take` is the read with its checks, `Answer` the end of
the transaction, `Rollback` every failure in between.  A save is its two statements:
`Load` is the SELECT, and the UPDATE (`Saved`, by way of `Updated`) writes the columns in
which the copy differs from what `Load` found, `deleted_at` included, over the row as it is
by then.  `LoadLocked` is the SELECT of a handler that took a number or moved stock first:
it holds a series or a stock row which the same operation on the same document needs, so
two of them do not load before either has ended.  `raced` remembers the documents that
changed while another request held a copy, so that a property can speak of the others;
`inUse` is a bound (see below).  **Warehouse** is the stock rows that purchasing and
production share.

**Purchasing** has the operations of `PurchaseOrdersService`, `SupplierBillsService`
and `SupplierPaymentsService`.  A receipt's lines are abstracted to the largest and
the sum, since each line is compared with what is missing on its own.  `payable` is
account 2000, and `issues` counts how often a bill was issued.  **Production** has those of
`ProductionOrdersService`; the unique key of `production_order_lines` is `LinesAreNew`, the
only thing that stops a second completion, and only of an order with materials.  The order
is read with its lines, and a save loads them too (`LoadWithLines`): it fails if its copy
lacks lines that are there by then.  A cancellation whose SELECT ran before a completion
committed does set `cancelled` over `completed`.  **Supply** puts both over one warehouse.

**HumanResources** and **Crm** have the operations of payrolls, leaves, attendance,
leads and opportunities.  In Crm the transaction that wins an opportunity reads it
again (`Reread`), as the code does, and creates a customer whose code is unique.

**Valuation** is the average cost of a stock row, to the cent, and account 1200 beside it.
`ReceiveGoods`, `AddByHand`, `TakeByHand`, `Transfer` and `CreditSale` are one step;
`Sell` and `Consume` use a cost that was read before (`ReadToSell`, `ReadToConsume`).
`unposted` and `rounding` are history variables: what the books are known to miss.

**BackOffice** composes these five under one set of requests: each step is a step of one
part.  The parts share `request`, `raced` and `inUse`; purchasing and production also
share the stock.

**Sessions** follows `AuthService` one statement at a time: `ReadRefresh`, then `Rotate` or
`RevokeReused`, `Create`, `List`, `Prune`; `ReadLogout`, `RevokeLoggedOut`; `Reset`,
`Expire`, `Purge`.  The other half is the web client, whose tabs share what the browser
stores: `SendRefresh`, `Answer` (which stores the new token, or clears the stored one),
`Lose` and `Close` for lost requests and closed tabs.  `RefreshNothing` is a refresh without a
stored token, after which the tab is `latched`: it gets the old refusal again until it is
opened anew (`Open`).  `RefuseUser` is the refusal of a user who is inactive or gone.  `cause` records, for the
properties, why the user of a family may have to log in again.

**Revaluations** is the receivable or payable of documents in one foreign currency.
A revaluation is one transaction with one rate: `List` reads the open documents,
`Consider` and `ReadPrior` read each one's adjustments, `PostAdjustment` reverses them and adjusts,
invoices first and then bills (`NextKind`).  Nothing is locked until its first posting,
which keeps the series of the journal to the end.  Issuing and paying an invoice are single
steps, since a payment locks it.  A bill is not locked: it is issued and paid from a copy
read before (`ReadToIssueBill`, `LoadToIssueBill`, `IssueBill`; `ReadToPayBill`, `PayBill`).
`raced` are the documents on which such requests, or two revaluations or reversals,
overlapped.  `Converted` rounds, half upwards.

## 3. Runs

| Run | Module, cfg | Instance | Shows |
|---|---|---|---|
| stock | MCStock, MCStock.cfg | 1 product, 2 warehouses, 2 lots, 2 expiry dates, quantities 1 and 3, total at most 4 | no overselling, ledger equals quantity, lots within the row, expiry order, transfers conserve |
| stock_transactions | MCStockTx, StockTx.cfg | 2 rows (one missing at first), 6 documents, 2 transactions | transactions implement AtomicBatches, every transaction ends |
| sales_concurrent | MCSalesOrders, SalesConcurrent.cfg | 2 orders on one product, 2 overlapping requests, 3 invoices | what stale reads cannot break: documents explain the stock, invoiced orders have an invoice, and each further invoice of an order is of a request that overlapped the first |
| sales_sequential | MCSalesOrders, SalesSequential.cfg | 2 orders, 2 products, 1 request at a time | SalesOrders implements OrderBook; final states; no reservation outlives its order |
| payments | MCPayments, Payments.cfg | invoice of 2 cents, a keyed and an unkeyed post, 2 sessions, 2 requests at once | never overpaid, paid is the sum of payments, a session pays once, saved answers true, accepted webhooks recorded, captures arrive |
| outbox | MCOutbox, Outbox.cfg | 2 events, batch of 1, 3 attempts, 2 dispatchers | dispatched was delivered, given up was tried, every event settles |
| journal | MCJournal, Journal.cfg | 2 months, 2 requests at once, 3 entries before requests stop | gapless numbers, matching reversals, closed periods only drain, every request ends |
| back_office | MCBackOffice, BackOffice.cfg | 1 purchase order of 2 products, 2 receipts, a bill, an advance, a production order, 2 payrolls of a month, a leave, a day, a lead, an opportunity, 4 stock rows; 2 requests at once | what stale copies cannot break (received is covered, paid bills were paid, made from materials, stock and inventory explained; no more bills issued, payrolls generated or salaries posted than requests overlapped), and what holds of documents without overlapping requests (purchases exact, salaries once, rows whole, closed stays closed) |
| sessions | MCSessions, Sessions.cfg | 1 browser with 2 tabs, limit of 1, 3 sessions, 1 lost request | sessions within the limit, one live session of a family, stored tokens have a live session unless a cause is known |
| revaluations | MCRevaluations, Revaluations.cfg | an invoice and a bill of 2, rates 1 and 1.5, 2 requests at once, 2 entries before requests stop | accounts explained, documents at the rate of their revaluation |
| sales_reserved_invoice | MCSalesOrders, SalesReservedInvoice.cfg | violation | an order that reserved its stock is refused its invoice |
| payments_keys | MCPayments, PaymentsKeys.cfg | violation | a stop before the key is saved lets a retry pay again |

Every property of a passing run has a mutant: a definition of the model changed
the way a plausible bug would change the code (an operator commented "a mistake
the runs must notice"), under which TLC finds the property violated.

The two violations are disagreements of the code with its documentation;
PROJECT.json quotes the lines.

### Bounds

- *Stock*: `MaxQuantity` bounds receipts only.  Two lots and two dates are the
  least in which an issue spans lots, a receipt changes the expiry order, and a
  transfer creates, or adds to, a lot elsewhere.  An average cost is no part of
  any decision; Valuation has it.
- *StockTx*: `MaxQuantity` stops receipts from starting, never a transaction under
  way.  Two transactions and two rows in opposite orders make the deadlock, the race
  for the insert and the wait for an insert; one document names a row twice.
- *Sales*: the orders ask for 2 and 1 of 3 units, so one direct sale makes one of
  them fail; with two products a transaction fails on its second line.
  `MaxInvoices`, `MaxCredits` and `MaxReceived` bound the documents.  Sales runs
  disable the deadlock check: when the bounds are used up there is nothing to do.
- *Payments*: two cents make the key's one cent fit twice, and a payment and a
  session compete for the balance.  The amounts are cents, on which the half-cent
  tolerance of the code's comparison has no effect.
- *Outbox*: batches of one make an older event keep a younger one out;
  three attempts let two dispatchers overwrite each other's count before the limit.
  The deadlock check is off: once all events are settled nothing happens.
- *BackOffice*: the documents of one set of `Together` are used in one behaviour, since the
  others share no row with them: an order with two receipts, a receipt of an order with its
  bill, a bill and an advance, production with a receipt of its material, production from
  nothing, two payrolls of a month, and each remaining group by itself.  `MaxCompletions`
  lets an order without materials be completed twice; `MaxMoves` allows a receipt, a
  return, a transfer or a movement by hand around a read and its sale.  By hand, TLC finds no error
  with two bills of one receipt (5,015,314 states), nor between two rows of stock with lines
  of one and two units (2,142,514 states).
  The deadlock check is off: documents end.
- *Sessions*: a limit of one makes every second login prune; three sessions are a login, a
  refresh and another.  With `MaxSessions = 4` TLC finds no error in 5,393,150 states.
- *Revaluations*: rates of 1 and 1.5 make every odd amount round, and totals of two are paid
  one by one or at once.  `MaxEntries` only stops requests from starting.  `BillIsNotRaced`
  is a constraint: a behaviour is left when two requests overlapped on the bill, of which
  the properties say nothing from then on.  So that the invoice is followed further too,
  the run was made by hand without it, with a bill of 1: no error in 12,371,329 states.
- *Journal*: two requests make the race for the insert of a period, for the series and
  for a reversal; `MaxEntries` only stops requests from starting.  The deadlock
  check is off: with the entries used up and both periods closed nothing happens.

### Fairness

Stock, sales, the back office, sessions and revaluations are checked for safety only,
without fairness: their handlers neither wait nor repeat, so nothing has to happen
eventually beyond what StockTx and Journal show of locks.

- *StockTx*: a handler runs to the end of its transaction (weak fairness on its
  own steps); PostgreSQL grants a lock in turn and wakes a waiting insert
  (strong fairness on `SelectForUpdate` and `Insert`); its detector aborts a
  circle.  Beginning and failing are never forced.
- *Payments*: requests end, row locks are queued, Stripe repeats a webhook until
  it is accepted, and a server does not fail at the same step for ever.
  `CapturesAreRecorded` further assumes that the provider ends up enabled.
- *Outbox*: the schedule ticks for ever, and the handling and the marking of an
  event are not interrupted by a stop each time.
- *Journal*: as in StockTx, a request runs on, and PostgreSQL wakes those that wait for
  the series or for an insert in turn.

`ClosedMonthsDrain` is weaker than a closed period that never gains an entry: the read
takes no lock, so a posting that found the period open commits after it closed.
`docs/SPEC.md` line 476 only promises that a *new* posting is rejected, and that holds.

## 4. Proofs

Every safety invariant and every action property of the passing runs is a theorem, and so are
the two refinements: they hold for arbitrary constants that satisfy the named assumptions, and
bounds such as `MaxQuantity` play no part.  The assumptions say what kind of value a constant is,
that the orders, lots, warehouses, tabs, products and documents of an instance are finitely many
(what is added up over them, or counted, has to be), and what the code
guarantees of identifiers: a key of a client is not the id of a Stripe session, for example.

| Module | Theorems | Inductive invariant and why it is needed |
|---|---|---|
| StockProofs | `StockTypeOK`, `StockNeverOversold`, `LedgerExplainsStock`, `LotsStayWithinRows`, `LotsLeaveInOrder`, `TransfersLoseNothing` | types, *sound* rows (they reserve no more than they have) and the ledger together: that a quantity stays natural rests on reserved being within it. The lots of a row add up to no more than the row, for an issue takes from the lots no more than it takes from the row; what `FefoPicks` takes of a lot is all of it as soon as it takes from a later one |
| StockTxProofs | `StockTxTypeOK`, `HeldRowsAreCurrent`, `TransactionsAreAtomic` | locks are on committed rows and inserts of keys without one, each with one owner, so a commit touches no row of another. `ReplayInv`: the list of an open transaction, replayed on *any* rows that agree with the committed ones on what it owns, gives the rows it holds; so whatever others commit in between, its commit is one step of AtomicBatches and every other step changes nothing |
| SalesOrdersProofs | `SalesTypeOK`, `StockNeverOverReserved`, `InvoicedOrdersHaveInvoices`, `InvoicesStayWithinOverlap`, `StockFollowsDocuments`; with one request at a time: `OneRequestIsAtomic`, `ClosedOrdersAreFinal`, `NoReservationOutlivesItsOrder` | stale copies may be written back, but a conversion never holds a copy that says invoiced. A request that is about to invoice found no invoice of its order, so the invoices and the requests about to make one are never more than the requests. One request at a time, the copy it holds is the row and still passes its checks: SalesOrders implements OrderBook. What is reserved of a product is at most what the lines of confirmed orders ask for, added up over the orders |
| PaymentsProofs, of Payments | `PaymentsTypeOK`, `InvoicesAreNeverOverpaid`, `WebhooksPayOnce`, `AcceptedWebhooksAreRecorded`, `ReplayedAnswersAreTrue`, `PaidAmountsAddUp` | what a lock holder read is current; a session asks for at least the balance, so once it is paid the balance is zero; a new payment adds its amount to the sum and to the invoice |
| PaymentsProofs, of Outbox | `EventsKeepTheirTypes`, `DispatchedEventsWereDelivered`, `GivenUpEventsWereTried` | rows overwrite each other, so the invariant is of copies: each copy under way may be saved whatever the row says |
| PaymentsProofs, of Revaluations | `AccountsAreExplained`, `DocumentsStandAtTheirRate` | `RevaluationsIInv`, of runs and of books. What a run reverses is in force, the lines behind it have their value already or after its entries, and those to come have none; each only as long as no other request ended with the document, which is what `raced` then says. A request that pays a bill, or has loaded one to issue it, holds the row as it is, unless the bill is raced. So what overlaps on *other* documents is harmless, and a commit replaces the one entry in force by one or none. A payment moves account and balance apart by a unit at most (`ConvertedInParts`) |
| JournalProofs | `JournalTypeOK`, `NumbersNeverSkip`, `ReversalsAlwaysMatch`, `ClosedPeriodsOnlyDrain` | the one holder of the series holds its current number, so commits come in the order of numbers and an entry reverses an earlier one; a period under insertion is missing for everyone else, so no commit reopens a closed one |
| BackOfficeProofs | `OrdersAreCovered`, `PaidBillsAreCovered`, `OrdersAndBillsAreExact`, `PurchasesAreExact`, `GoodsAreMadeOnce`, `StockComesFromDocuments`, `RowsStayWhole`, `SalariesArePostedOnce`, `DecisionsAreFinal`, `StockIsWorthItsAccount` | `IInv` has one part per kind of document: a copy under way never claims more than arrived, was paid or was made, whatever it will overwrite and whatever its save found, and of a document nobody raced for it is the row. Two parts count: `IssueInv`, that a bill was issued no more often than there are requests not about to issue it, for none becomes a draft again and none is issued but from a copy of a draft; `OverlapInv` the same of payrolls. Beside it, `StockInv` adds receipts and completions up to the rows; `DebtInv` keeps the payables account equal to open balances and unbilled receipts less advances, as long as no bill is raced and no receipt billed twice; `WorthInv` keeps the inventory account within the rounding that `rounding` counts (`QuotientIsClose`) |
| SessionsProofs | `LiveSessionsAreLimited`, `FamiliesHaveOneSession`, `BrowsersStoreLiveTokens` | `BaseInv`: tokens name sessions that exist. `OneInv`: a family without overlapping refreshes has one request, which revoked the only live session before it creates another. `StoredInv`: a family belongs to one browser, and a request of a family without a cause cannot be refused. `LimitInv`: whichever of the pruning requests are counted as done, the live sessions are within the limit plus those still to prune; it quantifies over sets of requests because their lists overlap |
| Sums | lemmas on sums over finite sets | the folds of the library choose an element and go on with the others; that the choice makes no difference is shown by a smallest counterexample, since the induction theorems of the library cannot be used |

Each invariant was checked by TLC before it was proved, on the instance of its run: the back
office's (`IInv`, `StockInv`, `DebtInv`, `WorthInv`) on 977,991 states, `RevaluationsIInv` on
3,075,245, `ReplayInv` on 11,258.

`StockTypeOK`, `StockTxTypeOK`, `SalesTypeOK`, `PaymentsTypeOK`, `EventsKeepTheirTypes` and
`JournalTypeOK` are proved and therefore not repeated in the runs; so are
`StockNeverOverReserved` and `HeldRowsAreCurrent`.

Only model-checked is liveness (`TransactionsEnd`, `CapturesAreRecorded`, `EveryEventSettles`,
`RequestsEnd`), since fairness and ENABLED are beyond the prover.

Two things the proofs made plain.  A recursive function, such as the effect of a list of
operations, is unrolled in them by the least place at which a claim fails (`AfterStep`), so
no theorem of induction is needed.  And no proof of a sum needs more than that one row, order,
bill or entry changes at a time, or that the entries of one document do.

## 5. Known divergences

Two are runs that TLC must find violated (section 3).  The others were met while
modelling; where the models show them, the properties that remain say so ("unless
requests overlapped").

*Overlapping requests.*

- Two overlapping requests invoice one order twice (`api/sales/invoices.service.ts:306`, which
  means to refuse "Order has already been invoiced" at line 315).  `InvoicesWithinOverlap`
  bounds it: nothing but overlap makes another invoice.
- Two overlapping issues of a bill post it twice (`api/purchasing/supplier-bills.service.ts:134`),
  and two overlapping payments post both and lower its balance by the later one
  (`api/purchasing/supplier-payments.service.ts:63`, saved at line 134); for a bill in a foreign
  currency this also puts the next revaluation off.
- A cancellation of a production order that loaded it before a completion committed makes a
  completed order a cancelled one (`api/production/production-orders.service.ts:259`); its goods
  and materials have moved.
- An approved leave can have dates that its approval never read
  (`api/hr/leaves.service.ts:109`), a day of attendance minutes that are not between its two
  times (`api/hr/attendance.service.ts:145`), and a removed record can return.
- Two reversals of one entry both post (`api/accounting/journal-entries.service.ts:79`).
- Two revaluations both adjust a document, or both reverse an adjustment, although
  `docs/SPEC.md:263` says "idempotent re-runs".  The next run repairs the former, not
  the latter.  `OneAdjustment`, put into Revaluations.cfg, is violated.
- Only the unique key of `production_order_lines` stops a second completion: an order
  without materials can be completed twice, and a bill of materials that names a
  component twice can never be completed.
- `docs/SPEC.md:578` gives payrolls a key of tenant and period; the entity's is on the number
  only (`hr-payroll.entity.ts:12`), so overlapping requests make two payrolls of a month.
- The first two tax documents of a tenant race for its certificates: only the insert of a
  document is repeated as a read (`docs/SPEC.md:742`), so the error of the certificates'
  unique key is swallowed, the event counts as handled, and the invoice has no document
  until one is generated by hand (`api/tax/cfdi.service.ts:255`).
- Two tabs that refresh with the same token revoke their family, the new session included;
  a refresh that read its session before a logout or a reset makes a live session after it.

*One request at a time.*

- A direct sale or a movement by hand consumes the reservation of a confirmed order
  (`database/services/stock.ts:235`; `docs/GLOSSARY.md:43` says reserved stock is committed).
- A goods receipt that names an item twice receives more than was ordered
  (`api/purchasing/purchase-orders.service.ts:186`).  What remains is rounded to hundredths
  while quantities have four decimals: 0.01 of 0.005 can be received, and 0.004 never.
- Only a draft bill blocks billing a receipt again
  (`api/purchasing/supplier-bills.service.ts:88`; `docs/SPEC.md:420` says "already billed").
- A completion with labour or overhead but no material cost is refused, because its
  entry would have a line of zero (`api/production/production-orders.service.ts:269`).
- An opportunity that was lost can be deleted (`docs/SPEC.md:543` says that it cannot).  One of a
  converted lead, without a customer of its own, cannot be won when the customer's code
  was taken from the lead.
- A cancelled payroll blocks its month; a removed attendance record blocks its day.
- An inbound movement without a cost leaves the average as it is (`docs/GLOSSARY.md:35` has
  no such exception); movements by hand post no entry (`docs/SPEC.md:152` says that
  inventory movements do); the cost of goods sold can be read from the row of another
  variant (`api/sales/invoices.service.ts:537`).
- A sale in a foreign currency rounds net, tax and total separately, and its entry can be out
  of balance by a cent and be refused (`api/sales/invoices.service.ts:614`).
- An invoice paid in parts at a rate of 1.5 leaves a unit in receivables that no revaluation
  removes.  `PaidIsCleared`, put into Revaluations.cfg, is violated.
- A lost answer to a refresh logs the user out at the next one.
- A tab that refreshes without a stored token keeps that refusal (`apps/web/src/api/client.ts:57`)
  and refreshes no more until it is loaded again.

## 6. Not modelled, and why

- *Of modelled components.*  Prices, taxes and totals of sales are data on which no modelled
  decision depends, apart from the balance of an invoice.  Fractions of a unit (four
  decimals) are scaled to integers.  The lines of journal entries are checked for balance before
  anything is read or written.  In the sales and payment modules, journal entries and numbers of
  documents are part of the same transaction and can only make it fail, which
  `Rollback` and `Fail` cover.  In Revaluations a bill is not cancelled (only drafts are, and
  Purchasing has that) and an advance changes no balance of a bill.  A tab of Sessions waits
  for one request at a time.  In Crm an edit looks for the lead that it names at its save, not
  somewhat earlier.  Left out are reorders (which create draft orders), edits of a
  bill of materials, the receivable that a credit note lowers without the invoice's balance, and
  the rounding of a sale entry.
- *Reminders* query what is due, look for an earlier event, and emit; nothing says that two
  replicas do not emit one twice.
- *CFDI and e-mail* are consumers whose failure is a choice in Outbox.
- *Exchange rates, tax tables, master data, roles, tenants, reports, imports, audit* are lookups,
  independent rows or read-only queries.

Of the 54,137 lines of the implementation, most are the web client's pages, its generated API
schema and its translations, reports, seeders, migrations, request types and independent-row
CRUD, which hold no state that overlapping requests could spoil.  This is why the map
covers what changes state in the services above and only a small part of the repository.

## 7. Plan

Done: Stock, StockTx, Sales, Payments, Outbox, Journal, the back office (purchasing,
production, HR, CRM, valuation), Sessions and Revaluations, model-checked, and all their
safety properties proved.  Next, in this order:

1. Reorders and edits of a bill of materials in Supply, with their part of the invariant of
   the back office.
2. Credit notes in Revaluations: the receivable they lower without the invoice's balance.
3. The rounding of a sale entry in a foreign currency.

PROJECT.json lists five more hazards without a property (two reversals of an entry, stale
leaves, days and opportunities, stale costs): there the code does go wrong when requests
overlap, nothing in it bounds how far, and the properties are of what no requests overlapped on.
