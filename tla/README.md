# storage_app: a formal model of its core

storage_app is a multi-tenant ERP for warehouses: a NestJS backend (`src/backend/src`)
over PostgreSQL through Prisma, a Next.js frontend and an Electron shell. All state is
in the database, and every request is one or more transactions, at READ COMMITTED unless it says Serializable; the
program protects itself with row locks (`SELECT ... FOR UPDATE`), conditional updates
(`updateMany` with a guard in its `where`), unique keys and, in places, retries. What is hard to test is what those transactions do to each other.

This directory holds TLA+ models of the parts where that matters, the TLC instances
that check them and the proofs that TLAPS checks.

## Inventory

| Component | State | Operations | What makes it correct |
| --- | --- | --- | --- |
| Sales orders (`sales-order/`) | `SalesOrder.status`, `SalesOrderItem.deliveredQuantity` | create, update, confirm, cancel, recomputeDeliveryStatus | the status is the one the lines give; a line is never claimed beyond its quantity |
| Delivery orders (`delivery-order/`) | `DeliveryOrder.status`, quantities, returned quantities | create, ship, recordFailedDelivery, rescheduleDelivery, cancel, recordReturn, createFromInvoice | goods leave once, come back at most once, and the status tells which |
| Invoices (`invoice/`) | status, lines, fulfilled and credited quantities, `fulfillmentPath` | draft, edit draft, discard, issue, edit after issue, void | stock, COGS and the invoice move together; nothing shipped is voided; credits stay within what was billed |
| Stock (`stock/`) | one row per product and location | increase, decrease, fulfill, adjust, import | units are neither lost nor counted twice |
| Customer payments (`payments/`) | signed payment rows, `amountPaid`, `paymentStatus` | recordPayment, refund, applyCredit, voidPayment | paid is the sum of the live rows, within 0 and the total; the ledger's receivable follows |
| Journal (`accounting/journal`, `posting-rules`) | entries, periods, numbers | post, void, close and reopen a period | numbers without gaps, one posted entry per document, one reversal per void, closed months stay closed |
| Messaging (`messaging/`) | wallet balance, messages, reminder keys | charge, send, refund, top up, the daily reminder job | a charge has a message or a refund; a reminder stage goes out once |
| Billing (`billing/`) | checkouts, `paidUntil`, top-ups | checkout, gateway callback, settle, expire | every paid checkout is applied, once, however calls repeat or are cut short |
| Warehouse sessions (`sessions/`) | sessions, picked items | open, scan, undo, close, reopen | a pick moves stock once |
| Delivery routes (`delivery-routes/`) | routes, stops, versions | add, remove, reorder, optimise, sign, fail, reschedule, plan | one live stop per delivery order, one order of stops per route; what is resolved stays on record |
| Purchasing (`purchase-order/`, `approvals/`, `goods-receipt/`, `purchase-return/`, `accounting/supplier-payments`) | orders, approvals, receipts, returns, payments | draft, approve, send, receive, return, pay, void | received stays within ordered, paid within received; what is sent is what was approved |
| Back office (`accounting/expenses`, `fixed-assets`, `payroll`) | documents, payments, depreciation, the entries they posted | record, pay, depreciate, dispose, draft a payroll, void, remove | the ledger and the documents say the same; a month is depreciated once; a period is paid once |
| The rest | see `PROJECT.json` | | |

How they interact: `ship()`, `issue()`, `editIssuedInvoice()`, `recordReturn()` and
`voidInvoice()` all move the same stock rows and post to the same ledger inside their
own transactions. `recordReturn()` finds the invoice to credit through
`InvoiceItem.salesOrderItemId`; `voidInvoice()` finds the deliveries to refuse or cancel
through the same column. `create()` and `issue()` meet on the sales order's row lock;
`recordReturn()` and `voidInvoice()` on the invoice row; `cancel()`, `ship()` and the
void on the delivery order's row, which the void does not lock.

The hard behaviours are listed in `PROJECT.json` under `hazards`, each at its line.

## The modules

### `SalesOrderDelivery`

One sales order, up to `MaxDeliveries` delivery orders and `MaxInvoices` invoices of it,
the stock rows of its lines and the units whose cost stands in COGS. An action is one
committed transaction. A request that decides on something it has not locked and writes
later is split: `rescheduleDelivery()` into `RescheduleRead` and `RescheduleWrite`,
`voidInvoice()` into `VoidBegin` (locks the invoice, looks for what has left), `VoidList` (reads
the packed delivery orders) and `VoidCommit` (writes). The other requests decide under a row lock or with the
condition of their update, so that one step is what a caller can observe.

| Action | Code |
| --- | --- |
| `Confirm`, `CancelOrder` | `SalesOrderService.confirm`, `cancel` |
| `CreateDelivery`, `Ship`, `FailDelivery`, `RescheduleRead/Write`, `CancelDelivery`, `RecordReturn` | `DeliveryOrderService.create`, `ship`, `recordFailedDelivery`, `rescheduleDelivery`, `cancel`, `recordReturn` |
| `DraftInvoice`, `UpdateDraft`, `DiscardDraft`, `Issue`, `EditIssued`, `VoidBegin/List/Commit` | `InvoiceService.createDraftFromSalesOrder`, `updateDraft`, `discardDraft`, `issue`, `editIssuedInvoice`, `voidInvoice` |
| `SetPolicy` | `OrganizationService.updateSettings` |

`StatusFor` is `recomputeDeliveryStatus()`, `ReturnStatus` is `recomputeReturnStatus()`,
`Fulfill` is `StockService.fulfill()`.

Decisions:

- Every line is a product line at its own location, with a positive price, so lines share
  no stock row. Costs are left out: COGS is counted in units.
- `OVERSELL` stands for the policies ALLOW and WARN with a confirmation; WARN without one
  refuses like a failed transaction. BLOCK lets `issue()` take what is there.
- `InvoiceItem.reservedQuantity` is written by these requests and read by none of them
  for a sales-order invoice; it is left out.
- Invoices carry no payments, which are in `CustomerPayments`. `voidInvoice()` refuses a paid
  invoice, so the model has every void that happens; payments have no other effect on this state.
- An order's lines are constants: `update()` works on a draft only, before anything here
  refers to them. Discarding a draft frees its row.
- A delivery order picked in a warehouse session needs a session of the order, which the
  code never creates for one (`sessions.service.ts` links sessions to invoices); `ship()`
  therefore always moves stock here.
- At most one reschedule request is in flight per delivery order.
- `RecordReturn` waits while a void holds the invoice it would credit. In PostgreSQL it
  waits too and then credits what may have become a void invoice; the credit of a void
  invoice is not modelled.
- `Serial` restricts a run to requests that arrive one after the other: it isolates what
  goes wrong, or right, without concurrency.

`OrderCommitment` is the abstract specification of the delivery side: units of a line are
committed, depart, come back and are withdrawn. `SalesOrderDelivery` implements it with
`committed <- delivered` and `out <-` the net shipped units (`KeepsCommitment`).

`Totals` holds the one recursive function the models share.

### `OrderStatusLocks`

`SalesOrderDelivery` takes each transaction in one step. For the order's status that is too
coarse: `recomputeDeliveryStatus()` reads the order and its lines without a lock, and
`cancel()` and `recordReturn()` do not lock the order. This module takes `create()`, `cancel()`
and `recordReturn()` statement by statement: each transaction has its row locks, its own
uncommitted changes, and reads what is committed. PostgreSQL's deadlock detection is the
external action `DeadlockVictim`: one transaction of a circular wait is aborted. Releases
(`cancel`, `recordReturn`) are one action with the quantities they give back, which other
open releases have not taken: the delivery order's row sees to that.
`OrderStatusTracksLines` of `SalesOrderDelivery` is thus true of whole transactions only:
see the disagreements below.

### `CustomerPayments`

The money on the issued invoices of one customer: `Invoice.total`, `creditedAmount`,
`amountPaid`, `paymentStatus`, the live `Payment` rows, and the balance of Accounts
Receivable as the journal has it.

| Action | Code |
| --- | --- |
| `RecordPayment`, `Refund`, `ApplyCredit`, `VoidPayment` | what `PaymentService` reads and checks |
| `CommitMove`, `CommitVoidPayment` | what it writes: rows, both invoices, journal |
| `ReturnScan`, `CommitReturn` | a scan of a returns session: `applyLinkedReturn()`, `postSalesReturn()` |
| `Issue`, `EditIssued`, `VoidInvoice` | `InvoiceService.issue`, `editIssuedInvoice`, `voidInvoice` |

`PaymentService` and the scans run Serializable and are two steps each. What they read is
kept in `req` and `seen`, and what they write is computed from it, as `applyToInvoice()`
does. PostgreSQL refuses to let such a transaction update a row that changed since it read
it, and `runSerializable()` starts it over: a commit therefore drops the open requests
that write the same invoices (`Interrupted`). Issuing, editing and voiding an invoice hold
its row lock from before they read it and are one step.

Decisions:

- A payment, a refund and an applied credit are all documents that move an amount from
  some parties to one; the till and the banks are the party `Cash`. A document that applies
  credit has a pair of linked rows for each invoice it takes from, voided pair by pair
  (`outRows`, `inRows`).
- Amounts are whole units: two decimals without rounding. `EPS` absorbs float noise only.
- A return scan is worth an amount, at most what is left of the total. In the code the
  ceiling is the line's `fulfilledQuantity`. Returns on delivery orders post through the same
  `postSalesReturn()`; that they may credit a line twice is shown by `SOCreditTwice`.
- PostgreSQL may also refuse a Serializable transaction that would have been harmless, and
  `runSerializable()` gives up after six attempts; both look like a request that was never sent.
- An invoice's lines, stock and COGS are in `SalesOrderDelivery`, its money here: neither
  influences the other except that a void or an edit of a paid invoice is refused.

### `Purchasing`

One purchase order from its draft to its last payment.

| Action | Code |
| --- | --- |
| `ReplaceItems`, `HeaderRead/Write`, `SendRead`, `SendClaim`, `Cancel` | `PurchaseOrderService.update` (with items, without), `send`, `cancel` |
| `AskRead`, `AskReplace`, `AskCreate`, `Decide`, `WithdrawRequest`, `SetLimit` | `ApprovalsService.request`, `decide`, `cancel`, `updateSettings` |
| `ReceiveRead/Commit`, `ReturnGoods` | `GoodsReceiptService.receive`, `PurchaseReturnService.create` |
| `PayRead`, `PayCommit`, `PayRestart`, `VoidPayment` | `SupplierPaymentsService.record`, under `runSerializable()`, and `void` |

Decisions: a unit of any line costs 1, discounts and taxes are zero, so an order's value is
its units. A header edit computes the total from the subtotal it read before the lock, so the
two columns are kept apart. `Overlapping` names the requests that others may come between;
what is in no instance's set is explained under the disagreements. The first of two
overlapping Serializable payments makes the other `stale`, which starts over and reads again. A
receipt is two steps: it checks the order's status and what remains of each line, then locks the
order's row and checks both again, so that others (a cancellation, another receipt) may come between.

### `Journal`

The journal below the documents: transactions at READ COMMITTED that each read the fiscal
period, a posted entry of their source and the count of the period's entries, and insert. A row
belongs to its transaction (`by`) until that commits; `voided` are the rows it has marked. Two
unique indexes decide who loses: `Insert` waits while a row of the same key is uncommitted, and only
`Rollback` is left when it is committed. `lock` is the row of the document, which each caller
locks or claims before posting. `closing` is a history variable: who was open when a period closed.
Amounts, accounts and dates within a month are left out.

### `DeliveryRoutes`

The routes of a day, their stops (delivery orders or visits to a site) and the status and
signature of the delivery orders. A stop's status is derived (`StopStatus`), in the code too. Requests that
check, wait (for the optimiser, a lookup, a second statement) and then write are two
actions; `recordHistory()`, which bumps the version that the planner compares, is a third and
may be lost (`Bump`, `Fails`). `PlanRead` and `PlanCommit` are `loadContext()` and `apply()`: the orders that come off the affected routes are
those read first (`takenOff`), their stops those found at the commit; any order of
stops may come from the optimiser, and any distinct numbers from the requests that add or reorder. A plan rebuilds the
routes of one team; the code may rebuild those of several in one transaction. `Bump` raises the version for every
recorded event, where the code leaves it for `CREATED` and `STATUS_CHANGED`: a plan refused for that in the model is
one that need not have been. A partly returned order counts as returned, as `deriveStopStatus()` has it. Teams, hours, pins, windows and alerts are left out. `replaces` is a history
variable.

### `PaymentService`, `Billing`, `WaWallet`, `PrepaidMessaging`

`PaymentService` is the abstract promise: a checkout that is paid is granted, once, and in the
end. `Billing` is how: the gateway closes a checkout and calls back until it is answered
(`owed`), and may call again; each call looks the status up, locks the payment's row,
applies it to modules or to the wallet, commits and answers. A call may be cut short at any
point (`CallLost`, up to `MaxCrashes`), a lookup may fail (`MaxOutages`), `NCalls` calls for one
payment may be served at a time. `SettlesPayments` is the refinement: every step of `Billing` is one of `PaymentService` or a stutter, and if no lookup fails every paid checkout is granted.
`WaWallet` is the prepaid balance and its ledger, shared by `Billing` (top-ups) and
`PrepaidMessaging`, which composes both with attempts to send: charge, store, send, refund and log
are each a transaction or a call of its own, with a crash between any two and a lost answer from the
provider. A change of the balance locks its row, reads and writes in one transaction: it is one step here, and what
a read before the lock would do is shown by the mutant `ApplyStale` only. The gateway, the message provider and the crash are external.

### `BackOffice`

`BackOfficeLedger` is what expenses, fixed assets and payroll share: posted entries by their source
and the requests that have read and not yet written. `Expenses`, `FixedAssets` and `Payroll`
each add their documents and operations, and `BackOffice` composes the three over one ledger. A void here
frees the source; its mirror entry is `Journal`'s subject. Depreciation keeps the arithmetic
of dates (`AddMonths` runs over into the next month as `Date.UTC` does) and of rounding. A
payslip is its gross and net total. Each asset of a depreciation run is a transaction of its own, which claims the
`lastDepreciatedThrough` that was read.

## What the runs check

| Run | Result |
| --- | --- |
| `SOOverlapping` | One line of 2, two delivery orders, two invoices, all requests overlapping: `TypeOK`, `StockConserved`, `CogsFollowsStock`, `NoOverShipment`, `CreditsHaveReturns`, `OrderStatusTracksLines`, the action property `StatusTellsReturns` and the refinement `KeepsCommitment` hold. |
| `SOOneAtATime` | Two lines, two delivery orders, two invoices, serial requests, too little stock, both policies: `GoodsLeaveOnce` holds. |
| `SOCreditTwice` | violates `CreditWithinInvoice`: deliver, return, deliver, return credits an invoice line twice. |
| `OSTwoLines` | Two lines of 2: `TypeOK` (with the row locks) and `NeverOverClaimed` hold and every request ends (`EveryRequestEnds`). |
| `CPOverlapping` | Two invoices, three documents, two overlapping requests: `TypeOK`, `PaidIsSumOfRows`, `MoneyBounded`, `LedgerFollowsInvoices`, `StatusFollowsBalance` hold. |
| `PUOverlapping` | Two lines, two limits, two approval requests, two payments, two clients whose receipts, payments and approval requests overlap: `TypeOK`, `GoodsWithinOrder`, `StatusFollowsReceipts`, `PaidWithinReceived`, `SentAsApproved` hold. |
| `JROverlapping` | Two transactions, two periods, a document and entries by hand, three rows: `NumbersRunOn`, `PostedOnce`, `VoidsPair`, `ClosedToNewcomers` hold. |
| `RTOverlapping` | Two routes, a delivery order and a site, three stops, with signatures and reschedules that overlap: `OneLiveStop`, `OneOrder`, `RescheduledOnce`, `ResolvedStays` hold. |
| `BIOverlapping` | Two subscriptions that share a module, two calls each, two crashes, a failed lookup: `PeriodsAddUp` and the refinement `SettlesPayments` hold. |
| `PMOverlapping` | A top-up worth two messages, two attempts, a reminder by WhatsApp and one by email, a failed lookup of the top-up: `LedgerAgrees`, `ToppedUpOnce`, `PaidIfSent` hold and every charge settles (`EveryChargeSettles`). |
| `BOOverlapping` | An expense, an asset, two payroll runs, two clients, every request but the deletion of an asset overlapping: `BooksAgree`, `DepreciationFollowsAge`, `PayrollMatchesLedger`, `OneLiveRun` hold. |
| `BORunRemoved` | violates `EntriesHaveRuns`: a payroll run posted between `remove()`'s check and its delete leaves its entry without a run. |

The two violating runs are disagreements between the code and what a comment says, described under
`findings` in `PROJECT.json`.

Bounds. Two delivery orders are what it takes for two deliveries to compete for a line, for
a redelivery after a return, and for one to be shipped while another is packed. Two
invoices are what it takes to void and invoice again. An ordered quantity of 2 makes partial
deliveries, returns and fulfilments possible; stock of 1 makes `fulfill()` short, stock of 4 lets every
delivery ship. `SOOneAtATime` has a second line, where a request may touch one line and not
the other. The order rows themselves have no unbounded counters. In `CPOverlapping` two invoices are what it takes to move credit, three
documents to pay, apply and then void or refund, two requests to overlap; totals of 1 and
2 make partial payments and partial returns. One invoice may hold credit while another
owes, so a set-off has one source there; the split over any number of sources is proved.
In `PUOverlapping` orders of 1 and of 2 and 1 units fall on either side of the limits 0 and 3; two
approval requests are what it takes to replace one, two payments to overlap. In `JROverlapping` two transactions
count the same period, and three rows are a posting, its reversal and a reposting. In
`RTOverlapping` three stops are a stop, its successor and one in their way, and two sequence numbers make
renumbering collide; `updateRoute()` only reopens a route that a plan has cancelled (the theorems allow it any status). In `BIOverlapping` two payments share a module and one buys two; two
calls are a call and its repetition, two crashes cut each of them. In `BOOverlapping`
the second month is shorter than the day of acquisition, the base of 3 over 2 months does not divide evenly, and
payments are of 2 out of 4, so that one is partial and two pay all.

Deadlock is checked in `OSTwoLines`, the run of `OrderStatusLocks`. In the other runs the models may stop:
once rows, documents and requests are used up the system is at rest.

Fairness. `FairSpec` of `OrderStatusLocks` asks strong fairness of each open transaction's next
statement: PostgreSQL grants a free lock to a waiter and resolves every circular wait, and
the requests never wait for anything else. `BillingSpec` and the `Spec` of
`PrepaidMessaging` ask weak fairness of the gateway's call while it is owed an answer (the gateway
repeats a callback that was not answered with success) and of the steps of a call or an
attempt that has begun, which is a running process; a call that is lost is not fair to, its
repetition is. Starting a request is never fair: nobody
must send one. The other modules state no liveness: their requests are made by people.

Mutants. `PROJECT.json` names, for every property of every passing run, a change to the
model that a plausible slip in the code would make and that the property catches; the
changed operators stand next to the originals, marked as mutants.

## Disagreements found

Where code and comment differ, or where a request that others come between breaks a
property, the instances above hold the request to one step (or leave the input out), so that the
property says what is true without it. Each of these is a behaviour of the model with the constants named:

| What happens | Where | Model |
| --- | --- | --- |
| An invoice line is credited beyond what it billed, by deliver, return, deliver, return. | `delivery-order.service.ts:914` | run `SOCreditTwice` |
| Voiding an invoice cancels its packed delivery orders and keeps their claim on the order's lines, which can then never be delivered. | `invoice.service.ts:2213` | `VoidCommit` |
| A ship between the void's reads and its write lets goods leave under a cancelled delivery order. | `invoice.service.ts:2213` | `GoodsLeaveOnce` with `Serial = FALSE` |
| Editing an issued invoice drops `salesOrderItemId`, so a later void does not see the shipped goods. | `invoice.service.ts:1809` | `EditIssued` |
| A return between `rescheduleDelivery()`'s check and write is overwritten by SHIPPED. | `delivery-order.service.ts:762` | `OvertakenWrite`, which `StatusTellsReturns` lets through |
| A release and a claim on different lines of one order miss each other's line, and the order's status is neither's. | `sales-order.service.ts:737` | `OrderStatusLocks` |
| An invoice issued at zero and edited to a positive total never reaches the receivable, and stays PAID. | `invoice.service.ts:1844` | `CustomerPayments` with 0 in `Amounts` |
| `send()` decides on items and approval that an `update()` replaces before it writes. | `purchase-order.service.ts:359` | `SentAsApproved` with `send` in `Overlapping` |
| A plan previewed while its routes go out deletes a stop that was resolved in between, as the version it compares is not bumped by a delivery; the comment above says all its stops are pending. | `route-planner.service.ts:537` | `ResolvedStays` with `plan` in `Overlapping` |
| Removing a stop deletes one that was resolved meanwhile; optimising a route reorders those. | `delivery-routes.service.ts:1638`, `:840` | `ResolvedStays` with `remove` in `Overlapping`; `OptimizeCommit` |
| A reminder that two runs find not logged goes out, and is charged, twice; the log's unique key is met after the fact. | `messaging.service.ts:387`, `:440` | `Remind`, `LogSent` (`unlogged`) |
| `remove()` of a payroll deletes a run that was posted after it was read, and its entries stay; a comment of the module calls this impossible. | `payroll.service.ts:313` | run `BORunRemoved` |
| A comment of the return to a supplier speaks of an order cancelled after a partial receipt, whose goods can go back, and the code admits CANCELLED for it. There is no such order: `cancel()` takes a draft or a sent order only, `receive()` asks for the status again under the row lock, and nothing else writes CANCELLED. After a partial receipt an order cannot be cancelled at all, as `purchasing-admin.spec.ts:132` tests; a return on a cancelled order has nothing to return. | `purchase-return.service.ts:292`, `purchase-order.service.ts:398` | `Cancel`, `ReturnGoods`, `StatusFollowsReceipts` |
| A status lookup that fails is answered as served: the gateway does not repeat it and a paid checkout is never applied. | `billing.service.ts:287` | `SettlesPayments` without its `outages = 0` |
| Two payments for one module that settle at the same time add one period instead of two. | `billing.service.ts:356` | `PeriodsAddUp` with `SettlesTogether = TRUE` |

Others are visible in the actions and contradict no comment: a depreciation run charges an asset that
was disposed of after it was read, as the claim does not ask for the status, and `voidUnrecorded()` deletes one that was
depreciated or disposed of meanwhile (`BooksAgree` with `voidAsset` in `Overlapping`); a payroll with no net pay cannot be posted, as an entry has
no line of zero; dates on the 29th to 31st drift into the next month;
a provider's answer that is lost refunds a message that went out; a
failed reminder is not tried again; a void leaves the cancelled delivery order's stop pending; `updateRoute()` may reopen a
cancelled route beside another of the same team; a signature and then a failure turn a delivered
order into a failed one; two requests at a time may put one site on a route twice; a plan may
cancel a route to which a stop was added when the bump of the version is lost.

## What is proved

TLAPS checks these for all values of the constants that satisfy the named assumptions
(finite bounds, positive ordered quantities, non-negative invoice totals; for `OrderStatusLocks`,
`DeliveryRoutes`, `Purchasing`, `Journal`, `BackOffice` and `PrepaidMessaging` also any number of transactions, clients, rows, routes, payments,
calls, crashes and attempts). What a constant must satisfy is said by the `ASSUME` of its module, which TLC
evaluates on the instances; those of `FixedAssets` are what the DTOs validate (a positive cost, a salvage value
of at least zero and below it, a whole number of months), and of a calendar only that its months are about as
long as one another. A theorem with an assumption of its own names it.

| Module | Theorem | Argument |
| --- | --- | --- |
| `TotalsProofs` | lemmas on `SumTo` and on the library's sums over sets | unfolding of the recursive function, and a least counterexample where an induction is needed. A sum over a finite set is whatever element is taken first, and changes by what one row brings (`SumChange`). |
| `SalesOrderDeliveryProofs` | `TypeCorrect`, `NeverOverShips` | the inductive invariant `DeliveryInvariant`: types; a delivery order's returned units are within its quantity and zero until it ships; `shippedAt` is set exactly for those whose goods left; the units its rows claim sum to at most `deliveredQuantity`. `NoOverShipment` alone is not inductive: a cancel gives back what the row says, so the row must be known to be part of the sum. |
| | `StockIsConserved`, `CogsIsConserved` | on top of the above: an invoice has fulfilled units only if it took the goods itself, and these are never negative. Assumes `FixedPolicy`, that the policy does not change; with a change it is false: under BLOCK `fulfill()` reports a negative quantity for a row oversold before, and an edit books it. |
| | `DeliveriesKeepCommitment` | the refinement: each action maps to a step of `OrderCommitment` or to a stutter, from `DeliveryInvariant`. |
| | `OrderStatusIsTracked` | `StatusInv`: besides the property, a draft has claimed nothing, and an invoice whose void has begun is still issued, so that the void's commit finds an order that is not cancelled. `recomputeDeliveryStatus()` asked twice answers the same (`StatusForStable`). |
| | `CreditsAreReturned` | `CreditInv`: an order has one draft or issued invoice at a time, so that a return credits one, by no more than it brought back (`CreditedByReturn`); credits of void invoices only stay. |
| | `StatusIsTold` | an action property, whatever requests overlap, from `DeliveryInvariant`: a step leaves a status that told the returns telling them, a return sets it from the quantities, and the writes of a reschedule and of a void are right as long as what they read is still so (`OvertakenWrite` is the rest). |
| | `GoodsLeaveOnlyOnce` | `SerialInv`, assuming `Serial`: while a void or a reschedule is half done no other is, and what it has read is still so (`OneInFlight`). With overlapping requests it is false (see above). |
| `DeliveryProofs` | `LocksTypeCorrect`, `ClaimsStayWithinOrder` | a transaction holds the lock of each line it has updated, and each updated line is within bounds counting its change; so a commit touches only lines no one else has updated. |
| | `RoutesInvariant`, `OneLiveStopHolds`, `OneOrderHolds`, `RescheduledOnceHolds` | the inductive invariant `RoutesInv`, whichever requests overlap: types; rows are filled in order; an active order is the stop's own (`RowHolds`) and no two stops have the same (the unique index); what a visit was made in place of is closed; what a request has read stays true enough for what it writes (`RequestHolds`). Each step revises rows in a few ways (`Revised`) and fills the next ones (`StopsStep`), which keeps all but the numbers; those are argued per renumbering. Places counted within a route are as different as the numbers they come from (`PlacesDiffer`), and so many stops as numbers suffice (`NumbersSuffice`). |
| | `ResolvedStaysHolds` | an action property, on top of it: an open removal or plan still sees pending what it is to delete, an open reschedule every live stop of its order (`ReadsHold`). Assumes that these three are not overlapped; with any of them overlapped it is false (for removals and plans see above; a stop added while an order is being rescheduled becomes pending with it). |
| `CustomerPaymentsProofs` | `PaymentsTypeCorrect`, `NoMoneyLost`, `MoneyStaysBounded` | the inductive invariant `PaymentsInv` (`PaymentsInvariant`): what an open request has checked still holds and what it has read is still there, because whoever changes the rows it will write drops it; a document pays another party than it takes from, with rows only where it took something; credits stay within totals. `PaidIsSumOfRows` alone is not inductive: a commit writes a total computed from a read. `OldestFirstSplits` shows that the loop of `applyCredit()` takes from each source at most its credit, and the requested amount in all, for any number of sources. |
| | `LedgerAgrees`, `StatusAgrees` | on top of it, `PostedTotals`: an issued invoice has a standing entry of its total. Both assume `PositiveTotals`, that no invoice totals zero; with one they are false (see above). |
| `PurchasingProofs` | `PurchasingTypeCorrect`, `GoodsStayWithinOrder`, `StatusTellsReceipts`, `PaymentsWithinReceipts` | the inductive invariant `PurchasingInv` (`PurchasingInvariant`): types; `GoodsHold`, goods within the order and the status of the receipts (`ReceiptsTold`), with a receipt in flight bringing something (`SomethingArrives`), so that its commit leaves a status that is right; `MoneyHolds`, what is paid is within what was received and what an uninterrupted payment in flight has seen outstanding is within what is received and not paid. The sum over payments changes by one place at a time (`TotalsProofs`). A return may lower what is outstanding under a payment in flight: hence paid is bounded by what came in, not by what was kept. `StatusTellsReceipts` adds that no step changes a cancelled order or its receipts (`CancelledStays`). |
| | `SendingRespectsApproval` | an action property; an open send still sees what it has checked. Assumes that no send and no header edit may be overlapped; otherwise it is false (see above). |
| `JournalProofs` | `JournalTypeCorrect`, `NumbersAlwaysRunOn`, `DocumentsPostOnce`, `VoidsAlwaysPair`, `ClosedPeriodsKeepOut` | the inductive invariant `JournalInv` (`JournalInvariant`): what is promised of the committed rows holds of what every open transaction sees, its own rows included. `NumbersHold`: no two rows of a period share a number, committed or not, in no view is one numbered above the count of rows, and what was counted has not become fewer, which together leave no gap; `SourcesHold`: who has an uncommitted row of a document holds its lock, and no view has two posted; `ReversalsHold`: a row is void exactly with its reversal, in one transaction until it commits; `ClosesHold`: an entry on its way into a closed period belongs to one that was open at the close. `NumbersRunOn` alone says nothing of what a rollback removes or an insert meets. |
| `BackOfficeProofs` | `PayrollInvariant`, `PeriodHasOneRun` | the inductive invariant `RunsInv`: types, what a request carries, and a run holds the period's slot exactly while it is live, one run at a time. A draft that two requests have decided on is written by the one that finds the slot free. |
| | `LedgerTellsRuns` | on top of it, whatever overlaps, removals included: posting, paying and voiding claim the run and write its entries in one step, a removal takes the run and no entry, a row that was removed is not used again, and every other step leaves the sources of runs alone (`Elsewhere`). That a run that was removed has no entry is not claimed: it is false (see above). |
| | `DocumentsInvariant`, `ChargesFollowAge` | `DocumentsInv`: types of the rows; `lastDepreciatedThrough` is on the schedule of its asset (`OnSchedule`: its day is that of the acquisition, or one that ran over into the next month), along which n months more are n more whole months between (`AddMonthsKeepsSchedule`); a charge found due carries what is due now unless the row has gone further, so that the claim lets it pass only while it is right (`DueHolds`); what was charged is within half a cent for each charge of the share of its months (`KeepsPace`), as rounding adds half a cent at most and the last charge is what remains (`ChargeKeepsPace`). `DepreciationFollowsAge` alone says nothing of charges on their way. |
| | `BooksFollowDocuments` | `BooksInv`: an existing document's first entry is on the ledger as it was made, so that a void takes off what the document owes; a document without payments has nothing paid; an asset about to be taken back is in use; payroll has no lines in these accounts. Each step changes the sums of the ledger and of the documents by the same row (`SumChange`). Assumes that `voidUnrecorded()` of an asset is not overlapped; otherwise it is false: one that is disposed of in between is taken off the asset account twice. |
| `PrepaidMessagingProofs` | `LedgerCarriesBalance`, `TopUpsCreditedOnce`, `MessagesPaidIfSent` | the inductive invariant `MessagingInv` (`MessagingInvariant`): the ledger and the balance; one call applies a payment at a time, and none that was applied (`OneSettles`), so that a top-up has its one entry exactly once applied; an attempt was charged once if it got that far and given its money back once if it did not go out (`Settled`), with or without its process. `PaidIfSent` alone says nothing of an attempt under way, which is what a refund meets. |
| | `PeriodsAreCounted` | `PeriodsInv`, assuming that payments do not settle together: one call of all applies at a time, and the periods that it has read are those there are (`ReadsHold`). With two at a time it is false (see above). |
| | `BillingKeepsPromise` | the safety part of the refinement: each step is one of `PaymentService` or a stutter, as a call that is to apply a payment has seen it paid (`PaidCalls`). Proved of `PrepaidMessaging`, that is of billing while messages are charged. |

Only model-checked: the part of `SettlesPayments` that says that payments are applied in the end, and all liveness, which is beyond this
prover; and everything under changing stock policies.

## Not modelled

See `components` in `PROJECT.json` for each part and the reason. In the modelled parts: pricing
and tax, serial numbers, proof files and tokens, deliveries made from an
invoice without an order, picking in warehouse sessions, bank accounts, supplier bills. Where every
change is one transaction, a crash either leaves it committed or leaves no trace; crashes are modelled where a request is several
transactions (`Billing`, `PrepaidMessaging`, the planner's and the routes' best-effort history, depreciation runs).

The web frontend, about half of the code, renders and submits forms; it holds no state of the
models and only decides which requests are sent, which are all allowed here. Reports, exports,
imports and document rendering read or copy rows.

## Plan

1. `SalesOrderDelivery`, `OrderCommitment`, `OrderStatusLocks` and their proofs: done.
2. `CustomerPayments` and its proofs: done. Left: an abstract specification (accounts whose transfers balance) that it implements.
3. `Purchasing` and `Journal` and their proofs: done. Left: supplier bills, average cost, receiving with the handheld.
4. `DeliveryRoutes` and its proofs: done. Left: teams and their hours.
5. `Billing`, `PrepaidMessaging` and the proofs about the wallet: done. Left: subscriptions that lapse.
6. `BackOffice` and its proofs: done. Left: bank accounts and opening balances.
7. `InvoiceDelivery`: `createFromInvoice`, reservations and warehouse sessions, composed with the stock rows.
8. Stock transfers and webhooks with their retries.
