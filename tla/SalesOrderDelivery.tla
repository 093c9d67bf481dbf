------------------------- MODULE SalesOrderDelivery -------------------------
(***************************************************************************)
(* One sales order, the delivery orders that carry its goods out and back, *)
(* and the invoices drafted from it: SalesOrderService,                    *)
(* DeliveryOrderService and InvoiceService as far as they share the        *)
(* order's lines, the delivery rows, the invoice rows, stock and COGS.     *)
(*                                                                         *)
(* An action is one committed transaction.  A request whose decision and   *)
(* whose write are apart (a read before the transaction, or a row read     *)
(* without a lock inside it) is several actions: VoidBegin / VoidList /    *)
(* VoidCommit and RescheduleRead / RescheduleWrite.  Everything else is    *)
(* decided and written under one row lock or one conditional UPDATE.       *)
(*                                                                         *)
(* Quantities are per order line; every line is a product line at its own  *)
(* location.  Invoices carry no payments here (see the README).            *)
(***************************************************************************)
EXTENDS Totals

CONSTANTS
  Lines,           \* lines of the order
  Ordered,         \* ordered quantity of each line
  Opening,         \* stock of each line's product before the first request
  MaxDeliveries,   \* bound: delivery orders ever created
  MaxInvoices,     \* bound: invoices ever drafted
  MaxQty,          \* bound: quantity a request may list for a line
  WarehouseOps,    \* the organisation has the WAREHOUSE_OPS module
  Policies,        \* the stock policies its settings may take
  Serial           \* TRUE: requests arrive one after the other

ASSUME CountsAssumption ==
  /\ MaxDeliveries \in Nat
  /\ MaxInvoices \in Nat
  /\ MaxQty \in Nat

ASSUME OrderAssumption ==
  /\ Ordered \in [Lines -> Nat \ {0}]
  /\ Opening \in [Lines -> Nat]

ASSUME PolicyAssumption ==
  /\ WarehouseOps \in BOOLEAN
  /\ Policies \subseteq {"BLOCK", "OVERSELL"}
  /\ WarehouseOps => Policies = {"BLOCK"}
  /\ Serial \in BOOLEAN

DOs  == 1..MaxDeliveries
Invs == 1..MaxInvoices

VARIABLES
  orderStatus,    \* SalesOrder.status
  delivered,      \* SalesOrderItem.deliveredQuantity
  doStatus,       \* DeliveryOrder.status, "NONE" before the row exists
  doQty,          \* DeliveryOrderItem.quantity
  doReturned,     \* DeliveryOrderItem.returnedQuantity
  shippedAt,      \* DeliveryOrder.shippedAt is set
  invStatus,      \* Invoice.status, "NONE" when there is no row
  invDirect,      \* Invoice.fulfillmentPath = DIRECT_ISSUE
  invLinked,      \* the invoice's items carry their salesOrderItemId
  invQty,         \* InvoiceItem.quantity
  invFulfilled,   \* InvoiceItem.fulfilledQuantity
  invCredited,    \* units of each line behind Invoice.creditedAmount
  policy,         \* Organization.stockPolicy; OVERSELL is ALLOW, or WARN confirmed
  stock,          \* Stock.quantity
  cogs,           \* units whose cost stands in COGS
  voiding,        \* voidInvoice() requests between their first read and their writes
  voidListed,     \* those that have read the packed delivery orders
  voidPacked,     \* the packed delivery orders such a request has read
  rescheduling    \* rescheduleDelivery() requests that have read FAILED

orderVars == <<orderStatus, delivered>>
doVars    == <<doStatus, doQty, doReturned, shippedAt>>
invVars   == <<invStatus, invDirect, invLinked, invQty, invFulfilled, invCredited>>
goodsVars == <<policy, stock, cogs>>
reqVars   == <<voiding, voidListed, voidPacked, rescheduling>>
vars      == <<orderVars, doVars, invVars, goodsVars, reqVars>>

None == [l \in Lines |-> 0]

\* Goods have left on a delivery order in one of these statuses, as
\* voidInvoice() sees it.
LeftStatuses == {"SHIPPED", "PARTIALLY_RETURNED", "RETURNED", "FAILED"}

\* The quantities a request lists; a line it leaves out has quantity 0.
Requests == {q \in [Lines -> 0..MaxQty] : q # None}

\* x when x goods really move.
Moved(x) == IF x > 0 THEN x ELSE 0

\* Nothing is in flight, or requests may overlap.
MayStart == Serial => voiding = {} /\ rescheduling = {}

-----------------------------------------------------------------------------
(* The order *)

\* An empty order is not confirmed.
Confirm ==
  /\ MayStart
  /\ orderStatus = "DRAFT"
  /\ Lines # {}
  /\ orderStatus' = "CONFIRMED"
  /\ UNCHANGED <<delivered, doVars, invVars, goodsVars, reqVars>>

\* A confirmed order is cancelled only while it has no invoice row and no
\* delivery row of any status.
CancelOrder ==
  /\ MayStart
  /\ \/ orderStatus = "DRAFT"
     \/ /\ orderStatus = "CONFIRMED"
        /\ \A i \in Invs : invStatus[i] = "NONE"
        /\ \A d \in DOs : doStatus[d] = "NONE"
  /\ orderStatus' = "CANCELLED"
  /\ UNCHANGED <<delivered, doVars, invVars, goodsVars, reqVars>>

\* recomputeDeliveryStatus(): the status that follows from the lines.
StatusFor(s, dq) ==
  IF s = "CANCELLED" THEN s
  ELSE IF \A l \in Lines : dq[l] >= Ordered[l] THEN "FULLY_DELIVERED"
  ELSE IF \E l \in Lines : dq[l] > 0 THEN "PARTIALLY_DELIVERED"
  ELSE "CONFIRMED"

-----------------------------------------------------------------------------
(* Delivery orders *)

\* create(): under the order's row lock; the quantities are claimed on the
\* order lines and nothing leaves the warehouse yet.
CreateDelivery(d, q) ==
  /\ MayStart
  /\ doStatus[d] = "NONE"
  /\ \A e \in DOs : e < d => doStatus[e] # "NONE"
  /\ orderStatus \in {"CONFIRMED", "PARTIALLY_DELIVERED"}
  /\ ~ \E i \in Invs : invStatus[i] \in {"DRAFT", "ISSUED"} /\ invDirect[i]
  /\ \A l \in Lines : delivered[l] + q[l] <= Ordered[l]
  /\ doStatus' = [doStatus EXCEPT ![d] = "PACKED"]
  /\ doQty' = [doQty EXCEPT ![d] = q]
  /\ delivered' = [l \in Lines |-> delivered[l] + q[l]]
  /\ orderStatus' = StatusFor(orderStatus, delivered')
  /\ UNCHANGED <<doReturned, shippedAt, invVars, goodsVars, reqVars>>

\* Mutant of Ship: the update does not ask for PACKED, so a repeated request
\* ships again.
ShipRepeated(d) ==
  /\ MayStart
  /\ doStatus[d] \in {"PACKED", "SHIPPED"}
  /\ \A l \in Lines : doQty[d][l] > 0 => stock[l] >= doQty[d][l]
  /\ doStatus' = [doStatus EXCEPT ![d] = "SHIPPED"]
  /\ shippedAt' = [shippedAt EXCEPT ![d] = TRUE]
  /\ stock' = [l \in Lines |-> stock[l] - doQty[d][l]]
  /\ cogs' = [l \in Lines |-> cogs[l] + doQty[d][l]]
  /\ UNCHANGED <<orderVars, doQty, doReturned, invVars, policy, reqVars>>

\* ship(): the conditional PACKED -> SHIPPED update, then stock (refused
\* when short) and COGS.
Ship(d) ==
  /\ MayStart
  /\ doStatus[d] = "PACKED"
  /\ \A l \in Lines : doQty[d][l] > 0 => stock[l] >= doQty[d][l]
  /\ doStatus' = [doStatus EXCEPT ![d] = "SHIPPED"]
  /\ shippedAt' = [shippedAt EXCEPT ![d] = TRUE]
  /\ stock' = [l \in Lines |-> stock[l] - doQty[d][l]]
  /\ cogs' = [l \in Lines |-> cogs[l] + doQty[d][l]]
  /\ UNCHANGED <<orderVars, doQty, doReturned, invVars, policy, reqVars>>

FailDelivery(d) ==
  /\ MayStart
  /\ doStatus[d] = "SHIPPED"
  /\ doStatus' = [doStatus EXCEPT ![d] = "FAILED"]
  /\ UNCHANGED <<orderVars, doQty, doReturned, shippedAt, invVars, goodsVars, reqVars>>

\* rescheduleDelivery() checks FAILED before its transaction ...
RescheduleRead(d) ==
  /\ MayStart
  /\ d \notin rescheduling
  /\ doStatus[d] = "FAILED"
  /\ rescheduling' = rescheduling \cup {d}
  /\ UNCHANGED <<orderVars, doVars, invVars, goodsVars, voiding, voidListed, voidPacked>>

\* ... and writes SHIPPED in it without looking again.
RescheduleWrite(d) ==
  /\ d \in rescheduling
  /\ rescheduling' = rescheduling \ {d}
  /\ doStatus' = [doStatus EXCEPT ![d] = "SHIPPED"]
  /\ UNCHANGED <<orderVars, doQty, doReturned, shippedAt, invVars, goodsVars, voiding, voidListed, voidPacked>>

\* Mutants of CancelDelivery: the update does not ask for PACKED, so a
\* repeated request cancels again; a failed delivery is cancelled as if its
\* goods were back; the order's status is not recomputed.
CancelIn(d, statuses) ==
  /\ MayStart
  /\ doStatus[d] \in statuses
  /\ doStatus' = [doStatus EXCEPT ![d] = "CANCELLED"]
  /\ delivered' = [l \in Lines |-> delivered[l] - doQty[d][l]]
  /\ UNCHANGED <<doQty, doReturned, shippedAt, invVars, goodsVars, reqVars>>
CancelRepeated(d)   == CancelIn(d, {"PACKED", "CANCELLED"}) /\ orderStatus' = StatusFor(orderStatus, delivered')
CancelFailed(d)     == CancelIn(d, {"PACKED", "FAILED"}) /\ orderStatus' = StatusFor(orderStatus, delivered')
CancelKeepsOrder(d) == CancelIn(d, {"PACKED"}) /\ orderStatus' = orderStatus

\* cancel(): the conditional PACKED -> CANCELLED update gives the claimed
\* quantities back to the order lines.
CancelDelivery(d) ==
  /\ MayStart
  /\ doStatus[d] = "PACKED"
  /\ doStatus' = [doStatus EXCEPT ![d] = "CANCELLED"]
  /\ delivered' = [l \in Lines |-> delivered[l] - doQty[d][l]]
  /\ orderStatus' = StatusFor(orderStatus, delivered')
  /\ UNCHANGED <<doQty, doReturned, shippedAt, invVars, goodsVars, reqVars>>

\* Mutant of ReturnStatus: everything back counts as a partial return.
ReturnStatusStrict(d, returned) ==
  IF \A l \in Lines : returned[l] > doQty[d][l] THEN "RETURNED"
  ELSE IF \E l \in Lines : returned[l] > 0 THEN "PARTIALLY_RETURNED"
  ELSE "SHIPPED"

\* recomputeReturnStatus(): the status that follows from the returned
\* quantities.
ReturnStatus(d, returned) ==
  IF \A l \in Lines : returned[l] >= doQty[d][l] THEN "RETURNED"
  ELSE IF \E l \in Lines : returned[l] > 0 THEN "PARTIALLY_RETURNED"
  ELSE "SHIPPED"

\* Mutant of CreditedInvoices: a voided invoice is credited as well.
CreditedOrVoid == {i \in Invs : invStatus[i] \in {"ISSUED", "VOID"} /\ invLinked[i]}

\* resolveInvoiceItemForReturn(): the issued invoice whose items still
\* carry the order line.
CreditedInvoices == {i \in Invs : invStatus[i] = "ISSUED" /\ invLinked[i]}

\* Mutant of RecordReturn: the cost of a failed delivery's goods stays in
\* COGS when they come back.
RecordReturnFailedFree(d, q) ==
  LET returned == [l \in Lines |-> doReturned[d][l] + q[l]]
  IN
  /\ MayStart
  /\ doStatus[d] \in {"SHIPPED", "PARTIALLY_RETURNED", "FAILED"}
  /\ \A l \in Lines : returned[l] <= doQty[d][l] /\ q[l] <= delivered[l]
  /\ CreditedInvoices \cap voiding = {}
  /\ doReturned' = [doReturned EXCEPT ![d] = returned]
  /\ doStatus' = [doStatus EXCEPT ![d] = ReturnStatus(d, returned)]
  /\ delivered' = [l \in Lines |-> delivered[l] - q[l]]
  /\ orderStatus' = StatusFor(orderStatus, delivered')
  /\ stock' = [l \in Lines |-> stock[l] + q[l]]
  /\ cogs' = IF doStatus[d] = "FAILED" THEN cogs ELSE [l \in Lines |-> cogs[l] - q[l]]
  /\ invCredited' = [i \in Invs |-> IF i \in CreditedInvoices
                                    THEN [l \in Lines |-> invCredited[i][l] + q[l]]
                                    ELSE invCredited[i]]
  /\ UNCHANGED <<doQty, shippedAt, invStatus, invDirect, invLinked, invQty, invFulfilled, policy, reqVars>>

\* recordReturn(): under the delivery order's row lock.  The order line is
\* decremented only if it stays non-negative, the goods go back on the
\* shelf, and an issued linked invoice is credited - its row is updated,
\* so the request waits for a void that holds it.
RecordReturn(d, q) ==
  LET returned == [l \in Lines |-> doReturned[d][l] + q[l]]
  IN
  /\ MayStart
  /\ doStatus[d] \in {"SHIPPED", "PARTIALLY_RETURNED", "FAILED"}
  /\ \A l \in Lines : returned[l] <= doQty[d][l]
  /\ \A l \in Lines : q[l] <= delivered[l]
  /\ CreditedInvoices \cap voiding = {}
  /\ doReturned' = [doReturned EXCEPT ![d] = returned]
  /\ doStatus' = [doStatus EXCEPT ![d] = ReturnStatus(d, returned)]
  /\ delivered' = [l \in Lines |-> delivered[l] - q[l]]
  /\ orderStatus' = StatusFor(orderStatus, delivered')
  /\ stock' = [l \in Lines |-> stock[l] + q[l]]
  /\ cogs' = [l \in Lines |-> cogs[l] - q[l]]
  /\ invCredited' = [i \in Invs |-> IF i \in CreditedInvoices
                                    THEN [l \in Lines |-> invCredited[i][l] + q[l]]
                                    ELSE invCredited[i]]
  /\ UNCHANGED <<doQty, shippedAt, invStatus, invDirect, invLinked, invQty, invFulfilled, policy, reqVars>>

-----------------------------------------------------------------------------
(* Invoices drafted from the order *)

\* createDraftFromSalesOrder(): under the order's row lock; the lines carry
\* the order's quantities and line ids.
DraftInvoice(i) ==
  /\ MayStart
  /\ invStatus[i] = "NONE"
  /\ \A j \in Invs : j < i => invStatus[j] # "NONE"
  /\ orderStatus \in IF WarehouseOps THEN {"FULLY_DELIVERED"}
                     ELSE {"CONFIRMED", "PARTIALLY_DELIVERED", "FULLY_DELIVERED"}
  /\ \A j \in Invs : invStatus[j] \in {"NONE", "VOID"}
  /\ invStatus' = [invStatus EXCEPT ![i] = "DRAFT"]
  /\ invLinked' = [invLinked EXCEPT ![i] = TRUE]
  /\ invQty' = [invQty EXCEPT ![i] = Ordered]
  /\ UNCHANGED <<orderVars, doVars, invDirect, invFulfilled, invCredited, goodsVars, reqVars>>

\* updateDraft() with items: the lines are written anew, without their
\* salesOrderItemId.
UpdateDraft(i, q) ==
  /\ MayStart
  /\ invStatus[i] = "DRAFT"
  /\ invQty' = [invQty EXCEPT ![i] = q]
  /\ invLinked' = [invLinked EXCEPT ![i] = FALSE]
  /\ UNCHANGED <<orderVars, doVars, invStatus, invDirect, invFulfilled, invCredited, goodsVars, reqVars>>

DiscardDraft(i) ==
  /\ MayStart
  /\ invStatus[i] = "DRAFT"
  /\ invStatus' = [invStatus EXCEPT ![i] = "NONE"]
  /\ invLinked' = [invLinked EXCEPT ![i] = FALSE]
  /\ invQty' = [invQty EXCEPT ![i] = None]
  /\ UNCHANGED <<orderVars, doVars, invDirect, invFulfilled, invCredited, goodsVars, reqVars>>

\* StockService.fulfill(): what it reports as having left for a demand,
\* given what is there.
Fulfill(available, demand) ==
  IF demand <= 0 THEN 0
  ELSE IF available >= demand \/ policy = "OVERSELL" THEN demand
  ELSE available

\* Mutant of OwnedByDelivery: a packed delivery order does not count.
OwnedOnceShipped == WarehouseOps \/ \E d \in DOs : doStatus[d] \in LeftStatuses

\* The goods of the order are a delivery order's business.
OwnedByDelivery == WarehouseOps \/ \E d \in DOs : doStatus[d] \notin {"NONE", "CANCELLED"}

\* issue(): under the invoice's and the order's row locks.  The goods leave
\* here unless delivery orders carry them.
Issue(i) ==
  LET taken == IF OwnedByDelivery THEN None
               ELSE [l \in Lines |-> Moved(Fulfill(stock[l], invQty[i][l]))]
  IN
  /\ MayStart
  /\ invStatus[i] = "DRAFT"
  /\ invStatus' = [invStatus EXCEPT ![i] = "ISSUED"]
  /\ invDirect' = [invDirect EXCEPT ![i] = ~OwnedByDelivery]
  /\ invFulfilled' = [invFulfilled EXCEPT ![i] = taken]
  /\ stock' = [l \in Lines |-> stock[l] - taken[l]]
  /\ cogs' = [l \in Lines |-> cogs[l] + taken[l]]
  /\ UNCHANGED <<orderVars, doVars, invLinked, invQty, invCredited, policy, reqVars>>

\* editIssuedInvoice(): what fulfill() reports for the units an edit adds
\* to a line, and the line's fulfilled quantity after the edit.
Added(i, q, l) == IF invDirect[i] THEN Fulfill(stock[l], q[l] - invQty[i][l]) ELSE 0
Kept(i, q, l)  == IF q[l] = 0 THEN 0 ELSE invFulfilled[i][l] + Added(i, q, l)

\* The goods an edit puts back: those of a line it removes.
Restocked(i, q, l) == IF q[l] = 0 THEN Moved(invFulfilled[i][l]) ELSE 0

\* editIssuedInvoice(): under the invoice's row lock.  The lines are
\* written anew without their salesOrderItemId, and the issue-time COGS
\* entry is voided and posted again from their fulfilled quantities.
EditIssued(i, q) ==
  /\ MayStart
  /\ i \notin voiding
  /\ invStatus[i] = "ISSUED"
  /\ invCredited[i] = None
  /\ \A l \in Lines : q[l] >= invFulfilled[i][l] \/ (q[l] = 0 /\ invDirect[i])
  /\ invQty' = [invQty EXCEPT ![i] = q]
  /\ invLinked' = [invLinked EXCEPT ![i] = FALSE]
  /\ invFulfilled' = [invFulfilled EXCEPT ![i] = [l \in Lines |-> Kept(i, q, l)]]
  /\ stock' = [l \in Lines |-> stock[l] + Restocked(i, q, l) - Moved(Added(i, q, l))]
  /\ cogs' = [l \in Lines |-> cogs[l] - Moved(invFulfilled[i][l]) + Moved(Kept(i, q, l))]
  /\ UNCHANGED <<orderVars, doVars, invStatus, invDirect, invCredited, policy, reqVars>>

\* The delivery orders voidInvoice() sees: those of the order lines that
\* the invoice's items still name.
Reaches(i) == IF invLinked[i] THEN {d \in DOs : doStatus[d] # "NONE"} ELSE {}

\* voidInvoice() locks the invoice and counts the delivery orders that have
\* left, which it does not lock ...
VoidBegin(i) ==
  /\ MayStart
  /\ i \notin voiding
  /\ invStatus[i] = "ISSUED"
  /\ invCredited[i] = None
  /\ \A d \in Reaches(i) : doStatus[d] \notin LeftStatuses
  /\ voiding' = voiding \cup {i}
  /\ UNCHANGED <<orderVars, doVars, invVars, goodsVars, voidListed, voidPacked, rescheduling>>

\* ... then reads the packed ones: one that was shipped meanwhile is not
\* among them ...
VoidList(i) ==
  /\ i \in voiding \ voidListed
  /\ voidListed' = voidListed \cup {i}
  /\ voidPacked' = [voidPacked EXCEPT ![i] = {d \in Reaches(i) : doStatus[d] = "PACKED"}]
  /\ UNCHANGED <<orderVars, doVars, invVars, goodsVars, voiding, rescheduling>>

\* Mutant of VoidCommit: the claims of the delivery orders it has read as
\* packed are given back, whatever has become of them.
VoidCommitGivesBack(i) ==
  LET back == [l \in Lines |-> IF invDirect[i] THEN Moved(invFulfilled[i][l]) ELSE 0]
      held == [l \in Lines |-> SumTo([d \in DOs |-> IF d \in voidPacked[i] THEN doQty[d][l] ELSE 0], MaxDeliveries)]
  IN
  /\ i \in voidListed
  /\ voiding' = voiding \ {i}
  /\ voidListed' = voidListed \ {i}
  /\ voidPacked' = [voidPacked EXCEPT ![i] = {}]
  /\ doStatus' = [d \in DOs |-> IF d \in voidPacked[i] THEN "CANCELLED" ELSE doStatus[d]]
  /\ delivered' = [l \in Lines |-> delivered[l] - held[l]]
  /\ orderStatus' = StatusFor(orderStatus, delivered')
  /\ invStatus' = [invStatus EXCEPT ![i] = "VOID"]
  /\ invFulfilled' = [invFulfilled EXCEPT ![i] = [l \in Lines |-> invFulfilled[i][l] - back[l]]]
  /\ stock' = [l \in Lines |-> stock[l] + back[l]]
  /\ cogs' = [l \in Lines |-> cogs[l] - back[l]]
  /\ UNCHANGED <<doQty, doReturned, shippedAt, invDirect, invLinked, invQty, invCredited,
                 policy, rescheduling>>

\* ... cancels the packed ones it has read, puts the goods of a directly
\* issued invoice back and voids the invoice's own journal entries.
VoidCommit(i) ==
  LET back == [l \in Lines |-> IF invDirect[i] THEN Moved(invFulfilled[i][l]) ELSE 0]
  IN
  /\ i \in voidListed
  /\ voiding' = voiding \ {i}
  /\ voidListed' = voidListed \ {i}
  /\ voidPacked' = [voidPacked EXCEPT ![i] = {}]
  /\ doStatus' = [d \in DOs |-> IF d \in voidPacked[i] THEN "CANCELLED" ELSE doStatus[d]]
  /\ invStatus' = [invStatus EXCEPT ![i] = "VOID"]
  /\ invFulfilled' = [invFulfilled EXCEPT ![i] = [l \in Lines |-> invFulfilled[i][l] - back[l]]]
  /\ stock' = [l \in Lines |-> stock[l] + back[l]]
  /\ cogs' = [l \in Lines |-> cogs[l] - back[l]]
  /\ UNCHANGED <<orderVars, doQty, doReturned, shippedAt, invDirect, invLinked, invQty,
                 invCredited, policy, rescheduling>>

\* An admin changes the stock policy in the organisation's settings.
SetPolicy(p) ==
  /\ MayStart
  /\ policy # p
  /\ policy' = p
  /\ UNCHANGED <<orderVars, doVars, invVars, stock, cogs, reqVars>>

-----------------------------------------------------------------------------
Init ==
  /\ orderStatus = "DRAFT"
  /\ delivered = None
  /\ doStatus = [d \in DOs |-> "NONE"]
  /\ doQty = [d \in DOs |-> None]
  /\ doReturned = [d \in DOs |-> None]
  /\ shippedAt = [d \in DOs |-> FALSE]
  /\ invStatus = [i \in Invs |-> "NONE"]
  /\ invDirect = [i \in Invs |-> FALSE]
  /\ invLinked = [i \in Invs |-> FALSE]
  /\ invQty = [i \in Invs |-> None]
  /\ invFulfilled = [i \in Invs |-> None]
  /\ invCredited = [i \in Invs |-> None]
  /\ policy \in Policies
  /\ stock = Opening
  /\ cogs = None
  /\ voiding = {}
  /\ voidListed = {}
  /\ voidPacked = [i \in Invs |-> {}]
  /\ rescheduling = {}

Next ==
  \/ Confirm
  \/ CancelOrder
  \/ \E d \in DOs, q \in Requests : CreateDelivery(d, q)
  \/ \E d \in DOs : Ship(d)
  \/ \E d \in DOs : FailDelivery(d)
  \/ \E d \in DOs : RescheduleRead(d)
  \/ \E d \in DOs : RescheduleWrite(d)
  \/ \E d \in DOs : CancelDelivery(d)
  \/ \E d \in DOs, q \in Requests : RecordReturn(d, q)
  \/ \E i \in Invs : DraftInvoice(i)
  \/ \E i \in Invs, q \in Requests : UpdateDraft(i, q)
  \/ \E i \in Invs : DiscardDraft(i)
  \/ \E i \in Invs : Issue(i)
  \/ \E i \in Invs, q \in Requests : EditIssued(i, q)
  \/ \E i \in Invs : VoidBegin(i)
  \/ \E i \in Invs : VoidList(i)
  \/ \E i \in Invs : VoidCommit(i)
  \/ \E p \in Policies : SetPolicy(p)

Spec == Init /\ [][Next]_vars

-----------------------------------------------------------------------------
(* Properties *)

OrderStatuses == {"DRAFT", "CONFIRMED", "PARTIALLY_DELIVERED", "FULLY_DELIVERED", "CANCELLED"}
DOStatuses    == {"NONE", "PACKED", "CANCELLED"} \cup LeftStatuses
InvStatuses   == {"NONE", "DRAFT", "ISSUED", "VOID"}

\* The variables hold values of their columns' types.  A stock row and an
\* invoice line's fulfilled quantity are the only ones that may be negative.
TypeOK ==
  /\ orderStatus \in OrderStatuses
  /\ delivered \in [Lines -> Nat]
  /\ doStatus \in [DOs -> DOStatuses]
  /\ doQty \in [DOs -> [Lines -> Nat]]
  /\ doReturned \in [DOs -> [Lines -> Nat]]
  /\ shippedAt \in [DOs -> BOOLEAN]
  /\ invStatus \in [Invs -> InvStatuses]
  /\ invDirect \in [Invs -> BOOLEAN]
  /\ invLinked \in [Invs -> BOOLEAN]
  /\ invQty \in [Invs -> [Lines -> Nat]]
  /\ invFulfilled \in [Invs -> [Lines -> Int]]
  /\ invCredited \in [Invs -> [Lines -> Nat]]
  /\ policy \in Policies
  /\ stock \in [Lines -> Int]
  /\ cogs \in [Lines -> Int]
  /\ voiding \subseteq Invs
  /\ voidListed \subseteq voiding
  /\ voidPacked \in [Invs -> SUBSET DOs]
  /\ rescheduling \subseteq DOs

\* Units of line l out of the building on delivery orders, and units that
\* left with a directly issued invoice.
OutOn(d, l)    == IF shippedAt[d] THEN doQty[d][l] - doReturned[d][l] ELSE 0
NetShipped(l)  == SumTo([d \in DOs |-> OutOn(d, l)], MaxDeliveries)
TakenBy(i, l)  == IF invDirect[i] THEN Moved(invFulfilled[i][l]) ELSE 0
DirectlyOut(l) == SumTo([i \in Invs |-> TakenBy(i, l)], MaxInvoices)

\* Units of line l that a delivery order has packed or taken out.
ClaimedBy(d, l) == IF doStatus[d] = "PACKED" THEN doQty[d][l] ELSE OutOn(d, l)
Claimed(l)      == SumTo([d \in DOs |-> ClaimedBy(d, l)], MaxDeliveries)

\* Every unit is on the shelf, out on a delivery order or out with an
\* invoice that took it at issue: no interleaving of ship, return, issue,
\* edit and void loses one or moves it twice on the books.
StockConserved ==
  \A l \in Lines : stock[l] + NetShipped(l) + DirectlyOut(l) = Opening[l]

\* The cost of exactly the units that are out of stock stands in COGS,
\* whichever of ship(), issue() and editIssuedInvoice() posted it and
\* whichever of recordReturn(), editIssuedInvoice() and voidInvoice()
\* reversed it.
CogsFollowsStock ==
  \A l \in Lines : cogs[l] = Opening[l] - stock[l]

\* The claim in create() keeps what the order's delivery orders have packed
\* or out at or below deliveredQuantity, and that at or below the ordered
\* quantity - also after a void cancels a packed delivery order, and after
\* it cancels one that ship() took out under it.
NoOverShipment ==
  \A l \in Lines : Claimed(l) <= delivered[l] /\ delivered[l] <= Ordered[l]

\* Every unit credited on an invoice came back on some delivery order.
CreditsHaveReturns ==
  \A l \in Lines :
    SumTo([i \in Invs |-> invCredited[i][l]], MaxInvoices)
      <= SumTo([d \in DOs |-> doReturned[d][l]], MaxDeliveries)

\* A confirmed order's status is the one recomputeDeliveryStatus() derives
\* from its lines, and a cancelled order has no delivery order and no
\* invoice.
OrderStatusTracksLines ==
  /\ orderStatus \notin {"DRAFT", "CANCELLED"} => orderStatus = StatusFor(orderStatus, delivered)
  /\ orderStatus \in {"DRAFT", "CANCELLED"} =>
       /\ \A d \in DOs : doStatus[d] = "NONE"
       /\ \A i \in Invs : invStatus[i] = "NONE"

\* While an invoice that took its goods at issue stands, no delivery order
\* of the order is packed or out with goods: they leave once.
GoodsLeaveOnce ==
  \A i \in Invs : invStatus[i] = "ISSUED" /\ invDirect[i] =>
    \A d \in DOs : doStatus[d] # "PACKED" /\ (shippedAt[d] => doReturned[d] = doQty[d])

\* The status of d says whether, and how far, it has come back; if cancelled,
\* it never left.
ReturnsTold(d) ==
  /\ doStatus[d] \in {"SHIPPED", "FAILED"} => doReturned[d] = None
  /\ doStatus[d] = "PARTIALLY_RETURNED" => doReturned[d] \notin {None, doQty[d]}
  /\ doStatus[d] = "RETURNED" => doReturned[d] = doQty[d]
  /\ doStatus[d] = "CANCELLED" => ~shippedAt[d]

\* A request writes a status for what it has read of d, which is not so any
\* more: a reschedule that read FAILED, a void that read PACKED.
OvertakenWrite(d) ==
  \/ d \in rescheduling \ rescheduling' /\ doStatus[d] # "FAILED"
  \/ \E i \in voiding \ voiding' : d \in voidPacked[i] /\ doStatus[d] # "PACKED"

\* However requests overlap, only such a write makes a delivery order's status
\* untrue, and the next return makes it true again: ship(), a failure,
\* recordReturn(), cancel() and the writes of what is still so never do.
StatusTellsReturns ==
  [][\A d \in DOs :
       \/ ReturnsTold(d)'
       \/ OvertakenWrite(d)
       \/ ~ ReturnsTold(d) /\ doReturned'[d] = doReturned[d]]_vars

\* A return never reverses more of a line than was invoiced on it.
CreditWithinInvoice ==
  \A i \in Invs, l \in Lines : invCredited[i][l] <= invQty[i][l]

\* Whatever its requests do to each other, the deliveries of the order keep
\* the commitment discipline of OrderCommitment: nothing departs that was
\* not claimed on the order, no claim is withdrawn under goods that are
\* out, and a return frees exactly the units that came back.
Commitment ==
  INSTANCE OrderCommitment WITH committed <- delivered,
                                out <- [l \in Lines |-> NetShipped(l)]

KeepsCommitment == Commitment!Spec
=============================================================================
