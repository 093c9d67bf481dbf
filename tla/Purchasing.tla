----------------------------- MODULE Purchasing -----------------------------
(***************************************************************************)
(* One purchase order from its draft to its last payment: drafting,        *)
(* approval by an admin above the organisation's limit, sending, goods     *)
(* receipts, goods sent back, and payments to the supplier.                *)
(*                                                                         *)
(* A unit of any line costs 1, so that an order's value is its number of   *)
(* units; discounts and taxes, which are allocated to receipts and returns *)
(* in proportion to their value, are taken as zero.                        *)
(*                                                                         *)
(* cancel(), create() of a return and the write of update() lock the       *)
(* order's row before they decide: one action each.  A request that        *)
(* decides on what it has read outside its transaction, or in a            *)
(* Serializable one that takes no lock, is two actions or more, and        *)
(* Overlapping says which of those other requests may come between;        *)
(* receive() is one of them, and looks again under the lock.               *)
(***************************************************************************)
EXTENDS Totals

CONSTANTS
  NLines,        \* lines an order may have
  Orders,        \* the quantities by line that an order may be drafted with
  Limits,        \* values of the approval limit
  MaxRequests,   \* bound: approval requests ever made
  MaxPayments,   \* bound: supplier payments ever made
  Clients,       \* those whose requests may be open at the same time
  Overlapping    \* the requests that others may come between

Lines    == 1..NLines
Requests == 1..MaxRequests
Payments == 1..MaxPayments

Quantities == [Lines -> Nat]
Units(q)   == SumTo(q, NLines)
None       == [l \in Lines |-> 0]

ASSUME PurchasingAssumption ==
  /\ NLines \in Nat
  /\ MaxRequests \in Nat
  /\ MaxPayments \in Nat
  /\ Limits \subseteq Nat
  /\ Orders \subseteq Quantities

VARIABLES
  status,     \* PurchaseOrder.status
  ordered,    \* PurchaseOrderItem.quantity of each line, 0 for no line
  subtotal,   \* PurchaseOrder.subtotal
  total,      \* PurchaseOrder.total
  limit,      \* Organization.poApprovalThreshold
  approval,   \* the approval requests of this order, in the order made
  received,   \* units on goods receipts, by line
  returned,   \* units on purchase returns, by line
  payment,    \* amounts of the supplier payments, 0 for none or voided
  req         \* what each client's request has read

orderVars == <<status, ordered, subtotal, total>>
goodsVars == <<received, returned>>
vars      == <<orderVars, goodsVars, limit, approval, payment, req>>

Statuses  == {"DRAFT", "SENT", "PARTIALLY_RECEIVED", "FULLY_RECEIVED", "CANCELLED"}
Verdicts  == {"APPROVED", "REJECTED"}
Approvals == [status : {"NONE", "PENDING", "CANCELLED"} \cup Verdicts, value : Nat]
Ops       == {"idle", "update", "send", "sendAsAdmin", "replace", "ask", "receive", "pay"}

\* seen: what the request has read - a subtotal, an approval request or an
\* outstanding amount; lines: what a receipt is to take in; stale: another
\* payment has committed since.
Reads == [op : Ops, amount : Nat, seen : Nat, lines : Quantities, stale : BOOLEAN]
Idle  == [op |-> "idle", amount |-> 0, seen |-> 0, lines |-> None, stale |-> FALSE]

TypeOK ==
  /\ status \in Statuses
  /\ ordered \in Quantities
  /\ subtotal \in Nat
  /\ total \in Nat
  /\ limit \in Limits
  /\ approval \in [Requests -> Approvals]
  /\ received \in Quantities
  /\ returned \in Quantities
  /\ payment \in [Payments -> Nat]
  /\ req \in [Clients -> Reads]

Init ==
  /\ status = "DRAFT"
  /\ ordered \in Orders
  /\ subtotal = Units(ordered)
  /\ total = subtotal
  /\ limit \in Limits
  /\ approval = [r \in Requests |-> [status |-> "NONE", value |-> 0]]
  /\ received = None
  /\ returned = None
  /\ payment = [p \in Payments |-> 0]
  /\ req = [c \in Clients |-> Idle]

-----------------------------------------------------------------------------
(* Requests *)

\* No request of another client is half done, but for those that may overlap.
Undisturbed(c) == \A d \in Clients \ {c} : req[d].op \in Overlapping \cup {"idle"}
Quiet          == \A d \in Clients : req[d].op \in Overlapping \cup {"idle"}

Opens(c, r) ==
  /\ req[c] = Idle
  /\ Undisturbed(c)
  /\ req' = [req EXCEPT ![c] = r]

Continues(c, op) ==
  /\ req[c].op = op
  /\ Undisturbed(c)

Ends(c) == req' = [req EXCEPT ![c] = Idle]

-----------------------------------------------------------------------------
(* Drafting: PurchaseOrderService.update() *)

\* With a list of items, what was read before is not used but for the status.
ReplaceItems(q) ==
  /\ Quiet
  /\ status = "DRAFT"
  /\ ordered' = q
  /\ subtotal' = Units(q)
  /\ total' = Units(q)
  /\ UNCHANGED <<status, goodsVars, limit, approval, payment, req>>

\* Without one, the total is computed from the subtotal read before the lock.
HeaderRead(c) ==
  /\ status = "DRAFT"
  /\ Opens(c, [Idle EXCEPT !.op = "update", !.seen = subtotal])
  /\ UNCHANGED <<orderVars, goodsVars, limit, approval, payment>>

HeaderWrite(c) ==
  /\ Continues(c, "update")
  /\ total' = IF status = "DRAFT" THEN req[c].seen ELSE total
  /\ Ends(c)
  /\ UNCHANGED <<status, ordered, subtotal, goodsVars, limit, approval, payment>>

-----------------------------------------------------------------------------
(* Approval: ApprovalsService *)

Required == total > limit

\* Mutant of Approved: any approval will do, whatever it was given for.
ApprovedOnce == \E r \in Requests : approval[r].status = "APPROVED"

Approved == \E r \in Requests : approval[r].status = "APPROVED" /\ approval[r].value >= total

Pending(r) == approval[r].status = "PENDING"

\* request(): a pending request for less is cancelled and a new one made;
\* one for as much is answered as it is, which changes nothing.
AskRead(c) ==
  /\ Required
  /\ \/ \E r \in Requests :
          /\ Pending(r)
          /\ approval[r].value < total
          /\ Opens(c, [Idle EXCEPT !.op = "replace", !.amount = total, !.seen = r])
     \/ /\ \A r \in Requests : ~ Pending(r)
        /\ Opens(c, [Idle EXCEPT !.op = "ask", !.amount = total])
  /\ UNCHANGED <<orderVars, goodsVars, limit, approval, payment>>

\* By its id, whatever it has become since.
AskReplace(c) ==
  /\ Continues(c, "replace")
  /\ approval' = [approval EXCEPT ![req[c].seen].status = "CANCELLED"]
  /\ req' = [req EXCEPT ![c].op = "ask", ![c].seen = 0]
  /\ UNCHANGED <<orderVars, goodsVars, limit, payment>>

AskCreate(c) ==
  /\ Continues(c, "ask")
  /\ \E r \in Requests :
       /\ \A s \in Requests : approval[s].status = "NONE" <=> s >= r
       /\ approval' = [approval EXCEPT ![r] = [status |-> "PENDING", value |-> req[c].amount]]
  /\ Ends(c)
  /\ UNCHANGED <<orderVars, goodsVars, limit, payment>>

Decide(r, verdict) ==
  /\ Quiet
  /\ Pending(r)
  /\ approval' = [approval EXCEPT ![r].status = verdict]
  /\ UNCHANGED <<orderVars, goodsVars, limit, payment, req>>

WithdrawRequest(r) == Decide(r, "CANCELLED")

SetLimit(n) ==
  /\ Quiet
  /\ limit' = n
  /\ UNCHANGED <<orderVars, goodsVars, approval, payment, req>>

-----------------------------------------------------------------------------
(* Sending and cancelling: PurchaseOrderService.send(), cancel() *)

SendRead(c, op) ==
  /\ status = "DRAFT"
  /\ \E l \in Lines : ordered[l] > 0
  /\ op = "sendAsAdmin" \/ ~ Required \/ Approved
  /\ Opens(c, [Idle EXCEPT !.op = op])
  /\ UNCHANGED <<orderVars, goodsVars, limit, approval, payment>>

SendClaim(c, op) ==
  /\ Continues(c, op)
  /\ status' = IF status = "DRAFT" THEN "SENT" ELSE status
  /\ Ends(c)
  /\ UNCHANGED <<ordered, subtotal, total, goodsVars, limit, approval, payment>>

Cancel ==
  /\ Quiet
  /\ status \in {"DRAFT", "SENT"}
  /\ status' = "CANCELLED"
  /\ UNCHANGED <<ordered, subtotal, total, goodsVars, limit, approval, payment, req>>

-----------------------------------------------------------------------------
(* Goods: GoodsReceiptService.receive(), PurchaseReturnService.create() *)

\* Mutant of Remaining: what was sent back can come in again.
RemainingNet(l) == ordered[l] - (received[l] - returned[l])

Remaining(l)  == ordered[l] - received[l]
Returnable(l) == received[l] - returned[l]

ReceiptStatus(arrived) ==
  IF \A l \in Lines : arrived[l] >= ordered[l] THEN "FULLY_RECEIVED" ELSE "PARTIALLY_RECEIVED"

Receivable(q) ==
  /\ status \in {"SENT", "PARTIALLY_RECEIVED"}
  /\ \A l \in Lines : q[l] <= Remaining(l)

\* The status and what remains are read before the transaction ...
ReceiveRead(c, q) ==
  /\ q # None
  /\ Receivable(q)
  /\ Opens(c, [Idle EXCEPT !.op = "receive", !.lines = q])
  /\ UNCHANGED <<orderVars, goodsVars, limit, approval, payment>>

TakeIn(q) ==
  /\ received' = [l \in Lines |-> received[l] + q[l]]
  /\ status' = ReceiptStatus(received')

\* Mutant of ReceiveCommit: only what remains is read again.
ReceiveCommitAnyStatus(c) ==
  /\ Continues(c, "receive")
  /\ \/ /\ \A l \in Lines : req[c].lines[l] <= Remaining(l)
        /\ TakeIn(req[c].lines)
     \/ /\ \E l \in Lines : req[c].lines[l] > Remaining(l)
        /\ UNCHANGED <<status, received>>
  /\ Ends(c)
  /\ UNCHANGED <<ordered, subtotal, total, returned, limit, approval, payment>>

\* ... and again in it, once the order's row is locked: an order cancelled, or
\* a line taken in by another receipt meanwhile, refuses this one.
ReceiveCommit(c) ==
  /\ Continues(c, "receive")
  /\ \/ Receivable(req[c].lines) /\ TakeIn(req[c].lines)
     \/ ~ Receivable(req[c].lines) /\ UNCHANGED <<status, received>>
  /\ Ends(c)
  /\ UNCHANGED <<ordered, subtotal, total, returned, limit, approval, payment>>

\* The status is read before the lock, but one that allows a return is never
\* followed by one that does not; the quantities are read under it.
ReturnGoods(q) ==
  /\ Quiet
  /\ status \in {"PARTIALLY_RECEIVED", "FULLY_RECEIVED", "CANCELLED"}
  /\ q # None
  /\ \A l \in Lines : q[l] <= Returnable(l)
  /\ returned' = [l \in Lines |-> returned[l] + q[l]]
  /\ UNCHANGED <<orderVars, received, limit, approval, payment, req>>

-----------------------------------------------------------------------------
(* Payments: SupplierPaymentsService *)

Paid == SumTo(payment, MaxPayments)

\* getOutstanding(): the payable posted by receipts, less returns and payments.
Outstanding == Units(received) - Units(returned) - Paid

Paying(amount) == [Idle EXCEPT !.op = "pay", !.amount = amount, !.seen = Outstanding]

PayRead(c, amount) ==
  /\ amount <= Outstanding
  /\ Opens(c, Paying(amount))
  /\ UNCHANGED <<orderVars, goodsVars, limit, approval, payment>>

\* Mutant of PayCommit: an ordinary transaction, which no overlap interrupts.
PayCommitAnyway(c) ==
  /\ Continues(c, "pay")
  /\ \E p \in Payments :
       /\ payment[p] = 0
       /\ payment' = [payment EXCEPT ![p] = req[c].amount]
  /\ Ends(c)
  /\ UNCHANGED <<orderVars, goodsVars, limit, approval>>

\* The first of two overlapping payments to commit makes the other start
\* over; receipts, returns and voids, not being Serializable, do not.
PayCommit(c) ==
  /\ Continues(c, "pay")
  /\ ~ req[c].stale
  /\ \E p \in Payments :
       /\ payment[p] = 0
       /\ payment' = [payment EXCEPT ![p] = req[c].amount]
  /\ req' = [d \in Clients |->
               IF d = c THEN Idle
               ELSE IF req[d].op = "pay" THEN [req[d] EXCEPT !.stale = TRUE] ELSE req[d]]
  /\ UNCHANGED <<orderVars, goodsVars, limit, approval>>

\* Mutant of PayRestart: the amount is not checked again.
PayRestartUnchecked(c) ==
  /\ Continues(c, "pay")
  /\ req[c].stale
  /\ \/ req' = [req EXCEPT ![c] = Paying(req[c].amount)]
     \/ Ends(c)
  /\ UNCHANGED <<orderVars, goodsVars, limit, approval, payment>>

\* runSerializable() reads again, and gives up after some attempts; the
\* amount may have become too large.
PayRestart(c) ==
  /\ Continues(c, "pay")
  /\ req[c].stale
  /\ \/ /\ req[c].amount <= Outstanding
        /\ req' = [req EXCEPT ![c] = Paying(req[c].amount)]
     \/ Ends(c)
  /\ UNCHANGED <<orderVars, goodsVars, limit, approval, payment>>

VoidPayment(p) ==
  /\ Quiet
  /\ payment[p] > 0
  /\ payment' = [payment EXCEPT ![p] = 0]
  /\ UNCHANGED <<orderVars, goodsVars, limit, approval, req>>

-----------------------------------------------------------------------------
Upto(n) == [Lines -> 0..n]

Sends == {"send", "sendAsAdmin"}

Request(c) ==
  \/ HeaderRead(c) \/ HeaderWrite(c)
  \/ AskRead(c) \/ AskReplace(c) \/ AskCreate(c)
  \/ \E op \in Sends : SendRead(c, op) \/ SendClaim(c, op)
  \/ \E q \in Upto(Units(ordered)) : ReceiveRead(c, q)
  \/ ReceiveCommit(c)
  \/ \E amount \in 1..Units(received) : PayRead(c, amount)
  \/ PayCommit(c) \/ PayRestart(c)

Next ==
  \/ \E q \in Orders : ReplaceItems(q)
  \/ \E q \in Upto(Units(ordered)) : ReturnGoods(q)
  \/ Cancel
  \/ \E r \in Requests : WithdrawRequest(r) \/ \E v \in Verdicts : Decide(r, v)
  \/ \E n \in Limits : SetLimit(n)
  \/ \E p \in Payments : VoidPayment(p)
  \/ \E c \in Clients : Request(c)

Spec == Init /\ [][Next]_vars

-----------------------------------------------------------------------------
(* Properties *)

\* Over any sequence of partial receipts and returns no line takes in more
\* than was ordered, and none sends back more than came in.
GoodsWithinOrder == \A l \in Lines : returned[l] <= received[l] /\ received[l] <= ordered[l]

ReceiptsTold ==
  /\ status \in {"DRAFT", "SENT", "CANCELLED"} <=> received = None
  /\ status = "FULLY_RECEIVED" => received = ordered
  /\ status = "PARTIALLY_RECEIVED" => received # ordered

\* The status tells the receipts: nothing has come in on an order that is a
\* draft, sent or cancelled; something, but not all, on one partially
\* received; all on one in full.  And cancelled is final: a receipt that has
\* passed its checks when the order is cancelled takes nothing in and does
\* not bring the order back, which is what cancel() and receive() lock the
\* row for.  (The status CANCELLED that create() of a return admits, for "a PO
\* cancelled after a partial receipt", is thus one without goods to return.)
StatusFollowsReceipts ==
  /\ []ReceiptsTold
  /\ [][status = "CANCELLED" => UNCHANGED <<status, received>>]_vars

\* However payments overlap, are repeated by the client, retried by
\* runSerializable() or voided, no more is paid than the goods received were
\* worth.  (Goods sent back after they were paid leave the supplier owing.)
PaidWithinReceived == Paid <= Units(received)

\* What goes out to the supplier has been approved as it is: an order sent
\* by someone other than an admin is worth no more than the limit, or no more
\* than a request that was approved, and no order goes out empty.
SentAsApproved ==
  [][\A c \in Clients, op \in Sends :
       (SendClaim(c, op) /\ status = "DRAFT") =>
         /\ Units(ordered) > 0
         /\ \/ op = "sendAsAdmin"
            \/ Units(ordered) <= limit
            \/ \E r \in Requests : approval[r].status = "APPROVED" /\ Units(ordered) <= approval[r].value]_vars
=============================================================================
