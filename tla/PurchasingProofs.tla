-------------------------- MODULE PurchasingProofs --------------------------
(***************************************************************************)
(* Purchasing for any number of lines, clients, approval requests and      *)
(* payments: its state keeps its types, goods stay within the order, the   *)
(* status tells the receipts, and payments stay within the goods received, *)
(* whichever requests overlap.  Where sends and header edits do not        *)
(* overlap with anything, what is sent has been approved as it is.         *)
(***************************************************************************)
EXTENDS Purchasing, TotalsProofs

\* A payment in flight that no other has interrupted is within what it read,
\* and what it read has not been spent since.
PaysHold ==
  \A c \in Clients : (req[c].op = "pay" /\ ~ req[c].stale) =>
    /\ req[c].amount <= req[c].seen
    /\ req[c].seen <= Units(received) - Paid

GoodsHold == GoodsWithinOrder /\ ReceiptsTold

MoneyHolds == PaidWithinReceived /\ PaysHold

PurchasingInv == TypeOK /\ GoodsHold /\ MoneyHolds

\* No receipt is made of nothing.
SomethingArrives == \A c \in Clients : req[c].op = "receive" => req[c].lines # None

\* The value of a list of lines is a number no smaller than any of them.
LEMMA UnitsNat ==
  ASSUME NEW q \in Quantities
  PROVE  Units(q) \in Nat /\ \A l \in Lines : q[l] <= Units(q)
BY PurchasingAssumption, SumToNat DEF Quantities, Lines, Units

LEMMA UnitsNone == None \in Quantities /\ Units(None) = 0
BY PurchasingAssumption, SumToZero DEF Quantities, Lines, Units, None

\* The quantities a receipt or a return is tried with.
LEMMA UptoQuantities == ASSUME TypeOK PROVE Upto(Units(ordered)) \subseteq Quantities
<1>1. Units(ordered) \in Nat
  BY UnitsNat DEF TypeOK
<1> QED BY <1>1 DEF Upto, Quantities

LEMMA PaidNat == ASSUME TypeOK PROVE Paid \in Nat
BY PurchasingAssumption, SumToNat DEF TypeOK, Payments, Paid

\* A payment in an empty row adds its amount to what is paid; emptying a row
\* takes its amount off.
LEMMA PaidChange ==
  ASSUME TypeOK, NEW p \in Payments, NEW a \in Nat,
         payment' = [payment EXCEPT ![p] = a]
  PROVE  /\ payment' \in [Payments -> Nat]
         /\ Paid' = Paid - payment[p] + a
         /\ payment[p] <= Paid
<1>1. payment \in [1..MaxPayments -> Nat] /\ payment' \in [1..MaxPayments -> Nat] /\ MaxPayments \in Nat
  BY PurchasingAssumption DEF TypeOK, Payments
<1>2. payment \in [1..MaxPayments -> Int] /\ payment' \in [1..MaxPayments -> Int]
  BY <1>1
<1>3. p \in 1..MaxPayments /\ payment'[p] = a /\ \A i \in 1..MaxPayments : i # p => payment'[i] = payment[i]
  BY <1>1 DEF Payments
<1>4. PICK f, g : f = payment /\ g = payment'
  OBVIOUS
<1>5. /\ f \in [1..MaxPayments -> Int] /\ g \in [1..MaxPayments -> Int] /\ MaxPayments \in Nat
       /\ p \in 1..MaxPayments /\ \A i \in 1..MaxPayments : i # p => g[i] = f[i]
  BY <1>1, <1>2, <1>3, <1>4
<1>6. SumTo(g, MaxPayments) = SumTo(f, MaxPayments) - f[p] + g[p]
  BY <1>5, SumToChange, Zenon
<1>7. payment[p] <= SumTo(payment, MaxPayments)
  BY <1>1, <1>3, SumToNat
<1> QED BY <1>1, <1>3, <1>4, <1>6, <1>7 DEF Paid, Payments

\* What a request remembers after it opened, moved on or ended.
LEMMA ReqType ==
  ASSUME TypeOK, NEW c \in Clients, NEW r \in Reads, req' = [req EXCEPT ![c] = r]
  PROVE  /\ req' \in [Clients -> Reads]
         /\ req'[c] = r
         /\ \A d \in Clients \ {c} : req'[d] = req[d]
BY DEF TypeOK

LEMMA IdleRead == Idle \in Reads /\ Idle.op = "idle"
BY UnitsNone DEF Idle, Reads, Ops

LEMMA PayingOp == \A amount : Paying(amount).op = "pay"
BY DEF Paying, Idle

\* A step that leaves goods and payments alone keeps what is known of money,
\* if it begins no payment.
LEMMA MoneyUntouched ==
  ASSUME MoneyHolds, UNCHANGED <<received, payment>>,
         \A d \in Clients : req'[d] = req[d] \/ req'[d].op # "pay"
  PROVE  MoneyHolds'
<1>1. Paid' = Paid /\ Units(received)' = Units(received)
  BY DEF Paid
<1> QED BY <1>1 DEF MoneyHolds, PaidWithinReceived, PaysHold

\* A step that leaves lines and receipts alone, and the status among those of
\* the same meaning, keeps what is known of goods.
LEMMA GoodsUntouched ==
  ASSUME GoodsHold, UNCHANGED <<ordered, goodsVars>>,
         \/ status' = status
         \/ /\ status \in {"DRAFT", "SENT"}
            /\ status' \in {"SENT", "CANCELLED"}
  PROVE  GoodsHold'
BY DEF GoodsHold, GoodsWithinOrder, ReceiptsTold, goodsVars

\* The initial state satisfies the invariant.
LEMMA PurchasingInit == Init => PurchasingInv
<1> SUFFICES ASSUME Init PROVE PurchasingInv
  OBVIOUS
<1>1. ordered \in Quantities /\ Units(ordered) \in Nat
  BY PurchasingAssumption, UnitsNat DEF Init
<1>2. TypeOK
  BY <1>1, UnitsNone, IdleRead DEF Init, TypeOK, Statuses, Approvals
<1>3. GoodsHold
  BY <1>1 DEF Init, GoodsHold, GoodsWithinOrder, ReceiptsTold, None, Quantities
<1>4. Paid = 0
  BY PurchasingAssumption, SumToZero DEF Init, Paid, Payments
<1>5. MoneyHolds
  BY <1>4, UnitsNone, IdleRead DEF Init, MoneyHolds, PaidWithinReceived, PaysHold
<1> QED BY <1>2, <1>3, <1>5 DEF PurchasingInv

\* Drafting, approving, sending and looking at what is still to come touch no
\* goods that came in and no money.
LEMMA OfficeKeeps ==
  ASSUME PurchasingInv, NEW c \in Clients,
         \/ \E q \in Quantities : ReceiveRead(c, q)
         \/ HeaderRead(c) \/ HeaderWrite(c)
         \/ AskRead(c) \/ AskReplace(c) \/ AskCreate(c)
         \/ \E op \in Sends : SendRead(c, op) \/ SendClaim(c, op)
  PROVE  PurchasingInv'
<1>0. TypeOK /\ GoodsHold /\ MoneyHolds /\ req[c] \in Reads
  BY DEF PurchasingInv, TypeOK
<1> USE DEF orderVars, goodsVars
<1>1. \E r \in Reads : req' = [req EXCEPT ![c] = r] /\ r.op # "pay"
  <2>1. CASE HeaderRead(c)
    <3>1. [Idle EXCEPT !.op = "update", !.seen = subtotal] \in Reads
      BY <1>0, IdleRead DEF TypeOK, Reads, Ops
    <3> QED BY <2>1, <3>1 DEF HeaderRead, Opens, Idle
  <2>2. CASE HeaderWrite(c) \/ AskCreate(c)
    BY <2>2, IdleRead DEF HeaderWrite, AskCreate, Ends
  <2>3. CASE AskRead(c)
    <3>0. Requests \subseteq Nat /\ total \in Nat
      BY <1>0 DEF TypeOK, Requests
    <3>1. \A r \in Requests : [Idle EXCEPT !.op = "replace", !.amount = total, !.seen = r] \in Reads
      BY <3>0, IdleRead DEF Reads, Ops
    <3>2. [Idle EXCEPT !.op = "ask", !.amount = total] \in Reads
      BY <1>0, IdleRead DEF TypeOK, Reads, Ops
    <3> QED BY <2>3, <3>1, <3>2 DEF AskRead, Opens, Idle
  <2>4. CASE AskReplace(c)
    <3> DEFINE r == [req[c] EXCEPT !.op = "ask", !.seen = 0]
    <3>1. r \in Reads /\ r.op = "ask"
      BY <1>0 DEF Reads, Ops
    <3>2. req' = [req EXCEPT ![c] = r]
      BY <2>4, <1>0 DEF AskReplace, TypeOK, Reads
    <3> QED BY <3>1, <3>2
  <2>5. CASE \E op \in Sends : SendRead(c, op)
    <3>1. \A op \in Sends : [Idle EXCEPT !.op = op] \in Reads
      BY IdleRead DEF Reads, Ops, Sends
    <3> QED BY <2>5, <3>1 DEF SendRead, Opens, Idle, Sends
  <2>6. CASE \E op \in Sends : SendClaim(c, op)
    BY <2>6, IdleRead DEF SendClaim, Ends
  <2>7. CASE \E q \in Quantities : ReceiveRead(c, q)
    <3>1. \A q \in Quantities : [Idle EXCEPT !.op = "receive", !.lines = q] \in Reads
      BY IdleRead DEF Reads, Ops
    <3> QED BY <2>7, <3>1 DEF ReceiveRead, Opens, Idle
  <2> QED BY <2>1, <2>2, <2>3, <2>4, <2>5, <2>6, <2>7
<1>2. /\ req' \in [Clients -> Reads]
      /\ \A d \in Clients : req'[d] = req[d] \/ req'[d].op # "pay"
  BY <1>0, <1>1, ReqType
<1>3. UNCHANGED <<ordered, subtotal, received, returned, limit, payment>>
  BY DEF ReceiveRead, HeaderRead, HeaderWrite, AskRead, AskReplace, AskCreate, SendRead, SendClaim
<1>4. status' = status \/ (status = "DRAFT" /\ status' = "SENT")
  BY DEF ReceiveRead, HeaderRead, HeaderWrite, AskRead, AskReplace, AskCreate, SendRead, SendClaim
<1>5. total' \in Nat
  BY <1>0 DEF TypeOK, Reads, ReceiveRead, HeaderRead, HeaderWrite, AskRead, AskReplace, AskCreate, SendRead, SendClaim
<1>6. approval' \in [Requests -> Approvals]
  <2>1. CASE AskReplace(c)
    BY <2>1, <1>0 DEF AskReplace, TypeOK, Approvals
  <2>2. CASE AskCreate(c)
    <3>1. [status |-> "PENDING", value |-> req[c].amount] \in Approvals
      BY <1>0 DEF Reads, Approvals
    <3> QED BY <2>2, <3>1, <1>0 DEF AskCreate, TypeOK
  <2>3. CASE UNCHANGED approval
    BY <2>3, <1>0 DEF TypeOK
  <2> QED BY <2>1, <2>2, <2>3 DEF ReceiveRead, HeaderRead, HeaderWrite, AskRead, SendRead, SendClaim
<1>7. TypeOK'
  BY <1>0, <1>2, <1>3, <1>4, <1>5, <1>6 DEF TypeOK, Statuses
<1>8. GoodsHold'
  BY <1>0, <1>3, <1>4, GoodsUntouched
<1>9. MoneyHolds'
  BY <1>0, <1>2, <1>3, MoneyUntouched
<1> QED BY <1>7, <1>8, <1>9 DEF PurchasingInv

\* Only a draft is given other lines, and nothing has come in on a draft.
LEMMA ReplaceKeeps ==
  ASSUME PurchasingInv, NEW q \in Orders, ReplaceItems(q)
  PROVE  PurchasingInv'
<1>0. TypeOK /\ GoodsHold /\ MoneyHolds
  BY DEF PurchasingInv
<1>1. q \in Quantities /\ Units(q) \in Nat
  BY PurchasingAssumption, UnitsNat
<1> USE DEF orderVars, goodsVars
<1>2. TypeOK'
  BY <1>0, <1>1 DEF ReplaceItems, TypeOK
<1>3. GoodsHold'
  <2>1. status = "DRAFT" /\ received = None /\ UNCHANGED <<status, received, returned>> /\ ordered' = q
    BY <1>0 DEF ReplaceItems, GoodsHold, ReceiptsTold
  <2> QED BY <1>0, <1>1, <2>1 DEF GoodsHold, GoodsWithinOrder, ReceiptsTold, None, Quantities
<1>4. MoneyHolds'
  BY <1>0, MoneyUntouched DEF ReplaceItems
<1> QED BY <1>2, <1>3, <1>4 DEF PurchasingInv

\* A decision, a new limit and a cancellation change neither.
LEMMA DecisionsKeep ==
  ASSUME PurchasingInv,
         \/ Cancel
         \/ \E r \in Requests : WithdrawRequest(r) \/ \E v \in Verdicts : Decide(r, v)
         \/ \E n \in Limits : SetLimit(n)
  PROVE  PurchasingInv'
<1>0. TypeOK /\ GoodsHold /\ MoneyHolds
  BY DEF PurchasingInv
<1> USE DEF orderVars, goodsVars
<1>1. /\ UNCHANGED <<ordered, subtotal, total, received, returned, payment, req>>
      /\ status' = status \/ (status \in {"DRAFT", "SENT"} /\ status' = "CANCELLED")
  BY DEF Cancel, WithdrawRequest, Decide, SetLimit
<1>2. approval' \in [Requests -> Approvals] /\ limit' \in Limits
  <2>1. CASE Cancel \/ \E n \in Limits : SetLimit(n)
    BY <2>1, <1>0 DEF Cancel, SetLimit, TypeOK
  <2>2. ASSUME NEW r \in Requests, NEW v \in Verdicts \cup {"CANCELLED"}, Decide(r, v)
        PROVE  approval' \in [Requests -> Approvals] /\ limit' \in Limits
    BY <2>2, <1>0 DEF Decide, TypeOK, Approvals
  <2> QED BY <2>1, <2>2 DEF WithdrawRequest
<1>3. TypeOK'
  BY <1>0, <1>1, <1>2 DEF TypeOK, Statuses
<1>4. GoodsHold'
  BY <1>0, <1>1, GoodsUntouched
<1>5. MoneyHolds'
  BY <1>0, <1>1, MoneyUntouched
<1> QED BY <1>3, <1>4, <1>5 DEF PurchasingInv

\* Goods come in up to what is still to come; their value only grows.
LEMMA TakeInKeeps ==
  ASSUME PurchasingInv, NEW c \in Clients, NEW q \in Quantities, q # None, Receivable(q), TakeIn(q), Ends(c),
         UNCHANGED <<ordered, subtotal, total, returned, limit, approval, payment>>
  PROVE  PurchasingInv'
<1>0. TypeOK /\ GoodsHold /\ MoneyHolds
  BY DEF PurchasingInv
<1>1. /\ ordered \in Quantities /\ received \in Quantities /\ received' \in Quantities
      /\ \A l \in Lines : received'[l] = received[l] + q[l] /\ received'[l] <= ordered[l]
  BY <1>0 DEF Receivable, TakeIn, Remaining, TypeOK, Quantities
<1>2. received' # None
  <2>1. PICK l \in Lines : q[l] # 0
    BY DEF None, Quantities
  <2> QED BY <1>1, <2>1 DEF None, Quantities
<1>3. Units(received) \in Nat /\ Units(received') \in Nat /\ Units(received) <= Units(received')
  <2>1. /\ received \in [1..NLines -> Int] /\ received' \in [1..NLines -> Int]
        /\ \A i \in 1..NLines : received[i] <= received'[i]
    BY <1>1 DEF Quantities, Lines
  <2> QED BY <1>1, <2>1, PurchasingAssumption, UnitsNat, SumToMono DEF Units
<1>4. TypeOK'
  <2>1. req' \in [Clients -> Reads]
    BY <1>0, IdleRead, ReqType DEF Ends
  <2> QED BY <1>0, <1>1, <2>1 DEF TakeIn, ReceiptStatus, TypeOK, Statuses
<1>5. GoodsHold'
  <2>1. GoodsWithinOrder'
    BY <1>0, <1>1 DEF TypeOK, Quantities, GoodsHold, GoodsWithinOrder
  <2>2. CASE \A l \in Lines : received'[l] >= ordered[l]
    <3>1. received' = ordered
      BY <1>1, <2>2 DEF Quantities
    <3>2. status' = "FULLY_RECEIVED" /\ ordered' = ordered
      BY <2>2 DEF TakeIn, ReceiptStatus
    <3> QED BY <1>2, <2>1, <3>1, <3>2 DEF GoodsHold, ReceiptsTold, None
  <2>3. CASE ~ \A l \in Lines : received'[l] >= ordered[l]
    <3>1. received' # ordered
      BY <1>1, <2>3 DEF Quantities
    <3>2. status' = "PARTIALLY_RECEIVED" /\ ordered' = ordered
      BY <2>3 DEF TakeIn, ReceiptStatus
    <3> QED BY <1>2, <2>1, <3>1, <3>2 DEF GoodsHold, ReceiptsTold, None
  <2> QED BY <2>2, <2>3
<1>6. MoneyHolds'
  <2>1. Paid' = Paid /\ Paid \in Nat
    BY <1>0, PaidNat DEF Paid
  <2>0. \A d \in Clients : req'[d] = req[d] \/ req'[d].op # "pay"
    BY <1>0, IdleRead, ReqType DEF Ends
  <2>2. Units(received)' = Units(received')
    BY DEF Units
  <2>3. PaidWithinReceived'
    BY <1>0, <1>3, <2>1, <2>2 DEF MoneyHolds, PaidWithinReceived
  <2>4. PaysHold'
    BY <1>0, <1>3, <2>0, <2>1, <2>2 DEF MoneyHolds, PaysHold, TypeOK, Reads
  <2> QED BY <2>3, <2>4 DEF MoneyHolds
<1> QED BY <1>4, <1>5, <1>6 DEF PurchasingInv

\* A receipt that finds the order or its lines changed is refused.
LEMMA ReceiveKeeps ==
  ASSUME PurchasingInv, SomethingArrives, NEW c \in Clients, ReceiveCommit(c)
  PROVE  PurchasingInv'
<1>0. TypeOK /\ GoodsHold /\ MoneyHolds /\ req[c].lines \in Quantities /\ req[c].lines # None
  BY DEF PurchasingInv, TypeOK, Reads, SomethingArrives, ReceiveCommit, Continues
<1>1. UNCHANGED <<ordered, subtotal, total, returned, limit, approval, payment>> /\ Ends(c)
  BY DEF ReceiveCommit
<1>2. CASE Receivable(req[c].lines) /\ TakeIn(req[c].lines)
  BY <1>0, <1>1, <1>2, TakeInKeeps DEF PurchasingInv
<1>3. CASE UNCHANGED <<status, received>>
  <2>1. req' \in [Clients -> Reads] /\ \A d \in Clients : req'[d] = req[d] \/ req'[d].op # "pay"
    BY <1>0, <1>1, IdleRead, ReqType DEF Ends
  <2>2. TypeOK'
    BY <1>0, <1>1, <1>3, <2>1 DEF TypeOK
  <2>3. GoodsHold'
    BY <1>0, <1>1, <1>3, GoodsUntouched DEF goodsVars
  <2>4. MoneyHolds'
    BY <1>0, <1>1, <1>3, <2>1, MoneyUntouched
  <2> QED BY <2>2, <2>3, <2>4 DEF PurchasingInv
<1> QED BY <1>2, <1>3 DEF ReceiveCommit

\* Goods go back up to what came in.
LEMMA ReturnKeeps ==
  ASSUME PurchasingInv, NEW q \in Quantities, ReturnGoods(q)
  PROVE  PurchasingInv'
<1>0. TypeOK /\ GoodsHold /\ MoneyHolds
  BY DEF PurchasingInv
<1>1. UNCHANGED <<status, ordered, subtotal, total, received, limit, approval, payment, req>>
  BY DEF ReturnGoods, orderVars
<1>2. returned' \in Quantities /\ \A l \in Lines : returned'[l] <= received[l]
  BY <1>0 DEF ReturnGoods, Returnable, TypeOK, Quantities
<1>3. TypeOK'
  BY <1>0, <1>1, <1>2 DEF TypeOK
<1>4. GoodsHold'
  BY <1>0, <1>1, <1>2 DEF GoodsHold, GoodsWithinOrder, ReceiptsTold
<1>5. MoneyHolds'
  BY <1>0, <1>1, MoneyUntouched
<1> QED BY <1>3, <1>4, <1>5 DEF PurchasingInv

\* A payment that has just read what is outstanding is within it.
LEMMA FreshRead ==
  ASSUME PurchasingInv, NEW c \in Clients, NEW a \in Nat, a <= Outstanding,
         UNCHANGED <<orderVars, goodsVars, limit, approval, payment>>,
         req' = [req EXCEPT ![c] = Paying(a)]
  PROVE  PurchasingInv'
<1>0. TypeOK /\ GoodsHold /\ MoneyHolds
  BY DEF PurchasingInv
<1> USE DEF orderVars, goodsVars
<1>1. Paid \in Nat /\ Units(received) \in Nat /\ Units(returned) \in Nat
  BY <1>0, PaidNat, UnitsNat DEF TypeOK
<1>2. Outstanding \in Nat /\ Outstanding <= Units(received) - Paid
  BY <1>1 DEF Outstanding
<1> DEFINE r == Paying(a)
<1>3. r \in Reads
  BY <1>2, IdleRead DEF Paying, Reads, Ops
<1>4. /\ req' \in [Clients -> Reads] /\ req'[c] = r
      /\ \A d \in Clients \ {c} : req'[d] = req[d]
  BY <1>0, <1>3, ReqType
<1>5. TypeOK'
  BY <1>0, <1>4 DEF TypeOK
<1>6. GoodsHold'
  BY <1>0, GoodsUntouched
<1>7. MoneyHolds'
  <2>1. Paid' = Paid /\ Units(received)' = Units(received)
    BY DEF Paid
  <2>2. PaysHold'
    BY <1>0, <1>2, <1>4, <2>1 DEF Paying, Idle, MoneyHolds, PaysHold
  <2> QED BY <1>0, <2>1, <2>2 DEF MoneyHolds, PaidWithinReceived
<1> QED BY <1>5, <1>6, <1>7 DEF PurchasingInv

\* The first of several payments to commit takes what all of them read, and
\* interrupts the others.
LEMMA CommitKeeps ==
  ASSUME PurchasingInv, NEW c \in Clients, PayCommit(c)
  PROVE  PurchasingInv'
<1>0. TypeOK /\ GoodsHold /\ MoneyHolds /\ req[c] \in Reads
  BY DEF PurchasingInv, TypeOK
<1> USE DEF orderVars, goodsVars
<1>1. PICK p \in Payments : payment[p] = 0 /\ payment' = [payment EXCEPT ![p] = req[c].amount]
  BY DEF PayCommit
<1>2. payment' \in [Payments -> Nat] /\ Paid' = Paid + req[c].amount /\ Paid \in Nat
  <2>1. req[c].amount \in Nat /\ payment[p] = 0 /\ Paid \in Nat
    BY <1>0, <1>1, PaidNat DEF Reads
  <2>2. payment' \in [Payments -> Nat] /\ Paid' = Paid - payment[p] + req[c].amount
    BY <1>0, <1>1, <2>1, PaidChange, Zenon
  <2> QED BY <2>1, <2>2
<1>3. \A d \in Clients : /\ req'[d] \in Reads
                         /\ req'[d].op = "pay" => req'[d].stale
  BY <1>0, IdleRead DEF PayCommit, TypeOK, Reads
<1>4. req' \in [Clients -> Reads]
  BY <1>3 DEF PayCommit
<1>5. TypeOK'
  BY <1>0, <1>2, <1>4 DEF PayCommit, TypeOK
<1>6. GoodsHold'
  BY <1>0, GoodsUntouched DEF PayCommit
<1>7. MoneyHolds'
  <2>1. req[c].amount <= Units(received) - Paid
    <3>1. req[c].amount \in Nat /\ req[c].seen \in Nat /\ Units(received) \in Nat
      BY <1>0, UnitsNat DEF Reads, TypeOK
    <3>2. req[c].amount <= req[c].seen /\ req[c].seen <= Units(received) - Paid
      BY <1>0 DEF PayCommit, Continues, MoneyHolds, PaysHold
    <3> QED BY <1>2, <3>1, <3>2
  <2>2. Units(received)' = Units(received) /\ Units(received) \in Nat
    BY <1>0, UnitsNat DEF PayCommit, TypeOK
  <2>3. PaidWithinReceived'
    BY <1>0, <1>2, <2>1, <2>2 DEF PaidWithinReceived, Reads
  <2>4. PaysHold'
    BY <1>3 DEF PaysHold
  <2> QED BY <2>3, <2>4 DEF MoneyHolds
<1> QED BY <1>5, <1>6, <1>7 DEF PurchasingInv

\* A void only leaves more to be paid.
LEMMA VoidKeeps ==
  ASSUME PurchasingInv, NEW p \in Payments, VoidPayment(p)
  PROVE  PurchasingInv'
<1>0. TypeOK /\ GoodsHold /\ MoneyHolds
  BY DEF PurchasingInv
<1> USE DEF orderVars, goodsVars
<1>1. /\ payment' \in [Payments -> Nat] /\ Paid' = Paid - payment[p] /\ payment[p] <= Paid
      /\ Paid \in Nat /\ payment[p] \in Nat
  <2>1. 0 \in Nat /\ Paid \in Nat /\ payment[p] \in Nat /\ payment' = [payment EXCEPT ![p] = 0]
    BY <1>0, PaidNat DEF VoidPayment, TypeOK
  <2>2. payment' \in [Payments -> Nat] /\ Paid' = Paid - payment[p] + 0 /\ payment[p] <= Paid
    BY <1>0, <2>1, PaidChange, Zenon
  <2> QED BY <2>1, <2>2
<1>2. UNCHANGED <<orderVars, goodsVars, limit, approval, req>>
  BY DEF VoidPayment
<1>3. TypeOK'
  BY <1>0, <1>1, <1>2 DEF TypeOK
<1>4. GoodsHold'
  BY <1>0, <1>2, GoodsUntouched
<1>5. MoneyHolds'
  <2>1. Units(received)' = Units(received) /\ Units(received) \in Nat
    BY <1>0, <1>2, UnitsNat DEF TypeOK
  <2>2. PaidWithinReceived'
    BY <1>0, <1>1, <2>1 DEF MoneyHolds, PaidWithinReceived
  <2>3. PaysHold'
    BY <1>0, <1>1, <1>2, <2>1 DEF MoneyHolds, PaysHold, TypeOK, Reads
  <2> QED BY <2>2, <2>3 DEF MoneyHolds
<1> QED BY <1>3, <1>4, <1>5 DEF PurchasingInv

LEMMA PaymentsKeep ==
  ASSUME PurchasingInv, NEW c \in Clients,
         \/ \E amount \in 1..Units(received) : PayRead(c, amount)
         \/ PayCommit(c) \/ PayRestart(c)
  PROVE  PurchasingInv'
<1>0. TypeOK /\ GoodsHold /\ MoneyHolds /\ req[c] \in Reads
  BY DEF PurchasingInv, TypeOK
<1>1. ASSUME NEW amount \in 1..Units(received), PayRead(c, amount) PROVE PurchasingInv'
  <2>1. amount \in Nat
    BY <1>0, UnitsNat DEF TypeOK
  <2> QED BY <1>1, <2>1, FreshRead DEF PayRead, Opens
<1>2. CASE PayCommit(c)
  BY <1>2, CommitKeeps
<1>3. CASE PayRestart(c)
  <2>1. CASE req[c].amount <= Outstanding /\ req' = [req EXCEPT ![c] = Paying(req[c].amount)]
    <3>1. req[c].amount \in Nat
      BY <1>0 DEF Reads
    <3> QED BY <1>3, <2>1, <3>1, FreshRead DEF PayRestart
  <2>2. CASE Ends(c)
    <3>1. UNCHANGED <<orderVars, goodsVars, limit, approval, payment>>
      BY <1>3 DEF PayRestart
    <3>2. req' \in [Clients -> Reads] /\ \A d \in Clients : req'[d] = req[d] \/ req'[d].op # "pay"
      BY <1>0, <2>2, IdleRead, ReqType DEF Ends
    <3>3. TypeOK'
      BY <1>0, <3>1, <3>2 DEF TypeOK, orderVars, goodsVars
    <3>4. GoodsHold'
      BY <1>0, <3>1, GoodsUntouched DEF orderVars
    <3>5. MoneyHolds'
      BY <1>0, <3>1, <3>2, MoneyUntouched DEF goodsVars
    <3> QED BY <3>3, <3>4, <3>5 DEF PurchasingInv
  <2> QED BY <1>3, <2>1, <2>2 DEF PayRestart
<1> QED BY <1>1, <1>2, <1>3

\* A receipt is opened with something, and nothing but its end changes it.
LEMMA ArrivesStep ==
  ASSUME TypeOK, SomethingArrives, [Next]_vars
  PROVE  SomethingArrives'
<1>1. ASSUME \A d \in Clients : req'[d] = req[d] \/ req'[d].op # "receive" \/ req'[d].lines # None
      PROVE  SomethingArrives'
  BY <1>1 DEF SomethingArrives
<1>2. ASSUME NEW c \in Clients, NEW r \in Reads, req' = [req EXCEPT ![c] = r], r.op # "receive" \/ r.lines # None
      PROVE  SomethingArrives'
  BY <1>1, <1>2, ReqType
<1>3. CASE UNCHANGED req
  BY <1>1, <1>3
<1>4. ASSUME NEW c \in Clients, Request(c) PROVE SomethingArrives'
  <2>0. req[c] \in Reads /\ total \in Nat /\ subtotal \in Nat
    BY DEF TypeOK
  <2>1. CASE HeaderRead(c)
    <3>1. [Idle EXCEPT !.op = "update", !.seen = subtotal] \in Reads
      BY <2>0, IdleRead DEF Reads, Ops
    <3> QED BY <1>2, <2>1, <3>1 DEF HeaderRead, Opens, Idle
  <2>2. CASE HeaderWrite(c) \/ AskCreate(c) \/ (\E op \in Sends : SendClaim(c, op)) \/ ReceiveCommit(c)
    BY <1>2, <2>2, IdleRead DEF HeaderWrite, AskCreate, SendClaim, ReceiveCommit, Ends
  <2>3. CASE AskRead(c)
    <3>1. ASSUME NEW d \in Clients, d # c PROVE req'[d] = req[d]
      BY <2>3, <3>1 DEF AskRead, Opens, TypeOK
    <3>2. req'[c].op # "receive"
      BY <2>3 DEF AskRead, Opens, TypeOK, Idle
    <3> QED BY <1>1, <3>1, <3>2
  <2>4. CASE AskReplace(c)
    <3>1. ASSUME NEW d \in Clients, d # c PROVE req'[d] = req[d]
      BY <2>4, <3>1 DEF AskReplace, TypeOK
    <3>2. req'[c].op # "receive"
      BY <2>0, <2>4 DEF AskReplace, TypeOK, Reads
    <3> QED BY <1>1, <3>1, <3>2
  <2>5. CASE \E op \in Sends : SendRead(c, op)
    <3>1. \A op \in Sends : [Idle EXCEPT !.op = op] \in Reads
      BY IdleRead DEF Reads, Ops, Sends
    <3> QED BY <1>2, <2>5, <3>1 DEF SendRead, Opens, Idle, Sends
  <2>6. ASSUME NEW q \in Upto(Units(ordered)), ReceiveRead(c, q) PROVE SomethingArrives'
    <3>1. [Idle EXCEPT !.op = "receive", !.lines = q] \in Reads
      BY UptoQuantities, IdleRead DEF Reads, Ops
    <3> QED BY <1>2, <2>6, <3>1 DEF ReceiveRead, Opens, Idle
  <2>7. CASE (\E amount \in 1..Units(received) : PayRead(c, amount)) \/ PayRestart(c)
    <3>1. ASSUME NEW d \in Clients, d # c PROVE req'[d] = req[d]
      BY <2>7, <3>1 DEF PayRead, PayRestart, Opens, Ends, TypeOK
    <3>2. req'[c].op # "receive"
      BY <2>7, PayingOp, IdleRead DEF PayRead, PayRestart, Opens, Ends, TypeOK
    <3> QED BY <1>1, <3>1, <3>2
  <2>8. CASE PayCommit(c)
    <3>1. ASSUME NEW d \in Clients PROVE req'[d] = req[d] \/ req'[d].op # "receive"
      BY <2>8 DEF PayCommit, TypeOK, Reads, Idle
    <3> QED BY <1>1, <3>1
  <2> QED BY <1>4, <2>1, <2>2, <2>3, <2>4, <2>5, <2>6, <2>7, <2>8 DEF Request
<1>5. CASE UNCHANGED vars
  BY <1>3, <1>5 DEF vars
<1> QED BY <1>3, <1>4, <1>5 DEF Next, ReplaceItems, ReturnGoods, Cancel, WithdrawRequest, Decide, SetLimit, VoidPayment

\* Every step preserves the invariant.
LEMMA PurchasingStep == PurchasingInv /\ SomethingArrives /\ [Next]_vars => PurchasingInv'
<1> SUFFICES ASSUME PurchasingInv, SomethingArrives, [Next]_vars PROVE PurchasingInv'
  OBVIOUS
<1>1. ASSUME NEW q \in Orders, ReplaceItems(q) PROVE PurchasingInv'
  BY <1>1, ReplaceKeeps
<1>2. ASSUME NEW q \in Upto(Units(ordered)), ReturnGoods(q) PROVE PurchasingInv'
  BY <1>2, UptoQuantities, ReturnKeeps DEF PurchasingInv
<1>3. ASSUME \/ Cancel
             \/ \E r \in Requests : WithdrawRequest(r) \/ \E v \in Verdicts : Decide(r, v)
             \/ \E n \in Limits : SetLimit(n)
      PROVE  PurchasingInv'
  BY <1>3, DecisionsKeep
<1>4. ASSUME NEW p \in Payments, VoidPayment(p) PROVE PurchasingInv'
  BY <1>4, VoidKeeps
<1>5. ASSUME NEW c \in Clients, Request(c) PROVE PurchasingInv'
  <2>1. CASE \E q \in Upto(Units(ordered)) : ReceiveRead(c, q)
    BY <2>1, UptoQuantities, OfficeKeeps DEF PurchasingInv
  <2> QED BY <1>5, <2>1, ReceiveKeeps, OfficeKeeps, PaymentsKeep DEF Request
<1>6. CASE UNCHANGED vars
  <2>1. Paid' = Paid
    BY <1>6 DEF vars, Paid
  <2> QED BY <1>6, <2>1 DEF vars, orderVars, goodsVars, PurchasingInv, TypeOK, GoodsHold, GoodsWithinOrder,
       ReceiptsTold, MoneyHolds, PaidWithinReceived, PaysHold
<1> QED BY <1>1, <1>2, <1>3, <1>4, <1>5, <1>6 DEF Next

\* The inductive invariant of a purchase order.
THEOREM PurchasingInvariant == Spec => []PurchasingInv
<1>1. Init => SomethingArrives
  BY DEF Init, SomethingArrives, Idle
<1>2. PurchasingInv /\ SomethingArrives /\ [Next]_vars => SomethingArrives'
  BY ArrivesStep DEF PurchasingInv
<1> QED BY <1>1, <1>2, PurchasingInit, PurchasingStep, PTL DEF Spec

\* The state keeps its types: in particular a payment that starts over never
\* remembers a negative amount outstanding.
THEOREM PurchasingTypeCorrect == Spec => []TypeOK
<1>1. PurchasingInv => TypeOK
  BY DEF PurchasingInv
<1> QED BY <1>1, PurchasingInvariant, PTL

\* No line takes in more than was ordered or gives back more than came in.
THEOREM GoodsStayWithinOrder == Spec => []GoodsWithinOrder
<1>1. PurchasingInv => GoodsWithinOrder
  BY DEF PurchasingInv, GoodsHold
<1> QED BY <1>1, PurchasingInvariant, PTL

\* No step takes goods in on a cancelled order, or gives it another status.
LEMMA CancelledStays ==
  ASSUME [Next]_vars, status = "CANCELLED"
  PROVE  UNCHANGED <<status, received>>
<1> USE DEF orderVars, goodsVars
<1>1. ASSUME NEW q \in Orders, ReplaceItems(q) PROVE UNCHANGED <<status, received>>
  BY <1>1 DEF ReplaceItems
<1>2. ASSUME NEW q \in Upto(Units(ordered)), ReturnGoods(q) PROVE UNCHANGED <<status, received>>
  BY <1>2 DEF ReturnGoods
<1>3. ~ Cancel
  BY DEF Cancel
<1>4. ASSUME NEW r \in Requests, WithdrawRequest(r) \/ \E v \in Verdicts : Decide(r, v)
      PROVE  UNCHANGED <<status, received>>
  BY <1>4 DEF WithdrawRequest, Decide
<1>5. ASSUME NEW n \in Limits, SetLimit(n) PROVE UNCHANGED <<status, received>>
  BY <1>5 DEF SetLimit
<1>6. ASSUME NEW p \in Payments, VoidPayment(p) PROVE UNCHANGED <<status, received>>
  BY <1>6 DEF VoidPayment
<1>7. ASSUME NEW c \in Clients, Request(c) PROVE UNCHANGED <<status, received>>
  <2>1. CASE HeaderRead(c) \/ HeaderWrite(c) \/ AskRead(c) \/ AskReplace(c) \/ AskCreate(c)
    BY <2>1 DEF HeaderRead, HeaderWrite, AskRead, AskReplace, AskCreate
  <2>2. CASE \E op \in Sends : SendRead(c, op) \/ SendClaim(c, op)
    BY <2>2 DEF SendRead, SendClaim
  <2>3. CASE (\E q \in Upto(Units(ordered)) : ReceiveRead(c, q)) \/ ReceiveCommit(c)
    BY <2>3 DEF ReceiveRead, ReceiveCommit, Receivable
  <2>4. CASE (\E amount \in 1..Units(received) : PayRead(c, amount)) \/ PayCommit(c) \/ PayRestart(c)
    BY <2>4 DEF PayRead, PayCommit, PayRestart
  <2> QED BY <1>7, <2>1, <2>2, <2>3, <2>4 DEF Request
<1>8. CASE UNCHANGED vars
  BY <1>8 DEF vars
<1> QED BY <1>1, <1>2, <1>3, <1>4, <1>5, <1>6, <1>7, <1>8 DEF Next

\* PurchaseOrder.status is the one that its receipts give, and cancelled is
\* final, whichever receipts and cancellations overlap.
THEOREM StatusTellsReceipts == Spec => StatusFollowsReceipts
<1> DEFINE Final == status = "CANCELLED" => UNCHANGED <<status, received>>
<1>1. PurchasingInv => ReceiptsTold
  BY DEF PurchasingInv, GoodsHold
<1>2. [Next]_vars => [Final]_vars
  BY CancelledStays
<1> HIDE DEF Final
<1>3. Spec => []ReceiptsTold
  BY <1>1, PurchasingInvariant, PTL
<1>4. Spec => [][Final]_vars
  BY <1>2, PTL DEF Spec
<1> QED BY <1>3, <1>4 DEF StatusFollowsReceipts, Final

\* Payments never exceed the goods received, whichever requests overlap.
THEOREM PaymentsWithinReceipts == Spec => []PaidWithinReceived
<1>1. PurchasingInv => PaidWithinReceived
  BY DEF PurchasingInv, MoneyHolds
<1> QED BY <1>1, PurchasingInvariant, PTL

-----------------------------------------------------------------------------
(* Where sends and header edits do not overlap with anything *)

Exclusive == {"update"} \cup Sends

\* The totals are those of the lines, and what a send or a header edit has
\* read is still so when it writes.
DraftsHold ==
  /\ subtotal = Units(ordered)
  /\ total = subtotal
  /\ \A c \in Clients : req[c].op = "update" => req[c].seen = subtotal
  /\ \A c \in Clients : req[c].op \in Sends => \E l \in Lines : ordered[l] > 0
  /\ \A c \in Clients : req[c].op = "send" => ~ Required \/ Approved

LEMMA DraftsInit == Init => DraftsHold
BY DEF Init, DraftsHold, Idle, Sends

\* A step after which no such request is open need only keep the totals.
LEMMA DraftsAlone ==
  ASSUME \A d \in Clients : req'[d].op \notin Exclusive,
         subtotal' = Units(ordered'), total' = subtotal'
  PROVE  DraftsHold'
BY DEF DraftsHold, Exclusive, Sends, Units

\* A step that leaves what they read alone need only keep what it opens.
LEMMA DraftsUntouched ==
  ASSUME DraftsHold, UNCHANGED <<ordered, subtotal, total, limit, approval>>,
         \A d \in Clients : \/ req'[d] = req[d]
                            \/ req'[d].op \notin Exclusive
                            \/ req'[d].op = "update" /\ req'[d].seen = subtotal
                            \/ /\ req'[d].op \in Sends
                               /\ \E l \in Lines : ordered[l] > 0
                               /\ req'[d].op = "send" => ~ Required \/ Approved
  PROVE  DraftsHold'
BY DEF DraftsHold, Exclusive, Required, Approved, Sends, Units

LEMMA DraftsStep ==
  ASSUME Overlapping \cap Exclusive = {}, TypeOK, DraftsHold, [Next]_vars
  PROVE  DraftsHold'
<1> USE DEF orderVars, goodsVars
<1>0. "idle" \notin Exclusive /\ Overlapping \cap Exclusive = {}
  BY DEF Exclusive, Sends
<1>1. ASSUME Quiet, UNCHANGED req, subtotal' = Units(ordered'), total' = subtotal' PROVE DraftsHold'
  BY <1>0, <1>1, DraftsAlone DEF Quiet
<1>2. ASSUME NEW c \in Clients, Undisturbed(c), req'[c].op \notin Exclusive,
             \A d \in Clients \ {c} : req'[d] = req[d],
             subtotal' = Units(ordered'), total' = subtotal'
      PROVE  DraftsHold'
  <2>1. \A d \in Clients : req'[d].op \notin Exclusive
    BY <1>0, <1>2 DEF Undisturbed
  <2> QED BY <1>2, <2>1, DraftsAlone
<1>3. ASSUME UNCHANGED <<ordered, subtotal, total, limit, approval, req>> PROVE DraftsHold'
  BY <1>3, DraftsUntouched
<1>4. ASSUME NEW q \in Orders, ReplaceItems(q) PROVE DraftsHold'
  BY <1>1, <1>4 DEF ReplaceItems
<1>5. ASSUME NEW q \in Upto(Units(ordered)), ReturnGoods(q) PROVE DraftsHold'
  BY <1>3, <1>5 DEF ReturnGoods
<1>6. CASE Cancel
  BY <1>3, <1>6 DEF Cancel
<1>7. ASSUME NEW r \in Requests, WithdrawRequest(r) \/ \E v \in Verdicts : Decide(r, v) PROVE DraftsHold'
  BY <1>1, <1>7 DEF WithdrawRequest, Decide, DraftsHold
<1>8. ASSUME NEW n \in Limits, SetLimit(n) PROVE DraftsHold'
  BY <1>1, <1>8 DEF SetLimit, DraftsHold
<1>9. ASSUME NEW p \in Payments, VoidPayment(p) PROVE DraftsHold'
  BY <1>3, <1>9 DEF VoidPayment
<1>10. ASSUME NEW c \in Clients, Request(c) PROVE DraftsHold'
  <2>1. CASE HeaderRead(c)
    <3>1. UNCHANGED <<ordered, subtotal, total, limit, approval>>
      BY <2>1 DEF HeaderRead
    <3>2. req' = [req EXCEPT ![c] = [Idle EXCEPT !.op = "update", !.seen = subtotal]]
      BY <2>1 DEF HeaderRead, Opens
    <3>3. req'[c].op = "update" /\ req'[c].seen = subtotal /\ \A d \in Clients \ {c} : req'[d] = req[d]
      BY <3>2 DEF Idle, TypeOK
    <3> QED BY <3>1, <3>3, DraftsUntouched
  <2>2. CASE HeaderWrite(c)
    <3>1. req'[c].op \notin Exclusive /\ \A d \in Clients \ {c} : req'[d] = req[d]
      BY <1>0, <2>2 DEF HeaderWrite, Ends, TypeOK, Idle
    <3>2. subtotal' = Units(ordered') /\ total' = subtotal'
      BY <2>2 DEF HeaderWrite, Continues, DraftsHold
    <3> QED BY <1>2, <2>2, <3>1, <3>2 DEF HeaderWrite, Continues
  <2>3. CASE AskRead(c)
    <3>1. UNCHANGED <<ordered, subtotal, total, limit, approval>>
      BY <2>3 DEF AskRead
    <3>2. req'[c].op \notin Exclusive /\ \A d \in Clients \ {c} : req'[d] = req[d]
      <4>1. ASSUME NEW r \in Requests, Opens(c, [Idle EXCEPT !.op = "replace", !.amount = total, !.seen = r])
            PROVE  req'[c].op = "replace" /\ \A d \in Clients \ {c} : req'[d] = req[d]
        BY <4>1 DEF Opens, Idle, TypeOK
      <4>2. ASSUME Opens(c, [Idle EXCEPT !.op = "ask", !.amount = total])
            PROVE  req'[c].op = "ask" /\ \A d \in Clients \ {c} : req'[d] = req[d]
        BY <4>2 DEF Opens, Idle, TypeOK
      <4>3. "replace" \notin Exclusive /\ "ask" \notin Exclusive
        BY DEF Exclusive, Sends
      <4> QED BY <2>3, <4>1, <4>2, <4>3 DEF AskRead
    <3> QED BY <3>1, <3>2, DraftsUntouched
  <2>4. CASE AskReplace(c) \/ AskCreate(c)
    <3>1. req'[c].op \notin Exclusive /\ \A d \in Clients \ {c} : req'[d] = req[d]
      BY <2>4 DEF AskReplace, AskCreate, Ends, TypeOK, Reads, Idle, Exclusive, Sends
    <3>2. subtotal' = Units(ordered') /\ total' = subtotal' /\ Undisturbed(c)
      BY <2>4 DEF AskReplace, AskCreate, Continues, DraftsHold
    <3> QED BY <1>2, <3>1, <3>2
  <2>5. ASSUME NEW op \in Sends, SendRead(c, op) PROVE DraftsHold'
    <3>1. UNCHANGED <<ordered, subtotal, total, limit, approval>>
      BY <2>5 DEF SendRead
    <3>2. req'[c].op = op /\ \A d \in Clients \ {c} : req'[d] = req[d]
      BY <2>5 DEF SendRead, Opens, TypeOK, Idle
    <3>3. (\E l \in Lines : ordered[l] > 0) /\ (op = "send" => ~ Required \/ Approved)
      BY <2>5 DEF SendRead
    <3> QED BY <3>1, <3>2, <3>3, DraftsUntouched
  <2>6. ASSUME NEW op \in Sends, SendClaim(c, op) PROVE DraftsHold'
    <3>1. UNCHANGED <<ordered, subtotal, total, limit, approval>>
      BY <2>6 DEF SendClaim
    <3>2. req'[c].op \notin Exclusive /\ \A d \in Clients \ {c} : req'[d] = req[d]
      BY <1>0, <2>6 DEF SendClaim, Ends, TypeOK, Idle
    <3> QED BY <3>1, <3>2, DraftsUntouched
  <2>7. CASE (\E amount \in 1..Units(received) : PayRead(c, amount)) \/ PayCommit(c) \/ PayRestart(c)
    <3>1. UNCHANGED <<ordered, subtotal, total, limit, approval>>
      BY <2>7 DEF PayRead, PayCommit, PayRestart
    <3>2. \A d \in Clients : req'[d] = req[d] \/ req'[d].op \notin Exclusive
      <4>1. "pay" \notin Exclusive
        BY DEF Exclusive, Sends
      <4>2. CASE \E amount \in 1..Units(received) : PayRead(c, amount)
        BY <4>1, <4>2 DEF PayRead, Opens, Paying, Idle, TypeOK
      <4>3. CASE PayCommit(c)
        BY <1>0, <4>1, <4>3 DEF PayCommit, TypeOK, Reads, Idle
      <4>4. CASE PayRestart(c)
        BY <1>0, <4>1, <4>4, PayingOp, IdleRead DEF PayRestart, Ends, TypeOK
      <4> QED BY <2>7, <4>2, <4>3, <4>4
    <3> QED BY <3>1, <3>2, DraftsUntouched
  <2>8. CASE (\E q \in Upto(Units(ordered)) : ReceiveRead(c, q)) \/ ReceiveCommit(c)
    <3>1. UNCHANGED <<ordered, subtotal, total, limit, approval>>
      BY <2>8 DEF ReceiveRead, ReceiveCommit
    <3>2. \A d \in Clients : req'[d] = req[d] \/ req'[d].op \notin Exclusive
      <4>1. "receive" \notin Exclusive
        BY DEF Exclusive, Sends
      <4>2. CASE \E q \in Upto(Units(ordered)) : ReceiveRead(c, q)
        BY <4>1, <4>2 DEF ReceiveRead, Opens, Idle, TypeOK
      <4>3. CASE ReceiveCommit(c)
        BY <1>0, <4>3 DEF ReceiveCommit, Ends, Idle, TypeOK
      <4> QED BY <2>8, <4>2, <4>3
    <3> QED BY <3>1, <3>2, DraftsUntouched
  <2> QED BY <1>10, <2>1, <2>2, <2>3, <2>4, <2>5, <2>6, <2>7, <2>8 DEF Request
<1>11. CASE UNCHANGED vars
  BY <1>3, <1>11 DEF vars
<1> QED BY <1>4, <1>5, <1>6, <1>7, <1>8, <1>9, <1>10, <1>11 DEF Next

\* An order goes out with lines, and within the limit or an approval.
LEMMA SendsAreApproved ==
  ASSUME TypeOK, DraftsHold, NEW c \in Clients, NEW op \in Sends, SendClaim(c, op)
  PROVE  /\ Units(ordered) > 0
         /\ \/ op = "sendAsAdmin"
            \/ Units(ordered) <= limit
            \/ \E r \in Requests : approval[r].status = "APPROVED" /\ Units(ordered) <= approval[r].value
<1>1. req[c].op = op
  BY DEF SendClaim, Continues
<1>2. Units(ordered) \in Nat /\ \A l \in Lines : ordered[l] <= Units(ordered) /\ ordered[l] \in Nat
  BY UnitsNat DEF TypeOK, Quantities
<1>3. PICK l \in Lines : ordered[l] > 0
  BY <1>1 DEF DraftsHold
<1>4. Units(ordered) > 0
  BY <1>2, <1>3
<1>5. ASSUME op = "send"
      PROVE  \/ Units(ordered) <= limit
             \/ \E r \in Requests : approval[r].status = "APPROVED" /\ Units(ordered) <= approval[r].value
  <2>1. total = Units(ordered) /\ limit \in Nat
    BY PurchasingAssumption DEF DraftsHold, TypeOK
  <2>2. CASE ~ Required
    BY <1>2, <2>1, <2>2 DEF Required
  <2>3. CASE Approved
    BY <1>2, <2>1, <2>3 DEF Approved, TypeOK, Approvals
  <2> QED BY <1>1, <1>5, <2>2, <2>3 DEF DraftsHold
<1> QED BY <1>4, <1>5 DEF Sends

\* If no request may come between the reading and the writing of a send or of
\* a header edit, every order goes out approved as it is.
THEOREM SendingRespectsApproval ==
  ASSUME Overlapping \cap Exclusive = {}
  PROVE  Spec => SentAsApproved
<1> DEFINE Approving == \A c \in Clients, op \in Sends :
       (SendClaim(c, op) /\ status = "DRAFT") =>
         /\ Units(ordered) > 0
         /\ \/ op = "sendAsAdmin"
            \/ Units(ordered) <= limit
            \/ \E r \in Requests : approval[r].status = "APPROVED" /\ Units(ordered) <= approval[r].value
<1>1. TypeOK /\ DraftsHold /\ [Next]_vars => DraftsHold'
  BY DraftsStep
<1>2. TypeOK /\ DraftsHold => [Approving]_vars
  BY SendsAreApproved
<1>3. Spec => []TypeOK
  BY PurchasingTypeCorrect
<1>4. Spec => [](TypeOK /\ DraftsHold)
  BY <1>1, <1>3, DraftsInit, PTL DEF Spec
<1> HIDE DEF Approving
<1>5. Spec => [][Approving]_vars
  BY <1>2, <1>4, PTL
<1> QED BY <1>5 DEF SentAsApproved, Approving
=============================================================================
