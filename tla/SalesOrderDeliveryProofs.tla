---------------------- MODULE SalesOrderDeliveryProofs ----------------------
(***************************************************************************)
(* Theorems about SalesOrderDelivery, for every order, every number of     *)
(* delivery orders and invoices, and requests that overlap or do not.      *)
(***************************************************************************)
EXTENDS SalesOrderDelivery, TotalsProofs

-----------------------------------------------------------------------------
(* The inductive invariant of the delivery side *)

\* What a delivery order's status and shippedAt say of each other and of
\* its quantities.  A request that has read FAILED reads it of a delivery
\* order that left.
DeliveryShape ==
  \A d \in DOs :
    /\ doStatus[d] \in {"NONE", "PACKED"} => ~shippedAt[d] /\ doReturned[d] = None
    /\ doStatus[d] \in LeftStatuses => shippedAt[d]
    /\ d \in rescheduling => shippedAt[d]
    /\ \A l \in Lines : doReturned[d][l] <= doQty[d][l]

DeliveryInv == TypeOK /\ DeliveryShape /\ NoOverShipment

\* TypeOK, table by table.
OrderTypes ==
  /\ orderStatus \in OrderStatuses
  /\ delivered \in [Lines -> Nat]
DeliveryTypes ==
  /\ doStatus \in [DOs -> DOStatuses]
  /\ doQty \in [DOs -> [Lines -> Nat]]
  /\ doReturned \in [DOs -> [Lines -> Nat]]
  /\ shippedAt \in [DOs -> BOOLEAN]
InvoiceTypes ==
  /\ invStatus \in [Invs -> InvStatuses]
  /\ invDirect \in [Invs -> BOOLEAN]
  /\ invLinked \in [Invs -> BOOLEAN]
  /\ invQty \in [Invs -> [Lines -> Nat]]
  /\ invFulfilled \in [Invs -> [Lines -> Int]]
  /\ invCredited \in [Invs -> [Lines -> Nat]]
GoodsTypes ==
  /\ policy \in Policies
  /\ stock \in [Lines -> Int]
  /\ cogs \in [Lines -> Int]
RequestStateTypes ==
  /\ voiding \subseteq Invs
  /\ voidListed \subseteq voiding
  /\ voidPacked \in [Invs -> SUBSET DOs]
  /\ rescheduling \subseteq DOs

\* The tables together are the type invariant, before a step and after it.
LEMMA TypeTables ==
  /\ TypeOK <=> OrderTypes /\ DeliveryTypes /\ InvoiceTypes /\ GoodsTypes /\ RequestStateTypes
  /\ TypeOK' <=> (OrderTypes /\ DeliveryTypes /\ InvoiceTypes /\ GoodsTypes /\ RequestStateTypes)'
  BY DEF TypeOK, OrderTypes, DeliveryTypes, InvoiceTypes, GoodsTypes, RequestStateTypes

\* A table a step leaves alone keeps its type.
LEMMA UntouchedTables ==
  /\ OrderTypes /\ UNCHANGED orderVars => OrderTypes'
  /\ DeliveryTypes /\ UNCHANGED doVars => DeliveryTypes'
  /\ InvoiceTypes /\ UNCHANGED invVars => InvoiceTypes'
  /\ GoodsTypes /\ UNCHANGED goodsVars => GoodsTypes'
  /\ RequestStateTypes /\ UNCHANGED reqVars => RequestStateTypes'
  BY DEF OrderTypes, DeliveryTypes, InvoiceTypes, GoodsTypes, RequestStateTypes,
         orderVars, doVars, invVars, goodsVars, reqVars

\* The rows a total over delivery orders counts.
QuantityTypes ==
  /\ doQty \in [DOs -> [Lines -> Nat]]
  /\ doReturned \in [DOs -> [Lines -> Nat]]

-----------------------------------------------------------------------------
(* How the totals move *)

\* A step that changes one delivery order's claim changes the claimed total
\* by as much.
LEMMA ClaimedStep ==
  ASSUME QuantityTypes, QuantityTypes', NEW l \in Lines, NEW x \in DOs,
         \A d \in DOs : d # x => ClaimedBy(d, l)' = ClaimedBy(d, l)
  PROVE  Claimed(l)' = Claimed(l) - ClaimedBy(x, l) + ClaimedBy(x, l)'
<1> DEFINE f == [d \in DOs |-> ClaimedBy(d, l)]
           g == [d \in DOs |-> ClaimedBy(d, l)']
<1>1. f \in [1..MaxDeliveries -> Int] /\ g \in [1..MaxDeliveries -> Int]
  BY DEF QuantityTypes, ClaimedBy, OutOn, DOs
<1>2. \A d \in 1..MaxDeliveries : d # x => g[d] = f[d]
  BY DEF DOs
<1>3. f[x] = ClaimedBy(x, l) /\ g[x] = ClaimedBy(x, l)' /\ x \in 1..MaxDeliveries
  BY DEF DOs
<1>4. Claimed(l) = SumTo(f, MaxDeliveries) /\ Claimed(l)' = SumTo(g, MaxDeliveries)
  BY DEF Claimed
<1> HIDE DEF f, g
<1>5. SumTo(g, MaxDeliveries) = SumTo(f, MaxDeliveries) - f[x] + g[x]
  BY <1>1, <1>2, <1>3, SumToChange, CountsAssumption
<1> QED BY <1>3, <1>4, <1>5

\* A step after which no delivery order claims more leaves no larger total.
LEMMA ClaimedMono ==
  ASSUME QuantityTypes, QuantityTypes', NEW l \in Lines,
         \A d \in DOs : ClaimedBy(d, l)' <= ClaimedBy(d, l)
  PROVE  Claimed(l)' <= Claimed(l)
<1> DEFINE f == [d \in DOs |-> ClaimedBy(d, l)]
           g == [d \in DOs |-> ClaimedBy(d, l)']
<1>1. f \in [1..MaxDeliveries -> Int] /\ g \in [1..MaxDeliveries -> Int]
  BY DEF QuantityTypes, ClaimedBy, OutOn, DOs
<1>2. \A d \in 1..MaxDeliveries : g[d] <= f[d]
  BY DEF DOs
<1>4. Claimed(l) = SumTo(f, MaxDeliveries) /\ Claimed(l)' = SumTo(g, MaxDeliveries)
  BY DEF Claimed
<1> HIDE DEF f, g
<1> QED BY <1>1, <1>2, <1>4, SumToMono, CountsAssumption

\* No delivery order claims more than the claimed total.
LEMMA ClaimedBound ==
  ASSUME QuantityTypes, DeliveryShape, NEW l \in Lines
  PROVE  /\ Claimed(l) \in Nat
         /\ \A d \in DOs : ClaimedBy(d, l) \in Nat /\ ClaimedBy(d, l) <= Claimed(l)
<1> DEFINE f == [d \in DOs |-> ClaimedBy(d, l)]
<1>1. \A d \in DOs : ClaimedBy(d, l) \in Nat
  BY DEF QuantityTypes, DeliveryShape, ClaimedBy, OutOn
<1>2. f \in [1..MaxDeliveries -> Nat] /\ \A d \in DOs : f[d] = ClaimedBy(d, l)
  BY <1>1 DEF DOs
<1>3. Claimed(l) = SumTo(f, MaxDeliveries)
  BY DEF Claimed
<1> HIDE DEF f
<1>4. /\ SumTo(f, MaxDeliveries) \in Nat
      /\ \A d \in 1..MaxDeliveries : f[d] <= SumTo(f, MaxDeliveries)
  BY <1>2, SumToNat, CountsAssumption
<1> QED BY <1>1, <1>2, <1>3, <1>4 DEF DOs

\* The quantities a request lists are naturals.
LEMMA RequestTypes == \A q \in Requests : q \in [Lines -> Nat]
  BY CountsAssumption DEF Requests

\* A step that leaves the deliveries and the claims alone keeps both
\* invariants about them.
LEMMA DeliveriesUntouched ==
  ASSUME DeliveryShape, NoOverShipment, UNCHANGED <<delivered, doVars, rescheduling>>
  PROVE  DeliveryShape' /\ NoOverShipment'
<1>1. DeliveryShape'
  BY DEF DeliveryShape, doVars
<1>2. \A l \in Lines : Claimed(l)' = Claimed(l)
  BY DEF Claimed, ClaimedBy, OutOn, doVars
<1>3. NoOverShipment'
  BY <1>2 DEF NoOverShipment
<1> QED BY <1>1, <1>3

-----------------------------------------------------------------------------
(* The steps of the delivery side *)

\* create() claims on the order lines exactly what it packs.
LEMMA CreateDeliveryStep ==
  ASSUME DeliveryInv, NEW d \in DOs, NEW q \in Requests, CreateDelivery(d, q)
  PROVE  DeliveryInv'
<1> USE RequestTypes
<1>1. /\ d \in DOs /\ doStatus[d] = "NONE" /\ ~shippedAt[d] /\ doReturned[d] = None
      /\ \A l \in Lines : q[l] \in Nat /\ delivered[l] + q[l] <= Ordered[l]
  BY DEF DeliveryInv, DeliveryShape, CreateDelivery
<1>2. TypeOK'
  <2>1. OrderTypes'
    BY DEF CreateDelivery, StatusFor, OrderStatuses, DeliveryInv, TypeOK, OrderTypes
  <2>2. DeliveryTypes'
    BY DEF CreateDelivery, DeliveryInv, TypeOK, DeliveryTypes, DOStatuses
  <2> QED BY <2>1, <2>2, TypeTables, UntouchedTables DEF CreateDelivery, DeliveryInv
<1>3. DeliveryShape'
  BY <1>1 DEF CreateDelivery, DeliveryInv, DeliveryShape, TypeOK, reqVars, LeftStatuses, None
<1>4. ASSUME NEW l \in Lines
      PROVE  Claimed(l)' = Claimed(l) + q[l]
  <2>1. \A e \in DOs : e # d => ClaimedBy(e, l)' = ClaimedBy(e, l)
    BY DEF CreateDelivery, DeliveryInv, TypeOK, ClaimedBy, OutOn
  <2>2. ClaimedBy(d, l) = 0 /\ ClaimedBy(d, l)' = q[l]
    BY <1>1 DEF CreateDelivery, DeliveryInv, TypeOK, ClaimedBy, OutOn
  <2>3. Claimed(l)' = Claimed(l) - ClaimedBy(d, l) + ClaimedBy(d, l)'
    BY <1>2, <2>1, ClaimedStep DEF DeliveryInv, TypeOK, QuantityTypes
  <2>4. Claimed(l) \in Nat
    BY ClaimedBound DEF DeliveryInv, TypeOK, QuantityTypes
  <2> QED BY <1>1, <2>2, <2>3, <2>4
<1>5. NoOverShipment'
  <2> SUFFICES ASSUME NEW l \in Lines
               PROVE  Claimed(l)' <= delivered'[l] /\ delivered'[l] <= Ordered[l]
    BY DEF NoOverShipment
  <2>1. delivered'[l] = delivered[l] + q[l] /\ delivered[l] \in Nat
    BY DEF CreateDelivery, DeliveryInv, TypeOK
  <2>2. Claimed(l) \in Nat /\ Claimed(l) <= delivered[l]
    BY ClaimedBound DEF DeliveryInv, NoOverShipment, TypeOK, QuantityTypes
  <2> QED BY <1>1, <1>4, <2>1, <2>2, OrderAssumption
<1> QED BY <1>2, <1>3, <1>5 DEF DeliveryInv

\* A step that moves no claim of any delivery order, and no claim of the
\* order, keeps every unit covered.
LEMMA ClaimsUntouched ==
  ASSUME DeliveryInv, QuantityTypes', delivered' = delivered,
         \A l \in Lines, d \in DOs : ClaimedBy(d, l)' <= ClaimedBy(d, l)
  PROVE  NoOverShipment'
<1> SUFFICES ASSUME NEW l \in Lines
             PROVE  Claimed(l)' <= delivered[l] /\ delivered[l] <= Ordered[l]
  BY DEF NoOverShipment
<1>1. QuantityTypes /\ QuantityTypes'
  BY DEF DeliveryInv, TypeOK, QuantityTypes
<1>2. Claimed(l)' <= Claimed(l)
  BY <1>1, ClaimedMono
<1>3. Claimed(l) \in Nat
  BY <1>1, ClaimedBound DEF DeliveryInv
<1>4. Claimed(l)' \in Int
  <2> DEFINE g == [d \in DOs |-> ClaimedBy(d, l)']
  <2>1. g \in [1..MaxDeliveries -> Int]
    BY <1>1 DEF QuantityTypes, ClaimedBy, OutOn, DOs
  <2>2. Claimed(l)' = SumTo(g, MaxDeliveries)
    BY DEF Claimed
  <2> HIDE DEF g
  <2> QED BY <2>1, <2>2, SumToInt, CountsAssumption
<1>5. Claimed(l) <= delivered[l] /\ delivered[l] <= Ordered[l]
  BY DEF DeliveryInv, NoOverShipment
<1> QED BY <1>2, <1>3, <1>4, <1>5, OrderAssumption DEF DeliveryInv, TypeOK

\* ship(): what was packed is out.
LEMMA ShipStep ==
  ASSUME DeliveryInv, NEW d \in DOs, Ship(d)
  PROVE  DeliveryInv'
<1>1. d \in DOs /\ doStatus[d] = "PACKED" /\ ~shippedAt[d] /\ doReturned[d] = None
  BY DEF DeliveryInv, DeliveryShape, Ship
<1>2. DeliveryTypes'
  BY DEF Ship, DeliveryInv, TypeOK, DeliveryTypes, DOStatuses, LeftStatuses
<1>3. GoodsTypes'
  BY DEF Ship, DeliveryInv, TypeOK, GoodsTypes
<1>4. TypeOK'
  BY <1>2, <1>3, TypeTables, UntouchedTables DEF Ship, DeliveryInv
<1>5. DeliveryShape'
  BY <1>1 DEF Ship, DeliveryInv, DeliveryShape, TypeOK, reqVars, LeftStatuses
<1>6. \A l \in Lines, e \in DOs : ClaimedBy(e, l)' = ClaimedBy(e, l) /\ ClaimedBy(e, l) \in Int
  <2> SUFFICES ASSUME NEW l \in Lines, NEW e \in DOs
               PROVE  ClaimedBy(e, l)' = ClaimedBy(e, l) /\ ClaimedBy(e, l) \in Int
    OBVIOUS
  <2>1. CASE e # d
    BY <2>1 DEF Ship, DeliveryInv, TypeOK, ClaimedBy, OutOn
  <2>2. CASE e = d
    BY <2>2, <1>1 DEF Ship, DeliveryInv, TypeOK, ClaimedBy, OutOn, None
  <2> QED BY <2>1, <2>2
<1>7. NoOverShipment'
  <2>1. QuantityTypes' /\ delivered' = delivered
    BY <1>4 DEF Ship, TypeOK, QuantityTypes, orderVars
  <2> QED BY <1>6, <2>1, ClaimsUntouched
<1> QED BY <1>4, <1>5, <1>7 DEF DeliveryInv

\* recordFailedDelivery() and rescheduleDelivery() move a status between
\* two that both say the goods are out; so does a stale reschedule.
LEMMA StatusStep ==
  ASSUME DeliveryInv, NEW d \in DOs, NEW s \in LeftStatuses, shippedAt[d],
         doStatus' = [doStatus EXCEPT ![d] = s],
         UNCHANGED <<orderVars, doQty, doReturned, shippedAt, invVars, goodsVars>>,
         RequestStateTypes', rescheduling' \subseteq rescheduling
  PROVE  DeliveryInv'
<1>1. DeliveryTypes'
  BY DEF DeliveryInv, TypeOK, DeliveryTypes, DOStatuses
<1>2. TypeOK'
  BY <1>1, TypeTables, UntouchedTables DEF DeliveryInv
<1>3. DeliveryShape'
  BY DEF DeliveryInv, DeliveryShape, TypeOK, LeftStatuses
<1>4. \A l \in Lines, e \in DOs : ClaimedBy(e, l)' <= ClaimedBy(e, l)
  <2> SUFFICES ASSUME NEW l \in Lines, NEW e \in DOs
               PROVE  ClaimedBy(e, l)' <= ClaimedBy(e, l)
    OBVIOUS
  <2>1. doStatus[d] # "PACKED" /\ s # "PACKED"
    BY DEF DeliveryInv, DeliveryShape, LeftStatuses
  <2>2. doStatus'[e] = "PACKED" <=> doStatus[e] = "PACKED"
    BY <2>1 DEF DeliveryInv, TypeOK
  <2> QED BY <2>2 DEF DeliveryInv, TypeOK, ClaimedBy, OutOn
<1>5. NoOverShipment'
  <2>1. QuantityTypes' /\ delivered' = delivered
    BY <1>2 DEF TypeOK, QuantityTypes, orderVars
  <2> QED BY <1>4, <2>1, ClaimsUntouched
<1> QED BY <1>2, <1>3, <1>5 DEF DeliveryInv

\* cancel() gives back exactly what the delivery order claimed.
LEMMA CancelDeliveryStep ==
  ASSUME DeliveryInv, NEW d \in DOs, CancelDelivery(d)
  PROVE  DeliveryInv'
<1>1. d \in DOs /\ doStatus[d] = "PACKED" /\ ~shippedAt[d] /\ doReturned[d] = None
  BY DEF DeliveryInv, DeliveryShape, CancelDelivery
<1>2. QuantityTypes /\ QuantityTypes'
  BY DEF DeliveryInv, TypeOK, QuantityTypes, CancelDelivery
<1>3. ASSUME NEW l \in Lines
      PROVE  /\ delivered'[l] = delivered[l] - doQty[d][l]
             /\ delivered'[l] \in Nat
             /\ Claimed(l)' <= delivered'[l] /\ delivered'[l] <= Ordered[l]
  <2>1. \A e \in DOs : e # d => ClaimedBy(e, l)' = ClaimedBy(e, l)
    BY DEF CancelDelivery, DeliveryInv, TypeOK, ClaimedBy, OutOn
  <2>2. ClaimedBy(d, l) = doQty[d][l] /\ ClaimedBy(d, l)' = 0 /\ doQty[d][l] \in Nat
    BY <1>1 DEF CancelDelivery, DeliveryInv, TypeOK, ClaimedBy, OutOn
  <2>3. Claimed(l)' = Claimed(l) - ClaimedBy(d, l) + ClaimedBy(d, l)'
    BY <1>2, <2>1, ClaimedStep
  <2>4. Claimed(l) \in Nat /\ ClaimedBy(d, l) <= Claimed(l)
    BY <1>2, ClaimedBound DEF DeliveryInv
  <2>5. delivered'[l] = delivered[l] - doQty[d][l] /\ delivered[l] \in Nat
    BY DEF CancelDelivery, DeliveryInv, TypeOK
  <2>6. Claimed(l) <= delivered[l] /\ delivered[l] <= Ordered[l] /\ Ordered[l] \in Nat
    BY OrderAssumption DEF DeliveryInv, NoOverShipment
  <2> QED BY <2>2, <2>3, <2>4, <2>5, <2>6
<1>4. OrderTypes'
  <2>1. delivered' \in [Lines -> Nat]
    BY <1>3 DEF CancelDelivery
  <2> QED BY <2>1 DEF CancelDelivery, StatusFor, OrderStatuses, DeliveryInv, TypeOK, OrderTypes
<1>5. DeliveryTypes'
  BY DEF CancelDelivery, DeliveryInv, TypeOK, DeliveryTypes, DOStatuses
<1>6. TypeOK'
  BY <1>4, <1>5, TypeTables, UntouchedTables DEF CancelDelivery, DeliveryInv
<1>7. DeliveryShape'
  BY <1>1 DEF CancelDelivery, DeliveryInv, DeliveryShape, TypeOK, reqVars, LeftStatuses
<1>8. NoOverShipment'
  BY <1>3 DEF NoOverShipment
<1> QED BY <1>6, <1>7, <1>8 DEF DeliveryInv

\* recordReturn() frees on the order line exactly what came back, so the
\* lines never go below what other delivery orders hold.
LEMMA RecordReturnStep ==
  ASSUME DeliveryInv, NEW d \in DOs, NEW q \in Requests, RecordReturn(d, q)
  PROVE  DeliveryInv'
<1>1. /\ shippedAt[d] /\ doStatus[d] \in LeftStatuses
      /\ q \in [Lines -> Nat]
  BY RequestTypes DEF DeliveryInv, DeliveryShape, RecordReturn, LeftStatuses
<1>2. /\ doReturned' = [doReturned EXCEPT ![d] = [l \in Lines |-> doReturned[d][l] + q[l]]]
      /\ delivered' = [l \in Lines |-> delivered[l] - q[l]]
      /\ doQty' = doQty /\ shippedAt' = shippedAt
      /\ \E s \in {"RETURNED", "PARTIALLY_RETURNED", "SHIPPED"} :
           doStatus' = [doStatus EXCEPT ![d] = s]
      /\ \A l \in Lines : doReturned[d][l] + q[l] <= doQty[d][l] /\ q[l] <= delivered[l]
  BY DEF RecordReturn, ReturnStatus
<1>3. DeliveryTypes'
  BY <1>1, <1>2 DEF DeliveryInv, TypeOK, DeliveryTypes, DOStatuses, LeftStatuses
<1>4. QuantityTypes /\ QuantityTypes'
  BY <1>3 DEF DeliveryInv, TypeOK, DeliveryTypes, QuantityTypes
<1>5. ASSUME NEW l \in Lines
      PROVE  /\ delivered'[l] \in Nat
             /\ Claimed(l)' <= delivered'[l] /\ delivered'[l] <= Ordered[l]
  <2>1. \A e \in DOs : e # d => ClaimedBy(e, l)' = ClaimedBy(e, l)
    BY <1>2 DEF DeliveryInv, TypeOK, ClaimedBy, OutOn
  <2>2. /\ ClaimedBy(d, l) = doQty[d][l] - doReturned[d][l]
        /\ ClaimedBy(d, l)' = doQty[d][l] - (doReturned[d][l] + q[l])
        /\ doQty[d][l] \in Nat /\ doReturned[d][l] \in Nat /\ q[l] \in Nat
    <3>1. doStatus[d] # "PACKED" /\ doStatus'[d] # "PACKED"
      BY <1>1, <1>2 DEF DeliveryInv, TypeOK, LeftStatuses
    <3>2. doReturned'[d][l] = doReturned[d][l] + q[l]
      BY <1>2 DEF DeliveryInv, TypeOK
    <3> QED BY <1>1, <1>2, <3>1, <3>2 DEF DeliveryInv, TypeOK, ClaimedBy, OutOn
  <2>3. Claimed(l)' = Claimed(l) - ClaimedBy(d, l) + ClaimedBy(d, l)'
    BY <1>4, <2>1, ClaimedStep
  <2>4. Claimed(l) \in Nat
    BY <1>4, ClaimedBound DEF DeliveryInv
  <2>5. delivered'[l] = delivered[l] - q[l] /\ delivered[l] \in Nat /\ q[l] <= delivered[l]
    BY <1>2 DEF DeliveryInv, TypeOK
  <2>6. Claimed(l) <= delivered[l] /\ delivered[l] <= Ordered[l] /\ Ordered[l] \in Nat
    BY OrderAssumption DEF DeliveryInv, NoOverShipment
  <2> QED BY <2>2, <2>3, <2>4, <2>5, <2>6
<1>6. OrderTypes'
  <2>1. delivered' \in [Lines -> Nat]
    BY <1>2, <1>5
  <2> QED BY <2>1 DEF RecordReturn, StatusFor, OrderStatuses, DeliveryInv, TypeOK, OrderTypes
<1>7. InvoiceTypes'
  <2>1. invCredited' \in [Invs -> [Lines -> Nat]]
    BY <1>1 DEF RecordReturn, DeliveryInv, TypeOK
  <2> QED BY <2>1 DEF RecordReturn, DeliveryInv, TypeOK, InvoiceTypes
<1>8. GoodsTypes'
  BY <1>1 DEF RecordReturn, DeliveryInv, TypeOK, GoodsTypes
<1>9. TypeOK'
  BY <1>3, <1>6, <1>7, <1>8, TypeTables, UntouchedTables DEF RecordReturn, DeliveryInv
<1>10. DeliveryShape'
  <2> SUFFICES ASSUME NEW e \in DOs
               PROVE  /\ doStatus'[e] \in {"NONE", "PACKED"} => ~shippedAt'[e] /\ doReturned'[e] = None
                      /\ doStatus'[e] \in LeftStatuses => shippedAt'[e]
                      /\ e \in rescheduling' => shippedAt'[e]
                      /\ \A l \in Lines : doReturned'[e][l] <= doQty'[e][l]
    BY DEF DeliveryShape
  <2>1. rescheduling' = rescheduling
    BY DEF RecordReturn, reqVars
  <2>2. CASE e = d
    BY <1>1, <1>2, <2>1, <2>2 DEF DeliveryInv, DeliveryShape, TypeOK, LeftStatuses
  <2>3. CASE e # d
    BY <1>1, <1>2, <2>1, <2>3 DEF DeliveryInv, DeliveryShape, TypeOK, LeftStatuses
  <2> QED BY <2>2, <2>3
<1>11. NoOverShipment'
  BY <1>5 DEF NoOverShipment
<1> QED BY <1>9, <1>10, <1>11 DEF DeliveryInv

\* voidInvoice() cancels what it read as packed: a claim can only end, and
\* what has left stays counted as out.
LEMMA VoidCommitStep ==
  ASSUME DeliveryInv, NEW i \in Invs, VoidCommit(i)
  PROVE  DeliveryInv'
<1>1. /\ UNCHANGED <<orderVars, doQty, doReturned, shippedAt, rescheduling>>
      /\ doStatus' = [d \in DOs |-> IF d \in voidPacked[i] THEN "CANCELLED" ELSE doStatus[d]]
  BY DEF VoidCommit
<1>2. DeliveryTypes'
  BY <1>1 DEF DeliveryInv, TypeOK, DeliveryTypes, DOStatuses
<1>3. InvoiceTypes'
  <2> DEFINE f == [l \in Lines |-> invFulfilled[i][l] - (IF invDirect[i] THEN Moved(invFulfilled[i][l]) ELSE 0)]
  <2>1. f \in [Lines -> Int]
    BY DEF DeliveryInv, TypeOK, Moved
  <2>2. invFulfilled' = [invFulfilled EXCEPT ![i] = f]
    BY DEF VoidCommit
  <2> HIDE DEF f
  <2>3. invFulfilled' \in [Invs -> [Lines -> Int]]
    BY <2>1, <2>2 DEF DeliveryInv, TypeOK
  <2>4. invStatus' \in [Invs -> InvStatuses]
    BY DEF VoidCommit, DeliveryInv, TypeOK, InvStatuses
  <2> QED BY <2>3, <2>4 DEF VoidCommit, DeliveryInv, TypeOK, InvoiceTypes
<1>4. GoodsTypes'
  BY DEF VoidCommit, DeliveryInv, TypeOK, GoodsTypes, Moved
<1>5. RequestStateTypes'
  BY DEF VoidCommit, DeliveryInv, TypeOK, RequestStateTypes
<1>6. TypeOK'
  BY <1>1, <1>2, <1>3, <1>4, <1>5, TypeTables, UntouchedTables DEF DeliveryInv
<1>7. DeliveryShape'
  BY <1>1 DEF DeliveryInv, DeliveryShape, TypeOK, LeftStatuses
<1>8. \A l \in Lines, d \in DOs : ClaimedBy(d, l)' <= ClaimedBy(d, l)
  <2> SUFFICES ASSUME NEW l \in Lines, NEW d \in DOs
               PROVE  ClaimedBy(d, l)' <= ClaimedBy(d, l)
    OBVIOUS
  <2>1. doStatus[d] = "PACKED" => ~shippedAt[d]
    BY DEF DeliveryInv, DeliveryShape
  <2> QED BY <1>1, <2>1 DEF DeliveryInv, TypeOK, ClaimedBy, OutOn
<1>9. NoOverShipment'
  <2>1. QuantityTypes' /\ delivered' = delivered
    BY <1>1, <1>6 DEF TypeOK, QuantityTypes, orderVars
  <2> QED BY <1>8, <2>1, ClaimsUntouched
<1> QED BY <1>6, <1>7, <1>9 DEF DeliveryInv

-----------------------------------------------------------------------------
(* The steps that leave the deliveries alone *)

\* confirm() and cancel() of the order.
LEMMA OrderStep ==
  ASSUME DeliveryInv, Confirm \/ CancelOrder
  PROVE  DeliveryInv'
<1>1. UNCHANGED <<delivered, doVars, invVars, goodsVars, reqVars>> /\ orderStatus' \in OrderStatuses
  BY DEF Confirm, CancelOrder, OrderStatuses
<1>2. OrderTypes'
  BY <1>1 DEF DeliveryInv, TypeOK, OrderTypes
<1>3. TypeOK'
  BY <1>1, <1>2, TypeTables, UntouchedTables DEF DeliveryInv
<1> QED BY <1>1, <1>3, DeliveriesUntouched DEF DeliveryInv, reqVars

\* A reschedule request reads FAILED: the goods are out.
LEMMA RescheduleReadStep ==
  ASSUME DeliveryInv, NEW d \in DOs, RescheduleRead(d)
  PROVE  DeliveryInv'
<1>1. RequestStateTypes'
  BY DEF RescheduleRead, DeliveryInv, TypeOK, RequestStateTypes
<1>2. TypeOK'
  BY <1>1, TypeTables, UntouchedTables DEF RescheduleRead, DeliveryInv
<1>3. DeliveryShape'
  BY DEF RescheduleRead, DeliveryInv, DeliveryShape, TypeOK, doVars, LeftStatuses
<1>4. NoOverShipment'
  <2>1. \A l \in Lines : Claimed(l)' = Claimed(l)
    BY DEF RescheduleRead, Claimed, ClaimedBy, OutOn, doVars
  <2> QED BY <2>1 DEF RescheduleRead, orderVars, DeliveryInv, NoOverShipment
<1> QED BY <1>2, <1>3, <1>4 DEF DeliveryInv

\* Drafting, editing and discarding an invoice.
LEMMA DraftStep ==
  ASSUME DeliveryInv, NEW i \in Invs,
         DraftInvoice(i) \/ DiscardDraft(i) \/ \E q \in Requests : UpdateDraft(i, q)
  PROVE  DeliveryInv'
<1>1. UNCHANGED <<orderVars, doVars, goodsVars, reqVars>>
  BY DEF DraftInvoice, DiscardDraft, UpdateDraft
<1>2. InvoiceTypes'
  <2>1. CASE DraftInvoice(i)
    BY <2>1, OrderAssumption DEF DraftInvoice, DeliveryInv, TypeOK, InvoiceTypes, InvStatuses
  <2>2. CASE DiscardDraft(i)
    BY <2>2 DEF DiscardDraft, DeliveryInv, TypeOK, InvoiceTypes, InvStatuses, None
  <2>3. ASSUME NEW q \in Requests, UpdateDraft(i, q) PROVE InvoiceTypes'
    BY <2>3, RequestTypes DEF UpdateDraft, DeliveryInv, TypeOK, InvoiceTypes
  <2> QED BY <2>1, <2>2, <2>3
<1>3. TypeOK'
  BY <1>1, <1>2, TypeTables, UntouchedTables DEF DeliveryInv
<1> QED BY <1>1, <1>3, DeliveriesUntouched DEF DeliveryInv, orderVars, reqVars

\* What fulfill() reports is an integer ...
LEMMA FulfillInt == \A a, b \in Int : Fulfill(a, b) \in Int
  BY DEF Fulfill

\* ... and what really moves is a natural.
LEMMA MovedNat == \A a \in Int : Moved(a) \in Nat
  BY DEF Moved

\* issue(): the goods move on the books of the invoice, not of a delivery.
LEMMA IssueStep ==
  ASSUME DeliveryInv, NEW i \in Invs, Issue(i)
  PROVE  DeliveryInv'
<1> DEFINE taken == IF OwnedByDelivery THEN None
                    ELSE [l \in Lines |-> Moved(Fulfill(stock[l], invQty[i][l]))]
<1>1. taken \in [Lines -> Nat]
  <2>1. \A l \in Lines : stock[l] \in Int /\ invQty[i][l] \in Int
    BY DEF DeliveryInv, TypeOK
  <2>2. \A l \in Lines : Moved(Fulfill(stock[l], invQty[i][l])) \in Nat
    BY <2>1, FulfillInt, MovedNat
  <2> QED BY <2>2 DEF None
<1>2. /\ invFulfilled' = [invFulfilled EXCEPT ![i] = taken]
      /\ stock' = [l \in Lines |-> stock[l] - taken[l]]
      /\ cogs' = [l \in Lines |-> cogs[l] + taken[l]]
      /\ policy' = policy
      /\ UNCHANGED <<orderVars, doVars, invLinked, invQty, invCredited, reqVars>>
  BY DEF Issue
<1> HIDE DEF taken
<1>3. InvoiceTypes'
  <2>1. invDirect' \in [Invs -> BOOLEAN] /\ invStatus' \in [Invs -> InvStatuses]
    BY DEF Issue, DeliveryInv, TypeOK, InvStatuses, OwnedByDelivery
  <2>2. invFulfilled' \in [Invs -> [Lines -> Int]]
    BY <1>1, <1>2 DEF DeliveryInv, TypeOK
  <2> QED BY <1>2, <2>1, <2>2 DEF DeliveryInv, TypeOK, InvoiceTypes
<1>4. GoodsTypes'
  BY <1>1, <1>2 DEF DeliveryInv, TypeOK, GoodsTypes
<1>5. TypeOK'
  BY <1>2, <1>3, <1>4, TypeTables, UntouchedTables DEF DeliveryInv
<1> QED BY <1>2, <1>5, DeliveriesUntouched DEF DeliveryInv, orderVars, reqVars

\* What an edit keeps fulfilled, adds and puts back are integers.
LEMMA EditInt ==
  ASSUME TypeOK, NEW i \in Invs, NEW q \in Requests
  PROVE  \A l \in Lines : /\ Kept(i, q, l) \in Int
                          /\ Added(i, q, l) \in Int
                          /\ Restocked(i, q, l) \in Int
<1> SUFFICES ASSUME NEW l \in Lines
             PROVE  Kept(i, q, l) \in Int /\ Added(i, q, l) \in Int /\ Restocked(i, q, l) \in Int
  OBVIOUS
<1>1. /\ q[l] \in Nat /\ stock[l] \in Int /\ invFulfilled[i][l] \in Int
      /\ q[l] - invQty[i][l] \in Int
  BY RequestTypes DEF TypeOK
<1>2. Added(i, q, l) \in Int
  <2>1. Fulfill(stock[l], q[l] - invQty[i][l]) \in Int
    BY <1>1, FulfillInt, Zenon
  <2> QED BY <2>1 DEF Added
<1>3. Kept(i, q, l) \in Int /\ Restocked(i, q, l) \in Int
  BY <1>1, <1>2, MovedNat DEF Kept, Restocked
<1> QED BY <1>2, <1>3

\* editIssuedInvoice(): as issue().
LEMMA EditStep ==
  ASSUME DeliveryInv, NEW i \in Invs, NEW q \in Requests, EditIssued(i, q)
  PROVE  DeliveryInv'
<1>1. /\ UNCHANGED <<orderVars, doVars, invStatus, invDirect, invCredited, policy, reqVars>>
      /\ invFulfilled' = [invFulfilled EXCEPT ![i] = [l \in Lines |-> Kept(i, q, l)]]
      /\ invQty' = [invQty EXCEPT ![i] = q]
      /\ invLinked' = [invLinked EXCEPT ![i] = FALSE]
      /\ stock' = [l \in Lines |-> stock[l] + Restocked(i, q, l) - Moved(Added(i, q, l))]
      /\ cogs' = [l \in Lines |-> cogs[l] - Moved(invFulfilled[i][l]) + Moved(Kept(i, q, l))]
  BY DEF EditIssued
<1>2. \A l \in Lines : /\ Kept(i, q, l) \in Int /\ Restocked(i, q, l) \in Int
                       /\ Moved(Added(i, q, l)) \in Int /\ Moved(Kept(i, q, l)) \in Int
                       /\ Moved(invFulfilled[i][l]) \in Int
  <2> SUFFICES ASSUME NEW l \in Lines
               PROVE  /\ Kept(i, q, l) \in Int /\ Restocked(i, q, l) \in Int
                      /\ Moved(Added(i, q, l)) \in Int /\ Moved(Kept(i, q, l)) \in Int
                      /\ Moved(invFulfilled[i][l]) \in Int
    OBVIOUS
  <2>1. /\ Kept(i, q, l) \in Int /\ Added(i, q, l) \in Int /\ Restocked(i, q, l) \in Int
        /\ invFulfilled[i][l] \in Int
    BY EditInt DEF DeliveryInv, TypeOK
  <2> QED BY <2>1, MovedNat
<1>3. InvoiceTypes'
  BY <1>1, <1>2, RequestTypes DEF DeliveryInv, TypeOK, InvoiceTypes
<1>4. GoodsTypes'
  BY <1>1, <1>2 DEF DeliveryInv, TypeOK, GoodsTypes
<1>5. TypeOK'
  BY <1>1, <1>3, <1>4, TypeTables, UntouchedTables DEF DeliveryInv
<1> QED BY <1>1, <1>5, DeliveriesUntouched DEF DeliveryInv, orderVars, reqVars

\* voidInvoice()'s reads, and a change of the stock policy.
LEMMA QuietStep ==
  ASSUME DeliveryInv,
         \/ \E i \in Invs : VoidBegin(i) \/ VoidList(i)
         \/ \E p \in Policies : SetPolicy(p)
  PROVE  DeliveryInv'
<1>1. UNCHANGED <<orderVars, doVars, invVars, rescheduling>>
  BY DEF VoidBegin, VoidList, SetPolicy, reqVars
<1>2. RequestStateTypes' /\ GoodsTypes'
  <2>1. ASSUME NEW i \in Invs, VoidBegin(i) PROVE RequestStateTypes' /\ GoodsTypes'
    BY <2>1 DEF VoidBegin, DeliveryInv, TypeOK, RequestStateTypes, GoodsTypes, goodsVars
  <2>2. ASSUME NEW i \in Invs, VoidList(i) PROVE RequestStateTypes' /\ GoodsTypes'
    <3>1. voidPacked' \in [Invs -> SUBSET DOs]
      <4>1. {d \in Reaches(i) : doStatus[d] = "PACKED"} \in SUBSET DOs
        BY DEF Reaches
      <4> QED BY <2>2, <4>1 DEF VoidList, DeliveryInv, TypeOK
    <3> QED BY <2>2, <3>1 DEF VoidList, DeliveryInv, TypeOK, RequestStateTypes, GoodsTypes, goodsVars
  <2>3. ASSUME NEW p \in Policies, SetPolicy(p) PROVE RequestStateTypes' /\ GoodsTypes'
    BY <2>3 DEF SetPolicy, DeliveryInv, TypeOK, RequestStateTypes, GoodsTypes, reqVars
  <2> QED BY <2>1, <2>2, <2>3
<1>3. TypeOK'
  BY <1>1, <1>2, TypeTables, UntouchedTables DEF DeliveryInv
<1> QED BY <1>1, <1>3, DeliveriesUntouched DEF DeliveryInv, orderVars

-----------------------------------------------------------------------------
(* The theorems of the delivery side *)

\* Before the first request nothing is claimed.
LEMMA DeliveryInit == Init => DeliveryInv
<1> SUFFICES ASSUME Init PROVE DeliveryInv
  OBVIOUS
<1>1. None \in [Lines -> Nat]
  BY DEF None
<1>2. TypeOK
  <2>1. OrderTypes /\ DeliveryTypes
    BY <1>1 DEF Init, OrderTypes, DeliveryTypes, OrderStatuses, DOStatuses
  <2>2. InvoiceTypes
    BY <1>1 DEF Init, InvoiceTypes, InvStatuses
  <2>3. GoodsTypes /\ RequestStateTypes
    BY <1>1, OrderAssumption DEF Init, GoodsTypes, RequestStateTypes
  <2> QED BY <2>1, <2>2, <2>3, TypeTables
<1>3. DeliveryShape
  BY DEF Init, DeliveryShape, LeftStatuses, None
<1>4. ASSUME NEW l \in Lines PROVE Claimed(l) = 0
  <2>1. [d \in DOs |-> ClaimedBy(d, l)] = [d \in 1..MaxDeliveries |-> 0]
    BY DEF Init, ClaimedBy, OutOn, DOs, None
  <2> QED BY <2>1, SumToZero, CountsAssumption DEF Claimed
<1>5. NoOverShipment
  BY <1>4, OrderAssumption DEF Init, NoOverShipment, None
<1> QED BY <1>2, <1>3, <1>5 DEF DeliveryInv

\* Every action keeps the invariant.
LEMMA DeliveryStep == DeliveryInv /\ [Next]_vars => DeliveryInv'
<1> SUFFICES ASSUME DeliveryInv, [Next]_vars PROVE DeliveryInv'
  OBVIOUS
<1>1. CASE Confirm \/ CancelOrder
  BY <1>1, OrderStep
<1>2. ASSUME NEW d \in DOs, NEW q \in Requests, CreateDelivery(d, q) PROVE DeliveryInv'
  BY <1>2, CreateDeliveryStep
<1>3. ASSUME NEW d \in DOs, Ship(d) PROVE DeliveryInv'
  BY <1>3, ShipStep
<1>4. ASSUME NEW d \in DOs, FailDelivery(d) PROVE DeliveryInv'
  <2>1. shippedAt[d] /\ "FAILED" \in LeftStatuses
    BY <1>4 DEF FailDelivery, DeliveryInv, DeliveryShape, LeftStatuses
  <2>2. RequestStateTypes' /\ rescheduling' \subseteq rescheduling
    BY <1>4, TypeTables, UntouchedTables DEF FailDelivery, DeliveryInv, reqVars
  <2> QED BY <1>4, <2>1, <2>2, StatusStep DEF FailDelivery
<1>5. ASSUME NEW d \in DOs, RescheduleRead(d) PROVE DeliveryInv'
  BY <1>5, RescheduleReadStep
<1>6. ASSUME NEW d \in DOs, RescheduleWrite(d) PROVE DeliveryInv'
  <2>1. shippedAt[d] /\ "SHIPPED" \in LeftStatuses
    BY <1>6 DEF RescheduleWrite, DeliveryInv, DeliveryShape, LeftStatuses
  <2>2. RequestStateTypes' /\ rescheduling' \subseteq rescheduling
    BY <1>6 DEF RescheduleWrite, DeliveryInv, TypeOK, RequestStateTypes
  <2> QED BY <1>6, <2>1, <2>2, StatusStep DEF RescheduleWrite
<1>7. ASSUME NEW d \in DOs, CancelDelivery(d) PROVE DeliveryInv'
  BY <1>7, CancelDeliveryStep
<1>8. ASSUME NEW d \in DOs, NEW q \in Requests, RecordReturn(d, q) PROVE DeliveryInv'
  BY <1>8, RecordReturnStep
<1>9. ASSUME NEW i \in Invs,
             DraftInvoice(i) \/ DiscardDraft(i) \/ \E q \in Requests : UpdateDraft(i, q)
      PROVE  DeliveryInv'
  BY <1>9, DraftStep
<1>10. ASSUME NEW i \in Invs, Issue(i) PROVE DeliveryInv'
  BY <1>10, IssueStep
<1>11. ASSUME NEW i \in Invs, NEW q \in Requests, EditIssued(i, q) PROVE DeliveryInv'
  BY <1>11, EditStep
<1>12. ASSUME NEW i \in Invs, VoidCommit(i) PROVE DeliveryInv'
  BY <1>12, VoidCommitStep
<1>13. CASE \/ \E i \in Invs : VoidBegin(i) \/ VoidList(i)
            \/ \E p \in Policies : SetPolicy(p)
  BY <1>13, QuietStep
<1>14. CASE UNCHANGED vars
  <2>1. TypeOK'
    BY <1>14, TypeTables, UntouchedTables DEF vars, DeliveryInv
  <2> QED BY <1>14, <2>1, DeliveriesUntouched DEF vars, DeliveryInv, orderVars, reqVars
<1> QED BY <1>1, <1>2, <1>3, <1>4, <1>5, <1>6, <1>7, <1>8, <1>9, <1>10, <1>11, <1>12, <1>13, <1>14
        DEF Next

\* The strengthened invariant holds of every behaviour.
THEOREM DeliveryInvariant == Spec => []DeliveryInv
  BY DeliveryInit, DeliveryStep, PTL DEF Spec

\* The variables keep their types: in particular no return or cancellation
\* drives an order line's deliveredQuantity below zero.
THEOREM TypeCorrect == Spec => []TypeOK
<1>1. DeliveryInv => TypeOK
  BY DEF DeliveryInv
<1> QED BY <1>1, DeliveryInvariant, PTL

\* What delivery orders hold of a line is covered by its deliveredQuantity,
\* and never exceeds what was ordered, whatever requests overlap.
THEOREM NeverOverShips == Spec => []NoOverShipment
<1>1. DeliveryInv => NoOverShipment
  BY DEF DeliveryInv
<1> QED BY <1>1, DeliveryInvariant, PTL

-----------------------------------------------------------------------------
(***************************************************************************)
(* Where the goods of an order are: stock, deliveries, direct sales and    *)
(* the cost of goods sold account for every unit.                          *)
(*                                                                         *)
(* These theorems suppose that the organisation's stock policy does not    *)
(* change while the order lives.  They fail without that: after a switch   *)
(* from OVERSELL to BLOCK, editIssuedInvoice() books a fulfilment that     *)
(* did not happen (see the README).                                        *)
(***************************************************************************)

FixedPolicy == \A p, q \in Policies : p = q

\* What an invoice's fulfilment columns say of each other and of its
\* status, and that a strict organisation never oversells.
InvoiceShape ==
  /\ \A i \in Invs : /\ invDirect[i] => invStatus[i] \in {"ISSUED", "VOID"}
                     /\ \A l \in Lines : invFulfilled[i][l] >= 0
  /\ policy = "BLOCK" => \A l \in Lines : stock[l] >= 0

GoodsInv == DeliveryInv /\ InvoiceShape /\ StockConserved /\ CogsFollowsStock

FulfilmentTypes ==
  /\ invDirect \in [Invs -> BOOLEAN]
  /\ invFulfilled \in [Invs -> [Lines -> Int]]

-----------------------------------------------------------------------------
(* How the totals move *)

\* A step that changes what one delivery order has out changes the total
\* out by as much.
LEMMA NetShippedStep ==
  ASSUME QuantityTypes, QuantityTypes', NEW l \in Lines, NEW x \in DOs,
         \A d \in DOs : d # x => OutOn(d, l)' = OutOn(d, l)
  PROVE  NetShipped(l)' = NetShipped(l) - OutOn(x, l) + OutOn(x, l)'
<1> DEFINE f == [d \in DOs |-> OutOn(d, l)]
           g == [d \in DOs |-> OutOn(d, l)']
<1>1. f \in [1..MaxDeliveries -> Int] /\ g \in [1..MaxDeliveries -> Int]
  BY DEF QuantityTypes, OutOn, DOs
<1>2. \A d \in 1..MaxDeliveries : d # x => g[d] = f[d]
  BY DEF DOs
<1>3. f[x] = OutOn(x, l) /\ g[x] = OutOn(x, l)' /\ x \in 1..MaxDeliveries
  BY DEF DOs
<1>4. NetShipped(l) = SumTo(f, MaxDeliveries) /\ NetShipped(l)' = SumTo(g, MaxDeliveries)
  BY DEF NetShipped
<1> HIDE DEF f, g
<1>5. SumTo(g, MaxDeliveries) = SumTo(f, MaxDeliveries) - f[x] + g[x]
  BY <1>1, <1>2, <1>3, SumToChange, CountsAssumption
<1> QED BY <1>3, <1>4, <1>5

\* The same of what one invoice has taken.
LEMMA DirectlyOutStep ==
  ASSUME FulfilmentTypes, FulfilmentTypes', NEW l \in Lines, NEW x \in Invs,
         \A i \in Invs : i # x => TakenBy(i, l)' = TakenBy(i, l)
  PROVE  DirectlyOut(l)' = DirectlyOut(l) - TakenBy(x, l) + TakenBy(x, l)'
<1> DEFINE f == [i \in Invs |-> TakenBy(i, l)]
           g == [i \in Invs |-> TakenBy(i, l)']
<1>1. f \in [1..MaxInvoices -> Int] /\ g \in [1..MaxInvoices -> Int]
  BY DEF FulfilmentTypes, TakenBy, Moved, Invs
<1>2. \A i \in 1..MaxInvoices : i # x => g[i] = f[i]
  BY DEF Invs
<1>3. f[x] = TakenBy(x, l) /\ g[x] = TakenBy(x, l)' /\ x \in 1..MaxInvoices
  BY DEF Invs
<1>4. DirectlyOut(l) = SumTo(f, MaxInvoices) /\ DirectlyOut(l)' = SumTo(g, MaxInvoices)
  BY DEF DirectlyOut
<1> HIDE DEF f, g
<1>5. SumTo(g, MaxInvoices) = SumTo(f, MaxInvoices) - f[x] + g[x]
  BY <1>1, <1>2, <1>3, SumToChange, CountsAssumption
<1> QED BY <1>3, <1>4, <1>5

\* The totals are integers.
LEMMA GoodsTotalsInt ==
  ASSUME QuantityTypes, FulfilmentTypes, NEW l \in Lines
  PROVE  NetShipped(l) \in Int /\ DirectlyOut(l) \in Int
<1> DEFINE f == [d \in DOs |-> OutOn(d, l)]
           g == [i \in Invs |-> TakenBy(i, l)]
<1>1. f \in [1..MaxDeliveries -> Int] /\ g \in [1..MaxInvoices -> Int]
  BY DEF QuantityTypes, FulfilmentTypes, OutOn, TakenBy, Moved, DOs, Invs
<1>2. NetShipped(l) = SumTo(f, MaxDeliveries) /\ DirectlyOut(l) = SumTo(g, MaxInvoices)
  BY DEF NetShipped, DirectlyOut
<1> HIDE DEF f, g
<1> QED BY <1>1, <1>2, SumToInt, CountsAssumption

\* Steps that write no delivery order's, or no invoice's, goods.
LEMMA NetShippedUntouched ==
  ASSUME \A d \in DOs, l \in Lines : OutOn(d, l)' = OutOn(d, l)
  PROVE  \A l \in Lines : NetShipped(l)' = NetShipped(l)
<1> TAKE l \in Lines
<1>1. [d \in DOs |-> OutOn(d, l)'] = [d \in DOs |-> OutOn(d, l)]
  OBVIOUS
<1>2. NetShipped(l)' = SumTo([d \in DOs |-> OutOn(d, l)'], MaxDeliveries)
  BY DEF NetShipped
<1> QED BY <1>1, <1>2, Zenon DEF NetShipped

\* An action that leaves the invoice rows alone leaves what left with them.
LEMMA DirectlyOutUntouched ==
  ASSUME UNCHANGED <<invDirect, invFulfilled>>
  PROVE  \A l \in Lines : DirectlyOut(l)' = DirectlyOut(l)
  BY DEF DirectlyOut, TakenBy

-----------------------------------------------------------------------------
(* The steps *)

\* A step that moves no goods keeps them accounted for.
LEMMA NoGoodsStep ==
  ASSUME GoodsInv, DeliveryInv',
         UNCHANGED <<policy, stock, cogs, invDirect, invFulfilled>>,
         \A i \in Invs : invDirect[i] => invStatus'[i] \in {"ISSUED", "VOID"},
         \A d \in DOs, l \in Lines : OutOn(d, l)' = OutOn(d, l)
  PROVE  GoodsInv'
<1>1. InvoiceShape'
  BY DEF GoodsInv, InvoiceShape
<1>2. StockConserved' /\ CogsFollowsStock'
  BY NetShippedUntouched, DirectlyOutUntouched DEF GoodsInv, StockConserved, CogsFollowsStock
<1> QED BY <1>1, <1>2 DEF GoodsInv

\* ship(): from the shelf onto the delivery order, at cost.
LEMMA ShipGoods ==
  ASSUME GoodsInv, DeliveryInv', NEW d \in DOs, Ship(d)
  PROVE  GoodsInv'
<1>1. /\ doStatus[d] = "PACKED" /\ ~shippedAt[d] /\ doReturned[d] = None
      /\ UNCHANGED <<orderVars, doQty, doReturned, invVars, policy, reqVars>>
      /\ shippedAt' = [shippedAt EXCEPT ![d] = TRUE]
      /\ stock' = [l \in Lines |-> stock[l] - doQty[d][l]]
      /\ cogs' = [l \in Lines |-> cogs[l] + doQty[d][l]]
      /\ \A l \in Lines : doQty[d][l] > 0 => stock[l] >= doQty[d][l]
  BY DEF Ship, GoodsInv, DeliveryInv, DeliveryShape
<1>2. QuantityTypes /\ QuantityTypes' /\ FulfilmentTypes
  BY DEF GoodsInv, DeliveryInv, TypeOK, QuantityTypes, FulfilmentTypes
<1>3. ASSUME NEW l \in Lines
      PROVE  /\ stock'[l] + NetShipped(l)' + DirectlyOut(l)' = Opening[l]
             /\ cogs'[l] = Opening[l] - stock'[l]
             /\ (policy = "BLOCK" => stock'[l] >= 0)
  <2>1. \A e \in DOs : e # d => OutOn(e, l)' = OutOn(e, l)
    BY <1>1 DEF GoodsInv, DeliveryInv, TypeOK, OutOn
  <2>2. OutOn(d, l) = 0 /\ OutOn(d, l)' = doQty[d][l] /\ doQty[d][l] \in Nat
    BY <1>1 DEF GoodsInv, DeliveryInv, TypeOK, OutOn, None
  <2>3. NetShipped(l)' = NetShipped(l) - OutOn(d, l) + OutOn(d, l)'
    BY <1>2, <2>1, NetShippedStep
  <2>4. DirectlyOut(l)' = DirectlyOut(l)
    BY <1>1, DirectlyOutUntouched DEF invVars
  <2>5. NetShipped(l) \in Int /\ DirectlyOut(l) \in Int
    BY <1>2, GoodsTotalsInt
  <2>6. /\ stock[l] \in Int /\ cogs[l] \in Int /\ Opening[l] \in Nat
        /\ stock'[l] = stock[l] - doQty[d][l] /\ cogs'[l] = cogs[l] + doQty[d][l]
        /\ (policy = "BLOCK" => stock[l] >= 0)
        /\ stock[l] + NetShipped(l) + DirectlyOut(l) = Opening[l]
        /\ cogs[l] = Opening[l] - stock[l]
    BY <1>1, OrderAssumption DEF GoodsInv, DeliveryInv, TypeOK, InvoiceShape, StockConserved, CogsFollowsStock
  <2> QED BY <1>1, <2>2, <2>3, <2>4, <2>5, <2>6
<1>4. InvoiceShape'
  BY <1>1, <1>3 DEF GoodsInv, InvoiceShape, invVars
<1> QED BY <1>3, <1>4 DEF GoodsInv, StockConserved, CogsFollowsStock

\* recordReturn(): back on the shelf, its cost reversed.
LEMMA ReturnGoods ==
  ASSUME GoodsInv, DeliveryInv', NEW d \in DOs, NEW q \in Requests, RecordReturn(d, q)
  PROVE  GoodsInv'
<1>1. /\ shippedAt[d] /\ q \in [Lines -> Nat]
      /\ UNCHANGED <<doQty, shippedAt, invStatus, invDirect, invFulfilled, policy>>
      /\ doReturned' = [doReturned EXCEPT ![d] = [l \in Lines |-> doReturned[d][l] + q[l]]]
      /\ stock' = [l \in Lines |-> stock[l] + q[l]]
      /\ cogs' = [l \in Lines |-> cogs[l] - q[l]]
  BY RequestTypes DEF RecordReturn, GoodsInv, DeliveryInv, DeliveryShape, LeftStatuses
<1>2. QuantityTypes /\ QuantityTypes' /\ FulfilmentTypes
  BY DEF GoodsInv, DeliveryInv, TypeOK, QuantityTypes, FulfilmentTypes
<1>3. ASSUME NEW l \in Lines
      PROVE  /\ stock'[l] + NetShipped(l)' + DirectlyOut(l)' = Opening[l]
             /\ cogs'[l] = Opening[l] - stock'[l]
             /\ (policy = "BLOCK" => stock'[l] >= 0)
  <2>1. \A e \in DOs : e # d => OutOn(e, l)' = OutOn(e, l)
    BY <1>1 DEF GoodsInv, DeliveryInv, TypeOK, OutOn
  <2>2. /\ OutOn(d, l) \in Int /\ q[l] \in Nat
        /\ OutOn(d, l)' = OutOn(d, l) - q[l]
    <3>1. doReturned'[d][l] = doReturned[d][l] + q[l]
      BY <1>1 DEF GoodsInv, DeliveryInv, TypeOK
    <3> QED BY <1>1, <3>1 DEF GoodsInv, DeliveryInv, TypeOK, OutOn
  <2>3. NetShipped(l)' = NetShipped(l) - OutOn(d, l) + OutOn(d, l)'
    BY <1>2, <2>1, NetShippedStep
  <2>4. DirectlyOut(l)' = DirectlyOut(l)
    BY <1>1, DirectlyOutUntouched
  <2>5. NetShipped(l) \in Int /\ DirectlyOut(l) \in Int
    BY <1>2, GoodsTotalsInt
  <2>6. /\ stock[l] \in Int /\ cogs[l] \in Int /\ Opening[l] \in Nat
        /\ stock'[l] = stock[l] + q[l] /\ cogs'[l] = cogs[l] - q[l]
        /\ (policy = "BLOCK" => stock[l] >= 0)
        /\ stock[l] + NetShipped(l) + DirectlyOut(l) = Opening[l]
        /\ cogs[l] = Opening[l] - stock[l]
    BY <1>1, OrderAssumption DEF GoodsInv, DeliveryInv, TypeOK, InvoiceShape, StockConserved, CogsFollowsStock
  <2> QED BY <2>2, <2>3, <2>4, <2>5, <2>6
<1>4. InvoiceShape'
  BY <1>1, <1>3 DEF GoodsInv, InvoiceShape
<1> QED BY <1>3, <1>4 DEF GoodsInv, StockConserved, CogsFollowsStock

\* A step of an invoice that takes m[l] units off the shelf, at cost, and
\* says so on its lines.
LEMMA InvoiceGoods ==
  ASSUME GoodsInv, DeliveryInv', NEW x \in Invs, NEW m \in [Lines -> Int],
         UNCHANGED <<doQty, doReturned, shippedAt>>,
         \A l \in Lines : stock'[l] = stock[l] - m[l] /\ cogs'[l] = cogs[l] + m[l],
         \A l \in Lines, i \in Invs : i # x => TakenBy(i, l)' = TakenBy(i, l),
         \A l \in Lines : TakenBy(x, l)' = TakenBy(x, l) + m[l],
         InvoiceShape'
  PROVE  GoodsInv'
<1>1. /\ QuantityTypes /\ FulfilmentTypes /\ FulfilmentTypes'
  BY DEF GoodsInv, DeliveryInv, TypeOK, QuantityTypes, FulfilmentTypes
<1>2. ASSUME NEW l \in Lines
      PROVE  /\ stock'[l] + NetShipped(l)' + DirectlyOut(l)' = Opening[l]
             /\ cogs'[l] = Opening[l] - stock'[l]
  <2>1. NetShipped(l)' = NetShipped(l)
    <3>1. \A d \in DOs, k \in Lines : OutOn(d, k)' = OutOn(d, k)
      BY DEF OutOn
    <3> QED BY <3>1, NetShippedUntouched
  <2>2. DirectlyOut(l)' = DirectlyOut(l) - TakenBy(x, l) + TakenBy(x, l)'
    BY <1>1, DirectlyOutStep
  <2>3. NetShipped(l) \in Int /\ DirectlyOut(l) \in Int
    BY <1>1, GoodsTotalsInt
  <2>4. TakenBy(x, l) \in Int
    BY <1>1 DEF FulfilmentTypes, TakenBy, Moved
  <2>5. /\ stock[l] \in Int /\ cogs[l] \in Int /\ Opening[l] \in Nat
        /\ stock[l] + NetShipped(l) + DirectlyOut(l) = Opening[l]
        /\ cogs[l] = Opening[l] - stock[l]
    BY OrderAssumption DEF GoodsInv, DeliveryInv, TypeOK, StockConserved, CogsFollowsStock
  <2> QED BY <2>1, <2>2, <2>3, <2>4, <2>5
<1> QED BY <1>2 DEF GoodsInv, StockConserved, CogsFollowsStock

\* What a fixed policy makes of fulfill(): it never reports a negative
\* fulfilment, and a strict organisation takes no more than there is.
LEMMA FulfillNat ==
  ASSUME NEW a \in Int, NEW b \in Int, policy = "OVERSELL" \/ a >= 0
  PROVE  /\ Fulfill(a, b) \in Nat
         /\ Moved(Fulfill(a, b)) = Fulfill(a, b)
         /\ (policy # "OVERSELL" => Fulfill(a, b) <= a)
  BY DEF Fulfill, Moved

\* The policy is one of the two.
LEMMA PolicyCases ==
  ASSUME GoodsInv, NEW l \in Lines
  PROVE  stock[l] \in Int /\ (policy = "OVERSELL" \/ (policy = "BLOCK" /\ stock[l] >= 0))
  BY PolicyAssumption DEF GoodsInv, DeliveryInv, TypeOK, InvoiceShape

\* issue(): from the shelf with the invoice.
LEMMA IssueGoods ==
  ASSUME GoodsInv, DeliveryInv', NEW i \in Invs, Issue(i)
  PROVE  GoodsInv'
<1> DEFINE taken == IF OwnedByDelivery THEN None
                    ELSE [l \in Lines |-> Moved(Fulfill(stock[l], invQty[i][l]))]
<1>1. /\ invStatus[i] = "DRAFT"
      /\ invStatus' = [invStatus EXCEPT ![i] = "ISSUED"]
      /\ invDirect' = [invDirect EXCEPT ![i] = ~OwnedByDelivery]
      /\ invFulfilled' = [invFulfilled EXCEPT ![i] = taken]
      /\ stock' = [l \in Lines |-> stock[l] - taken[l]]
      /\ cogs' = [l \in Lines |-> cogs[l] + taken[l]]
      /\ UNCHANGED <<doVars, policy>>
  BY DEF Issue
<1>2. \A l \in Lines : /\ taken[l] \in Nat
                       /\ OwnedByDelivery => taken[l] = 0
                       /\ policy = "BLOCK" => taken[l] <= stock[l]
  <2> SUFFICES ASSUME NEW l \in Lines
               PROVE  /\ taken[l] \in Nat
                      /\ OwnedByDelivery => taken[l] = 0
                      /\ policy = "BLOCK" => taken[l] <= stock[l]
    OBVIOUS
  <2>1. /\ stock[l] \in Int /\ invQty[i][l] \in Int
        /\ (policy = "OVERSELL" \/ (policy = "BLOCK" /\ stock[l] >= 0))
    BY PolicyCases DEF GoodsInv, DeliveryInv, TypeOK
  <2>2. /\ Fulfill(stock[l], invQty[i][l]) \in Nat
        /\ Moved(Fulfill(stock[l], invQty[i][l])) = Fulfill(stock[l], invQty[i][l])
        /\ (policy # "OVERSELL" => Fulfill(stock[l], invQty[i][l]) <= stock[l])
    BY <2>1, FulfillNat
  <2>3. CASE OwnedByDelivery
    BY <2>1, <2>3 DEF None
  <2>4. CASE ~OwnedByDelivery
    BY <2>1, <2>2, <2>4
  <2> QED BY <2>3, <2>4
<1>3. taken \in [Lines -> Int]
  BY <1>2 DEF None
<1> HIDE DEF taken
<1>4. ~invDirect[i]
  BY <1>1 DEF GoodsInv, InvoiceShape
<1>5. InvoiceShape'
  <2>1. \A j \in Invs : invDirect'[j] => invStatus'[j] \in {"ISSUED", "VOID"}
    BY <1>1 DEF GoodsInv, DeliveryInv, TypeOK, InvoiceShape
  <2>2. \A j \in Invs, l \in Lines : invFulfilled'[j][l] >= 0
    BY <1>1, <1>2 DEF GoodsInv, DeliveryInv, TypeOK, InvoiceShape
  <2>3. policy' = "BLOCK" => \A l \in Lines : stock'[l] >= 0
    BY <1>1, <1>2 DEF GoodsInv, DeliveryInv, TypeOK
  <2> QED BY <2>1, <2>2, <2>3 DEF InvoiceShape
<1>6. \A l \in Lines, j \in Invs : j # i => TakenBy(j, l)' = TakenBy(j, l)
  BY <1>1 DEF GoodsInv, DeliveryInv, TypeOK, TakenBy
<1>7. \A l \in Lines : TakenBy(i, l)' = TakenBy(i, l) + taken[l]
  <2> SUFFICES ASSUME NEW l \in Lines PROVE TakenBy(i, l)' = TakenBy(i, l) + taken[l]
    OBVIOUS
  <2>1. TakenBy(i, l) = 0
    BY <1>4 DEF TakenBy
  <2>2. (invDirect'[i] <=> ~OwnedByDelivery) /\ invFulfilled'[i][l] = taken[l]
    BY <1>1, <1>3 DEF GoodsInv, DeliveryInv, TypeOK
  <2>3. TakenBy(i, l)' = IF invDirect'[i] THEN Moved(invFulfilled'[i][l]) ELSE 0
    BY DEF TakenBy
  <2> QED BY <1>2, <2>1, <2>2, <2>3 DEF Moved
<1>8. \A l \in Lines : stock'[l] = stock[l] - taken[l] /\ cogs'[l] = cogs[l] + taken[l]
  BY <1>1
<1> QED BY <1>1, <1>3, <1>5, <1>6, <1>7, <1>8, InvoiceGoods DEF doVars

\* editIssuedInvoice(), line by line: what leaves the shelf, what goes into
\* COGS and what the line is left with agree.
LEMMA EditLine ==
  ASSUME GoodsInv, NEW i \in Invs, NEW q \in Requests, EditIssued(i, q), NEW l \in Lines
  PROVE  LET m == Moved(Added(i, q, l)) - Restocked(i, q, l)
         IN  /\ m \in Int /\ Kept(i, q, l) \in Nat
             /\ policy = "BLOCK" => stock[l] - m >= 0
             /\ Kept(i, q, l) = invFulfilled[i][l] + (IF invDirect[i] THEN m ELSE 0)
             /\ ~invDirect[i] => m = 0
<1>1. /\ q[l] \in Nat /\ invQty[i][l] \in Nat /\ invFulfilled[i][l] \in Nat
      /\ stock[l] \in Int /\ (policy = "OVERSELL" \/ (policy = "BLOCK" /\ stock[l] >= 0))
      /\ (q[l] >= invFulfilled[i][l] \/ (q[l] = 0 /\ invDirect[i]))
      /\ invDirect[i] \in BOOLEAN
  BY RequestTypes, PolicyCases DEF EditIssued, GoodsInv, DeliveryInv, TypeOK, InvoiceShape
<1> DEFINE demand == q[l] - invQty[i][l]
<1>2. demand \in Int /\ (q[l] = 0 => demand <= 0)
  BY <1>1
<1> HIDE DEF demand
<1>3. /\ Fulfill(stock[l], demand) \in Nat
      /\ Moved(Fulfill(stock[l], demand)) = Fulfill(stock[l], demand)
      /\ (policy # "OVERSELL" => Fulfill(stock[l], demand) <= stock[l])
      /\ (demand <= 0 => Fulfill(stock[l], demand) = 0)
  <2>1. demand <= 0 => Fulfill(stock[l], demand) = 0
    BY DEF Fulfill
  <2> QED BY <1>1, <1>2, <2>1, FulfillNat
<1>4. Added(i, q, l) = IF invDirect[i] THEN Fulfill(stock[l], demand) ELSE 0
  BY DEF Added, demand
<1>5. /\ Restocked(i, q, l) = IF q[l] = 0 THEN invFulfilled[i][l] ELSE 0
      /\ Kept(i, q, l) = IF q[l] = 0 THEN 0 ELSE invFulfilled[i][l] + Added(i, q, l)
      /\ Moved(Added(i, q, l)) = Added(i, q, l)
  BY <1>1, <1>3, <1>4 DEF Restocked, Kept, Moved
<1>6. CASE invDirect[i]
  BY <1>1, <1>2, <1>3, <1>4, <1>5, <1>6
<1>7. CASE ~invDirect[i]
  BY <1>1, <1>4, <1>5, <1>7
<1> QED BY <1>1, <1>6, <1>7

\* editIssuedInvoice() as a whole.
LEMMA EditGoods ==
  ASSUME GoodsInv, DeliveryInv', NEW i \in Invs, NEW q \in Requests, EditIssued(i, q)
  PROVE  GoodsInv'
<1> DEFINE m == [l \in Lines |-> Moved(Added(i, q, l)) - Restocked(i, q, l)]
<1>1. /\ UNCHANGED <<doVars, invStatus, invDirect, policy>>
      /\ invFulfilled' = [invFulfilled EXCEPT ![i] = [l \in Lines |-> Kept(i, q, l)]]
      /\ stock' = [l \in Lines |-> stock[l] + Restocked(i, q, l) - Moved(Added(i, q, l))]
      /\ cogs' = [l \in Lines |-> cogs[l] - Moved(invFulfilled[i][l]) + Moved(Kept(i, q, l))]
  BY DEF EditIssued
<1>2. \A l \in Lines : /\ m[l] \in Int /\ Kept(i, q, l) \in Nat
                       /\ policy = "BLOCK" => stock[l] - m[l] >= 0
                       /\ Kept(i, q, l) = invFulfilled[i][l] + (IF invDirect[i] THEN m[l] ELSE 0)
                       /\ ~invDirect[i] => m[l] = 0
  BY EditLine
<1>3. m \in [Lines -> Int]
  BY <1>2
<1>4. \A l \in Lines : /\ Restocked(i, q, l) \in Int /\ Moved(Added(i, q, l)) \in Int
                       /\ invFulfilled[i][l] \in Nat /\ stock[l] \in Int /\ cogs[l] \in Int
                       /\ invDirect[i] \in BOOLEAN
  BY EditInt, MovedNat DEF GoodsInv, DeliveryInv, TypeOK, InvoiceShape
<1>5. \A l \in Lines : stock'[l] = stock[l] - m[l]
  BY <1>1, <1>4
<1> HIDE DEF m
<1>6. \A l \in Lines : cogs'[l] = cogs[l] + m[l]
  <2> SUFFICES ASSUME NEW l \in Lines PROVE cogs'[l] = cogs[l] + m[l]
    OBVIOUS
  <2>1. cogs'[l] = cogs[l] - invFulfilled[i][l] + Kept(i, q, l)
    BY <1>1, <1>2, <1>4 DEF Moved
  <2> QED BY <1>2, <1>4, <2>1
<1>7. InvoiceShape'
  <2>1. \A j \in Invs, l \in Lines : invFulfilled'[j][l] >= 0
    BY <1>1, <1>2 DEF GoodsInv, DeliveryInv, TypeOK, InvoiceShape
  <2>2. policy' = "BLOCK" => \A l \in Lines : stock'[l] >= 0
    BY <1>1, <1>2, <1>5
  <2> QED BY <1>1, <2>1, <2>2 DEF GoodsInv, InvoiceShape
<1>8. \A l \in Lines, j \in Invs : j # i => TakenBy(j, l)' = TakenBy(j, l)
  BY <1>1 DEF GoodsInv, DeliveryInv, TypeOK, TakenBy
<1>9. \A l \in Lines : TakenBy(i, l)' = TakenBy(i, l) + m[l]
  <2> SUFFICES ASSUME NEW l \in Lines PROVE TakenBy(i, l)' = TakenBy(i, l) + m[l]
    OBVIOUS
  <2>1. invFulfilled'[i][l] = Kept(i, q, l) /\ invDirect' = invDirect
    BY <1>1 DEF GoodsInv, DeliveryInv, TypeOK
  <2>2. TakenBy(i, l)' = IF invDirect'[i] THEN Moved(invFulfilled'[i][l]) ELSE 0
    BY DEF TakenBy
  <2> QED BY <1>2, <1>4, <2>1, <2>2 DEF TakenBy, Moved
<1> QED BY <1>1, <1>3, <1>5, <1>6, <1>7, <1>8, <1>9, InvoiceGoods DEF doVars

\* voidInvoice(): what the invoice took goes back.
LEMMA VoidGoods ==
  ASSUME GoodsInv, DeliveryInv', NEW i \in Invs, VoidCommit(i)
  PROVE  GoodsInv'
<1> DEFINE back == [l \in Lines |-> IF invDirect[i] THEN Moved(invFulfilled[i][l]) ELSE 0]
           m == [l \in Lines |-> -back[l]]
<1>1. /\ UNCHANGED <<doQty, doReturned, shippedAt, invDirect, policy>>
      /\ invStatus' = [invStatus EXCEPT ![i] = "VOID"]
      /\ invFulfilled' = [invFulfilled EXCEPT ![i] = [l \in Lines |-> invFulfilled[i][l] - back[l]]]
      /\ stock' = [l \in Lines |-> stock[l] + back[l]]
      /\ cogs' = [l \in Lines |-> cogs[l] - back[l]]
  BY DEF VoidCommit
<1>2. \A l \in Lines : /\ invFulfilled[i][l] \in Nat /\ stock[l] \in Int /\ cogs[l] \in Int
                       /\ back[l] = IF invDirect[i] THEN invFulfilled[i][l] ELSE 0
                       /\ m[l] = -back[l]
  BY DEF GoodsInv, DeliveryInv, TypeOK, InvoiceShape, Moved
<1>3. m \in [Lines -> Int]
  BY <1>2
<1> HIDE DEF m, back
<1>4. \A l \in Lines : stock'[l] = stock[l] - m[l] /\ cogs'[l] = cogs[l] + m[l]
  BY <1>1, <1>2
<1>5. InvoiceShape'
  <2>1. \A j \in Invs, l \in Lines : invFulfilled'[j][l] >= 0
    BY <1>1, <1>2 DEF GoodsInv, DeliveryInv, TypeOK, InvoiceShape
  <2>2. policy' = "BLOCK" => \A l \in Lines : stock'[l] >= 0
    BY <1>1, <1>2 DEF GoodsInv, InvoiceShape
  <2>3. \A j \in Invs : invDirect'[j] => invStatus'[j] \in {"ISSUED", "VOID"}
    BY <1>1 DEF GoodsInv, DeliveryInv, TypeOK, InvoiceShape
  <2> QED BY <2>1, <2>2, <2>3 DEF InvoiceShape
<1>6. \A l \in Lines, j \in Invs : j # i => TakenBy(j, l)' = TakenBy(j, l)
  BY <1>1 DEF GoodsInv, DeliveryInv, TypeOK, TakenBy
<1>7. \A l \in Lines : TakenBy(i, l)' = TakenBy(i, l) + m[l]
  <2> SUFFICES ASSUME NEW l \in Lines PROVE TakenBy(i, l)' = TakenBy(i, l) + m[l]
    OBVIOUS
  <2>1. invFulfilled'[i][l] = invFulfilled[i][l] - back[l]
    BY <1>1 DEF GoodsInv, DeliveryInv, TypeOK
  <2>2. TakenBy(i, l)' = IF invDirect[i] THEN Moved(invFulfilled'[i][l]) ELSE 0
    BY <1>1 DEF TakenBy
  <2> QED BY <1>2, <2>1, <2>2 DEF TakenBy, Moved
<1> QED BY <1>1, <1>3, <1>4, <1>5, <1>6, <1>7, InvoiceGoods

-----------------------------------------------------------------------------
(* The theorems *)

\* Before the first request every unit is on the shelf.
LEMMA GoodsInit == Init => GoodsInv
<1> SUFFICES ASSUME Init PROVE GoodsInv
  OBVIOUS
<1>1. InvoiceShape
  BY OrderAssumption DEF Init, InvoiceShape, None
<1>2. ASSUME NEW l \in Lines PROVE NetShipped(l) = 0 /\ DirectlyOut(l) = 0
  <2>1. /\ [d \in DOs |-> OutOn(d, l)] = [d \in 1..MaxDeliveries |-> 0]
        /\ [i \in Invs |-> TakenBy(i, l)] = [i \in 1..MaxInvoices |-> 0]
    BY DEF Init, OutOn, TakenBy, DOs, Invs
  <2> QED BY <2>1, SumToZero, CountsAssumption DEF NetShipped, DirectlyOut
<1>3. StockConserved /\ CogsFollowsStock
  BY <1>2, OrderAssumption DEF Init, StockConserved, CogsFollowsStock, None
<1> QED BY <1>1, <1>3, DeliveryInit DEF GoodsInv

\* Every action keeps every unit accounted for.
LEMMA GoodsStep == FixedPolicy /\ GoodsInv /\ DeliveryInv' /\ [Next]_vars => GoodsInv'
<1> SUFFICES ASSUME FixedPolicy, GoodsInv, DeliveryInv', [Next]_vars PROVE GoodsInv'
  OBVIOUS
<1>0. \A i \in Invs : invDirect[i] => invStatus[i] \in {"ISSUED", "VOID"}
  BY DEF GoodsInv, InvoiceShape
<1>1. CASE \/ Confirm \/ CancelOrder
           \/ \E d \in DOs : FailDelivery(d) \/ RescheduleRead(d) \/ RescheduleWrite(d) \/ CancelDelivery(d)
           \/ \E i \in Invs : VoidBegin(i) \/ VoidList(i)
           \/ UNCHANGED vars
  <2>1. UNCHANGED <<doQty, doReturned, shippedAt, invVars, goodsVars>>
    BY <1>1 DEF Confirm, CancelOrder, FailDelivery, RescheduleRead, RescheduleWrite,
                CancelDelivery, VoidBegin, VoidList, vars, doVars, orderVars
  <2>2. \A d \in DOs, l \in Lines : OutOn(d, l)' = OutOn(d, l)
    BY <2>1 DEF OutOn
  <2> QED BY <1>0, <2>1, <2>2, NoGoodsStep DEF invVars, goodsVars
<1>2. ASSUME NEW d \in DOs, NEW q \in Requests, CreateDelivery(d, q) PROVE GoodsInv'
  <2>1. ~shippedAt[d]
    BY <1>2 DEF CreateDelivery, GoodsInv, DeliveryInv, DeliveryShape
  <2>2. \A e \in DOs, l \in Lines : OutOn(e, l)' = OutOn(e, l)
    BY <1>2, <2>1 DEF CreateDelivery, GoodsInv, DeliveryInv, TypeOK, OutOn
  <2> QED BY <1>0, <1>2, <2>2, NoGoodsStep DEF CreateDelivery, invVars, goodsVars
<1>3. ASSUME NEW i \in Invs,
             DraftInvoice(i) \/ DiscardDraft(i) \/ \E q \in Requests : UpdateDraft(i, q)
      PROVE  GoodsInv'
  <2>1. /\ UNCHANGED <<doVars, goodsVars, invDirect, invFulfilled>>
        /\ invStatus[i] \notin {"ISSUED", "VOID"}
        /\ \A j \in Invs : j # i => invStatus'[j] = invStatus[j]
    BY <1>3 DEF DraftInvoice, DiscardDraft, UpdateDraft, GoodsInv, DeliveryInv, TypeOK
  <2>2. \A d \in DOs, l \in Lines : OutOn(d, l)' = OutOn(d, l)
    BY <2>1 DEF OutOn, doVars
  <2> QED BY <1>0, <2>1, <2>2, NoGoodsStep DEF goodsVars
<1>4. ASSUME NEW d \in DOs, Ship(d) PROVE GoodsInv'
  BY <1>4, ShipGoods
<1>5. ASSUME NEW d \in DOs, NEW q \in Requests, RecordReturn(d, q) PROVE GoodsInv'
  BY <1>5, ReturnGoods
<1>6. ASSUME NEW i \in Invs, Issue(i) PROVE GoodsInv'
  BY <1>6, IssueGoods
<1>7. ASSUME NEW i \in Invs, NEW q \in Requests, EditIssued(i, q) PROVE GoodsInv'
  BY <1>7, EditGoods
<1>8. ASSUME NEW i \in Invs, VoidCommit(i) PROVE GoodsInv'
  BY <1>8, VoidGoods
<1>9. ASSUME NEW p \in Policies, SetPolicy(p) PROVE GoodsInv'
  BY <1>9 DEF SetPolicy, FixedPolicy, GoodsInv, DeliveryInv, TypeOK
<1> QED BY <1>1, <1>2, <1>3, <1>4, <1>5, <1>6, <1>7, <1>8, <1>9 DEF Next

\* The strengthened invariant holds of every behaviour.
THEOREM GoodsInvariant ==
  ASSUME FixedPolicy
  PROVE  Spec => []GoodsInv
<1>1. Init => GoodsInv
  BY GoodsInit
<1>2. GoodsInv /\ DeliveryInv' /\ [Next]_vars => GoodsInv'
  BY GoodsStep
<1> QED BY <1>1, <1>2, DeliveryInvariant, PTL DEF Spec

\* However ship, return, issue, edit and void interleave, every unit of
\* the opening stock is on the shelf, out on a delivery order or out with
\* an invoice.
THEOREM StockIsConserved ==
  ASSUME FixedPolicy
  PROVE  Spec => []StockConserved
<1>1. GoodsInv => StockConserved
  BY DEF GoodsInv
<1> QED BY <1>1, GoodsInvariant, PTL

\* The cost of exactly the units that are out stands in COGS.
THEOREM CogsIsConserved ==
  ASSUME FixedPolicy
  PROVE  Spec => []CogsFollowsStock
<1>1. GoodsInv => CogsFollowsStock
  BY DEF GoodsInv
<1> QED BY <1>1, GoodsInvariant, PTL

-----------------------------------------------------------------------------
(* The deliveries of an order implement OrderCommitment. *)

\* The abstract state: what is out of each line.
OutNow == [l \in Lines |-> NetShipped(l)]

\* What is out is non-negative and within what is claimed on the order.
LEMMA OutIsClaimed ==
  ASSUME DeliveryInv, NEW l \in Lines
  PROVE  NetShipped(l) \in Nat /\ NetShipped(l) <= delivered[l]
<1> DEFINE f == [d \in DOs |-> OutOn(d, l)]
           g == [d \in DOs |-> ClaimedBy(d, l)]
<1>1. \A d \in DOs : OutOn(d, l) \in Nat /\ ClaimedBy(d, l) \in Nat /\ OutOn(d, l) <= ClaimedBy(d, l)
  BY DEF DeliveryInv, TypeOK, DeliveryShape, OutOn, ClaimedBy
<1>2. /\ f \in [1..MaxDeliveries -> Nat] /\ f \in [1..MaxDeliveries -> Int]
      /\ g \in [1..MaxDeliveries -> Int]
      /\ \A d \in 1..MaxDeliveries : f[d] <= g[d]
  BY <1>1 DEF DOs
<1>3. NetShipped(l) = SumTo(f, MaxDeliveries) /\ Claimed(l) = SumTo(g, MaxDeliveries)
  BY DEF NetShipped, Claimed
<1> HIDE DEF f, g
<1>4. SumTo(f, MaxDeliveries) \in Nat
  BY <1>2, SumToNat, CountsAssumption
<1>5. SumTo(f, MaxDeliveries) <= SumTo(g, MaxDeliveries)
  BY <1>2, SumToMono, CountsAssumption
<1>6. SumTo(g, MaxDeliveries) \in Int
  BY <1>2, SumToInt, CountsAssumption
<1>7. Claimed(l) <= delivered[l] /\ delivered[l] \in Nat
  BY DEF DeliveryInv, NoOverShipment, TypeOK
<1> QED BY <1>3, <1>4, <1>5, <1>6, <1>7

\* The same of the next state.
LEMMA OutIsClaimedNext ==
  ASSUME DeliveryInv', NEW l \in Lines
  PROVE  NetShipped(l)' \in Nat /\ NetShipped(l)' <= delivered'[l]
<1> DEFINE f == [d \in DOs |-> OutOn(d, l)']
           g == [d \in DOs |-> ClaimedBy(d, l)']
<1>1. \A d \in DOs : OutOn(d, l)' \in Nat /\ ClaimedBy(d, l)' \in Nat /\ OutOn(d, l)' <= ClaimedBy(d, l)'
  BY DEF DeliveryInv, TypeOK, DeliveryShape, OutOn, ClaimedBy
<1>2. /\ f \in [1..MaxDeliveries -> Nat] /\ f \in [1..MaxDeliveries -> Int]
      /\ g \in [1..MaxDeliveries -> Int]
      /\ \A d \in 1..MaxDeliveries : f[d] <= g[d]
  BY <1>1 DEF DOs
<1>3. NetShipped(l)' = SumTo(f, MaxDeliveries) /\ Claimed(l)' = SumTo(g, MaxDeliveries)
  BY DEF NetShipped, Claimed
<1> HIDE DEF f, g
<1>4. SumTo(f, MaxDeliveries) \in Nat
  BY <1>2, SumToNat, CountsAssumption
<1>5. SumTo(f, MaxDeliveries) <= SumTo(g, MaxDeliveries)
  BY <1>2, SumToMono, CountsAssumption
<1>6. SumTo(g, MaxDeliveries) \in Int
  BY <1>2, SumToInt, CountsAssumption
<1>7. Claimed(l)' <= delivered'[l] /\ delivered'[l] \in Nat
  BY DEF DeliveryInv, NoOverShipment, TypeOK
<1> QED BY <1>3, <1>4, <1>5, <1>6, <1>7

\* Steps that move no goods of a delivery order leave the abstract state.
LEMMA OutUntouched ==
  ASSUME \A d \in DOs, l \in Lines : OutOn(d, l)' = OutOn(d, l)
  PROVE  OutNow' = OutNow
  BY NetShippedUntouched DEF OutNow

\* The initial states map to the initial state.
LEMMA CommitmentInit == Init => Commitment!Init
<1> SUFFICES ASSUME Init PROVE Commitment!Init
  OBVIOUS
<1>1. ASSUME NEW l \in Lines PROVE NetShipped(l) = 0
  <2>1. [d \in DOs |-> OutOn(d, l)] = [d \in 1..MaxDeliveries |-> 0]
    BY DEF Init, OutOn, DOs
  <2> QED BY <2>1, SumToZero, CountsAssumption DEF NetShipped
<1>2. delivered = [l \in Lines |-> 0]
  BY DEF Init, None
<1> QED BY <1>1, <1>2 DEF Commitment!Init

\* create() is Commit.
LEMMA CreateIsCommit ==
  ASSUME DeliveryInv, NEW d \in DOs, NEW q \in Requests, CreateDelivery(d, q)
  PROVE  Commitment!Commit
<1>1. ~shippedAt[d]
  BY DEF CreateDelivery, DeliveryInv, DeliveryShape
<1>2. \A e \in DOs, l \in Lines : OutOn(e, l)' = OutOn(e, l)
  BY <1>1 DEF CreateDelivery, DeliveryInv, TypeOK, OutOn
<1>3. OutNow' = OutNow
  BY <1>2, OutUntouched
<1>4. \A l \in Lines : delivered[l] <= delivered'[l] /\ delivered'[l] <= Ordered[l]
  BY RequestTypes DEF CreateDelivery, DeliveryInv, TypeOK
<1> QED BY <1>3, <1>4 DEF Commitment!Commit, OutNow

\* cancel() of a delivery order is Withdraw.
LEMMA CancelIsWithdraw ==
  ASSUME DeliveryInv, DeliveryInv', NEW d \in DOs, CancelDelivery(d)
  PROVE  Commitment!Withdraw
<1>1. \A e \in DOs, l \in Lines : OutOn(e, l)' = OutOn(e, l)
  BY DEF CancelDelivery, OutOn
<1>2. OutNow' = OutNow
  BY <1>1, OutUntouched
<1>3. ASSUME NEW l \in Lines
      PROVE  NetShipped(l) <= delivered'[l] /\ delivered'[l] <= delivered[l]
  <2>1. NetShipped(l)' = NetShipped(l)
    BY <1>1, NetShippedUntouched
  <2>2. NetShipped(l)' <= delivered'[l]
    BY OutIsClaimedNext
  <2>3. delivered'[l] = delivered[l] - doQty[d][l] /\ delivered[l] \in Nat /\ doQty[d][l] \in Nat
    BY DEF CancelDelivery, DeliveryInv, TypeOK
  <2> QED BY <2>1, <2>2, <2>3
<1> QED BY <1>2, <1>3 DEF Commitment!Withdraw, OutNow

\* ship() is Depart.
LEMMA ShipIsDepart ==
  ASSUME DeliveryInv, DeliveryInv', NEW d \in DOs, Ship(d)
  PROVE  Commitment!Depart
<1>1. QuantityTypes /\ QuantityTypes' /\ delivered' = delivered
  BY DEF Ship, DeliveryInv, TypeOK, QuantityTypes, orderVars
<1>2. ASSUME NEW l \in Lines
      PROVE  NetShipped(l) <= NetShipped(l)' /\ NetShipped(l)' <= delivered[l]
  <2>1. \A e \in DOs : e # d => OutOn(e, l)' = OutOn(e, l)
    BY DEF Ship, DeliveryInv, TypeOK, OutOn
  <2>2. OutOn(d, l) = 0 /\ OutOn(d, l)' \in Nat
    BY DEF Ship, DeliveryInv, DeliveryShape, TypeOK, OutOn, None
  <2>3. NetShipped(l)' = NetShipped(l) - OutOn(d, l) + OutOn(d, l)'
    BY <1>1, <2>1, NetShippedStep
  <2>4. NetShipped(l) \in Nat
    BY OutIsClaimed
  <2>5. NetShipped(l)' <= delivered'[l]
    BY OutIsClaimedNext
  <2> QED BY <1>1, <2>2, <2>3, <2>4, <2>5
<1> QED BY <1>1, <1>2 DEF Commitment!Depart

\* recordReturn() is ComeBack.
LEMMA ReturnIsComeBack ==
  ASSUME DeliveryInv, DeliveryInv', NEW d \in DOs, NEW q \in Requests, RecordReturn(d, q)
  PROVE  Commitment!ComeBack
<1>1. QuantityTypes /\ QuantityTypes'
  BY DEF DeliveryInv, TypeOK, QuantityTypes
<1>2. /\ shippedAt[d] /\ q \in [Lines -> Nat]
      /\ UNCHANGED <<doQty, shippedAt>>
      /\ doReturned' = [doReturned EXCEPT ![d] = [l \in Lines |-> doReturned[d][l] + q[l]]]
      /\ delivered' = [l \in Lines |-> delivered[l] - q[l]]
  BY RequestTypes DEF RecordReturn, DeliveryInv, DeliveryShape, LeftStatuses
<1>3. ASSUME NEW l \in Lines
      PROVE  /\ 0 <= NetShipped(l)' /\ NetShipped(l)' <= NetShipped(l)
             /\ delivered[l] - delivered'[l] = NetShipped(l) - NetShipped(l)'
  <2>1. \A e \in DOs : e # d => OutOn(e, l)' = OutOn(e, l)
    BY <1>2 DEF DeliveryInv, TypeOK, OutOn
  <2>2. /\ OutOn(d, l) \in Int /\ q[l] \in Nat /\ delivered[l] \in Nat
        /\ OutOn(d, l)' = OutOn(d, l) - q[l]
    <3>1. doReturned'[d][l] = doReturned[d][l] + q[l]
      BY <1>2 DEF DeliveryInv, TypeOK
    <3> QED BY <1>2, <3>1 DEF DeliveryInv, TypeOK, OutOn
  <2>3. NetShipped(l)' = NetShipped(l) - OutOn(d, l) + OutOn(d, l)'
    BY <1>1, <2>1, NetShippedStep
  <2>4. NetShipped(l) \in Nat
    BY OutIsClaimed
  <2>5. NetShipped(l)' \in Nat
    BY OutIsClaimedNext
  <2> QED BY <1>2, <2>2, <2>3, <2>4, <2>5
<1> QED BY <1>3 DEF Commitment!ComeBack

\* Every step maps to a step or a stutter.
LEMMA CommitmentStep ==
  DeliveryInv /\ DeliveryInv' /\ [Next]_vars => [Commitment!Next]_<<delivered, OutNow>>
<1> SUFFICES ASSUME DeliveryInv, DeliveryInv', [Next]_vars
             PROVE  Commitment!Next \/ (delivered' = delivered /\ OutNow' = OutNow)
  OBVIOUS
<1>1. ASSUME NEW d \in DOs, NEW q \in Requests, CreateDelivery(d, q) PROVE Commitment!Next
  BY <1>1, CreateIsCommit DEF Commitment!Next
<1>2. ASSUME NEW d \in DOs, CancelDelivery(d) PROVE Commitment!Next
  BY <1>2, CancelIsWithdraw DEF Commitment!Next
<1>3. ASSUME NEW d \in DOs, Ship(d) PROVE Commitment!Next
  BY <1>3, ShipIsDepart DEF Commitment!Next
<1>4. ASSUME NEW d \in DOs, NEW q \in Requests, RecordReturn(d, q) PROVE Commitment!Next
  BY <1>4, ReturnIsComeBack DEF Commitment!Next
<1>5. CASE \/ Confirm \/ CancelOrder
           \/ \E d \in DOs : FailDelivery(d) \/ RescheduleRead(d) \/ RescheduleWrite(d)
           \/ \E i \in Invs : \/ DraftInvoice(i) \/ DiscardDraft(i) \/ Issue(i)
                              \/ VoidBegin(i) \/ VoidList(i) \/ VoidCommit(i)
                              \/ \E q \in Requests : UpdateDraft(i, q) \/ EditIssued(i, q)
           \/ \E p \in Policies : SetPolicy(p)
           \/ UNCHANGED vars
  <2>1. UNCHANGED <<delivered, doQty, doReturned, shippedAt>>
    BY <1>5 DEF Confirm, CancelOrder, FailDelivery, RescheduleRead, RescheduleWrite, DraftInvoice,
                DiscardDraft, Issue, VoidBegin, VoidList, VoidCommit, UpdateDraft, EditIssued, SetPolicy,
                vars, orderVars, doVars
  <2>2. \A d \in DOs, l \in Lines : OutOn(d, l)' = OutOn(d, l)
    BY <2>1 DEF OutOn
  <2> QED BY <2>1, <2>2, OutUntouched
<1> QED BY <1>1, <1>2, <1>3, <1>4, <1>5 DEF Next

\* The order's deliveries keep the commitment discipline: nothing departs
\* that was not claimed, no claim is withdrawn under goods that are out, and
\* a return frees exactly what came back - whatever requests overlap.
THEOREM DeliveriesKeepCommitment == Spec => KeepsCommitment
<1>1. Init => Commitment!Init
  BY CommitmentInit
<1>2. DeliveryInv /\ DeliveryInv' /\ [Next]_vars => [Commitment!Next]_<<delivered, OutNow>>
  BY CommitmentStep
<1> QED BY <1>1, <1>2, DeliveryInvariant, PTL DEF Spec, KeepsCommitment, Commitment!Spec, OutNow

-----------------------------------------------------------------------------
(* The order's status *)

\* The order's status follows its lines; nothing is claimed on a draft, and
\* a void in flight holds an issued invoice, so that it never finds the
\* order a draft or cancelled.
StatusInv ==
  /\ DeliveryInv
  /\ OrderStatusTracksLines
  /\ orderStatus = "DRAFT" => delivered = None
  /\ \A i \in voiding : invStatus[i] = "ISSUED"

\* recomputeDeliveryStatus() answers neither DRAFT nor, for an order that is
\* not cancelled, CANCELLED, and answers the same when asked again.
LEMMA StatusForStable ==
  ASSUME NEW s, s # "CANCELLED", NEW dq
  PROVE  /\ StatusFor(s, dq) \notin {"DRAFT", "CANCELLED"}
         /\ StatusFor(StatusFor(s, dq), dq) = StatusFor(s, dq)
  BY DEF StatusFor

\* A step that recomputes the status of an order in delivery.
LEMMA RecomputedStatus ==
  ASSUME orderStatus \notin {"DRAFT", "CANCELLED"},
         orderStatus' = StatusFor(orderStatus, delivered')
  PROVE  OrderStatusTracksLines' /\ orderStatus' # "DRAFT"
  BY StatusForStable DEF OrderStatusTracksLines

\* A step that leaves a confirmed order alone.
LEMMA StandingStatus ==
  ASSUME OrderStatusTracksLines, orderStatus \notin {"DRAFT", "CANCELLED"}, UNCHANGED orderVars
  PROVE  OrderStatusTracksLines' /\ orderStatus' # "DRAFT"
  BY DEF OrderStatusTracksLines, orderVars, StatusFor

\* An order with a delivery order or an invoice of any status is neither a
\* draft nor cancelled.
LEMMA RowsMeanConfirmed ==
  ASSUME OrderStatusTracksLines,
         (\E d \in DOs : doStatus[d] # "NONE") \/ (\E i \in Invs : invStatus[i] # "NONE")
  PROVE  orderStatus \notin {"DRAFT", "CANCELLED"}
  BY DEF OrderStatusTracksLines

\* confirm() refuses an empty order, so CONFIRMED is what the lines say;
\* cancel() asks for an order without rows.
LEMMA OrderStatusStep ==
  ASSUME StatusInv, DeliveryInv', Confirm \/ CancelOrder
  PROVE  StatusInv'
<1>1. UNCHANGED <<delivered, doStatus, invStatus, voiding>>
  BY DEF Confirm, CancelOrder, doVars, invVars, reqVars
<1>2. CASE Confirm
  <2>1. orderStatus = "DRAFT" /\ orderStatus' = "CONFIRMED" /\ delivered' = None
    BY <1>1, <1>2 DEF Confirm, StatusInv
  <2>2. StatusFor("CONFIRMED", None) = "CONFIRMED"
    <3>1. PICK l \in Lines : TRUE
      BY <1>2 DEF Confirm
    <3>2. ~(None[l] >= Ordered[l]) /\ ~ \E k \in Lines : None[k] > 0
      BY OrderAssumption DEF None
    <3> QED BY <3>2 DEF StatusFor
  <2> QED BY <1>1, <2>1, <2>2 DEF StatusInv, OrderStatusTracksLines
<1>3. CASE CancelOrder
  <2>1. orderStatus' = "CANCELLED"
        /\ (\A d \in DOs : doStatus[d] = "NONE") /\ (\A i \in Invs : invStatus[i] = "NONE")
    BY <1>3 DEF CancelOrder, StatusInv, OrderStatusTracksLines
  <2> QED BY <1>1, <2>1 DEF StatusInv, OrderStatusTracksLines
<1> QED BY <1>2, <1>3

\* Every action keeps the invariant.
LEMMA StatusInvStep == StatusInv /\ DeliveryInv' /\ [Next]_vars => StatusInv'
<1> SUFFICES ASSUME StatusInv, DeliveryInv', [Next]_vars PROVE StatusInv'
  OBVIOUS
<1>0. OrderStatusTracksLines /\ DeliveryInv /\ TypeOK
  BY DEF StatusInv, DeliveryInv
<1>1. CASE Confirm \/ CancelOrder
  BY <1>1, OrderStatusStep
\* The steps that recompute the status.
<1>2. ASSUME orderStatus \notin {"DRAFT", "CANCELLED"},
             orderStatus' = StatusFor(orderStatus, delivered'), UNCHANGED <<invStatus, voiding>>
      PROVE  StatusInv'
  BY <1>2, RecomputedStatus DEF StatusInv
<1>3. ASSUME NEW d \in DOs, NEW q \in Requests, CreateDelivery(d, q) PROVE StatusInv'
  <2>1. orderStatus \notin {"DRAFT", "CANCELLED"}
    BY <1>3 DEF CreateDelivery
  <2> QED BY <1>2, <1>3, <2>1 DEF CreateDelivery, invVars, reqVars
<1>4. ASSUME NEW d \in DOs, CancelDelivery(d) PROVE StatusInv'
  <2>1. orderStatus \notin {"DRAFT", "CANCELLED"}
    BY <1>0, <1>4, RowsMeanConfirmed DEF CancelDelivery
  <2> QED BY <1>2, <1>4, <2>1 DEF CancelDelivery, invVars, reqVars
<1>5. ASSUME NEW d \in DOs, NEW q \in Requests, RecordReturn(d, q) PROVE StatusInv'
  <2>1. orderStatus \notin {"DRAFT", "CANCELLED"}
    <3>1. doStatus[d] # "NONE"
      BY <1>5 DEF RecordReturn
    <3> QED BY <1>0, <3>1, RowsMeanConfirmed
  <2> QED BY <1>2, <1>5, <2>1 DEF RecordReturn, reqVars
\* The steps on rows of an order that stands.
<1>6. ASSUME orderStatus \notin {"DRAFT", "CANCELLED"}, UNCHANGED orderVars,
             \A i \in voiding' : invStatus'[i] = "ISSUED"
      PROVE  StatusInv'
  BY <1>0, <1>6, StandingStatus DEF StatusInv
<1>7. ASSUME NEW d \in DOs, Ship(d) \/ FailDelivery(d) \/ RescheduleWrite(d) \/ RescheduleRead(d)
      PROVE  StatusInv'
  <2>1. doStatus[d] # "NONE"
    BY <1>0, <1>7 DEF Ship, FailDelivery, RescheduleRead, RescheduleWrite, DeliveryInv, DeliveryShape
  <2>2. orderStatus \notin {"DRAFT", "CANCELLED"}
    BY <1>0, <2>1, RowsMeanConfirmed
  <2>3. UNCHANGED <<orderVars, invStatus, voiding>>
    BY <1>7 DEF Ship, FailDelivery, RescheduleRead, RescheduleWrite, invVars, reqVars
  <2> QED BY <1>6, <2>2, <2>3 DEF StatusInv
<1>8. ASSUME NEW i \in Invs,
             \/ DraftInvoice(i) \/ DiscardDraft(i) \/ Issue(i)
             \/ VoidBegin(i) \/ VoidList(i) \/ VoidCommit(i)
             \/ \E q \in Requests : UpdateDraft(i, q) \/ EditIssued(i, q)
      PROVE  StatusInv'
  <2>1. orderStatus \notin {"DRAFT", "CANCELLED"}
    <3>1. CASE DraftInvoice(i)
      BY <3>1 DEF DraftInvoice
    <3>2. CASE ~DraftInvoice(i)
      <4>1. invStatus[i] # "NONE"
        BY <1>0, <1>8, <3>2 DEF DiscardDraft, Issue, VoidBegin, VoidList, VoidCommit, UpdateDraft, EditIssued,
                                StatusInv, TypeOK
      <4> QED BY <1>0, <4>1, RowsMeanConfirmed
    <3> QED BY <3>1, <3>2
  <2>2. UNCHANGED orderVars
    BY <1>8 DEF DraftInvoice, DiscardDraft, Issue, VoidBegin, VoidList, VoidCommit, UpdateDraft, EditIssued
  <2>3. \A j \in voiding' : invStatus'[j] = "ISSUED"
    <3>1. \A j \in voiding : j \in Invs /\ invStatus[j] = "ISSUED"
      BY <1>0 DEF StatusInv, TypeOK
    <3>2. CASE VoidBegin(i) \/ VoidList(i)
      BY <3>1, <3>2 DEF VoidBegin, VoidList, invVars
    <3>3. CASE VoidCommit(i)
      BY <1>0, <3>1, <3>3 DEF VoidCommit, TypeOK
    <3>4. CASE \/ DraftInvoice(i) \/ DiscardDraft(i) \/ Issue(i)
               \/ \E q \in Requests : UpdateDraft(i, q) \/ EditIssued(i, q)
      BY <1>0, <3>1, <3>4 DEF DraftInvoice, DiscardDraft, Issue, UpdateDraft, EditIssued, TypeOK, reqVars
    <3> QED BY <1>8, <3>2, <3>3, <3>4
  <2> QED BY <1>6, <2>1, <2>2, <2>3
<1>9. CASE (\E p \in Policies : SetPolicy(p)) \/ UNCHANGED vars
  BY <1>9 DEF SetPolicy, vars, orderVars, doVars, invVars, reqVars, StatusInv, OrderStatusTracksLines, StatusFor
<1> QED BY <1>1, <1>3, <1>4, <1>5, <1>7, <1>8, <1>9 DEF Next

\* The strengthened invariant holds of every behaviour.
THEOREM StatusInvariant == Spec => []StatusInv
<1>1. Init => StatusInv
  BY DeliveryInit DEF Init, StatusInv, OrderStatusTracksLines
<1>2. StatusInv /\ DeliveryInv' /\ [Next]_vars => StatusInv'
  BY StatusInvStep
<1> QED BY <1>1, <1>2, DeliveryInvariant, PTL DEF Spec

\* A confirmed order always has the status recomputeDeliveryStatus() derives
\* from its lines, and a draft or cancelled order has no delivery order and
\* no invoice, whatever requests overlap.
THEOREM OrderStatusIsTracked == Spec => []OrderStatusTracksLines
<1>1. StatusInv => OrderStatusTracksLines
  BY DEF StatusInv
<1> QED BY <1>1, StatusInvariant, PTL

-----------------------------------------------------------------------------
(* Credits *)

\* At most one invoice of the order is a draft or issued:
\* createDraftFromSalesOrder() asks that every earlier one is void.
OneOpenInvoice ==
  \A i, j \in Invs : {invStatus[i], invStatus[j]} \subseteq {"DRAFT", "ISSUED"} => i = j

CreditInv == DeliveryInv /\ OneOpenInvoice /\ CreditsHaveReturns

CreditTypes == invCredited \in [Invs -> [Lines -> Nat]]

CreditedOn(l) == SumTo([i \in Invs |-> invCredited[i][l]], MaxInvoices)
CameBack(l)   == SumTo([d \in DOs |-> doReturned[d][l]], MaxDeliveries)

\* A return that credits at most one invoice with what came back on one
\* delivery order keeps the credits covered.
LEMMA CreditedByReturn ==
  ASSUME CreditTypes, CreditTypes', QuantityTypes, QuantityTypes',
         NEW l \in Lines, NEW n \in Nat, NEW d \in DOs,
         doReturned'[d][l] = doReturned[d][l] + n,
         \A e \in DOs : e # d => doReturned'[e][l] = doReturned[e][l],
         \/ \A i \in Invs : invCredited'[i][l] = invCredited[i][l]
         \/ \E i \in Invs :
              /\ invCredited'[i][l] = invCredited[i][l] + n
              /\ \A j \in Invs : j # i => invCredited'[j][l] = invCredited[j][l],
         CreditedOn(l) <= CameBack(l)
  PROVE  CreditedOn(l)' <= CameBack(l)'
<1> DEFINE f == [i \in Invs |-> invCredited[i][l]]
           g == [i \in Invs |-> invCredited'[i][l]]
           b == [e \in DOs |-> doReturned[e][l]]
           c == [e \in DOs |-> doReturned'[e][l]]
<1>1. f \in [1..MaxInvoices -> Int] /\ g \in [1..MaxInvoices -> Int]
  BY DEF CreditTypes, Invs
<1>2. b \in [1..MaxDeliveries -> Int] /\ c \in [1..MaxDeliveries -> Int]
  BY DEF QuantityTypes, DOs
<1>3. /\ CreditedOn(l) = SumTo(f, MaxInvoices) /\ CreditedOn(l)' = SumTo(g, MaxInvoices)
      /\ CameBack(l) = SumTo(b, MaxDeliveries) /\ CameBack(l)' = SumTo(c, MaxDeliveries)
  BY DEF CreditedOn, CameBack
<1>4. /\ d \in 1..MaxDeliveries /\ c[d] = b[d] + n
      /\ \A e \in 1..MaxDeliveries : e # d => c[e] = b[e]
  BY DEF DOs
<1>5. \/ g = f
      \/ \E i \in 1..MaxInvoices : g[i] = f[i] + n /\ \A j \in 1..MaxInvoices : j # i => g[j] = f[j]
  BY DEF Invs
<1> HIDE DEF f, g, b, c
<1>6. SumTo(c, MaxDeliveries) = SumTo(b, MaxDeliveries) + n
  <2>1. SumTo(c, MaxDeliveries) = SumTo(b, MaxDeliveries) - b[d] + c[d]
    BY <1>2, <1>4, SumToChange, CountsAssumption
  <2>2. SumTo(b, MaxDeliveries) \in Int
    BY <1>2, SumToInt, CountsAssumption
  <2>3. b[d] \in Int
    BY <1>2, <1>4
  <2> QED BY <1>4, <2>1, <2>2, <2>3
<1>7. SumTo(g, MaxInvoices) <= SumTo(f, MaxInvoices) + n
  <2>1. SumTo(f, MaxInvoices) \in Int
    BY <1>1, SumToInt, CountsAssumption
  <2>2. CASE g = f
    BY <2>1, <2>2
  <2>3. ASSUME NEW i \in 1..MaxInvoices, g[i] = f[i] + n,
               \A j \in 1..MaxInvoices : j # i => g[j] = f[j]
        PROVE  SumTo(g, MaxInvoices) <= SumTo(f, MaxInvoices) + n
    <3>1. SumTo(g, MaxInvoices) = SumTo(f, MaxInvoices) - f[i] + g[i]
      BY <1>1, <2>3, SumToChange, CountsAssumption
    <3> QED BY <1>1, <2>1, <2>3, <3>1
  <2> QED BY <1>5, <2>2, <2>3
<1>8. /\ SumTo(g, MaxInvoices) \in Int /\ SumTo(f, MaxInvoices) \in Int
      /\ SumTo(b, MaxDeliveries) \in Int
  BY <1>1, <1>2, SumToInt, CountsAssumption
<1> QED BY <1>3, <1>6, <1>7, <1>8

\* recordReturn() credits at most the one issued invoice.
LEMMA ReturnCredits ==
  ASSUME CreditInv, DeliveryInv', NEW d \in DOs, NEW q \in Requests, RecordReturn(d, q)
  PROVE  CreditsHaveReturns'
<1> SUFFICES ASSUME NEW l \in Lines PROVE CreditedOn(l)' <= CameBack(l)'
  BY DEF CreditsHaveReturns, CreditedOn, CameBack
<1>1. CreditTypes /\ CreditTypes' /\ QuantityTypes /\ QuantityTypes'
  BY DEF CreditInv, DeliveryInv, TypeOK, CreditTypes, QuantityTypes
<1>2. q[l] \in Nat
  BY RequestTypes
<1>3. /\ doReturned'[d][l] = doReturned[d][l] + q[l]
      /\ \A e \in DOs : e # d => doReturned'[e][l] = doReturned[e][l]
  BY DEF RecordReturn, CreditInv, DeliveryInv, TypeOK
<1>4. \A i \in Invs :
        invCredited'[i][l] = IF i \in CreditedInvoices THEN invCredited[i][l] + q[l] ELSE invCredited[i][l]
  BY DEF RecordReturn
<1>5. \A i, j \in CreditedInvoices : i \in Invs /\ j \in Invs /\ i = j
  BY DEF CreditedInvoices, CreditInv, OneOpenInvoice
<1>6. \/ \A i \in Invs : invCredited'[i][l] = invCredited[i][l]
      \/ \E i \in Invs :
           /\ invCredited'[i][l] = invCredited[i][l] + q[l]
           /\ \A j \in Invs : j # i => invCredited'[j][l] = invCredited[j][l]
  <2>1. CASE CreditedInvoices = {}
    BY <1>4, <2>1
  <2>2. ASSUME NEW i \in CreditedInvoices
        PROVE  \E k \in Invs :
                 /\ invCredited'[k][l] = invCredited[k][l] + q[l]
                 /\ \A j \in Invs : j # k => invCredited'[j][l] = invCredited[j][l]
    BY <1>4, <1>5, <2>2
  <2> QED BY <2>1, <2>2
<1>7. CreditedOn(l) <= CameBack(l)
  BY DEF CreditInv, CreditsHaveReturns, CreditedOn, CameBack
<1> QED BY <1>1, <1>2, <1>3, <1>6, <1>7, CreditedByReturn

\* Every action keeps the invariant.
LEMMA CreditStep == CreditInv /\ DeliveryInv' /\ [Next]_vars => CreditInv'
<1> SUFFICES ASSUME CreditInv, DeliveryInv', [Next]_vars PROVE CreditInv'
  OBVIOUS
<1>0. TypeOK /\ OneOpenInvoice /\ CreditsHaveReturns
  BY DEF CreditInv, DeliveryInv
<1>1. OneOpenInvoice'
  <2>1. ASSUME NEW i \in Invs, DraftInvoice(i) PROVE OneOpenInvoice'
    BY <1>0, <2>1 DEF DraftInvoice, OneOpenInvoice, TypeOK
  \* Elsewhere no invoice row is opened: one that is open was open.
  <2>2. ASSUME \A i \in Invs : invStatus'[i] \in {"DRAFT", "ISSUED"} => invStatus[i] \in {"DRAFT", "ISSUED"}
        PROVE  OneOpenInvoice'
    BY <1>0, <2>2 DEF OneOpenInvoice
  <2>3. ASSUME NEW i \in Invs, DiscardDraft(i) \/ Issue(i) \/ VoidCommit(i) PROVE OneOpenInvoice'
    BY <1>0, <2>2, <2>3 DEF DiscardDraft, Issue, VoidCommit, TypeOK
  <2>4. CASE UNCHANGED invStatus
    BY <2>2, <2>4
  <2>5. CASE \/ Confirm \/ CancelOrder
             \/ \E d \in DOs : \/ Ship(d) \/ FailDelivery(d) \/ RescheduleRead(d) \/ RescheduleWrite(d)
                               \/ CancelDelivery(d)
                               \/ \E q \in Requests : CreateDelivery(d, q) \/ RecordReturn(d, q)
             \/ \E i \in Invs : \/ VoidBegin(i) \/ VoidList(i)
                                \/ \E q \in Requests : UpdateDraft(i, q) \/ EditIssued(i, q)
             \/ \E p \in Policies : SetPolicy(p)
             \/ UNCHANGED vars
    BY <2>4, <2>5 DEF Confirm, CancelOrder, Ship, FailDelivery, RescheduleRead, RescheduleWrite,
                      CancelDelivery, CreateDelivery, RecordReturn, VoidBegin, VoidList, UpdateDraft, EditIssued,
                      SetPolicy, vars, invVars
  <2> QED BY <2>1, <2>3, <2>5 DEF Next
<1>2. CreditsHaveReturns'
  <2>1. ASSUME NEW d \in DOs, NEW q \in Requests, RecordReturn(d, q) PROVE CreditsHaveReturns'
    BY <2>1, ReturnCredits
  <2>2. CASE UNCHANGED <<invCredited, doReturned>>
    BY <1>0, <2>2 DEF CreditsHaveReturns
  <2>3. CASE \/ Confirm \/ CancelOrder
             \/ \E d \in DOs : \/ Ship(d) \/ FailDelivery(d) \/ RescheduleRead(d) \/ RescheduleWrite(d)
                               \/ CancelDelivery(d) \/ \E q \in Requests : CreateDelivery(d, q)
             \/ \E i \in Invs : \/ DraftInvoice(i) \/ DiscardDraft(i) \/ Issue(i)
                                \/ VoidBegin(i) \/ VoidList(i) \/ VoidCommit(i)
                                \/ \E q \in Requests : UpdateDraft(i, q) \/ EditIssued(i, q)
             \/ \E p \in Policies : SetPolicy(p)
             \/ UNCHANGED vars
    BY <2>2, <2>3 DEF Confirm, CancelOrder, Ship, FailDelivery, RescheduleRead, RescheduleWrite,
                      CancelDelivery, CreateDelivery, DraftInvoice, DiscardDraft, Issue, VoidBegin, VoidList,
                      VoidCommit, UpdateDraft, EditIssued, SetPolicy, vars, doVars, invVars
  <2> QED BY <2>1, <2>3 DEF Next
<1> QED BY <1>1, <1>2 DEF CreditInv

\* The strengthened invariant holds of every behaviour.
THEOREM CreditInvariant == Spec => []CreditInv
<1>1. Init => CreditInv
  <2> SUFFICES ASSUME Init PROVE CreditInv
    OBVIOUS
  <2>1. OneOpenInvoice
    BY DEF Init, OneOpenInvoice
  <2>2. ASSUME NEW l \in Lines PROVE CreditedOn(l) = 0 /\ CameBack(l) = 0
    <3>1. /\ [i \in Invs |-> invCredited[i][l]] = [i \in 1..MaxInvoices |-> 0]
          /\ [d \in DOs |-> doReturned[d][l]] = [d \in 1..MaxDeliveries |-> 0]
      BY DEF Init, Invs, DOs, None
    <3> QED BY <3>1, SumToZero, CountsAssumption DEF CreditedOn, CameBack
  <2>3. CreditsHaveReturns
    BY <2>2 DEF CreditsHaveReturns, CreditedOn, CameBack
  <2> QED BY <2>1, <2>3, DeliveryInit DEF CreditInv
<1>2. CreditInv /\ DeliveryInv' /\ [Next]_vars => CreditInv'
  BY CreditStep
<1> QED BY <1>1, <1>2, DeliveryInvariant, PTL DEF Spec

\* Every unit credited on an invoice came back on some delivery order,
\* whatever requests overlap.
THEOREM CreditsAreReturned == Spec => []CreditsHaveReturns
<1>1. CreditInv => CreditsHaveReturns
  BY DEF CreditInv
<1> QED BY <1>1, CreditInvariant, PTL

-----------------------------------------------------------------------------
(* What a delivery order's status tells *)

\* recomputeReturnStatus() says how far a delivery order has come back.
LEMMA ReturnStatusTells ==
  ASSUME NEW d \in DOs, NEW returned \in [Lines -> Nat], doQty[d] \in [Lines -> Nat],
         \A l \in Lines : returned[l] <= doQty[d][l]
  PROVE  /\ ReturnStatus(d, returned) = "SHIPPED" => returned = None
         /\ ReturnStatus(d, returned) = "PARTIALLY_RETURNED" => returned \notin {None, doQty[d]}
         /\ ReturnStatus(d, returned) = "RETURNED" => returned = doQty[d]
         /\ ReturnStatus(d, returned) \in {"SHIPPED", "PARTIALLY_RETURNED", "RETURNED"}
<1>1. CASE \A l \in Lines : returned[l] >= doQty[d][l]
  <2>1. \A l \in Lines : returned[l] = doQty[d][l]
    BY <1>1
  <2>2. returned = doQty[d]
    BY <2>1
  <2> QED BY <1>1, <2>2 DEF ReturnStatus
<1>2. CASE (\E l \in Lines : returned[l] < doQty[d][l]) /\ (\E l \in Lines : returned[l] > 0)
  <2>1. returned # doQty[d] /\ returned # None
    BY <1>2 DEF None
  <2>2. ~ \A l \in Lines : returned[l] >= doQty[d][l]
    BY <1>2
  <2> QED BY <1>2, <2>1, <2>2 DEF ReturnStatus
<1>3. CASE (\E l \in Lines : returned[l] < doQty[d][l]) /\ ~ \E l \in Lines : returned[l] > 0
  <2>1. \A l \in Lines : returned[l] = 0
    BY <1>3
  <2>2. returned = None
    BY <2>1 DEF None
  <2>3. ~ \A l \in Lines : returned[l] >= doQty[d][l]
    BY <1>3
  <2> QED BY <1>3, <2>2, <2>3 DEF ReturnStatus
<1> QED BY <1>1, <1>2, <1>3

\* What a step owes to the status of one delivery order.
StepTells(d) ==
  \/ ReturnsTold(d)'
  \/ OvertakenWrite(d)
  \/ ~ ReturnsTold(d) /\ doReturned'[d] = doReturned[d]

\* A step that leaves the row of d alone, or only takes it from SHIPPED to
\* FAILED or back.
LEMMA UntouchedTells ==
  ASSUME NEW d \in DOs,
         doReturned'[d] = doReturned[d], doQty'[d] = doQty[d], shippedAt'[d] = shippedAt[d],
         \/ doStatus'[d] = doStatus[d]
         \/ {doStatus[d], doStatus'[d]} \subseteq {"SHIPPED", "FAILED"}
  PROVE  StepTells(d)
  BY DEF StepTells, ReturnsTold, None

\* Steps of the delivery orders, row by row.
LEMMA DeliveryTells ==
  ASSUME DeliveryInv, NEW d \in DOs, NEW e \in DOs,
         \/ \E q \in Requests : CreateDelivery(e, q)
         \/ Ship(e) \/ FailDelivery(e) \/ RescheduleWrite(e) \/ CancelDelivery(e)
  PROVE  StepTells(d)
<1>0. TypeOK /\ DeliveryShape /\ None' = None
  BY DEF DeliveryInv, None
<1>1. ASSUME NEW q \in Requests, CreateDelivery(e, q) PROVE StepTells(d)
  <2>1. CASE d = e
    BY <1>0, <1>1, <2>1 DEF CreateDelivery, TypeOK, StepTells, ReturnsTold
  <2>2. CASE d # e
    BY <1>0, <1>1, <2>2, UntouchedTells DEF CreateDelivery, TypeOK
  <2> QED BY <2>1, <2>2
<1>2. CASE Ship(e)
  <2>1. CASE d = e
    BY <1>0, <1>2, <2>1 DEF Ship, TypeOK, DeliveryShape, StepTells, ReturnsTold
  <2>2. CASE d # e
    BY <1>0, <1>2, <2>2, UntouchedTells DEF Ship, TypeOK
  <2> QED BY <2>1, <2>2
<1>3. CASE FailDelivery(e)
  BY <1>0, <1>3, UntouchedTells DEF FailDelivery, TypeOK
<1>4. CASE RescheduleWrite(e)
  <2>1. CASE d = e /\ doStatus[d] # "FAILED"
    BY <1>4, <2>1 DEF RescheduleWrite, StepTells, OvertakenWrite
  <2>2. CASE d # e \/ doStatus[d] = "FAILED"
    BY <1>0, <1>4, <2>2, UntouchedTells DEF RescheduleWrite, TypeOK
  <2> QED BY <2>1, <2>2
<1>5. CASE CancelDelivery(e)
  <2>1. CASE d = e
    BY <1>0, <1>5, <2>1 DEF CancelDelivery, TypeOK, DeliveryShape, StepTells, ReturnsTold
  <2>2. CASE d # e
    BY <1>0, <1>5, <2>2, UntouchedTells DEF CancelDelivery, TypeOK
  <2> QED BY <2>1, <2>2
<1> QED BY <1>1, <1>2, <1>3, <1>4, <1>5

\* recordReturn() always leaves a true status.
LEMMA ReturnTells ==
  ASSUME DeliveryInv, NEW d \in DOs, NEW e \in DOs, NEW q \in Requests, RecordReturn(e, q)
  PROVE  StepTells(d)
<1> DEFINE returned == [l \in Lines |-> doReturned[e][l] + q[l]]
<1>1. /\ \A l \in Lines : returned[l] <= doQty[e][l]
      /\ doReturned' = [doReturned EXCEPT ![e] = returned]
      /\ doStatus' = [doStatus EXCEPT ![e] = ReturnStatus(e, returned)]
      /\ UNCHANGED <<doQty, shippedAt>>
  BY DEF RecordReturn
<1>2. returned \in [Lines -> Nat] /\ doQty[e] \in [Lines -> Nat] /\ TypeOK /\ None' = None
  BY RequestTypes DEF DeliveryInv, TypeOK, None
<1> HIDE DEF returned
<1>3. CASE d = e
  <2>1. doStatus'[d] = ReturnStatus(d, returned) /\ doReturned'[d] = returned /\ doQty'[d] = doQty[d]
    BY <1>1, <1>2, <1>3 DEF TypeOK
  <2>2. ReturnsTold(d)'
    BY <1>1, <1>2, <1>3, <2>1, ReturnStatusTells DEF ReturnsTold
  <2> QED BY <2>2 DEF StepTells
<1>4. CASE d # e
  BY <1>1, <1>2, <1>4, UntouchedTells DEF TypeOK
<1> QED BY <1>3, <1>4

\* voidInvoice() cancels what it has read as packed: where that is still so,
\* the delivery order never left.
LEMMA VoidTells ==
  ASSUME DeliveryInv, NEW d \in DOs, NEW i \in Invs, VoidCommit(i)
  PROVE  StepTells(d)
<1>1. /\ i \in voiding \ voiding'
      /\ UNCHANGED <<doQty, doReturned, shippedAt>>
      /\ doStatus'[d] = IF d \in voidPacked[i] THEN "CANCELLED" ELSE doStatus[d]
  BY DEF VoidCommit, DeliveryInv, TypeOK
<1>2. CASE d \in voidPacked[i] /\ doStatus[d] # "PACKED"
  BY <1>1, <1>2 DEF StepTells, OvertakenWrite
<1>3. CASE d \in voidPacked[i] /\ doStatus[d] = "PACKED"
  BY <1>1, <1>3 DEF DeliveryInv, DeliveryShape, StepTells, ReturnsTold
<1>4. CASE d \notin voidPacked[i]
  BY <1>1, <1>4, UntouchedTells
<1> QED BY <1>2, <1>3, <1>4

\* Every action keeps every status true, or is a write overtaken.
LEMMA TellsStep == DeliveryInv /\ [Next]_vars => \A d \in DOs : StepTells(d)
<1> SUFFICES ASSUME DeliveryInv, [Next]_vars, NEW d \in DOs PROVE StepTells(d)
  OBVIOUS
<1>1. ASSUME NEW e \in DOs, NEW q \in Requests, RecordReturn(e, q) PROVE StepTells(d)
  BY <1>1, ReturnTells
<1>2. ASSUME NEW e \in DOs,
             \/ \E q \in Requests : CreateDelivery(e, q)
             \/ Ship(e) \/ FailDelivery(e) \/ RescheduleWrite(e) \/ CancelDelivery(e)
      PROVE  StepTells(d)
  BY <1>2, DeliveryTells
<1>3. ASSUME NEW i \in Invs, VoidCommit(i) PROVE StepTells(d)
  BY <1>3, VoidTells
<1>4. CASE \/ Confirm \/ CancelOrder
           \/ \E e \in DOs : RescheduleRead(e)
           \/ \E i \in Invs : \/ DraftInvoice(i) \/ DiscardDraft(i) \/ Issue(i)
                              \/ VoidBegin(i) \/ VoidList(i)
                              \/ \E q \in Requests : UpdateDraft(i, q) \/ EditIssued(i, q)
           \/ \E p \in Policies : SetPolicy(p)
           \/ UNCHANGED vars
  <2>1. UNCHANGED doVars
    BY <1>4 DEF Confirm, CancelOrder, RescheduleRead, DraftInvoice, DiscardDraft, Issue, VoidBegin,
                VoidList, UpdateDraft, EditIssued, SetPolicy, vars
  <2> QED BY <2>1, UntouchedTells DEF doVars
<1> QED BY <1>1, <1>2, <1>3, <1>4 DEF Next

\* However requests overlap, a delivery order's status says whether and how
\* far it has come back, and a cancelled one never left, except where a
\* reschedule or a void has written a status for what it read and what was
\* overtaken since; the next recordReturn() makes it true again.
THEOREM StatusIsTold == Spec => StatusTellsReturns
<1> DEFINE A == \A d \in DOs : \/ ReturnsTold(d)'
                               \/ OvertakenWrite(d)
                               \/ ~ ReturnsTold(d) /\ doReturned'[d] = doReturned[d]
<1>1. DeliveryInv /\ [Next]_vars => [A]_vars
  BY TellsStep DEF StepTells
<1> QED BY <1>1, DeliveryInvariant, PTL DEF Spec, StatusTellsReturns

-----------------------------------------------------------------------------
(***************************************************************************)
(* Requests that arrive one after the other.  The next theorem supposes    *)
(* Serial: it fails without it, when ship() runs between voidInvoice()'s   *)
(* reads and its writes (see the README).                                  *)
(***************************************************************************)

\* At most one request is between its reads and its writes, and what it has
\* read still holds.
OneInFlight ==
  /\ voiding = {} \/ rescheduling = {}
  /\ \A i, j \in voiding : i = j
  /\ \A d, e \in rescheduling : d = e
  /\ \A d \in rescheduling : doStatus[d] = "FAILED"
  /\ \A i \in voidListed : \A d \in voidPacked[i] : doStatus[d] = "PACKED"

\* The status of every delivery order says how far it has come back.
AllTold == \A d \in DOs : ReturnsTold(d)

SerialInv == DeliveryInv /\ OneInFlight /\ AllTold /\ GoodsLeaveOnce

\* What goods a delivery order holds or has out; GoodsLeaveOnce asks that
\* there are none.
Idle(d) == doStatus[d] # "PACKED" /\ (shippedAt[d] => doReturned[d] = doQty[d])

\* A step before which nothing is in flight keeps the requests' readings
\* true: it starts one request, which reads what then holds, or none.
LEMMA NothingInFlight ==
  ASSUME voiding = {}, rescheduling = {}, TypeOK, TypeOK',
         \/ voiding' = {} /\ rescheduling' = {}
         \/ \E d \in DOs : RescheduleRead(d)
         \/ \E i \in Invs : VoidBegin(i)
  PROVE  OneInFlight'
<1>1. CASE voiding' = {} /\ rescheduling' = {}
  BY <1>1 DEF OneInFlight, TypeOK
<1>2. ASSUME NEW d \in DOs, RescheduleRead(d) PROVE OneInFlight'
  BY <1>2 DEF RescheduleRead, OneInFlight, doVars, TypeOK
<1>3. ASSUME NEW i \in Invs, VoidBegin(i) PROVE OneInFlight'
  <2>1. voiding' = {i} /\ voidListed' = {} /\ rescheduling' = {}
    BY <1>3 DEF VoidBegin, TypeOK
  <2> QED BY <2>1 DEF OneInFlight
<1> QED BY <1>1, <1>2, <1>3

\* When one request is in flight the only other step is its next one.
LEMMA SerialSteps ==
  ASSUME Serial, Next
  PROVE  \/ \E d \in DOs : RescheduleWrite(d)
         \/ \E i \in Invs : VoidList(i) \/ VoidCommit(i)
         \/ voiding = {} /\ rescheduling = {}
  BY DEF Next, MayStart, Confirm, CancelOrder, CreateDelivery, Ship, FailDelivery, RescheduleRead,
         CancelDelivery, RecordReturn, DraftInvoice, UpdateDraft, DiscardDraft, Issue, EditIssued,
         VoidBegin, SetPolicy

\* The next step of a reschedule and of a void.
LEMMA InFlightEnds ==
  ASSUME OneInFlight, TypeOK, TypeOK',
         \/ \E d \in DOs : RescheduleWrite(d)
         \/ \E i \in Invs : VoidList(i) \/ VoidCommit(i)
  PROVE  OneInFlight'
<1>1. ASSUME NEW d \in DOs, RescheduleWrite(d) PROVE OneInFlight'
  <2>1. voiding' = {} /\ rescheduling' = {}
    BY <1>1 DEF RescheduleWrite, OneInFlight
  <2> QED BY <2>1 DEF OneInFlight, TypeOK
<1>2. ASSUME NEW i \in Invs, VoidCommit(i) PROVE OneInFlight'
  <2>1. voiding' = {} /\ rescheduling' = {}
    BY <1>2 DEF VoidCommit, OneInFlight, TypeOK
  <2> QED BY <2>1 DEF OneInFlight, TypeOK
<1>3. ASSUME NEW i \in Invs, VoidList(i) PROVE OneInFlight'
  <2>1. UNCHANGED <<voiding, rescheduling, doStatus>> /\ voiding = {i} /\ voidListed' = {i}
    BY <1>3 DEF VoidList, OneInFlight, TypeOK, doVars
  <2>2. voidPacked'[i] = {d \in Reaches(i) : doStatus[d] = "PACKED"}
    BY <1>3 DEF VoidList, TypeOK
  <2> QED BY <2>1, <2>2 DEF OneInFlight
<1> QED BY <1>1, <1>2, <1>3

\* Every action keeps at most one request in flight.
LEMMA OneInFlightStep ==
  ASSUME Serial, TypeOK, TypeOK', OneInFlight, [Next]_vars
  PROVE  OneInFlight'
<1>1. CASE \/ \E d \in DOs : RescheduleWrite(d)
           \/ \E i \in Invs : VoidList(i) \/ VoidCommit(i)
  BY <1>1, InFlightEnds
<1>2. CASE UNCHANGED vars
  BY <1>2 DEF vars, doVars, reqVars, OneInFlight
<1>3. CASE Next /\ voiding = {} /\ rescheduling = {}
  <2>1. \/ \E d \in DOs : RescheduleRead(d)
        \/ \E i \in Invs : VoidBegin(i)
        \/ voiding' = {} /\ rescheduling' = {}
    BY <1>3 DEF Next, Confirm, CancelOrder, CreateDelivery, Ship, FailDelivery, RescheduleWrite,
                CancelDelivery, RecordReturn, DraftInvoice, UpdateDraft, DiscardDraft, Issue,
                EditIssued, VoidList, VoidCommit, SetPolicy, reqVars
  <2> QED BY <1>3, <2>1, NothingInFlight
<1> QED BY <1>1, <1>2, <1>3, SerialSteps

\* A step that brings no delivery order to life under an issued direct
\* invoice, and issues none over a delivery order that is not idle.
LEMMA LeaveOnce ==
  ASSUME GoodsLeaveOnce,
         \A i \in Invs : invStatus'[i] = "ISSUED" /\ invDirect'[i] =>
           \/ invStatus[i] = "ISSUED" /\ invDirect[i]
           \/ \A d \in DOs : Idle(d)',
         \A d \in DOs : \/ Idle(d) => Idle(d)'
                        \/ ~ \E i \in Invs : invStatus'[i] = "ISSUED" /\ invDirect'[i]
  PROVE  GoodsLeaveOnce'
  BY DEF GoodsLeaveOnce, Idle

\* AllTold, before and after a step.
LEMMA ToldEach ==
  /\ AllTold <=> \A d \in DOs : ReturnsTold(d)
  /\ AllTold' <=> \A d \in DOs : ReturnsTold(d)'
  BY DEF AllTold

\* The steps of the delivery side: one delivery order changes, the invoices
\* keep their statuses.
LEMMA SerialDelivery ==
  ASSUME SerialInv, DeliveryInv', NEW d \in DOs,
         UNCHANGED <<invStatus, invDirect>>,
         \A e \in DOs : e # d => /\ doStatus'[e] = doStatus[e] /\ doReturned'[e] = doReturned[e]
                                 /\ doQty'[e] = doQty[e] /\ shippedAt'[e] = shippedAt[e],
         ReturnsTold(d)',
         \/ Idle(d) => Idle(d)'
         \/ ~ \E i \in Invs : invStatus[i] = "ISSUED" /\ invDirect[i]
  PROVE  AllTold' /\ GoodsLeaveOnce'
<1>1. \A e \in DOs : ReturnsTold(e)'
  <2> SUFFICES ASSUME NEW e \in DOs PROVE ReturnsTold(e)'
    OBVIOUS
  <2>1. CASE e # d
    <3>1. ReturnsTold(e)
      BY ToldEach DEF SerialInv
    <3> QED BY <2>1, <3>1 DEF ReturnsTold, None
  <2> QED BY <2>1
<1>2. \A e \in DOs : \/ Idle(e) => Idle(e)'
                     \/ ~ \E i \in Invs : invStatus'[i] = "ISSUED" /\ invDirect'[i]
  BY DEF Idle
<1> QED BY <1>1, <1>2, ToldEach, LeaveOnce DEF SerialInv

\* recordReturn().
LEMMA SerialReturn ==
  ASSUME SerialInv, DeliveryInv', NEW d \in DOs, NEW q \in Requests, RecordReturn(d, q)
  PROVE  AllTold' /\ GoodsLeaveOnce'
<1> DEFINE returned == [l \in Lines |-> doReturned[d][l] + q[l]]
<1>1. /\ \A l \in Lines : returned[l] <= doQty[d][l]
      /\ doReturned' = [doReturned EXCEPT ![d] = returned]
      /\ doStatus' = [doStatus EXCEPT ![d] = ReturnStatus(d, returned)]
      /\ UNCHANGED <<doQty, shippedAt, invStatus, invDirect>>
      /\ doStatus[d] \in LeftStatuses
  BY DEF RecordReturn, LeftStatuses
<1>2. /\ returned \in [Lines -> Nat] /\ doQty[d] \in [Lines -> Nat] /\ doReturned[d] \in [Lines -> Nat]
      /\ \A l \in Lines : returned[l] >= doReturned[d][l]
  BY RequestTypes DEF SerialInv, DeliveryInv, TypeOK
<1>3. doReturned[d] = doQty[d] => returned = doQty[d]
  <2> SUFFICES ASSUME doReturned[d] = doQty[d] PROVE returned = doQty[d]
    OBVIOUS
  <2>1. \A l \in Lines : returned[l] = doQty[d][l]
    BY <1>1, <1>2
  <2> QED BY <1>2, <2>1
<1> HIDE DEF returned
<1>4. shippedAt[d] /\ shippedAt' = shippedAt
  BY <1>1 DEF SerialInv, DeliveryInv, DeliveryShape
<1>5. /\ doStatus'[d] = ReturnStatus(d, returned) /\ doReturned'[d] = returned
      /\ doQty' = doQty
      /\ \A e \in DOs : e # d => doStatus'[e] = doStatus[e] /\ doReturned'[e] = doReturned[e]
  BY <1>1 DEF SerialInv, DeliveryInv, TypeOK
<1>6. ReturnsTold(d)'
  <2>1. None' = None
    BY DEF None
  <2> QED BY <1>1, <1>2, <1>5, <2>1, ReturnStatusTells DEF ReturnsTold
<1>7. Idle(d) => Idle(d)'
  <2>1. doStatus'[d] # "PACKED"
    BY <1>1, <1>2, <1>5, ReturnStatusTells
  <2> QED BY <1>3, <1>4, <1>5, <2>1 DEF Idle
<1> QED BY <1>1, <1>5, <1>6, <1>7, SerialDelivery

\* The other steps of one delivery order.
LEMMA SerialDeliveryStep ==
  ASSUME SerialInv, DeliveryInv', NEW d \in DOs,
         \/ \E q \in Requests : CreateDelivery(d, q)
         \/ Ship(d) \/ FailDelivery(d) \/ RescheduleWrite(d) \/ CancelDelivery(d)
  PROVE  AllTold' /\ GoodsLeaveOnce'
<1>0. /\ TypeOK /\ OneInFlight /\ ReturnsTold(d) /\ None' = None
      /\ doStatus[d] \in {"NONE", "PACKED"} => ~shippedAt[d] /\ doReturned[d] = None
      /\ d \in rescheduling => doStatus[d] = "FAILED"
  BY ToldEach DEF SerialInv, DeliveryInv, DeliveryShape, OneInFlight, None
<1>1. ASSUME NEW q \in Requests, CreateDelivery(d, q)
      PROVE  AllTold' /\ GoodsLeaveOnce'
  <2>1. /\ UNCHANGED <<invStatus, invDirect, doReturned, shippedAt>>
        /\ doStatus'[d] = "PACKED"
        /\ \A e \in DOs : e # d => doStatus'[e] = doStatus[e] /\ doQty'[e] = doQty[e]
    BY <1>0, <1>1 DEF CreateDelivery, invVars, TypeOK
  <2>2. ~ \E i \in Invs : invStatus[i] = "ISSUED" /\ invDirect[i]
    BY <1>1 DEF CreateDelivery
  <2>3. ReturnsTold(d)'
    BY <2>1 DEF ReturnsTold
  <2> QED BY <2>1, <2>2, <2>3, SerialDelivery
<1>2. CASE Ship(d)
  <2>1. /\ UNCHANGED <<invStatus, invDirect, doReturned, doQty>>
        /\ doStatus[d] = "PACKED" /\ doStatus'[d] = "SHIPPED"
        /\ \A e \in DOs : e # d => doStatus'[e] = doStatus[e] /\ shippedAt'[e] = shippedAt[e]
    BY <1>0, <1>2 DEF Ship, invVars, TypeOK
  <2>2. ~Idle(d)
    BY <2>1 DEF Idle
  <2>3. ReturnsTold(d)'
    BY <1>0, <2>1 DEF ReturnsTold
  <2> QED BY <2>1, <2>2, <2>3, SerialDelivery
<1>3. CASE FailDelivery(d) \/ RescheduleWrite(d)
  <2>1. /\ UNCHANGED <<invStatus, invDirect, doReturned, doQty, shippedAt>>
        /\ doStatus[d] \in {"SHIPPED", "FAILED"} /\ doStatus'[d] \in {"SHIPPED", "FAILED"}
        /\ \A e \in DOs : e # d => doStatus'[e] = doStatus[e]
    BY <1>0, <1>3 DEF FailDelivery, RescheduleWrite, invVars, TypeOK
  <2>2. Idle(d) => Idle(d)'
    BY <2>1 DEF Idle
  <2>3. ReturnsTold(d)'
    BY <1>0, <2>1 DEF ReturnsTold
  <2> QED BY <2>1, <2>2, <2>3, SerialDelivery
<1>4. CASE CancelDelivery(d)
  <2>1. /\ UNCHANGED <<invStatus, invDirect, doReturned, doQty, shippedAt>>
        /\ doStatus[d] = "PACKED" /\ doStatus'[d] = "CANCELLED"
        /\ \A e \in DOs : e # d => doStatus'[e] = doStatus[e]
    BY <1>0, <1>4 DEF CancelDelivery, invVars, TypeOK
  <2>2. Idle(d) => Idle(d)'
    BY <2>1 DEF Idle
  <2>3. ReturnsTold(d)'
    BY <1>0, <2>1 DEF ReturnsTold
  <2> QED BY <2>1, <2>2, <2>3, SerialDelivery
<1> QED BY <1>1, <1>2, <1>3, <1>4

\* issue() takes the goods itself only where every delivery order is
\* cancelled, and a cancelled one never left.
LEMMA SerialIssue ==
  ASSUME SerialInv, NEW i \in Invs, Issue(i)
  PROVE  AllTold' /\ GoodsLeaveOnce'
<1>1. /\ UNCHANGED doVars
      /\ invDirect'[i] => ~OwnedByDelivery
      /\ \A j \in Invs : j # i => invStatus'[j] = invStatus[j] /\ invDirect'[j] = invDirect[j]
  BY DEF Issue, SerialInv, DeliveryInv, TypeOK
<1>2. AllTold'
  BY <1>1 DEF AllTold, ReturnsTold, SerialInv, doVars, None
<1>3. \A d \in DOs : Idle(d)' <=> Idle(d)
  BY <1>1 DEF Idle, doVars
<1>4. ~OwnedByDelivery => \A d \in DOs : Idle(d)
  BY DEF OwnedByDelivery, Idle, SerialInv, DeliveryInv, DeliveryShape, AllTold, ReturnsTold
<1>5. GoodsLeaveOnce'
  BY <1>1, <1>3, <1>4, LeaveOnce DEF SerialInv
<1> QED BY <1>2, <1>5

\* voidInvoice() cancels what is still packed.
LEMMA SerialVoid ==
  ASSUME SerialInv, NEW i \in Invs, VoidCommit(i)
  PROVE  AllTold' /\ GoodsLeaveOnce'
<1>1. /\ UNCHANGED <<doQty, doReturned, shippedAt, invDirect>>
      /\ \A d \in DOs : doStatus'[d] = IF d \in voidPacked[i] THEN "CANCELLED" ELSE doStatus[d]
      /\ \A j \in Invs : invStatus'[j] = IF j = i THEN "VOID" ELSE invStatus[j]
      /\ \A d \in voidPacked[i] : doStatus[d] = "PACKED"
  BY DEF VoidCommit, SerialInv, DeliveryInv, TypeOK, OneInFlight
<1>2. \A d \in DOs : ReturnsTold(d)'
  <2> SUFFICES ASSUME NEW d \in DOs PROVE ReturnsTold(d)'
    OBVIOUS
  <2>1. ReturnsTold(d) /\ (doStatus[d] = "PACKED" => ~shippedAt[d])
    BY ToldEach DEF SerialInv, DeliveryInv, DeliveryShape
  <2> QED BY <1>1, <2>1 DEF ReturnsTold, None
<1>3. \A d \in DOs : Idle(d) => Idle(d)'
  BY <1>1 DEF Idle
<1>4. \A j \in Invs : invStatus'[j] = "ISSUED" => invStatus[j] = "ISSUED"
  BY <1>1
<1> QED BY <1>1, <1>2, <1>3, <1>4, ToldEach, LeaveOnce DEF SerialInv

\* The steps that leave the deliveries alone and issue nothing.
LEMMA SerialOther ==
  ASSUME SerialInv, UNCHANGED <<doVars, invDirect>>,
         \A i \in Invs : invStatus'[i] = "ISSUED" => invStatus[i] = "ISSUED"
  PROVE  AllTold' /\ GoodsLeaveOnce'
<1>1. AllTold'
  BY DEF AllTold, ReturnsTold, SerialInv, doVars, None
<1>2. \A d \in DOs : Idle(d)' <=> Idle(d)
  BY DEF Idle, doVars
<1> QED BY <1>1, <1>2, LeaveOnce DEF SerialInv

\* Every action keeps the invariant.
LEMMA SerialStep == Serial /\ SerialInv /\ DeliveryInv' /\ [Next]_vars => SerialInv'
<1> SUFFICES ASSUME Serial, SerialInv, DeliveryInv', [Next]_vars PROVE SerialInv'
  OBVIOUS
<1>1. OneInFlight'
  BY OneInFlightStep DEF SerialInv, DeliveryInv
<1>2. AllTold' /\ GoodsLeaveOnce'
  <2>1. ASSUME NEW d \in DOs, NEW q \in Requests, RecordReturn(d, q)
        PROVE  AllTold' /\ GoodsLeaveOnce'
    BY <2>1, SerialReturn
  <2>2. ASSUME NEW d \in DOs,
               \/ \E q \in Requests : CreateDelivery(d, q)
               \/ Ship(d) \/ FailDelivery(d) \/ RescheduleWrite(d) \/ CancelDelivery(d)
        PROVE  AllTold' /\ GoodsLeaveOnce'
    BY <2>2, SerialDeliveryStep
  <2>3. ASSUME NEW i \in Invs, Issue(i) PROVE AllTold' /\ GoodsLeaveOnce'
    BY <2>3, SerialIssue
  <2>4. ASSUME NEW i \in Invs, VoidCommit(i) PROVE AllTold' /\ GoodsLeaveOnce'
    BY <2>4, SerialVoid
  <2>5. ASSUME NEW i \in Invs, DraftInvoice(i) \/ DiscardDraft(i)
        PROVE  AllTold' /\ GoodsLeaveOnce'
    <3>1. /\ UNCHANGED <<doVars, invDirect>>
          /\ \A j \in Invs : invStatus'[j] = "ISSUED" => invStatus[j] = "ISSUED"
      BY <2>5 DEF DraftInvoice, DiscardDraft, SerialInv, DeliveryInv, TypeOK
    <3> QED BY <3>1, SerialOther
  <2>6. CASE \/ Confirm \/ CancelOrder
             \/ \E d \in DOs : RescheduleRead(d)
             \/ \E i \in Invs : \/ VoidBegin(i) \/ VoidList(i)
                                \/ \E q \in Requests : UpdateDraft(i, q) \/ EditIssued(i, q)
             \/ \E p \in Policies : SetPolicy(p)
             \/ UNCHANGED vars
    <3>1. UNCHANGED <<doVars, invDirect, invStatus>>
      BY <2>6 DEF Confirm, CancelOrder, RescheduleRead, VoidBegin, VoidList, UpdateDraft, EditIssued, SetPolicy,
                  vars, invVars
    <3> QED BY <3>1, SerialOther
  <2> QED BY <2>1, <2>2, <2>3, <2>4, <2>5, <2>6 DEF Next
<1> QED BY <1>1, <1>2 DEF SerialInv

\* The strengthened invariant holds of every serial behaviour.
THEOREM SerialInvariant ==
  ASSUME Serial
  PROVE  Spec => []SerialInv
<1>1. Init => SerialInv
  BY DeliveryInit DEF Init, SerialInv, OneInFlight, AllTold, ReturnsTold, GoodsLeaveOnce
<1>2. SerialInv /\ DeliveryInv' /\ [Next]_vars => SerialInv'
  BY SerialStep
<1> QED BY <1>1, <1>2, DeliveryInvariant, PTL DEF Spec

\* When requests do not overlap, the goods of an order leave on its delivery
\* orders or with an invoice that stands, never on both.
THEOREM GoodsLeaveOnlyOnce ==
  ASSUME Serial
  PROVE  Spec => []GoodsLeaveOnce
<1>1. SerialInv => GoodsLeaveOnce
  BY DEF SerialInv
<1> QED BY <1>1, SerialInvariant, PTL
=============================================================================
