-------------------------- MODULE OrderStatusLocks --------------------------
(***************************************************************************)
(* The transactions behind one sales order's lines and status, statement   *)
(* by statement: DeliveryOrderService.create() claims units on the lines,  *)
(* cancel() and recordReturn() release them, and each ends with            *)
(* SalesOrderService.recomputeDeliveryStatus().                            *)
(*                                                                         *)
(* PostgreSQL runs them at READ COMMITTED: an UPDATE takes the row's lock  *)
(* and keeps it until the transaction ends, a SELECT takes none and sees   *)
(* what is committed and what its own transaction wrote.  create() locks   *)
(* the order row first; the other two lock order lines and come to the     *)
(* order row last, if at all.  SalesOrderDelivery takes each transaction   *)
(* in one step; this module is why that is not the whole story.            *)
(***************************************************************************)
EXTENDS Integers, Sequences, FiniteSets, FiniteSetsExt

CONSTANTS
  Txs,        \* transactions that may be open at the same time
  Lines,      \* lines of the order
  Ordered,    \* ordered quantity of each line
  MaxQty      \* bound: quantity a request may list for a line

ASSUME LockOrderAssumption ==
  /\ IsFiniteSet(Lines)
  /\ Ordered \in [Lines -> Nat \ {0}]
  /\ MaxQty \in Nat

\* The order row, next to the rows of its lines; a free row is nobody's.
Order == "order"
Rows  == Lines \cup {Order}
Nobody == "nobody"

ASSUME RowsAssumption ==
  /\ Order \notin Lines
  /\ Nobody \notin Txs

VARIABLES
  status,      \* SalesOrder.status, committed
  delivered,   \* SalesOrderItem.deliveredQuantity, committed
  pc,          \* the statement each transaction is at
  change,      \* what the transaction adds to each line
  todo,        \* the lines it has still to update, in its order
  seen,        \* the order's status as its recompute has read it
  new,         \* the status it has computed
  lock         \* the transaction that holds each row

vars == <<status, delivered, pc, change, todo, seen, new, lock>>

NoChange == [l \in Lines |-> 0]

\* Every order in which a request may list the lines of a set.
Listings(S) == {s \in [1..Cardinality(S) -> S] : \A x \in S : \E i \in DOMAIN s : s[i] = x}

\* The row a transaction's next statement locks, if any, and who holds it.
Wants(t) ==
  CASE pc[t] \in {"order", "write"} -> {Order}
    [] pc[t] = "lines" /\ todo[t] # <<>> -> {Head(todo[t])}
    [] OTHER -> {}
Holders(t) == {lock[r] : r \in Wants(t)} \ {t, Nobody}

\* A transaction ends: its locks go, and it is ready for another request.
End(t) ==
  /\ pc' = [pc EXCEPT ![t] = "idle"]
  /\ change' = [change EXCEPT ![t] = NoChange]
  /\ todo' = [todo EXCEPT ![t] = <<>>]
  /\ seen' = [seen EXCEPT ![t] = "CONFIRMED"]
  /\ new' = [new EXCEPT ![t] = "CONFIRMED"]
  /\ lock' = [r \in Rows |-> IF lock[r] = t THEN Nobody ELSE lock[r]]

Abort(t) == End(t) /\ UNCHANGED <<status, delivered>>

Take(t, r) == lock' = [lock EXCEPT ![r] = t]

-----------------------------------------------------------------------------
\* create() begins, for a delivery of q.
BeginClaim(t, q, s) ==
  /\ pc[t] = "idle"
  /\ pc' = [pc EXCEPT ![t] = "order"]
  /\ change' = [change EXCEPT ![t] = q]
  /\ todo' = [todo EXCEPT ![t] = s]
  /\ UNCHANGED <<status, delivered, seen, new, lock>>

\* Units of line l that open transactions are about to release.
Leaving(l) == MapThenSumSet(LAMBDA u : IF change[u][l] < 0 THEN - change[u][l] ELSE 0, Txs)

\* cancel() or recordReturn() begins, for q units that delivery orders hold
\* of the lines; the delivery row's lock or conditional update keeps two
\* transactions from releasing the same unit.
BeginRelease(t, q, s) ==
  /\ pc[t] = "idle"
  /\ \A l \in Lines : q[l] + Leaving(l) <= delivered[l]
  /\ pc' = [pc EXCEPT ![t] = "lines"]
  /\ change' = [change EXCEPT ![t] = [l \in Lines |-> - q[l]]]
  /\ todo' = [todo EXCEPT ![t] = s]
  /\ UNCHANGED <<status, delivered, seen, new, lock>>

\* create(): SELECT ... FOR UPDATE on the order, and the status check.
LockOrder(t) ==
  /\ pc[t] = "order"
  /\ lock[Order] = Nobody
  /\ IF status \in {"CONFIRMED", "PARTIALLY_DELIVERED"}
     THEN /\ Take(t, Order)
          /\ pc' = [pc EXCEPT ![t] = "lines"]
          /\ UNCHANGED <<status, delivered, change, todo, seen, new>>
     ELSE Abort(t)

\* Mutants of UpdateLine: the claim is not conditional; a refused claim is
\* tried again inside the transaction; the line is read, and written later.
UpdateLineBlindly(t) ==
  /\ pc[t] = "lines"
  /\ todo[t] # <<>>
  /\ lock[Head(todo[t])] = Nobody
  /\ Take(t, Head(todo[t]))
  /\ todo' = [todo EXCEPT ![t] = Tail(@)]
  /\ UNCHANGED <<status, delivered, pc, change, seen, new>>

UpdateLineRetried(t) ==
  /\ UpdateLineBlindly(t)
  /\ LET l == Head(todo[t]) IN delivered[l] + change[t][l] \in 0..Ordered[l]

UpdateLineUnlocked(t) ==
  /\ pc[t] = "lines"
  /\ todo[t] # <<>>
  /\ todo' = [todo EXCEPT ![t] = Tail(@)]
  /\ UNCHANGED <<status, delivered, pc, change, seen, new, lock>>

\* The conditional UPDATE of the next line: refused when a claim would take
\* the line over its ordered quantity or a release below zero.
UpdateLine(t) ==
  /\ pc[t] = "lines"
  /\ todo[t] # <<>>
  /\ LET l == Head(todo[t])
     IN  /\ lock[l] = Nobody
         /\ IF delivered[l] + change[t][l] \in 0..Ordered[l]
            THEN /\ Take(t, l)
                 /\ todo' = [todo EXCEPT ![t] = Tail(@)]
                 /\ UNCHANGED <<status, delivered, pc, change, seen, new>>
            ELSE Abort(t)

\* recomputeDeliveryStatus() reads the order row ...
ReadOrder(t) ==
  /\ pc[t] = "lines"
  /\ todo[t] = <<>>
  /\ seen' = [seen EXCEPT ![t] = status]
  /\ pc' = [pc EXCEPT ![t] = "read"]
  /\ UNCHANGED <<status, delivered, change, todo, new, lock>>

\* ... then the lines, and derives the status ...
StatusFor(dq) ==
  IF \A l \in Lines : dq[l] >= Ordered[l] THEN "FULLY_DELIVERED"
  ELSE IF \E l \in Lines : dq[l] > 0 THEN "PARTIALLY_DELIVERED"
  ELSE "CONFIRMED"

\* The lines as a transaction sees them.
Visible(t) == [l \in Lines |-> delivered[l] + change[t][l]]

ReadLines(t) ==
  /\ pc[t] = "read"
  /\ new' = [new EXCEPT ![t] = StatusFor(Visible(t))]
  /\ pc' = [pc EXCEPT ![t] = IF new'[t] = seen[t] THEN "commit" ELSE "write"]
  /\ UNCHANGED <<status, delivered, change, todo, seen, lock>>

\* ... and updates the order row when the status has changed.
WriteStatus(t) ==
  /\ pc[t] = "write"
  /\ lock[Order] \in {Nobody, t}
  /\ Take(t, Order)
  /\ pc' = [pc EXCEPT ![t] = "commit"]
  /\ UNCHANGED <<status, delivered, change, todo, seen, new>>

Commit(t) ==
  /\ pc[t] = "commit"
  /\ delivered' = Visible(t)
  /\ status' = IF new[t] = seen[t] THEN status ELSE new[t]
  /\ End(t)

\* PostgreSQL ends a wait that has become circular by aborting one of the
\* transactions in it; nothing retries these requests.
InCycle(t) ==
  \E S \in SUBSET Txs : /\ t \in S
                        /\ \A u \in S : \E v \in S : v \in Holders(u)
                        /\ \A u \in S : \E v \in S : u \in Holders(v)
DeadlockVictim(t) == InCycle(t) /\ Abort(t)

-----------------------------------------------------------------------------
Init ==
  /\ status = "CONFIRMED"
  /\ delivered = NoChange
  /\ pc = [t \in Txs |-> "idle"]
  /\ change = [t \in Txs |-> NoChange]
  /\ todo = [t \in Txs |-> <<>>]
  /\ seen = [t \in Txs |-> "CONFIRMED"]
  /\ new = [t \in Txs |-> "CONFIRMED"]
  /\ lock = [r \in Rows |-> Nobody]

Requests == {q \in [Lines -> 0..MaxQty] : q # NoChange}
Support(q) == {l \in Lines : q[l] > 0}

Begin(t) ==
  \E q \in Requests : \E s \in Listings(Support(q)) : BeginClaim(t, q, s) \/ BeginRelease(t, q, s)

\* What an open transaction does next.
Statement(t) ==
  \/ LockOrder(t) \/ UpdateLine(t) \/ ReadOrder(t) \/ ReadLines(t)
  \/ WriteStatus(t) \/ Commit(t) \/ DeadlockVictim(t)

Next == \E t \in Txs : Begin(t) \/ Statement(t)

Spec == Init /\ [][Next]_vars

\* The database runs every statement whose lock is free, and finds every
\* circular wait.
FairSpec == Spec /\ \A t \in Txs : SF_vars(Statement(t))

-----------------------------------------------------------------------------
(* Properties *)

Statuses == {"CONFIRMED", "PARTIALLY_DELIVERED", "FULLY_DELIVERED"}

\* The lines that transaction t has updated.
Updated(t) ==
  IF pc[t] \in {"lines", "read", "write", "commit"}
  THEN {l \in Lines : change[t][l] # 0 /\ \A i \in DOMAIN todo[t] : todo[t][i] # l}
  ELSE {}

\* The variables have the types of their columns, and a transaction holds
\* the rows of the lines it has updated.
TypeOK ==
  /\ status \in Statuses
  /\ delivered \in [Lines -> Nat]
  /\ pc \in [Txs -> {"idle", "order", "lines", "read", "write", "commit"}]
  /\ change \in [Txs -> [Lines -> Int]]
  /\ todo \in [Txs -> Seq(Lines)]
  /\ seen \in [Txs -> Statuses]
  /\ new \in [Txs -> Statuses]
  /\ lock \in [Rows -> Txs \cup {Nobody}]
  /\ \A t \in Txs : \A l \in Updated(t) : lock[l] = t

\* Claims that overlap never take a line over its ordered quantity, though
\* create() decides on an unlocked read and the other transactions hold no
\* lock on the order.
NeverOverClaimed ==
  \A l \in Lines : delivered[l] \in 0..Ordered[l]

\* Every request on the order ends, though the three transactions lock
\* lines and order in different orders.
EveryRequestEnds ==
  \A t \in Txs : pc[t] # "idle" ~> pc[t] = "idle"
=============================================================================
