-------------------------- MODULE OrderCommitment --------------------------
(***************************************************************************)
(* What the delivery side of a sales order promises, without delivery      *)
(* orders, invoices or requests: of each ordered line some units are       *)
(* committed to deliveries and some of those are out of the building.      *)
(*                                                                         *)
(* Goods go out only from what is committed, a commitment is withdrawn     *)
(* only while its goods are in, and goods that come back free exactly      *)
(* their own commitment.  SalesOrderDelivery implements this module.       *)
(***************************************************************************)
EXTENDS Integers

CONSTANTS
  Lines,     \* lines of the order
  Ordered    \* ordered quantity of each line

VARIABLES
  committed,   \* units of each line committed to deliveries
  out          \* units of each line out of the building

Init ==
  /\ committed = [l \in Lines |-> 0]
  /\ out = [l \in Lines |-> 0]

\* A delivery is planned.
Commit ==
  /\ \A l \in Lines : committed[l] <= committed'[l] /\ committed'[l] <= Ordered[l]
  /\ out' = out

\* A planned delivery is called off.
Withdraw ==
  /\ \A l \in Lines : out[l] <= committed'[l] /\ committed'[l] <= committed[l]
  /\ out' = out

\* Committed goods leave.
Depart ==
  /\ \A l \in Lines : out[l] <= out'[l] /\ out'[l] <= committed[l]
  /\ committed' = committed

\* Goods come back.
ComeBack ==
  /\ \A l \in Lines : /\ 0 <= out'[l] /\ out'[l] <= out[l]
                      /\ committed[l] - committed'[l] = out[l] - out'[l]

Next == Commit \/ Withdraw \/ Depart \/ ComeBack

Spec == Init /\ [][Next]_<<committed, out>>
=============================================================================
