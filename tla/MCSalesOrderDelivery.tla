------------------------ MODULE MCSalesOrderDelivery ------------------------
(***************************************************************************)
(* Instances of SalesOrderDelivery for TLC.                                *)
(***************************************************************************)
EXTENDS SalesOrderDelivery

CONSTANTS l1, l2

OneLine  == {l1}
TwoLines == {l1, l2}

\* Two units on every line: a delivery, a return or a fulfilment can be
\* partial.
TwoEach == [l \in Lines |-> 2]

\* Stock: too little for the order, or enough for every delivery.
OneInStock  == [l \in Lines |-> 1]
FourInStock == [l \in Lines |-> 4]

BlockOnly   == {"BLOCK"}
BothPolicies == {"BLOCK", "OVERSELL"}
=============================================================================
