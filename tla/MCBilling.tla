------------------------------ MODULE MCBilling ------------------------------
(***************************************************************************)
(* Two subscriptions that share a module, and a top-up.                    *)
(***************************************************************************)
EXTENDS Billing

CONSTANTS p1, p2, p3, m1, m2

Bought   == [p \in Payments |-> IF p = p1 THEN {m1} ELSE IF p = p2 THEN {m1, m2} ELSE {}]
Credited == [p \in Payments |-> IF p = p3 THEN 2 ELSE 0]
=============================================================================
