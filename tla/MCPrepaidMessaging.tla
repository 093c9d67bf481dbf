------------------------- MODULE MCPrepaidMessaging -------------------------
(***************************************************************************)
(* A top-up that pays for two messages, and two messages.                  *)
(***************************************************************************)
EXTENDS PrepaidMessaging

CONSTANTS p3, a1, a2, k1, k2

Bought   == [p \in Payments |-> {}]
Credited == [p \in Payments |-> 2]
=============================================================================
