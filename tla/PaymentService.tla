--------------------------- MODULE PaymentService ---------------------------
(***************************************************************************)
(* What billing promises a customer: every checkout that is paid for is    *)
(* applied, once and only after it was paid.                               *)
(***************************************************************************)
CONSTANT Payments

VARIABLES
  paid,     \* the checkouts that the customer paid for
  applied   \* those whose modules or credit were granted

Init == paid = {} /\ applied = {}

Pay(p) ==
  /\ paid' = paid \cup {p}
  /\ UNCHANGED applied

Grant(p) ==
  /\ p \in paid \ applied
  /\ applied' = applied \cup {p}
  /\ UNCHANGED paid

Next == \E p \in Payments : Pay(p) \/ Grant(p)

Safe == Init /\ [][Next]_<<paid, applied>>

Granting == \A p \in Payments : WF_<<paid, applied>>(Grant(p))

Spec == Safe /\ Granting
=============================================================================
