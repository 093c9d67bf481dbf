-------------------------- MODULE MCDeliveryRoutes --------------------------
(***************************************************************************)
(* Two routes, one delivery order and one site to visit.                   *)
(***************************************************************************)
EXTENDS DeliveryRoutes, TLC

CONSTANTS r1, r2, d1, x1, c1, c2

Symmetric == Permutations({r1, r2}) \cup Permutations({c1, c2})

\* An update reopens a route that a plan has emptied and cancelled.
Reopened == {"PLANNED"}

\* What drivers and dispatchers do while the office works on the same routes.
OverlappingOps == {"proof", "rescheduleVisit"}
=============================================================================
