------------------------- MODULE MCOrderStatusLocks -------------------------
(***************************************************************************)
(* Instances of OrderStatusLocks for TLC.                                  *)
(***************************************************************************)
EXTENDS OrderStatusLocks

CONSTANTS l1, l2

TwoLines == {l1, l2}

TwoEach == [l \in Lines |-> 2]
=============================================================================
