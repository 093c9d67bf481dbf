----------------------------- MODULE MCJournal -----------------------------
(***************************************************************************)
(* Instances of Journal for TLC.                                           *)
(***************************************************************************)
EXTENDS Journal, TLC

CONSTANTS t1, t2, p1, p2, d1

TwoTxs      == {t1, t2}
TwoPeriods  == {p1, p2}
OneDocument == {d1}

Symmetry == Permutations(TwoTxs) \cup Permutations(TwoPeriods)
=============================================================================
