------------------------- MODULE MCCustomerPayments -------------------------
(***************************************************************************)
(* Small instances of CustomerPayments for TLC.  Transactions have no      *)
(* identity in the program, so they may be exchanged.                      *)
(***************************************************************************)
EXTENDS CustomerPayments, TLC

Transactions == Permutations(Txs)
=============================================================================
