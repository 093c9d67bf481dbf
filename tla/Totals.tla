------------------------------- MODULE Totals -------------------------------
(***************************************************************************)
(* Totals over numbered rows.  The program keeps many cached totals        *)
(* (deliveredQuantity, amountPaid, creditedAmount, a stock row) next to    *)
(* the rows they summarise; the properties of this project compare the     *)
(* two.  Rows are numbered 1..n in the order in which they are created.    *)
(***************************************************************************)
EXTENDS Integers

\* f[1] + ... + f[n].  A recursive function, so that it can be reasoned
\* about as well as evaluated.
SumTo(f, n) ==
  LET total[i \in 0..n] == IF i = 0 THEN 0 ELSE total[i - 1] + f[i]
  IN  total[n]
=============================================================================
