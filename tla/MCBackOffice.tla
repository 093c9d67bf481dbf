---------------------------- MODULE MCBackOffice ----------------------------
(***************************************************************************)
(* One expense, one fixed asset and a period of two payroll runs.          *)
(***************************************************************************)
EXTENDS BackOffice

CONSTANTS c1, c2, e1, a1, r1, r2

Symmetric == Permutations({c1, c2}) \cup Permutations({r1, r2})

\* Four cents in instalments of two: it may be paid in part.
FourCents == [e \in ExpenseIds |-> 4]

\* A base of three cents over two months: half a cent is rounded, and the
\* last charge is what remains.
Bought == [a \in Assets |-> [cost |-> 4, salvage |-> 1, life |-> 2, acquired |-> <<1, 3>>]]

\* The second month is shorter than the others.
ShortSecond == <<3, 2, 3, 3, 3>>

\* Nothing due yet (the second month has no third day); a month, which ends
\* in the third; two months, and less than one after that; three.
Throughs == {<<2, 2>>, <<3, 1>>, <<3, 3>>, <<4, 3>>}

\* With deductions, and with nothing left to pay out.
TwoPayslips == {[gross |-> 3, net |-> 2], [gross |-> 1, net |-> 0]}

\* Everything but the request that deletes an asset.
OverlappingOps == {"markPaid", "voidExpense", "depreciate", "createRun", "removeRun"}
=============================================================================
