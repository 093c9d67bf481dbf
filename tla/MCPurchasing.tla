---------------------------- MODULE MCPurchasing ----------------------------
(***************************************************************************)
(* Instances of Purchasing for TLC.                                        *)
(***************************************************************************)
EXTENDS Purchasing, TLC

CONSTANTS c1, c2

TwoClients == {c1, c2}
Symmetry   == Permutations(TwoClients)

\* No lines, one unit, or two lines of which one can come in by halves.
ThreeOrders == {<<0, 0>>, <<1, 0>>, <<2, 1>>}

\* A limit that every order but the empty one exceeds, and one that none
\* does (an organisation without a limit).
TwoLimits == {0, 3}

GoodsAndMoney == {"receive", "pay", "ask", "replace"}
=============================================================================
