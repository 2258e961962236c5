---------------------------- MODULE MCPurchasing ---------------------------
(***************************************************************************)
(* One purchase order with lines for up to two products, two requests at   *)
(* once; the first product can take two receipts.                          *)
(***************************************************************************)
EXTENDS Purchasing, TLC

CONSTANTS p1, p2, l1, l2, l3, o1, r1, r2

ThreeLots == {l1, l2, l3}
TwoProducts == {p1, p2}
LotProduct == [l \in ThreeLots |-> IF l = l3 THEN p2 ELSE p1]
LotRank == [l \in ThreeLots |-> CASE l = l1 -> 1 [] l = l2 -> 2 [] l = l3 -> 3]
\* Two units of one product, or one of each.
LineSets == {[p \in TwoProducts |-> IF p = p1 THEN 2 ELSE 0],
             [p \in TwoProducts |-> 1]}

Symmetry == Permutations({r1, r2})

=============================================================================
