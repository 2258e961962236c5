----------------------------- MODULE MCCheckout -----------------------------
(* Instances of Checkout for TLC. *)
EXTENDS CheckoutLedger, TLC

CONSTANTS l1, l2, s1, s2, p1, p2

\* All lots of one product, or one lot of each of two products.
OneProduct == [l \in Lots |-> p1]
TwoProducts == [l \in Lots |-> IF l = l1 THEN p1 ELSE p2]

FirstIsOlder == [l \in Lots |-> IF l = l1 THEN 1 ELSE 2]

TerminalEvents == {"payment_intent.succeeded", "payment_intent.payment_failed"}
SucceededOnly == {"payment_intent.succeeded"}

Symmetry == Permutations({s1, s2})

=============================================================================
