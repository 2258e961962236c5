------------------------------ MODULE MCRefund ------------------------------
(* Instances of Refund for TLC. *)
EXTENDS Refund, TLC

CONSTANTS l1, l2, s1, s2, r1, r2, p1

OneProduct == [l \in Lots |-> p1]
FirstIsOlder == [l \in Lots |-> IF l = l1 THEN 1 ELSE 2]

\* s1 took two units from l1 and one from l2; s2 one unit from l2.
SoldFromBoth ==
  [s \in Sales |-> [l \in Lots |-> IF s = s1 /\ l = l1 THEN 2
                                   ELSE IF s = s2 /\ l = l1 THEN 0 ELSE 1]]
FirstIsEmpty == [l \in Lots |-> IF l = l1 THEN 0 ELSE 1]

=============================================================================
