------------------------------ MODULE Reorder ------------------------------
(***************************************************************************)
(* What to order (suggestReorderDrafts of purchasing.service.ts).  A shelf *)
(* is a product with its stock, reserved units, reorder point and the      *)
(* supplier link (caseSize, minOrderQty, active); orders are purchase      *)
(* order lines of the product with status, ordered, received, shortClosed. *)
(***************************************************************************)
EXTENDS Totals

outstanding(line) == AtLeastZero(line.ordered - line.received)

\* Units still to come from lines whose order is in one of the states.
PipelineOf(orders, states) ==
  LET awaited == {n \in DOMAIN orders : orders[n].status \in states /\ ~orders[n].shortClosed}
  IN  Total([n \in awaited |-> outstanding(orders[n])], awaited)

onOrder(orders) == PipelineOf(orders, {"SUBMITTED", "PARTIALLY_RECEIVED"})

position(shelf, orders) == shelf.stock - shelf.reserved + onOrder(orders)

\* Mutant of RoundedToCases: part cases are dropped.
RoundedToCasesDown(quantity, caseSize) == (quantity \div caseSize) * caseSize

RoundedToCases(quantity, caseSize) == ((quantity + caseSize - 1) \div caseSize) * caseSize

\* 0 where nothing is suggested.
suggestedQty(shelf, orders) ==
  IF position(shelf, orders) > shelf.reorderAt \/ ~shelf.link.active THEN 0
  ELSE RoundedToCases(
         Larger(shelf.reorderAt - position(shelf, orders) + 1, shelf.link.minOrderQty),
         shelf.link.caseSize)

=============================================================================
