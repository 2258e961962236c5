------------------------------ MODULE Pricing ------------------------------
(***************************************************************************)
(* The money of a sale (createSale) and of its refunds (planRefundLines),  *)
(* in cents.  A sale's lines are a function from line ids to records with  *)
(* price, quantity, benefit and manual discount, and exempt from tax.      *)
(*                                                                         *)
(* Decimal divides with 20 digits, so that a share which does not          *)
(* terminate may fall just short of an exact half cent.  With at most 5    *)
(* units to a line only thirds do not terminate, and no third is a half.   *)
(***************************************************************************)
EXTENDS Money, Totals

lineGross(line) == line.price * line.quantity

lineDiscount(line) == line.benefit + line.manual

lineNet(line) == lineGross(line) - lineDiscount(line)

\* Tax is on the net of the line.
lineTax(line, taxRate) == IF line.exempt THEN 0 ELSE PercentOf(taxRate, lineNet(line))

Sum(F(_), S) == Total([x \in S |-> F(x)], S)

\* Who funds the member discount decides the base of the operator's share.
operatorBase(bearer, sharedPercent, before, subtotal, memberDiscount) ==
  CASE bearer = "COOP" -> before
    [] bearer = "OPERATOR" -> subtotal
    [] bearer = "SHARED" -> Rounded(100 * subtotal + memberDiscount * (100 - sharedPercent), 100)

\* The amounts of a Sale row, with the store's settings of the moment.
SaleRow(lines, store) ==
  LET ids == DOMAIN lines
      before == Sum(LAMBDA i : lineGross(lines[i]), ids)
      subtotal == Sum(LAMBDA i : lineNet(lines[i]), ids)
      taxAmount == Sum(LAMBDA i : lineTax(lines[i], store.taxRate), ids)
      base == operatorBase(store.bearer, store.sharedPercent, before, subtotal,
                           Sum(LAMBDA i : lines[i].benefit, ids))
      operatorAmount == PercentOf(store.operatorPercent, base)
  IN  [lines |-> lines, tax |-> [i \in ids |-> lineTax(lines[i], store.taxRate)],
       subtotal |-> subtotal, total |-> subtotal + taxAmount,
       bearer |-> store.bearer, operatorBase |-> base,
       operatorAmount |-> operatorAmount, coopAmount |-> subtotal - operatorAmount]

\* createSale's checks: no discount beyond the line, no sale at a loss to the
\* co-op.
SaleAllowed(lines, store) ==
  /\ \A i \in DOMAIN lines : lines[i].manual <= lineGross(lines[i]) - lines[i].benefit
  /\ SaleRow(lines, store).coopAmount >= 0

-----------------------------------------------------------------------------
(* Refunds: `taken` and `back` are the units per line already refunded and *)
(* being refunded now.                                                     *)

\* The share of an amount that falls on q of a line's units.
ShareOf(amount, line, q) == Rounded(amount * q, line.quantity)

RefundedNet(sale, back) ==
  Sum(LAMBDA i : ShareOf(lineNet(sale.lines[i]), sale.lines[i], back[i]), DOMAIN back)

RefundedGross(sale, back) == Sum(LAMBDA i : sale.lines[i].price * back[i], DOMAIN back)

RefundedTax(sale, back) ==
  Sum(LAMBDA i : ShareOf(sale.tax[i], sale.lines[i], back[i]), DOMAIN back)

refundsAllRemaining(sale, taken, back) ==
  \A i \in DOMAIN back : taken[i] + back[i] >= sale.lines[i].quantity

\* Mutant of LineAmounts: the amount is not held to what is left.
LineAmountsUncapped(sale, refundedAmount, back) == RefundedNet(sale, back) + RefundedTax(sale, back)

\* Line by line, and no more than is left of the sale.
LineAmounts(sale, refundedAmount, back) ==
  Smaller(RefundedNet(sale, back) + RefundedTax(sale, back), sale.total - refundedAmount)

\* Mutant of ClawbackBase: the discount is not looked at.
ClawbackBaseNet(sale, back) == RefundedNet(sale, back)

\* What the refunded units were of the base.
ClawbackBase(sale, back) ==
  IF sale.bearer = "COOP" THEN RefundedGross(sale, back) ELSE RefundedNet(sale, back)

ProratedClawback(sale, back) ==
  IF sale.operatorBase = 0 THEN 0
  ELSE Rounded(sale.operatorAmount * ClawbackBase(sale, back), sale.operatorBase)

RefundPossible(sale, refundedAmount, taken, back) ==
  /\ \E i \in DOMAIN back : back[i] > 0
  /\ \A i \in DOMAIN back : taken[i] + back[i] <= sale.lines[i].quantity
  /\ LineAmounts(sale, refundedAmount, back) > 0

\* Mutant of planRefundLines: the last refund is worked out like the others.
planRefundLinesProrated(sale, refundedAmount, refundedOperator, taken, back) ==
  [amount |-> LineAmounts(sale, refundedAmount, back),
   operatorAmount |-> ProratedClawback(sale, back)]

\* The refund that takes the last units takes all the money that is left.
planRefundLines(sale, refundedAmount, refundedOperator, taken, back) ==
  IF refundsAllRemaining(sale, taken, back)
  THEN [amount |-> sale.total - refundedAmount,
        operatorAmount |-> sale.operatorAmount - refundedOperator]
  ELSE [amount |-> LineAmounts(sale, refundedAmount, back),
        operatorAmount |-> ProratedClawback(sale, back)]

=============================================================================
