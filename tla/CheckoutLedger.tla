--------------------------- MODULE CheckoutLedger ---------------------------
(***************************************************************************)
(* Checkout implements SaleLedger: Product.stock is what is on hand, the   *)
(* SaleItem rows are the lines and Sale.paymentStatus is the status.       *)
(* Lots, Product.reserved, Stripe, events and the job are not visible.     *)
(***************************************************************************)
EXTENDS Checkout

Ledger == INSTANCE SaleLedger WITH
  onHand <- stock, line <- saleItem, status <- paymentStatus

\* Whatever the webhook, the confirm endpoint, the expiry job and the lot
\* maintenance do in whichever order, the store never promises a unit twice,
\* never takes a promised unit away, and settles every sale once.
ImplementsLedger == Ledger!LedgerSpec

=============================================================================
