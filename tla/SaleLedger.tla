----------------------------- MODULE SaleLedger -----------------------------
(***************************************************************************)
(* What checkout promises, without lots, Stripe, webhooks or jobs: a store *)
(* sells what it has, a unit on hold is sold to nobody else and is not     *)
(* taken off the shelf, and a sale is settled once.  sales.service.ts says *)
(* so of createSale and finalizePaidSale; CheckoutLedger shows that        *)
(* Checkout keeps the promise as long as no till works offline.            *)
(***************************************************************************)
EXTENDS Totals

CONSTANTS Products, Sales

VARIABLES
  onHand,  \* units a product has for sale, held ones included
  line,    \* units of each product on a sale
  status   \* of a sale

ledgerVars == <<onHand, line, status>>

Pending == {s \in Sales : status[s] = "PENDING"}

OnHold(p) == Total([s \in Sales |-> line[s][p]], Pending)

LedgerInit ==
  /\ onHand \in [Products -> Nat]
  /\ line = [s \in Sales |-> [p \in Products |-> 0]]
  /\ status = [s \in Sales |-> "NONE"]

Takes(s, outcome) == status' = [status EXCEPT ![s] = outcome]

\* A sale of units nobody holds, on hold or paid at once.
Order(s) ==
  /\ status[s] = "NONE"
  /\ \A q \in Sales \ {s} : line'[q] = line[q]
  /\ \A p \in Products : line'[s][p] <= onHand[p] - OnHold(p)
  /\ \/ Takes(s, "PENDING") /\ UNCHANGED onHand
     \/ Takes(s, "PAID") /\ onHand' = [p \in Products |-> onHand[p] - line'[s][p]]

\* The units on hold leave the shelf.
Pay(s) ==
  /\ status[s] = "PENDING"
  /\ Takes(s, "PAID")
  /\ onHand' = [p \in Products |-> onHand[p] - line[s][p]]
  /\ UNCHANGED line

\* The units on hold are for sale again.
Release(s) ==
  /\ status[s] = "PENDING"
  /\ \E outcome \in {"FAILED", "EXPIRED"} : Takes(s, outcome)
  /\ UNCHANGED <<onHand, line>>

\* Goods come, or leave otherwise, but not the ones on hold.
Replenish ==
  /\ onHand' \in [Products -> Nat]
  /\ \A p \in Products : onHand'[p] >= OnHold(p)
  /\ UNCHANGED <<line, status>>

LedgerNext ==
  \/ \E s \in Sales : Order(s) \/ Pay(s) \/ Release(s)
  \/ Replenish

LedgerSpec == LedgerInit /\ [][LedgerNext]_ledgerVars

=============================================================================
