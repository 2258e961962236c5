----------------------------- MODULE Checkout ------------------------------
(***************************************************************************)
(* A sale from the till to its settlement: createSale, the Stripe payment, *)
(* the webhook, the confirm endpoint and the job that expires abandoned    *)
(* sales, over the lots they sell from (sales.service.ts,                  *)
(* stripe.webhook.ts, expirePendingSales.ts).                              *)
(*                                                                         *)
(* finalizePaidSale and settleUnpaidSale lock the Sale row, re-read its    *)
(* status and then lock Product and Lot rows until commit: each is one     *)
(* step.  Everything outside a transaction is a step of its own: Stripe's  *)
(* answer, the webhook's claim on the event, the job's verdict, a restart. *)
(* A cart has at most one line per product.                                *)
(***************************************************************************)
EXTENDS Inventory

CONSTANTS
  Sales,       \* sale ids, those not yet made included
  MaxLine,     \* bound on the units of a cart line
  EventTypes,  \* the webhook event types Stripe sends
  Offline,     \* whether tills sync sales taken during an outage
  MaxRestarts  \* bound on the number of server restarts

PaidEventTypes == {"checkout.session.completed", "payment_intent.succeeded"}

ASSUME CheckoutAssumption ==
  /\ IsFiniteSet(Sales)
  /\ MaxLine \in Nat
  /\ EventTypes \subseteq PaidEventTypes \cup {"payment_intent.payment_failed"}
  /\ Offline \in BOOLEAN
  /\ MaxRestarts \in Nat

VARIABLES
  paymentStatus,   \* Sale.paymentStatus, "NONE" before the row exists
  cash,            \* sales whose paymentMethod is CASH
  saleItem,        \* SaleItem.quantity per product
  allocation,      \* SaleItemLot rows of the sale
  stripe,          \* the sale's payment at Stripe: "none", "open", "paid"
  sent,            \* events Stripe has issued and may deliver, more than once
  processedEvent,  \* ProcessedStripeEvent rows
  running,         \* events whose claimed handler has not run its case yet
  conflicted,      \* events whose handler dropped its claim after a 409
  due,             \* sales whose reservationExpiresAt has passed
  verdict,         \* isSalePaidInStripe answers the expiry job is acting on
  reconciliation,  \* products with a StockReconciliation row
  restarts         \* number of server restarts so far

saleVars == <<paymentStatus, cash, saleItem, allocation>>
webhookVars == <<sent, processedEvent, running, conflicted>>
vars == <<inventoryVars, saleVars, stripe, webhookVars, due, verdict,
          reconciliation, restarts>>

PaymentStatus == {"NONE", "PENDING", "PAID", "FAILED", "EXPIRED"}

Events == EventTypes \X Sales

NoItems == [p \in Products |-> 0]

Carts == [Products -> 0 .. MaxLine] \ {NoItems}

TypeOK ==
  /\ InventoryTypeOK
  /\ paymentStatus \in [Sales -> PaymentStatus]
  /\ cash \subseteq Sales
  /\ saleItem \in [Sales -> [Products -> 0 .. MaxLine]]
  /\ allocation \in [Sales -> Allocation]
  /\ stripe \in [Sales -> {"none", "open", "paid"}]
  /\ sent \subseteq Events
  /\ processedEvent \subseteq sent
  /\ running \subseteq processedEvent
  /\ conflicted \subseteq sent
  /\ due \subseteq Sales
  /\ verdict \in [Sales -> SUBSET BOOLEAN]
  /\ reconciliation \subseteq Products
  /\ restarts \in 0 .. MaxRestarts

Init ==
  /\ InventoryInit
  /\ paymentStatus = [s \in Sales |-> "NONE"]
  /\ cash = {}
  /\ saleItem = [s \in Sales |-> NoItems]
  /\ allocation = [s \in Sales |-> NoAllocation]
  /\ stripe = [s \in Sales |-> "none"]
  /\ sent = {}
  /\ processedEvent = {}
  /\ running = {}
  /\ conflicted = {}
  /\ due = {}
  /\ verdict = [s \in Sales |-> {}]
  /\ reconciliation = {}
  /\ restarts = 0

-----------------------------------------------------------------------------
(* createSale *)

\* No free unit is left and a quarantined or recalled lot still has some: the
\* product is refused, offline or not.
Blocked(p) ==
  /\ TotalAvailable(p) = 0
  /\ \E l \in LotsOf(p) : /\ lotStatus[l] \in {"QUARANTINED", "RECALLED"}
                          /\ quantityRemaining[l] > 0

CanSell(cart, offlineSync) ==
  /\ CanAllocate(cart, offlineSync)
  /\ \A p \in Products : cart[p] > 0 => ~Blocked(p)

\* Card path: the units are held until the payment settles.
createCardSale(s, cart) ==
  /\ paymentStatus[s] = "NONE"
  /\ CanSell(cart, FALSE)
  /\ reserve(allocateFefo(cart, FALSE))
  /\ saleItem' = [saleItem EXCEPT ![s] = cart]
  /\ allocation' = [allocation EXCEPT ![s] = allocateFefo(cart, FALSE)]
  /\ paymentStatus' = [paymentStatus EXCEPT ![s] = "PENDING"]
  /\ UNCHANGED <<cash, ledger, adjustments, stripe, webhookVars, due, verdict,
                 reconciliation, restarts>>

\* Mutant of createCashSale: units held by others count as free.
createCashSaleFlagsStock(s, cart, offlineSync) ==
  /\ paymentStatus[s] = "NONE"
  /\ CanSell(cart, offlineSync)
  /\ consumeDirect(allocateFefo(cart, offlineSync))
  /\ saleItem' = [saleItem EXCEPT ![s] = cart]
  /\ allocation' = [allocation EXCEPT ![s] = allocateFefo(cart, offlineSync)]
  /\ paymentStatus' = [paymentStatus EXCEPT ![s] = "PAID"]
  /\ cash' = cash \cup {s}
  /\ reconciliation' = reconciliation \cup
       {p \in Products : offlineSync /\ cart[p] > stock[p]}
  /\ UNCHANGED <<ledger, adjustments, stripe, webhookVars, due, verdict, restarts>>

\* Cash path: PAID at once.  A sale synced from the offline queue is never
\* refused for lack of units; what it oversells is flagged for the admin.
createCashSale(s, cart, offlineSync) ==
  /\ paymentStatus[s] = "NONE"
  /\ CanSell(cart, offlineSync)
  /\ consumeDirect(allocateFefo(cart, offlineSync))
  /\ saleItem' = [saleItem EXCEPT ![s] = cart]
  /\ allocation' = [allocation EXCEPT ![s] = allocateFefo(cart, offlineSync)]
  /\ paymentStatus' = [paymentStatus EXCEPT ![s] = "PAID"]
  /\ cash' = cash \cup {s}
  /\ reconciliation' = reconciliation \cup
       {p \in Products : offlineSync /\ cart[p] > TotalAvailable(p)}
  /\ UNCHANGED <<ledger, adjustments, stripe, webhookVars, due, verdict, restarts>>

\* startCheckoutPayment / startTerminalPayment, after createSale committed.
startPayment(s) ==
  /\ paymentStatus[s] # "NONE"
  /\ s \notin cash
  /\ stripe[s] = "none"
  /\ stripe' = [stripe EXCEPT ![s] = "open"]
  /\ UNCHANGED <<inventoryVars, saleVars, webhookVars, due, verdict,
                 reconciliation, restarts>>

-----------------------------------------------------------------------------
(* Stripe: nothing the server does closes a session or an intent *)

CustomerPays(s) ==
  /\ stripe[s] = "open"
  /\ stripe' = [stripe EXCEPT ![s] = "paid"]
  /\ sent' = sent \cup ((EventTypes \cap PaidEventTypes) \X {s})
  /\ UNCHANGED <<inventoryVars, saleVars, processedEvent, running, conflicted,
                 due, verdict, reconciliation, restarts>>

\* A declined attempt; the customer may try again.
AttemptDeclined(s) ==
  /\ stripe[s] = "open"
  /\ sent' = sent \cup ((EventTypes \ PaidEventTypes) \X {s})
  /\ UNCHANGED <<inventoryVars, saleVars, stripe, processedEvent, running,
                 conflicted, due, verdict, reconciliation, restarts>>

-----------------------------------------------------------------------------
(* finalizePaidSale and settleUnpaidSale *)

\* The lots still carry the sale's hold on product p.
ReservationIntact(s, p) ==
  \A l \in LotsOf(p) : allocation[s][l] > 0 =>
    /\ quantityReserved[l] >= allocation[s][l]
    /\ quantityRemaining[l] >= allocation[s][l]

Held(s) ==
  [l \in Lots |-> IF ReservationIntact(s, ProductOf[l]) THEN allocation[s][l] ELSE 0]

Free(s) ==
  [l \in Lots |-> IF ReservationIntact(s, ProductOf[l]) THEN 0 ELSE allocation[s][l]]

CanConsume(s) ==
  /\ HeldCovered(Held(s))
  /\ FreeCovered(Free(s))

\* Mutant of finalizePaidSale: the status is not read again under the lock.
finalizePaidSaleAgain(s) ==
  /\ paymentStatus[s] \in {"PENDING", "PAID"}
  /\ consume(Held(s), Free(s))
  /\ paymentStatus' = [paymentStatus EXCEPT ![s] = "PAID"]
  /\ UNCHANGED <<cash, saleItem, allocation>>

\* Mutant of finalizePaidSale: a late payment revives an EXPIRED sale.
finalizePaidSaleRevives(s) ==
  \/ /\ paymentStatus[s] \in {"PENDING", "EXPIRED"}
     /\ consume(Held(s), Free(s))
     /\ paymentStatus' = [paymentStatus EXCEPT ![s] = "PAID"]
     /\ UNCHANGED <<cash, saleItem, allocation>>
  \/ /\ paymentStatus[s] = "PAID"
     /\ UNCHANGED <<stockVars, saleVars>>

\* Convert the hold into a decrement.  Already PAID: nothing to do.
finalizePaidSale(s) ==
  \/ /\ paymentStatus[s] = "PENDING"
     /\ consume(Held(s), Free(s))
     /\ paymentStatus' = [paymentStatus EXCEPT ![s] = "PAID"]
     /\ UNCHANGED <<cash, saleItem, allocation>>
  \/ /\ paymentStatus[s] = "PAID"
     /\ UNCHANGED <<stockVars, saleVars>>

\* AppError 409: the sale is dead, or its units are gone.
FinalizeConflicts(s) ==
  \/ paymentStatus[s] \in {"FAILED", "EXPIRED"}
  \/ paymentStatus[s] = "PENDING" /\ ~FreeCovered(Free(s))

\* Release the hold of a PENDING sale.  Already unpaid: nothing to do.
settleUnpaidSale(s, nextStatus) ==
  \/ /\ paymentStatus[s] = "PENDING"
     /\ release(allocation[s])
     /\ paymentStatus' = [paymentStatus EXCEPT ![s] = nextStatus]
     /\ UNCHANGED <<cash, saleItem, allocation>>
  \/ /\ paymentStatus[s] \in {"FAILED", "EXPIRED"}
     /\ UNCHANGED <<stockVars, saleVars>>

\* Mutant of confirmSalePayment: Stripe is not asked.
confirmSalePaymentUnasked(s) ==
  /\ paymentStatus[s] = "PENDING"
  /\ finalizePaidSale(s)
  /\ UNCHANGED <<ledger, adjustments, stripe, webhookVars, due, verdict,
                 reconciliation, restarts>>

\* POST /sales/:id/confirm.  A payment found paid stays paid and
\* finalizePaidSale re-reads the status, so the two reads before it take no
\* step of their own.
confirmSalePayment(s) ==
  /\ paymentStatus[s] = "PENDING"
  /\ stripe[s] = "paid"
  /\ finalizePaidSale(s)
  /\ UNCHANGED <<ledger, adjustments, stripe, webhookVars, due, verdict,
                 reconciliation, restarts>>

-----------------------------------------------------------------------------
(* stripeWebhookHandler, for event e = <<type, sale>> *)

\* First delivery of the event, or a redelivery after its claim was dropped.
\* Any other delivery is acknowledged as a duplicate and changes nothing.
claimStripeEvent(e) ==
  /\ e \in sent \ processedEvent
  /\ processedEvent' = processedEvent \cup {e}
  /\ running' = running \cup {e}
  /\ UNCHANGED <<inventoryVars, saleVars, stripe, sent, conflicted, due, verdict,
                 reconciliation, restarts>>

\* The case of the switch that matches the event succeeds: acknowledged.
HandleEvent(e) ==
  /\ e \in running
  /\ IF e[1] \in PaidEventTypes THEN finalizePaidSale(e[2])
                                ELSE settleUnpaidSale(e[2], "FAILED")
  /\ running' = running \ {e}
  /\ UNCHANGED <<ledger, adjustments, stripe, sent, processedEvent, conflicted,
                 due, verdict, reconciliation, restarts>>

HandlerConflicts(e) ==
  IF e[1] \in PaidEventTypes THEN FinalizeConflicts(e[2])
                             ELSE paymentStatus[e[2]] = "PAID"

\* The case throws a 409: the claim is dropped, to be created again and
\* acknowledged.
EventConflicts(e) ==
  /\ e \in running
  /\ HandlerConflicts(e)
  /\ running' = running \ {e}
  /\ processedEvent' = processedEvent \ {e}
  /\ conflicted' = conflicted \cup {e}
  /\ UNCHANGED <<inventoryVars, saleVars, stripe, sent, due, verdict,
                 reconciliation, restarts>>

\* Mutant of EventErrors: the handler goes on after dropping its claim.
EventErrorsGoesOn(e) ==
  /\ e \in running
  /\ processedEvent' = processedEvent \ {e}
  /\ UNCHANGED <<inventoryVars, saleVars, stripe, sent, running, conflicted, due,
                 verdict, reconciliation, restarts>>

\* The case throws anything else (an internal error, the database away): the
\* claim is dropped and Stripe will deliver the event again.
EventErrors(e) ==
  /\ e \in running
  /\ running' = running \ {e}
  /\ processedEvent' = processedEvent \ {e}
  /\ UNCHANGED <<inventoryVars, saleVars, stripe, sent, conflicted, due, verdict,
                 reconciliation, restarts>>

\* The row is created again unless a redelivery created it meanwhile.
AcknowledgeConflict(e) ==
  /\ e \in conflicted
  /\ conflicted' = conflicted \ {e}
  /\ processedEvent' = processedEvent \cup {e}
  /\ UNCHANGED <<inventoryVars, saleVars, stripe, sent, running, due, verdict,
                 reconciliation, restarts>>

-----------------------------------------------------------------------------
(* runExpirePendingSalesOnce *)

\* RESERVATION_TTL_MS elapses.
ReservationExpires(s) ==
  /\ paymentStatus[s] = "PENDING"
  /\ s \notin due
  /\ due' = due \cup {s}
  /\ UNCHANGED <<inventoryVars, saleVars, stripe, webhookVars, verdict,
                 reconciliation, restarts>>

\* Mutant of JobAsksStripe: sales without a session or intent are passed over.
JobAsksStripeOfSession(s) ==
  /\ paymentStatus[s] = "PENDING"
  /\ s \in due
  /\ stripe[s] # "none"
  /\ verdict' = [verdict EXCEPT ![s] = @ \cup {stripe[s] = "paid"}]
  /\ UNCHANGED <<inventoryVars, saleVars, stripe, webhookVars, due,
                 reconciliation, restarts>>

\* isSalePaidInStripe, for a sale the job's query returned.
JobAsksStripe(s) ==
  /\ paymentStatus[s] = "PENDING"
  /\ s \in due
  /\ verdict' = [verdict EXCEPT ![s] = @ \cup {stripe[s] = "paid"}]
  /\ UNCHANGED <<inventoryVars, saleVars, stripe, webhookVars, due,
                 reconciliation, restarts>>

\* Mutant of JobSettles: every abandoned sale is expired.
JobExpires(s, paidInStripe) ==
  /\ paidInStripe \in verdict[s]
  /\ verdict' = [verdict EXCEPT ![s] = @ \ {paidInStripe}]
  /\ settleUnpaidSale(s, "EXPIRED")
  /\ UNCHANGED <<ledger, adjustments, stripe, webhookVars, due, reconciliation,
                 restarts>>

\* The job acts on the answer it got.
JobSettles(s, paidInStripe) ==
  /\ paidInStripe \in verdict[s]
  /\ verdict' = [verdict EXCEPT ![s] = @ \ {paidInStripe}]
  /\ IF paidInStripe THEN finalizePaidSale(s) ELSE settleUnpaidSale(s, "EXPIRED")
  /\ UNCHANGED <<ledger, adjustments, stripe, webhookVars, due, reconciliation,
                 restarts>>

\* Its call throws: logged, the sale is left for the next tick.
JobFails(s, paidInStripe) ==
  /\ paidInStripe \in verdict[s]
  /\ IF paidInStripe
     THEN FinalizeConflicts(s) \/ (paymentStatus[s] = "PENDING" /\ ~CanConsume(s))
     ELSE paymentStatus[s] = "PAID"
  /\ verdict' = [verdict EXCEPT ![s] = @ \ {paidInStripe}]
  /\ UNCHANGED <<inventoryVars, saleVars, stripe, webhookVars, due, reconciliation,
                 restarts>>

\* The process dies: running handlers and the job are gone, the tables stay.
Restart ==
  /\ restarts < MaxRestarts
  /\ restarts' = restarts + 1
  /\ running' = {}
  /\ conflicted' = {}
  /\ verdict' = [s \in Sales |-> {}]
  /\ UNCHANGED <<inventoryVars, saleVars, stripe, sent, processedEvent, due,
                 reconciliation>>

-----------------------------------------------------------------------------

Maintain ==
  /\ InventoryNext
  /\ UNCHANGED <<saleVars, stripe, webhookVars, due, verdict, reconciliation, restarts>>

JobStep(s) ==
  \E paidInStripe \in BOOLEAN : JobSettles(s, paidInStripe) \/ JobFails(s, paidInStripe)

SaleStep(s) ==
  \/ \E cart \in Carts :
       \/ createCardSale(s, cart)
       \/ \E offlineSync \in {FALSE, Offline} : createCashSale(s, cart, offlineSync)
  \/ startPayment(s)
  \/ CustomerPays(s)
  \/ AttemptDeclined(s)
  \/ confirmSalePayment(s)
  \/ ReservationExpires(s)
  \/ JobAsksStripe(s)
  \/ JobStep(s)

EventStep(e) ==
  \/ claimStripeEvent(e)
  \/ HandleEvent(e)
  \/ EventConflicts(e)
  \/ EventErrors(e)
  \/ AcknowledgeConflict(e)

Next ==
  \/ Maintain
  \/ \E s \in Sales : SaleStep(s)
  \/ \E e \in Events : EventStep(e)
  \/ Restart

Spec == Init /\ [][Next]_vars

\* Time passes and cron keeps calling the expiry job, whose calls return.
\* Nothing is assumed of Stripe, of its webhooks or of the cashier.
JobFairness ==
  \A s \in Sales : /\ WF_vars(ReservationExpires(s))
                   /\ WF_vars(JobAsksStripe(s) /\ verdict[s] = {})
                   /\ WF_vars(JobStep(s))

FairSpec == Spec /\ JobFairness

-----------------------------------------------------------------------------
(* Properties *)

PendingSales == {s \in Sales : paymentStatus[s] = "PENDING"}

PaidSales == {s \in Sales : paymentStatus[s] = "PAID"}

\* Per sale, the units it was allocated from lot l.
UnitsFrom(l) == [s \in Sales |-> allocation[s][l]]

\* The units held on a lot are those of the PENDING sales: settling a sale,
\* through whichever of the webhook, the confirm endpoint and the expiry job
\* comes first, drops its hold exactly once and no other sale's.
HoldsMatchPending ==
  \A l \in Lots : quantityReserved[l] = Total(UnitsFrom(l), PendingSales)

\* Held units are on the shelf: no adjustment, quarantine, expiry or other
\* sale takes a unit a PENDING sale holds, or moves its lot off sale.
HoldsBacked ==
  \A l \in Lots : quantityReserved[l] > 0 =>
    /\ lotStatus[l] = "ACTIVE"
    /\ quantityReserved[l] <= quantityRemaining[l]

\* A customer who was charged while the sale was PENDING gets the goods:
\* finalizePaidSale cannot fail for want of stock.
ChargedSaleCanSettle ==
  \A s \in PendingSales : stripe[s] = "paid" => CanConsume(s)

\* Every unit of a lot is in one place: still in the lot, on a PAID sale, or
\* written off.  A paid sale takes its units once, however many deliveries,
\* confirmations and job ticks report the payment; and the lots of a sale
\* supply exactly the units of its lines.
UnitsAccounted ==
  /\ \A l \in Lots : lotStatus[l] \in {"ACTIVE", "DEPLETED"} =>
       quantityRemaining[l] = ledger[l] - Total(UnitsFrom(l), PaidSales)
  /\ \A s \in Sales, p \in Products : LineQty(allocation[s], p) = saleItem[s][p]

\* Goods of a card sale leave the shelf only against collected money.
PaidMeansCharged ==
  \A s \in PaidSales \ cash : stripe[s] = "paid"

\* A lot that ended up below zero, or below what is held on it, is queued for
\* reconciliation: overselling by the offline queue is never silent.
OversellFlagged ==
  \A l \in Lots : quantityRemaining[l] < AtLeastZero(quantityReserved[l]) =>
    ProductOf[l] \in reconciliation

\* The last-chance claim of finalizePaidSale never takes a unit: a PENDING sale
\* whose hold is no longer whole is always refused, because its own units are
\* still counted as reserved.
LastChanceRefused ==
  \A s \in PendingSales : Free(s) # NoAllocation => ~FreeCovered(Free(s))

\* A lot supplies a new sale only when every ACTIVE lot of the product that
\* expires earlier gave all its free units to it.
FefoOrder ==
  [][\A s \in Sales, k, l \in Lots :
       (/\ paymentStatus[s] = "NONE" /\ paymentStatus'[s] # "NONE"
        /\ allocation'[s][l] > 0
        /\ ProductOf[k] = ProductOf[l] /\ FefoRank[k] < FefoRank[l]
        /\ lotStatus[k] = "ACTIVE")
       => allocation'[s][k] = Available(k)]_vars

\* Every card sale settles: the expiry job releases its units or finalizes it,
\* although webhooks may be lost and the process restarted.
EverySaleSettles ==
  \A s \in Sales : paymentStatus[s] = "PENDING" ~> paymentStatus[s] # "PENDING"

\* A charge whose webhook is lost, because the process died after claiming the
\* event, still becomes a PAID sale, unless the customer had a declined attempt
\* or the job was already acting on "not paid".
LostWebhookRecovered ==
  \A s \in Sales :
    (/\ paymentStatus[s] = "PENDING" /\ stripe[s] = "paid"
     /\ FALSE \notin verdict[s]
     /\ <<"payment_intent.payment_failed", s>> \notin sent)
    ~> paymentStatus[s] = "PAID"

=============================================================================
