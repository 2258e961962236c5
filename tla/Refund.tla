------------------------------ MODULE Refund -------------------------------
(***************************************************************************)
(* The refund protocol of sales.service.ts: claim the refund in the        *)
(* database (REFUNDING), move the money at Stripe, apply stock and books;  *)
(* and the job that finishes or aborts claims whose request died           *)
(* (reconcileRefundingSales.ts).                                           *)
(*                                                                         *)
(* A refund is worked on by the request that claimed it and by the job.    *)
(* Both end in finalizeSucceededRefund or abortFailedRefund, which read    *)
(* the SaleRefund row BEFORE they lock the Sale and never look at it       *)
(* again: the read and the locked part are two steps.  The locked part of  *)
(* either is atomic.  Amounts follow the quantities (one unit, one price). *)
(***************************************************************************)
EXTENDS Inventory

CONSTANTS
  Sales,        \* PAID sales
  CashSales,    \* those paid in cash
  Allocated,    \* the SaleItemLot rows of each sale
  OnHand,       \* units left in each lot after those sales
  Refunds,      \* SaleRefund ids, those not yet claimed included
  NoRefund,     \* Sale.pendingRefundId = NULL
  Overlap,      \* whether the job may act while the request is still at work
  LostReplies,  \* whether a refund made at Stripe may be reported as an error
  MaxFaults     \* bound on process deaths and failed transactions

ASSUME RefundAssumption ==
  /\ IsFiniteSet(Sales) /\ IsFiniteSet(Refunds)
  /\ CashSales \subseteq Sales
  /\ Allocated \in [Sales -> [Lots -> Nat]]
  /\ OnHand \in [Lots -> Nat]
  /\ NoRefund \notin Refunds
  /\ Overlap \in BOOLEAN /\ LostReplies \in BOOLEAN
  /\ MaxFaults \in Nat

VARIABLES
  paymentStatus,     \* Sale.paymentStatus
  pendingRefund,     \* Sale.pendingRefundId
  refundedQuantity,  \* SaleItem.refundedQuantity per sale and product
  refundStatus,      \* SaleRefund.status, "ABSENT" before the row exists
  refundOf,          \* SaleRefund.saleId
  lines,             \* SaleRefundLine.quantity per product
  restock,           \* refunds whose goods go back to their lots
  stripeRefundId,    \* refunds whose Stripe id is recorded
  writeOffs,         \* InventoryWriteOff REFUND_NO_RESTOCK units per product
  stripeRefund,      \* the refund's state at Stripe
  phase,             \* what the request and the job are doing with each refund
  faults             \* process deaths and failed transactions so far

refundSaleVars == <<paymentStatus, pendingRefund, refundedQuantity>>
refundRowVars == <<refundStatus, refundOf, lines, restock, stripeRefundId>>
vars == <<inventoryVars, refundSaleVars, refundRowVars, writeOffs, stripeRefund,
          phase, faults>>

Workers == {"request", "job"}

Phases == {"idle", "claimed", "created", "finalize", "finalizing", "caught",
           "abort", "aborting"}

TypeOK ==
  /\ InventoryTypeOK
  /\ paymentStatus \in [Sales -> {"PAID", "REFUNDING", "REFUNDED"}]
  /\ pendingRefund \in [Sales -> Refunds \cup {NoRefund}]
  /\ refundedQuantity \in [Sales -> [Products -> Nat]]
  /\ refundStatus \in [Refunds -> {"ABSENT", "PENDING", "SUCCEEDED", "FAILED"}]
  /\ refundOf \in [Refunds -> Sales]
  /\ lines \in [Refunds -> [Products -> Nat]]
  /\ restock \subseteq Refunds
  /\ stripeRefundId \subseteq {r \in Refunds : stripeRefund[r] # "none"}
  /\ writeOffs \in [Products -> Nat]
  /\ stripeRefund \in [Refunds -> {"none", "pending", "succeeded", "failed"}]
  /\ phase \in [Workers -> [Refunds -> Phases]]
  /\ faults \in 0 .. MaxFaults

Init ==
  /\ lotStatus = [l \in Lots |-> IF OnHand[l] = 0 THEN "DEPLETED" ELSE "ACTIVE"]
  /\ quantityRemaining = OnHand
  /\ quantityReserved = [l \in Lots |-> 0]
  /\ stock = [p \in Products |-> Total(OnHand, LotsOf(p))]
  /\ reserved = [p \in Products |-> 0]
  /\ ledger = [l \in Lots |-> OnHand[l] + Total([s \in Sales |-> Allocated[s][l]], Sales)]
  /\ adjustments = 0
  /\ paymentStatus = [s \in Sales |-> "PAID"]
  /\ pendingRefund = [s \in Sales |-> NoRefund]
  /\ refundedQuantity = [s \in Sales |-> [p \in Products |-> 0]]
  /\ refundStatus = [r \in Refunds |-> "ABSENT"]
  /\ refundOf \in [Refunds -> Sales]
  /\ lines = [r \in Refunds |-> [p \in Products |-> 0]]
  /\ restock = {}
  /\ stripeRefundId = {}
  /\ writeOffs = [p \in Products |-> 0]
  /\ stripeRefund = [r \in Refunds |-> "none"]
  /\ phase = [w \in Workers |-> [r \in Refunds |-> "idle"]]
  /\ faults = 0

-----------------------------------------------------------------------------
(* Helpers *)

\* SaleItem.quantity: one line per product.
SoldQuantity(s, p) == LineQty(Allocated[s], p)

Refundable(s, p) == SoldQuantity(s, p) - refundedQuantity[s][p]

\* SaleItemLot rows come back in the order allocateFefo created them.
AllocatedBefore(s, l) ==
  Total(Allocated[s], {k \in LotsOf(ProductOf[l]) : FefoRank[k] < FefoRank[l]})

\* Mutant of Restorations: units refunded before are restored again.
RestorationsFromFirst(s, quantities) ==
  [l \in Lots |->
     LET first == AllocatedBefore(s, l)
     IN  AtLeastZero(Smaller(first + Allocated[s][l], quantities[ProductOf[l]]) - first)]

\* Mutant of Restorations: the skipped units use up the quantity to restore.
RestorationsShort(s, quantities) ==
  [l \in Lots |->
     LET done == refundedQuantity[s][ProductOf[l]]
         first == AllocatedBefore(s, l)
     IN  AtLeastZero(Smaller(first + Allocated[s][l], quantities[ProductOf[l]])
                     - Larger(first, done))]

\* The restock loop: skip the units refunded before, restore the next
\* `quantity` ones, lot by lot.
Restorations(s, quantities) ==
  [l \in Lots |->
     LET done == refundedQuantity[s][ProductOf[l]]
         first == AllocatedBefore(s, l)
     IN  AtLeastZero(Smaller(first + Allocated[s][l], done + quantities[ProductOf[l]])
                     - Larger(first, done))]

Goto(w, r, next) == phase' = [phase EXCEPT ![w][r] = next]

\* Where a throw takes the worker: a card request has a catch block, a cash
\* request and the job just report.
Raise(w, r) ==
  Goto(w, r, IF w = "request" /\ refundOf[r] \notin CashSales THEN "caught" ELSE "idle")

-----------------------------------------------------------------------------
(* refundSale *)

\* claimRefundInDb with planRefundLines: at least one unit, none beyond what
\* is still refundable.
claimRefundInDb(r, quantities, restocked) ==
  LET s == refundOf[r]
  IN  /\ refundStatus[r] = "ABSENT"
      /\ paymentStatus[s] = "PAID"
      /\ \A p \in Products : quantities[p] <= Refundable(s, p)
      /\ \E p \in Products : quantities[p] > 0
      /\ refundStatus' = [refundStatus EXCEPT ![r] = "PENDING"]
      /\ lines' = [lines EXCEPT ![r] = quantities]
      /\ restock' = IF restocked THEN restock \cup {r} ELSE restock
      /\ paymentStatus' = [paymentStatus EXCEPT ![s] = "REFUNDING"]
      /\ pendingRefund' = [pendingRefund EXCEPT ![s] = r]
      /\ Goto("request", r, IF s \in CashSales THEN "finalize" ELSE "claimed")
      /\ UNCHANGED <<inventoryVars, refundedQuantity, refundOf, stripeRefundId,
                     writeOffs, stripeRefund, faults>>

\* Units Stripe has returned, or is returning, on the sale's charge.
ReturnedAtStripe(s, p) ==
  Total([r \in Refunds |-> lines[r][p]],
        {r \in Refunds : refundOf[r] = s /\ stripeRefund[r] \in {"pending", "succeeded"}})

\* stripe.refunds.create.  Stripe never returns more than it charged.  The
\* status it answers with is not looked at.
StripeRefundCreated(r, status) ==
  /\ phase["request"][r] = "claimed"
  /\ \A p \in Products :
       ReturnedAtStripe(refundOf[r], p) + lines[r][p] <= SoldQuantity(refundOf[r], p)
  /\ stripeRefund' = [stripeRefund EXCEPT ![r] = status]
  /\ \/ Goto("request", r, "created")
     \/ LostReplies /\ Goto("request", r, "caught")
  /\ UNCHANGED <<inventoryVars, refundSaleVars, refundRowVars, writeOffs, faults>>

\* resolvePaymentIntentId or the call fails and nothing happened at Stripe.
StripeRefundRefused(r) ==
  /\ phase["request"][r] = "claimed"
  /\ Goto("request", r, "caught")
  /\ UNCHANGED <<inventoryVars, refundSaleVars, refundRowVars, writeOffs,
                 stripeRefund, faults>>

\* A pending refund settles later.
StripeRefundSettles(r, status) ==
  /\ stripeRefund[r] = "pending"
  /\ stripeRefund' = [stripeRefund EXCEPT ![r] = status]
  /\ UNCHANGED <<inventoryVars, refundSaleVars, refundRowVars, writeOffs, phase, faults>>

RecordStripeRefundId(r) ==
  /\ phase["request"][r] = "created"
  /\ stripeRefundId' = stripeRefundId \cup {r}
  /\ Goto("request", r, "finalize")
  /\ UNCHANGED <<inventoryVars, refundSaleVars, refundStatus, refundOf, lines,
                 restock, writeOffs, stripeRefund, faults>>

\* The catch block: abort the claim unless a Stripe id was recorded.
CatchRefundError(r) ==
  /\ phase["request"][r] = "caught"
  /\ Goto("request", r, IF r \in stripeRefundId THEN "idle" ELSE "abort")
  /\ UNCHANGED <<inventoryVars, refundSaleVars, refundRowVars, writeOffs,
                 stripeRefund, faults>>

-----------------------------------------------------------------------------
(* finalizeSucceededRefund *)

\* The unlocked read of the SaleRefund row.
ReadBeforeFinalize(w, r) ==
  /\ phase[w][r] = "finalize"
  /\ \/ refundStatus[r] = "PENDING" /\ Goto(w, r, "finalizing")
     \/ refundStatus[r] = "SUCCEEDED" /\ Goto(w, r, "idle")
     \/ refundStatus[r] = "FAILED" /\ Raise(w, r)
  /\ UNCHANGED <<inventoryVars, refundSaleVars, refundRowVars, writeOffs,
                 stripeRefund, faults>>

LinesFit(r) == \A p \in Products : lines[r][p] <= Refundable(refundOf[r], p)

RestockAccepted(r) ==
  r \in restock =>
    \A l \in Lots : Restorations(refundOf[r], lines[r])[l] > 0 =>
                      lotStatus[l] \notin {"RECALLED", "EXPIRED"}

\* Mutant of RefundedAfter: the quantity is set, not incremented.
RefundedOverwritten(s, quantities) == [p \in Products |-> quantities[p]]

\* SaleItem.refundedQuantity of every refunded line is incremented.
RefundedAfter(s, quantities) == [p \in Products |-> refundedQuantity[s][p] + quantities[p]]

\* Under the Sale lock: stock or write-off, refunded quantities, and both
\* statuses, on the strength of the status read before.
ApplyFinalize(w, r) ==
  LET s == refundOf[r]
      refunded == RefundedAfter(s, lines[r])
  IN  /\ phase[w][r] = "finalizing"
      /\ LinesFit(r)
      /\ IF r \in restock
         THEN /\ restockToLots(Restorations(s, lines[r]))
              /\ UNCHANGED writeOffs
         ELSE /\ writeOffs' = [p \in Products |-> writeOffs[p] + lines[r][p]]
              /\ UNCHANGED stockVars
      /\ refundedQuantity' = [refundedQuantity EXCEPT ![s] = refunded]
      /\ refundStatus' = [refundStatus EXCEPT ![r] = "SUCCEEDED"]
      /\ paymentStatus' = [paymentStatus EXCEPT ![s] =
           IF \A p \in Products : refunded[p] >= SoldQuantity(s, p)
           THEN "REFUNDED" ELSE "PAID"]
      /\ pendingRefund' = [pendingRefund EXCEPT ![s] = NoRefund]
      /\ Goto(w, r, "idle")
      /\ UNCHANGED <<ledger, adjustments, refundOf, lines, restock, stripeRefundId,
                     stripeRefund, faults>>

\* It throws and rolls back: the lines no longer fit, or a lot refuses them.
RefuseFinalize(w, r) ==
  /\ phase[w][r] = "finalizing"
  /\ ~(LinesFit(r) /\ RestockAccepted(r))
  /\ Raise(w, r)
  /\ UNCHANGED <<inventoryVars, refundSaleVars, refundRowVars, writeOffs,
                 stripeRefund, faults>>

-----------------------------------------------------------------------------
(* abortFailedRefund *)

\* The unlocked read.  A SUCCEEDED row is refused; a FAILED one was aborted
\* together with its sale and leaves nothing to do.
ReadBeforeAbort(w, r) ==
  /\ phase[w][r] = "abort"
  /\ Goto(w, r, IF refundStatus[r] = "PENDING" THEN "aborting" ELSE "idle")
  /\ UNCHANGED <<inventoryVars, refundSaleVars, refundRowVars, writeOffs,
                 stripeRefund, faults>>

\* Mutant of ApplyAbort: Sale.pendingRefundId is not cleared.
AbortKeepsClaim(w, r) ==
  LET s == refundOf[r]
      waits == paymentStatus[s] = "REFUNDING" /\ pendingRefund[s] = r
  IN  /\ phase[w][r] = "aborting"
      /\ refundStatus' = [refundStatus EXCEPT ![r] = "FAILED"]
      /\ paymentStatus' = IF waits THEN [paymentStatus EXCEPT ![s] = "PAID"] ELSE paymentStatus
      /\ Goto(w, r, "idle")
      /\ UNCHANGED <<inventoryVars, pendingRefund, refundedQuantity, refundOf, lines,
                     restock, stripeRefundId, writeOffs, stripeRefund, faults>>

\* FAILED whatever the row says by now; the sale returns to PAID if it still
\* waits for this refund.
ApplyAbort(w, r) ==
  LET s == refundOf[r]
      waits == paymentStatus[s] = "REFUNDING" /\ pendingRefund[s] = r
  IN  /\ phase[w][r] = "aborting"
      /\ refundStatus' = [refundStatus EXCEPT ![r] = "FAILED"]
      /\ paymentStatus' = IF waits THEN [paymentStatus EXCEPT ![s] = "PAID"] ELSE paymentStatus
      /\ pendingRefund' = IF waits THEN [pendingRefund EXCEPT ![s] = NoRefund] ELSE pendingRefund
      /\ Goto(w, r, "idle")
      /\ UNCHANGED <<inventoryVars, refundedQuantity, refundOf, lines, restock,
                     stripeRefundId, writeOffs, stripeRefund, faults>>

-----------------------------------------------------------------------------
(* reconcileRefundingSale *)

\* What the job does on the status Stripe answers.
ReconcileVerdict(r) ==
  CASE stripeRefund[r] = "succeeded" -> "finalize"
    [] stripeRefund[r] = "pending" -> "idle"
    [] OTHER -> "abort"

\* Mutant of ReconcileRefundingSale: an id is recorded although none was found.
ReconcileRecordsAny(r) ==
  LET s == refundOf[r]
  IN  /\ paymentStatus[s] = "REFUNDING" /\ pendingRefund[s] = r
      /\ refundStatus[r] = "PENDING"
      /\ s \notin CashSales
      /\ phase["job"][r] = "idle"
      /\ Overlap \/ phase["request"][r] = "idle"
      /\ stripeRefundId' = stripeRefundId \cup {r}
      /\ Goto("job", r, ReconcileVerdict(r))
      /\ UNCHANGED <<inventoryVars, refundSaleVars, refundStatus, refundOf, lines,
                     restock, writeOffs, stripeRefund, faults>>

\* Mutant of ReconcileRefundingSale: claims without a recorded id are passed over.
ReconcileRecordedOnly(r) ==
  LET s == refundOf[r]
  IN  /\ paymentStatus[s] = "REFUNDING" /\ pendingRefund[s] = r
      /\ refundStatus[r] = "PENDING"
      /\ r \in stripeRefundId
      /\ phase["job"][r] = "idle"
      /\ Overlap \/ phase["request"][r] = "idle"
      /\ Goto("job", r, ReconcileVerdict(r))
      /\ UNCHANGED <<inventoryVars, refundSaleVars, refundRowVars, writeOffs,
                     stripeRefund, faults>>

\* A claim older than REFUNDING_RECONCILE_AFTER_MS.  The job asks Stripe, by
\* the recorded id or by listing the charge's refunds, records an id it finds
\* and decides; a refund still pending there is left for the next tick.  A cash
\* sale has no charge to ask about: the call throws.
ReconcileRefundingSale(r) ==
  LET s == refundOf[r]
  IN  /\ paymentStatus[s] = "REFUNDING" /\ pendingRefund[s] = r
      /\ refundStatus[r] = "PENDING"
      /\ s \notin CashSales
      /\ phase["job"][r] = "idle"
      /\ Overlap \/ phase["request"][r] = "idle"
      /\ stripeRefundId' =
           IF stripeRefund[r] = "none" THEN stripeRefundId ELSE stripeRefundId \cup {r}
      /\ Goto("job", r, ReconcileVerdict(r))
      /\ UNCHANGED <<inventoryVars, refundSaleVars, refundStatus, refundOf, lines,
                     restock, writeOffs, stripeRefund, faults>>

-----------------------------------------------------------------------------
(* Faults and the rest of the shop *)

\* The process dies with every request and the job in it.
Restart ==
  /\ faults < MaxFaults
  /\ faults' = faults + 1
  /\ phase' = [w \in Workers |-> [r \in Refunds |-> "idle"]]
  /\ UNCHANGED <<inventoryVars, refundSaleVars, refundRowVars, writeOffs, stripeRefund>>

\* The database rolls a transaction back (a timeout, a lock cycle with the
\* other worker: abort takes the refund row first, finalize the sale).
TransactionFails(w, r) ==
  /\ faults < MaxFaults
  /\ faults' = faults + 1
  /\ \/ phase[w][r] = "finalizing" /\ Raise(w, r)
     \/ phase[w][r] = "aborting" /\ Goto(w, r, "idle")
  /\ UNCHANGED <<inventoryVars, refundSaleVars, refundRowVars, writeOffs, stripeRefund>>

LotLeavesSale ==
  /\ \E l \in Lots : quarantineLot(l) \/ runExpireLotsOnce(l)
  /\ UNCHANGED <<refundSaleVars, refundRowVars, writeOffs, stripeRefund, phase, faults>>

FinalizeStep(w, r) == ReadBeforeFinalize(w, r) \/ ApplyFinalize(w, r) \/ RefuseFinalize(w, r)

AbortStep(w, r) == ReadBeforeAbort(w, r) \/ ApplyAbort(w, r)

RequestStep(r) ==
  \/ \E status \in {"pending", "succeeded"} : StripeRefundCreated(r, status)
  \/ StripeRefundRefused(r)
  \/ RecordStripeRefundId(r)
  \/ CatchRefundError(r)
  \/ FinalizeStep("request", r)
  \/ AbortStep("request", r)

JobStep(r) ==
  \/ ReconcileRefundingSale(r)
  \/ FinalizeStep("job", r)
  \/ AbortStep("job", r)

Next ==
  \/ \E r \in Refunds :
       \/ \E quantities \in [Products -> 0 .. MaxUnits], restocked \in BOOLEAN :
            claimRefundInDb(r, quantities, restocked)
       \/ RequestStep(r)
       \/ JobStep(r)
       \/ \E status \in {"succeeded", "failed"} : StripeRefundSettles(r, status)
       \/ \E w \in Workers : TransactionFails(w, r)
  \/ LotLeavesSale
  \/ Restart

Spec == Init /\ [][Next]_vars

\* A live request runs to its end, cron keeps calling the job and Stripe
\* settles what is pending.
RefundFairness ==
  \A r \in Refunds :
    /\ WF_vars(RequestStep(r))
    /\ WF_vars(JobStep(r))
    /\ WF_vars(\E status \in {"succeeded", "failed"} : StripeRefundSettles(r, status))

FairSpec == Spec /\ RefundFairness

-----------------------------------------------------------------------------
(* Properties *)

SucceededRefunds(s) == {r \in Refunds : refundOf[r] = s /\ refundStatus[r] = "SUCCEEDED"}

RefundLine(p) == [r \in Refunds |-> lines[r][p]]

\* A sale in REFUNDING waits for exactly one open refund of its own, and a
\* sale that waits for one is in REFUNDING: the claim and its release change
\* sale and refund together, so the job always finds what it must settle.
RefundingHasClaim ==
  \A s \in Sales :
    IF paymentStatus[s] = "REFUNDING"
    THEN /\ pendingRefund[s] # NoRefund
         /\ refundOf[pendingRefund[s]] = s
         /\ refundStatus[pendingRefund[s]] = "PENDING"
    ELSE pendingRefund[s] = NoRefund

\* A sale's refunded quantities are those of its SUCCEEDED refunds: a refund
\* is applied once, whoever finalizes it and however often.
BooksMatchRefunds ==
  \A s \in Sales, p \in Products :
    refundedQuantity[s][p] = Total(RefundLine(p), SucceededRefunds(s))

\* Every refunded unit went back into a lot or was written off.
RefundedGoodsAccounted ==
  \A p \in Products :
    Total([s \in Sales |-> refundedQuantity[s][p]], Sales) =
      Total(quantityRemaining, LotsOf(p)) - Total(OnHand, LotsOf(p)) + writeOffs[p]

\* A lot never gets back more than was sold from it, over any sequence of
\* partial refunds with and without restock.
LotNeverOverfilled ==
  \A l \in Lots :
    quantityRemaining[l] <= OnHand[l] + Total([s \in Sales |-> Allocated[s][l]], Sales)

\* The goods of sale s cannot all go back: a lot they came from was taken off
\* sale for good.
OriginLost(s) ==
  \E l \in Lots : Allocated[s][l] > 0 /\ lotStatus[l] \in {"RECALLED", "EXPIRED"}

\* A claimed card refund is finished or given up: the sale does not stay
\* REFUNDING although requests die, replies of Stripe are lost and
\* transactions fail.  (A restock onto a lot taken off sale for good is refused
\* each time, and a cash refund is not looked after by the job.)
RefundSettles ==
  \A s \in Sales \ CashSales :
    paymentStatus[s] = "REFUNDING" ~> paymentStatus[s] # "REFUNDING" \/ OriginLost(s)

\* Between any two steps of request, job and Stripe: sale and refund agree on
\* who waits for whom, every refunded unit is on the shelf or written off, and
\* no lot holds more than it ever sold.
RefundsConsistent ==
  /\ TypeOK
  /\ StockRollup
  /\ RefundingHasClaim
  /\ RefundedGoodsAccounted
  /\ LotNeverOverfilled

=============================================================================
