---------------------------- MODULE RefundProofs ----------------------------
(***************************************************************************)
(* Safety of the refund protocol for any number of sales, lots, products   *)
(* and refunds: first what happens to the goods, which holds even when the *)
(* job and the request overlap; then the books, when they do not.          *)
(* Then recalls, for any number of lots and recalls whose scopes do not    *)
(* overlap, and what follows a recall, for any number of sales, messages   *)
(* and requests of admins.                                                 *)
(***************************************************************************)
EXTENDS Refund, Recall, Outreach, StockProofs

-----------------------------------------------------------------------------
(* Types *)

GoodsTypeOK ==
  /\ InventoryTypeOK
  /\ refundedQuantity \in [Sales -> [Products -> Nat]]
  /\ writeOffs \in [Products -> Nat]

ClaimTypeOK ==
  /\ paymentStatus \in [Sales -> {"PAID", "REFUNDING", "REFUNDED"}]
  /\ pendingRefund \in [Sales -> Refunds \cup {NoRefund}]
  /\ refundStatus \in [Refunds -> {"ABSENT", "PENDING", "SUCCEEDED", "FAILED"}]
  /\ refundOf \in [Refunds -> Sales]
  /\ lines \in [Refunds -> [Products -> Nat]]
  /\ restock \subseteq Refunds
  /\ phase \in [Workers -> [Refunds -> Phases]]
  /\ faults \in 0 .. MaxFaults

StripeTypeOK ==
  /\ stripeRefund \in [Refunds -> {"none", "pending", "succeeded", "failed"}]
  /\ stripeRefundId \subseteq {r \in Refunds : stripeRefund[r] # "none"}

\* A request that goes on after stripe.refunds.create has a refund at Stripe.
CreatedAtStripe == \A r \in Refunds : phase["request"][r] = "created" => stripeRefund[r] # "none"

TypeInv == TypeOK /\ CreatedAtStripe

\* The type invariant in its parts.
LEMMA TypeParts == TypeOK <=> GoodsTypeOK /\ ClaimTypeOK /\ StripeTypeOK
BY DEF TypeOK, GoodsTypeOK, ClaimTypeOK, StripeTypeOK

\* A worker moves on with one refund.
LEMMA GotoMoves ==
  ASSUME phase \in [Workers -> [Refunds -> Phases]], NEW w \in Workers, NEW r \in Refunds,
         NEW next \in Phases, Goto(w, r, next)
  PROVE  /\ phase' \in [Workers -> [Refunds -> Phases]]
         /\ phase'[w][r] = next
         /\ \A v \in Workers, q \in Refunds : v # w \/ q # r => phase'[v][q] = phase[v][q]
BY DEF Goto

\* A throw ends in the catch block or ends the work.
LEMMA RaiseMoves ==
  ASSUME NEW w \in Workers, NEW r \in Refunds, Raise(w, r)
  PROVE  \E next \in {"caught", "idle"} : Goto(w, r, next)
BY DEF Raise

\* A sale's line was sold in natural numbers, and so are the units to restore.
LEMMA RestorationsType ==
  ASSUME NEW s \in Sales, refundedQuantity \in [Sales -> [Products -> Nat]],
         NEW quantities \in [Products -> Nat]
  PROVE  /\ Restorations(s, quantities) \in Allocation
         /\ \A p \in Products : SoldQuantity(s, p) \in Nat
<1>1. Allocated[s] \in [Lots -> Nat] /\ Allocated[s] \in [Lots -> Int]
  BY RefundAssumption
<1>2. ASSUME NEW l \in Lots PROVE AllocatedBefore(s, l) \in Int
  <2>1. {k \in LotsOf(ProductOf[l]) : FefoRank[k] < FefoRank[l]} \in SUBSET Lots
    BY DEF LotsOf
  <2> QED
    BY <1>1, <2>1, LotTotalType DEF AllocatedBefore
<1>3. \A l \in Lots : /\ ProductOf[l] \in Products
                      /\ refundedQuantity[s][ProductOf[l]] \in Nat
                      /\ quantities[ProductOf[l]] \in Nat
  BY LotsAssumption
<1>4. Restorations(s, quantities) \in [Lots -> Nat]
  BY <1>1, <1>2, <1>3 DEF Restorations, AtLeastZero, Smaller, Larger
<1>5. \A p \in Products : SoldQuantity(s, p) \in Nat
  BY <1>1, LineQtyType DEF SoldQuantity, Allocation
<1> QED
  BY <1>4, <1>5 DEF Allocation

-----------------------------------------------------------------------------
(* The kinds of steps *)

Work(w, r) ==
  \/ ReadBeforeFinalize(w, r) \/ RefuseFinalize(w, r) \/ ReadBeforeAbort(w, r)
  \/ TransactionFails(w, r)

Apply(w, r) == ApplyFinalize(w, r) \/ ApplyAbort(w, r)

AtStripe(r) ==
  \/ \E status \in {"pending", "succeeded"} : StripeRefundCreated(r, status)
  \/ StripeRefundRefused(r)
  \/ RecordStripeRefundId(r)
  \/ CatchRefundError(r)
  \/ ReconcileRefundingSale(r)
  \/ \E status \in {"succeeded", "failed"} : StripeRefundSettles(r, status)

Claim(r) ==
  \E quantities \in [Products -> 0 .. MaxUnits], restocked \in BOOLEAN :
    claimRefundInDb(r, quantities, restocked)

\* Every step is of one of these kinds.
LEMMA StepKinds ==
  ASSUME [Next]_vars
  PROVE  \/ \E r \in Refunds : Claim(r) \/ AtStripe(r)
         \/ \E w \in Workers, r \in Refunds : Work(w, r) \/ Apply(w, r)
         \/ LotLeavesSale
         \/ Restart
         \/ UNCHANGED vars
<1>1. "request" \in Workers /\ "job" \in Workers
  BY DEF Workers
<1>2. ASSUME NEW r \in Refunds, RequestStep(r) \/ JobStep(r)
      PROVE  AtStripe(r) \/ \E w \in Workers : Work(w, r) \/ Apply(w, r)
  BY <1>1, <1>2 DEF RequestStep, JobStep, FinalizeStep, AbortStep, AtStripe, Work, Apply
<1> QED
  BY <1>2 DEF Next, Claim, AtStripe, Work

\* The goods are left alone by all but two kinds of steps.
LEMMA GoodsKept ==
  ASSUME [Next]_vars
  PROVE  \/ \E w \in Workers, r \in Refunds : ApplyFinalize(w, r)
         \/ LotLeavesSale
         \/ UNCHANGED <<inventoryVars, refundedQuantity, writeOffs>>
<1>1. ASSUME NEW r \in Refunds, Claim(r)
      PROVE  UNCHANGED <<inventoryVars, refundedQuantity, writeOffs>>
  BY <1>1 DEF Claim, claimRefundInDb
<1>2. ASSUME NEW r \in Refunds, AtStripe(r)
      PROVE  UNCHANGED <<inventoryVars, refundedQuantity, writeOffs>>
  BY <1>2 DEF AtStripe, StripeRefundCreated, StripeRefundRefused, RecordStripeRefundId,
              CatchRefundError, ReconcileRefundingSale, StripeRefundSettles, refundSaleVars
<1>3. ASSUME NEW w \in Workers, NEW r \in Refunds, Work(w, r) \/ ApplyAbort(w, r)
      PROVE  UNCHANGED <<inventoryVars, refundedQuantity, writeOffs>>
  BY <1>3 DEF Work, ApplyAbort, ReadBeforeFinalize, RefuseFinalize, ReadBeforeAbort,
              TransactionFails, refundSaleVars
<1>4. ASSUME Restart \/ UNCHANGED vars
      PROVE  UNCHANGED <<inventoryVars, refundedQuantity, writeOffs>>
  BY <1>4 DEF Restart, vars, refundSaleVars
<1> QED
  BY <1>1, <1>2, <1>3, <1>4, StepKinds DEF Apply

\* What ApplyFinalize does to the goods.
LEMMA FinalizeGoods ==
  ASSUME TypeOK, NEW w \in Workers, NEW r \in Refunds, ApplyFinalize(w, r)
  PROVE  /\ refundOf[r] \in Sales /\ lines[r] \in [Products -> Nat]
         /\ \A p \in Products : lines[r][p] <= SoldQuantity(refundOf[r], p)
                                               - refundedQuantity[refundOf[r]][p]
         /\ refundedQuantity' = [refundedQuantity EXCEPT ![refundOf[r]] =
              [p \in Products |-> refundedQuantity[refundOf[r]][p] + lines[r][p]]]
         /\ UNCHANGED <<ledger, adjustments>>
         /\ \/ /\ restockToLots(Restorations(refundOf[r], lines[r]))
               /\ UNCHANGED writeOffs
            \/ /\ writeOffs' = [p \in Products |-> writeOffs[p] + lines[r][p]]
               /\ UNCHANGED stockVars
BY DEF TypeOK, ApplyFinalize, LinesFit, Refundable, RefundedAfter

\* Every step keeps the types of the goods.
LEMMA GoodsTypeStep ==
  ASSUME TypeOK, [Next]_vars
  PROVE  GoodsTypeOK'
<1>1. GoodsTypeOK /\ InventoryTypeOK /\ StockTypeOK
  BY TypeParts DEF GoodsTypeOK, InventoryTypeOK
<1>2. ASSUME NEW w \in Workers, NEW r \in Refunds, ApplyFinalize(w, r) PROVE GoodsTypeOK'
  <2> DEFINE s == refundOf[r]
             q == lines[r]
  <2>1. /\ s \in Sales /\ q \in [Products -> Nat]
        /\ refundedQuantity' = [refundedQuantity EXCEPT ![s] =
             [p \in Products |-> refundedQuantity[s][p] + q[p]]]
        /\ UNCHANGED <<ledger, adjustments>>
        /\ \/ restockToLots(Restorations(s, q)) /\ UNCHANGED writeOffs
           \/ writeOffs' = [p \in Products |-> writeOffs[p] + q[p]] /\ UNCHANGED stockVars
    BY <1>2, FinalizeGoods
  <2> HIDE DEF s, q
  <2>2. Restorations(s, q) \in Allocation
    BY <1>1, <2>1, RestorationsType DEF GoodsTypeOK
  <2>3. StockTypeOK'
    <3>1. CASE UNCHANGED stockVars
      BY <1>1, <3>1 DEF StockTypeOK, stockVars, lotVars, productVars
    <3> QED
      BY <1>1, <2>1, <2>2, <3>1, restockToLotsType
  <2>4. InventoryTypeOK'
    BY <1>1, <2>1, <2>3 DEF InventoryTypeOK
  <2>5. /\ refundedQuantity' \in [Sales -> [Products -> Nat]]
        /\ writeOffs' \in [Products -> Nat]
    BY <1>1, <2>1 DEF GoodsTypeOK
  <2> QED
    BY <2>4, <2>5 DEF GoodsTypeOK
<1>3. CASE LotLeavesSale
  <2>1. PICK l \in Lots : quarantineLot(l) \/ runExpireLotsOnce(l)
    BY <1>3 DEF LotLeavesSale
  <2>2. PICK next \in {"QUARANTINED", "EXPIRED"} : leaveSellableRollup({l}, next)
    BY <2>1 DEF quarantineLot, runExpireLotsOnce
  <2>3. {l} \in SUBSET Lots /\ next \in LotStatus
    BY DEF LotStatus
  <2>4. StockTypeOK'
    BY <1>1, <2>2, <2>3, leaveSellableRollupType
  <2>5. AtLeastZero(quantityRemaining[l]) \in Int
    BY <1>1 DEF StockTypeOK, AtLeastZero
  <2>6. InventoryTypeOK'
    BY <1>1, <2>1, <2>4, <2>5 DEF InventoryTypeOK, quarantineLot, runExpireLotsOnce
  <2> QED
    BY <1>1, <1>3, <2>6 DEF GoodsTypeOK, LotLeavesSale, refundSaleVars
<1>4. CASE UNCHANGED <<inventoryVars, refundedQuantity, writeOffs>>
  BY <1>1, <1>4 DEF GoodsTypeOK, InventoryTypeOK, StockTypeOK, inventoryVars, stockVars, lotVars,
                    productVars
<1> QED
  BY <1>2, <1>3, <1>4, GoodsKept

\* Every step keeps the types of claims and of what is known from Stripe.
LEMMA ClaimTypeStep ==
  ASSUME TypeInv, [Next]_vars
  PROVE  ClaimTypeOK' /\ StripeTypeOK' /\ CreatedAtStripe'
<1> DEFINE Typed == ClaimTypeOK' /\ StripeTypeOK' /\ CreatedAtStripe'
<1>1. ClaimTypeOK /\ StripeTypeOK /\ CreatedAtStripe
  BY TypeParts DEF TypeInv
<1>2. phase \in [Workers -> [Refunds -> Phases]] /\ "request" \in Workers /\ "job" \in Workers
  BY <1>1 DEF ClaimTypeOK, Workers
<1>3. ASSUME NEW r \in Refunds, Claim(r) PROVE Typed
  <2>1. PICK quantities \in [Products -> 0 .. MaxUnits], restocked \in BOOLEAN :
          claimRefundInDb(r, quantities, restocked)
    BY <1>3 DEF Claim
  <2>2. PICK next \in {"finalize", "claimed"} : Goto("request", r, next)
    BY <2>1 DEF claimRefundInDb
  <2>3. /\ phase' \in [Workers -> [Refunds -> Phases]]
        /\ phase'["request"][r] = next
        /\ \A v \in Workers, q \in Refunds : v # "request" \/ q # r => phase'[v][q] = phase[v][q]
    BY <1>2, <2>2, GotoMoves DEF Phases
  <2>4. quantities \in [Products -> Nat]
    BY InventoryAssumption
  <2>5. refundOf[r] \in Sales
    BY <1>1 DEF ClaimTypeOK
  <2>6. ClaimTypeOK'
    BY <1>1, <2>1, <2>3, <2>4, <2>5 DEF ClaimTypeOK, claimRefundInDb
  <2>7. StripeTypeOK' /\ CreatedAtStripe'
    BY <1>1, <2>1, <2>3 DEF StripeTypeOK, CreatedAtStripe, claimRefundInDb, Workers
  <2> QED
    BY <2>6, <2>7
<1>4. ASSUME NEW r \in Refunds, AtStripe(r) PROVE Typed
  <2>1. UNCHANGED <<paymentStatus, pendingRefund, refundStatus, refundOf, lines, restock, faults>>
    BY <1>4 DEF AtStripe, StripeRefundCreated, StripeRefundRefused, RecordStripeRefundId,
                CatchRefundError, ReconcileRefundingSale, StripeRefundSettles, refundSaleVars,
                refundRowVars
  <2>2. \/ UNCHANGED phase
        \/ /\ \E next \in {"caught", "finalize", "idle", "abort"} : Goto("request", r, next)
           /\ stripeRefund' = stripeRefund \/ stripeRefund'[r] # "none"
        \/ \E next \in {"finalize", "idle", "abort"} : Goto("job", r, next)
        \/ Goto("request", r, "created") /\ stripeRefund'[r] # "none"
    BY <1>1, <1>4
    DEF AtStripe, StripeRefundCreated, StripeRefundRefused, RecordStripeRefundId, StripeTypeOK,
        CatchRefundError, ReconcileRefundingSale, StripeRefundSettles, ReconcileVerdict
  <2>3. /\ phase' \in [Workers -> [Refunds -> Phases]]
        /\ \A q \in Refunds : phase'["request"][q] = "created" =>
             phase["request"][q] = "created" \/ (q = r /\ stripeRefund'[r] # "none")
    <3>1. ASSUME NEW w \in Workers, NEW next \in {"caught", "finalize", "idle", "abort", "created"},
                 Goto(w, r, next)
          PROVE  /\ phase' \in [Workers -> [Refunds -> Phases]]
                 /\ phase'[w][r] = next
                 /\ \A v \in Workers, q \in Refunds : v # w \/ q # r => phase'[v][q] = phase[v][q]
      BY <1>2, <3>1, GotoMoves DEF Phases
    <3> QED
      BY <1>2, <2>2, <3>1
  <2>4. /\ stripeRefund' \in [Refunds -> {"none", "pending", "succeeded", "failed"}]
        /\ \A q \in Refunds : stripeRefund[q] # "none" => stripeRefund'[q] # "none"
    BY <1>1, <1>4
    DEF AtStripe, StripeRefundCreated, StripeRefundRefused, RecordStripeRefundId, StripeTypeOK,
        CatchRefundError, ReconcileRefundingSale, StripeRefundSettles
  <2>5. /\ stripeRefundId' \subseteq Refunds
        /\ \A q \in stripeRefundId' : q \in stripeRefundId \/ stripeRefund[q] # "none"
    BY <1>1, <1>4
    DEF AtStripe, StripeRefundCreated, StripeRefundRefused, RecordStripeRefundId, StripeTypeOK,
        CatchRefundError, ReconcileRefundingSale, StripeRefundSettles, CreatedAtStripe,
        refundRowVars
  <2>6. ClaimTypeOK'
    BY <1>1, <2>1, <2>3 DEF ClaimTypeOK
  <2>7. StripeTypeOK'
    BY <1>1, <2>4, <2>5 DEF StripeTypeOK
  <2>8. CreatedAtStripe'
    BY <1>1, <2>3, <2>4 DEF CreatedAtStripe
  <2> QED
    BY <2>6, <2>7, <2>8
<1>5. ASSUME NEW w \in Workers, NEW r \in Refunds, Work(w, r) PROVE Typed
  <2>1. /\ UNCHANGED <<paymentStatus, pendingRefund, refundStatus, refundOf, lines, restock,
                       stripeRefund, stripeRefundId>>
        /\ faults' \in 0 .. MaxFaults
    BY <1>1, <1>5, RefundAssumption
    DEF Work, ReadBeforeFinalize, RefuseFinalize, ReadBeforeAbort, TransactionFails,
        refundSaleVars, refundRowVars, ClaimTypeOK
  <2>2. PICK next \in {"finalizing", "aborting", "caught", "idle"} : Goto(w, r, next)
    BY <1>5, RaiseMoves DEF Work, ReadBeforeFinalize, RefuseFinalize, ReadBeforeAbort,
                            TransactionFails
  <2>3. /\ phase' \in [Workers -> [Refunds -> Phases]]
        /\ phase'[w][r] = next
        /\ \A v \in Workers, q \in Refunds : v # w \/ q # r => phase'[v][q] = phase[v][q]
    BY <1>2, <2>2, GotoMoves DEF Phases
  <2>4. ClaimTypeOK' /\ StripeTypeOK'
    BY <1>1, <2>1, <2>3 DEF ClaimTypeOK, StripeTypeOK
  <2>5. CreatedAtStripe'
    BY <1>1, <1>2, <2>1, <2>3 DEF CreatedAtStripe
  <2> QED
    BY <2>4, <2>5
<1>6. ASSUME NEW w \in Workers, NEW r \in Refunds, Apply(w, r) PROVE Typed
  <2>1. UNCHANGED <<refundOf, lines, restock, stripeRefund, stripeRefundId, faults>>
    BY <1>6 DEF Apply, ApplyFinalize, ApplyAbort
  <2>2. Goto(w, r, "idle")
    BY <1>6 DEF Apply, ApplyFinalize, ApplyAbort
  <2>3. /\ phase' \in [Workers -> [Refunds -> Phases]]
        /\ phase'[w][r] = "idle"
        /\ \A v \in Workers, q \in Refunds : v # w \/ q # r => phase'[v][q] = phase[v][q]
    BY <1>2, <2>2, GotoMoves DEF Phases
  <2>4. /\ paymentStatus' \in [Sales -> {"PAID", "REFUNDING", "REFUNDED"}]
        /\ pendingRefund' \in [Sales -> Refunds \cup {NoRefund}]
        /\ refundStatus' \in [Refunds -> {"ABSENT", "PENDING", "SUCCEEDED", "FAILED"}]
    BY <1>1, <1>6 DEF ClaimTypeOK, Apply, ApplyFinalize, ApplyAbort
  <2>5. ClaimTypeOK' /\ StripeTypeOK'
    BY <1>1, <2>1, <2>3, <2>4 DEF ClaimTypeOK, StripeTypeOK
  <2>6. CreatedAtStripe'
    BY <1>1, <1>2, <2>1, <2>3 DEF CreatedAtStripe
  <2> QED
    BY <2>5, <2>6
<1>7. ASSUME LotLeavesSale \/ UNCHANGED vars PROVE Typed
  BY <1>1, <1>7 DEF ClaimTypeOK, StripeTypeOK, CreatedAtStripe, LotLeavesSale, vars, refundSaleVars,
                    refundRowVars
<1>8. ASSUME Restart PROVE Typed
  BY <1>1, <1>2, <1>8, RefundAssumption
  DEF ClaimTypeOK, StripeTypeOK, CreatedAtStripe, Restart, refundSaleVars, refundRowVars, Phases
<1> HIDE DEF Typed
<1>9. Typed
  BY <1>3, <1>4, <1>5, <1>6, <1>7, <1>8, StepKinds
<1> QED
  BY <1>9 DEF Typed

\* Every step keeps the types.
LEMMA TypeStep ==
  ASSUME TypeInv, [Next]_vars
  PROVE  TypeInv'
<1>1. GoodsTypeOK'
  BY GoodsTypeStep DEF TypeInv
<1>2. ClaimTypeOK' /\ StripeTypeOK' /\ CreatedAtStripe'
  BY ClaimTypeStep
<1>3. TypeOK'
  BY <1>1, <1>2, TypeParts, PTL
<1> QED
  BY <1>2, <1>3 DEF TypeInv

\* The initial state has the types.
LEMMA TypeInit ==
  ASSUME Init
  PROVE  TypeInv
<1>1. \A p \in Products : Total(OnHand, LotsOf(p)) \in Int
  <2>1. OnHand \in [Lots -> Int] /\ \A p : LotsOf(p) \in SUBSET Lots
    BY RefundAssumption DEF LotsOf
  <2> QED
    BY <2>1, LotTotalType
<1>2. ASSUME NEW l \in Lots PROVE Total([s \in Sales |-> Allocated[s][l]], Sales) \in Int
  <2> DEFINE f == [s \in Sales |-> Allocated[s][l]]
  <2>1. IsFiniteSet(Sales) /\ IntegerOn(f, Sales)
    BY RefundAssumption DEF IntegerOn
  <2> HIDE DEF f
  <2>2. Total(f, Sales) \in Int
    BY <2>1, TotalType
  <2> QED
    BY <2>2 DEF f
<1>3. OnHand \in [Lots -> Int]
  BY RefundAssumption
<1>4. InventoryTypeOK
  BY <1>1, <1>2, <1>3, InventoryAssumption DEF Init, InventoryTypeOK, StockTypeOK, LotStatus
<1>5. GoodsTypeOK
  BY <1>4 DEF Init, GoodsTypeOK
<1>6. ClaimTypeOK /\ StripeTypeOK /\ CreatedAtStripe
  BY RefundAssumption
  DEF Init, ClaimTypeOK, StripeTypeOK, CreatedAtStripe, Phases, Workers
<1> QED
  BY <1>5, <1>6, TypeParts DEF TypeInv

\* Types hold always.
LEMMA TypeInvariant == Spec => []TypeInv
<1>1. Init => TypeInv
  BY TypeInit
<1>2. TypeInv /\ [Next]_vars => TypeInv'
  BY TypeStep
<1> QED
  BY <1>1, <1>2, PTL DEF Spec

-----------------------------------------------------------------------------
(* Goods.  The restock loop gives a lot the units of the sale that lie between *)
(* what was refunded before and what is refunded after: over all lots that is  *)
(* the refunded quantity, and over all refunds of a sale a lot gets back at    *)
(* most what the sale took from it.  This holds also when two workers apply    *)
(* the same refund.                                                            *)

\* Of the first q units of product p of sale s, those that came from lot l.
FirstFrom(s, l, q) == Supplied(Allocated[s], LotsOf(ProductOf[l]), FefoRank, l, q)

\* Per sale, the units of lot l among its refunded ones.
RefundedFrom(l) == [s \in Sales |-> FirstFrom(s, l, refundedQuantity[s][ProductOf[l]])]

RefundedWithin ==
  \A s \in Sales, p \in Products : refundedQuantity[s][p] <= SoldQuantity(s, p)

LotsRefilled ==
  \A l \in Lots : quantityRemaining[l] <= OnHand[l] + Total(RefundedFrom(l), Sales)

LotsUnheld ==
  \A l \in Lots : /\ quantityReserved[l] = 0
                  /\ quantityRemaining[l] >= 0
                  /\ lotStatus[l] # "ABSENT"
                  /\ lotStatus[l] = "DEPLETED" => quantityRemaining[l] = 0

GoodsInv ==
  TypeInv /\ StockRollup /\ LotsUnheld /\ RefundedWithin /\ RefundedGoodsAccounted /\ LotsRefilled

\* The facts the supply lemmas need of the lots of a sale.
LEMMA CommittedRows ==
  ASSUME NEW s \in Sales, NEW p \in Products
  PROVE  /\ IsFiniteSet(LotsOf(p)) /\ LotsOf(p) \subseteq Lots
         /\ NaturalOn(Allocated[s], LotsOf(p))
         /\ IntegerOn(FefoRank, LotsOf(p))
         /\ \A k, l \in LotsOf(p) : FefoRank[k] = FefoRank[l] => k = l
BY LotsOfFinite, LotsAssumption, RefundAssumption DEF NaturalOn, IntegerOn

\* What comes from a lot is a part of what the sale took from it.
LEMMA FirstFromType ==
  ASSUME NEW s \in Sales, NEW l \in Lots, NEW q \in Nat
  PROVE  /\ FirstFrom(s, l, q) \in Nat
         /\ FirstFrom(s, l, q) <= Allocated[s][l]
         /\ Allocated[s][l] \in Nat
         /\ AllocatedBefore(s, l) \in Nat
         /\ AllocatedBefore(s, l) = Ahead(Allocated[s], LotsOf(ProductOf[l]), FefoRank, l)
<1> DEFINE p == ProductOf[l]
<1>1. p \in Products /\ l \in LotsOf(p) /\ Allocated[s][l] \in Nat
  BY LotsAssumption, RefundAssumption DEF LotsOf
<1>2. /\ Ahead(Allocated[s], LotsOf(p), FefoRank, l) \in Nat
      /\ Supplied(Allocated[s], LotsOf(p), FefoRank, l, q) \in 0 .. Allocated[s][l]
  <2> HIDE DEF p
  <2> QED
    BY <1>1, CommittedRows, SuppliedType
<1> QED
  BY <1>1, <1>2 DEF FirstFrom, AllocatedBefore, Ahead

\* The restock loop restores the units after the refunded ones.
LEMMA RestorationsNext ==
  ASSUME NEW s \in Sales, refundedQuantity \in [Sales -> [Products -> Nat]],
         NEW quantities \in [Products -> Nat], NEW l \in Lots
  PROVE  LET done == refundedQuantity[s][ProductOf[l]]
         IN  Restorations(s, quantities)[l] =
               FirstFrom(s, l, done + quantities[ProductOf[l]]) - FirstFrom(s, l, done)
<1> DEFINE done == refundedQuantity[s][ProductOf[l]]
           n == quantities[ProductOf[l]]
           first == AllocatedBefore(s, l)
           a == Allocated[s][l]
<1>1. done \in Nat /\ n \in Nat /\ done + n \in Nat
  BY LotsAssumption
<1>2. /\ first \in Nat /\ a \in Nat
      /\ first = Ahead(Allocated[s], LotsOf(ProductOf[l]), FefoRank, l)
  BY <1>1, FirstFromType
<1>3. /\ FirstFrom(s, l, done + n) = Smaller(first + a, done + n) - Smaller(first, done + n)
      /\ FirstFrom(s, l, done) = Smaller(first + a, done) - Smaller(first, done)
  BY <1>2 DEF FirstFrom, Supplied
<1>4. Restorations(s, quantities)[l] =
        AtLeastZero(Smaller(first + a, done + n) - Larger(first, done))
  BY DEF Restorations
<1> HIDE DEF done, n, first, a
<1>5. AtLeastZero(Smaller(first + a, done + n) - Larger(first, done)) =
        (Smaller(first + a, done + n) - Smaller(first, done + n))
        - (Smaller(first + a, done) - Smaller(first, done))
  BY <1>1, <1>2 DEF AtLeastZero, Smaller, Larger
<1> QED
  BY <1>3, <1>4, <1>5 DEF done, n

\* The first q units of a line come from its lots, as long as it has as many.
LEMMA FirstUnits ==
  ASSUME NEW s \in Sales, NEW p \in Products, NEW q \in Nat, q <= SoldQuantity(s, p),
         NEW g, \A l \in LotsOf(p) : g[l] = FirstFrom(s, l, q)
  PROVE  Total(g, LotsOf(p)) = q
<1>1. \A l \in LotsOf(p) : g[l] = Supplied(Allocated[s], LotsOf(p), FefoRank, l, q)
  BY DEF FirstFrom, LotsOf
<1>2. Total(g, LotsOf(p)) = Smaller(Total(Allocated[s], LotsOf(p)), q)
  BY <1>1, CommittedRows, SuppliedTotal
<1>3. SoldQuantity(s, p) = Total(Allocated[s], LotsOf(p)) /\ SoldQuantity(s, p) \in Nat
  <2>1. Total(Allocated[s], LotsOf(p)) \in Nat
    BY CommittedRows, TotalNatural
  <2> QED
    BY <2>1 DEF SoldQuantity, LineQty
<1> QED
  BY <1>2, <1>3 DEF Smaller

\* All the units of a refund go back to lots.
LEMMA RestorationsTotal ==
  ASSUME NEW s \in Sales, refundedQuantity \in [Sales -> [Products -> Nat]],
         NEW quantities \in [Products -> Nat], NEW p \in Products,
         refundedQuantity[s][p] + quantities[p] <= SoldQuantity(s, p)
  PROVE  LineQty(Restorations(s, quantities), p) = quantities[p]
<1> DEFINE done == refundedQuantity[s][p]
           n == quantities[p]
           lo == [l \in Lots |-> FirstFrom(s, l, done)]
           hi == [l \in Lots |-> FirstFrom(s, l, done + n)]
           back == Restorations(s, quantities)
<1>1. done \in Nat /\ n \in Nat /\ done + n \in Nat
  OBVIOUS
<1>2. LotsOf(p) \subseteq Lots /\ IsFiniteSet(LotsOf(p)) /\ SoldQuantity(s, p) \in Nat
  BY LotsOfFinite, RestorationsType
<1>3. \A l \in LotsOf(p) : lo[l] = FirstFrom(s, l, done) /\ hi[l] = FirstFrom(s, l, done + n)
  BY <1>2
<1>4. back \in [Lots -> Nat]
  BY RestorationsType DEF Allocation
<1>5. ASSUME NEW l \in LotsOf(p) PROVE hi[l] = back[l] + lo[l] /\ lo[l] \in Nat
  <2>1. l \in Lots /\ ProductOf[l] = p
    BY DEF LotsOf
  <2>2. back[l] = FirstFrom(s, l, done + n) - FirstFrom(s, l, done)
    BY <2>1, RestorationsNext
  <2>3. FirstFrom(s, l, done + n) \in Nat /\ FirstFrom(s, l, done) \in Nat
    BY <1>1, <2>1, FirstFromType
  <2> HIDE DEF done, n, back
  <2> QED
    BY <2>1, <2>2, <2>3
<1> HIDE DEF lo, hi, back
<1>6. Total(lo, LotsOf(p)) = done /\ Total(hi, LotsOf(p)) = done + n
  <2>1. done <= SoldQuantity(s, p)
    BY <1>1, <1>2
  <2> HIDE DEF done, n
  <2> QED
    BY <1>1, <1>3, <2>1, FirstUnits DEF done, n
<1>7. IntegerOn(back, LotsOf(p)) /\ IntegerOn(lo, LotsOf(p))
  BY <1>2, <1>4, <1>5 DEF IntegerOn
<1>8. Total(hi, LotsOf(p)) = Total(back, LotsOf(p)) + Total(lo, LotsOf(p))
  BY <1>2, <1>5, <1>7, TotalAdd
<1>9. Total(back, LotsOf(p)) \in Int
  BY <1>2, <1>7, TotalType
<1> QED
  BY <1>1, <1>6, <1>8, <1>9 DEF LineQty, back

\* Per sale, the refunded units of a product.
RefundedOf(p) == [s \in Sales |-> refundedQuantity[s][p]]

\* Refunding units of one sale adds them to what was refunded of the product,
\* and to what was refunded from each lot.
LEMMA RefundedMore ==
  ASSUME TypeInv, NEW s \in Sales, NEW quantities \in [Products -> Nat],
         refundedQuantity' = [refundedQuantity EXCEPT ![s] =
           [p \in Products |-> refundedQuantity[s][p] + quantities[p]]]
  PROVE  /\ \A p \in Products :
              /\ Total(RefundedOf(p), Sales)' = Total(RefundedOf(p), Sales) + quantities[p]
              /\ Total(RefundedOf(p), Sales) \in Int
         /\ \A l \in Lots :
              /\ Total(RefundedFrom(l), Sales)' =
                   Total(RefundedFrom(l), Sales) + Restorations(s, quantities)[l]
              /\ Total(RefundedFrom(l), Sales) \in Int
<1>1. refundedQuantity \in [Sales -> [Products -> Nat]] /\ IsFiniteSet(Sales)
  BY RefundAssumption DEF TypeInv, TypeOK
<1>2. /\ \A p \in Products : refundedQuantity'[s][p] = refundedQuantity[s][p] + quantities[p]
      /\ \A t \in Sales \ {s} : refundedQuantity'[t] = refundedQuantity[t]
  BY <1>1
<1>3. ASSUME NEW p \in Products
      PROVE  /\ Total(RefundedOf(p)', Sales) = Total(RefundedOf(p), Sales) + quantities[p]
             /\ Total(RefundedOf(p), Sales) \in Int
  <2>1. IntegerOn(RefundedOf(p), Sales)
    BY <1>1 DEF IntegerOn, RefundedOf
  <2>2. /\ RefundedOf(p)'[s] = RefundedOf(p)[s] + quantities[p]
        /\ \A t \in Sales \ {s} : RefundedOf(p)'[t] = RefundedOf(p)[t]
        /\ quantities[p] \in Int
    BY <1>2 DEF RefundedOf
  <2> QED
    BY <1>1, <2>1, <2>2, TotalBumped, TotalType
<1>4. ASSUME NEW l \in Lots
      PROVE  /\ Total(RefundedFrom(l)', Sales) =
                  Total(RefundedFrom(l), Sales) + Restorations(s, quantities)[l]
             /\ Total(RefundedFrom(l), Sales) \in Int
  <2> DEFINE p == ProductOf[l]
             done == refundedQuantity[s][p]
             n == quantities[p]
             back == Restorations(s, quantities)[l]
  <2>1. p \in Products /\ done \in Nat /\ n \in Nat /\ done + n \in Nat
    BY <1>1, LotsAssumption
  <2>2. back \in Nat
    BY <1>1, RestorationsType DEF Allocation
  <2>3. back = FirstFrom(s, l, done + n) - FirstFrom(s, l, done)
    BY <1>1, RestorationsNext
  <2>4. FirstFrom(s, l, done + n) \in Nat /\ FirstFrom(s, l, done) \in Nat
    BY <2>1, FirstFromType
  <2>5. IntegerOn(RefundedFrom(l), Sales)
    <3>1. \A t \in Sales : refundedQuantity[t][p] \in Nat
      BY <1>1, <2>1
    <3>2. \A t \in Sales : FirstFrom(t, l, refundedQuantity[t][p]) \in Nat
      BY <3>1, FirstFromType
    <3> QED
      BY <3>2 DEF IntegerOn, RefundedFrom
  <2>6. RefundedFrom(l)[s] = FirstFrom(s, l, done)
    BY DEF RefundedFrom
  <2>7. RefundedFrom(l)'[s] = FirstFrom(s, l, done + n)
    BY <1>2, <2>1 DEF RefundedFrom, FirstFrom
  <2>8. \A t \in Sales \ {s} : RefundedFrom(l)'[t] = RefundedFrom(l)[t]
    BY <1>2 DEF RefundedFrom, FirstFrom
  <2>9. back \in Int /\ RefundedFrom(l)'[s] = RefundedFrom(l)[s] + back
    <3> HIDE DEF back, done, n, p
    <3> QED
      BY <2>2, <2>3, <2>4, <2>6, <2>7
  <2> QED
    BY <1>1, <2>5, <2>8, <2>9, TotalBumped, TotalType
<1> QED
  BY <1>3, <1>4

\* Applying a refund puts its units back or writes them off.
LEMMA FinalizeKeepsGoods ==
  ASSUME GoodsInv, NEW w \in Workers, NEW r \in Refunds, ApplyFinalize(w, r)
  PROVE  /\ StockRollup' /\ LotsUnheld' /\ RefundedWithin' /\ RefundedGoodsAccounted'
         /\ LotsRefilled'
<1> DEFINE s == refundOf[r]
           q == lines[r]
           back == Restorations(s, q)
<1>1. TypeInv /\ TypeOK /\ StockTypeOK
  BY DEF GoodsInv, TypeInv, TypeOK, InventoryTypeOK
<1>2. /\ s \in Sales /\ q \in [Products -> Nat]
      /\ \A p \in Products : q[p] <= SoldQuantity(s, p) - refundedQuantity[s][p]
      /\ refundedQuantity' = [refundedQuantity EXCEPT ![s] =
           [p \in Products |-> refundedQuantity[s][p] + q[p]]]
      /\ \/ restockToLots(back) /\ UNCHANGED writeOffs
         \/ writeOffs' = [p \in Products |-> writeOffs[p] + q[p]] /\ UNCHANGED stockVars
  BY <1>1, FinalizeGoods
<1> HIDE DEF s, q
<1>3. /\ refundedQuantity \in [Sales -> [Products -> Nat]] /\ writeOffs \in [Products -> Nat]
      /\ quantityRemaining \in [Lots -> Int] /\ OnHand \in [Lots -> Nat]
  BY <1>1, RefundAssumption DEF TypeOK, StockTypeOK
<1>4. /\ back \in Allocation /\ back \in [Lots -> Nat]
      /\ \A t \in Sales, p \in Products : SoldQuantity(t, p) \in Nat
  BY <1>2, <1>3, RestorationsType DEF Allocation
<1>5. \A p \in Products : LineQty(back, p) = q[p]
  <2>1. \A p \in Products : refundedQuantity[s][p] + q[p] <= SoldQuantity(s, p)
    BY <1>2, <1>3, <1>4
  <2> QED
    BY <1>2, <1>3, <2>1, RestorationsTotal
<1>6. /\ \A p \in Products :
           /\ Total(RefundedOf(p), Sales)' = Total(RefundedOf(p), Sales) + q[p]
           /\ Total(RefundedOf(p), Sales) \in Int
      /\ \A l \in Lots : /\ Total(RefundedFrom(l), Sales)' = Total(RefundedFrom(l), Sales) + back[l]
                         /\ Total(RefundedFrom(l), Sales) \in Int
  BY <1>1, <1>2, RefundedMore
<1> HIDE DEF back
<1>7. RefundedWithin'
  <2>1. \A t \in Sales, p \in Products : refundedQuantity'[t][p] <= SoldQuantity(t, p)
    BY <1>2, <1>3, <1>4 DEF GoodsInv, RefundedWithin
  <2> QED
    BY <2>1 DEF RefundedWithin, SoldQuantity, LineQty, LotsOf
<1>8. \A p \in Products :
        Total(RefundedOf(p), Sales) =
          Total(quantityRemaining, LotsOf(p)) - Total(OnHand, LotsOf(p)) + writeOffs[p]
  BY DEF GoodsInv, RefundedGoodsAccounted, RefundedOf
<1>9. \A p : /\ IsFiniteSet(LotsOf(p))
             /\ IntegerOn(quantityRemaining, LotsOf(p)) /\ IntegerOn(back, LotsOf(p))
             /\ Total(quantityRemaining, LotsOf(p)) \in Int
             /\ Total(OnHand, LotsOf(p)) \in Int
  <2>1. OnHand \in [Lots -> Int] /\ \A p : LotsOf(p) \in SUBSET Lots
    BY <1>3 DEF LotsOf
  <2> QED
    BY <1>3, <1>4, <2>1, LotsOfFinite, LotTotalType DEF IntegerOn
<1>10. \A p \in Products : q[p] \in Nat /\ writeOffs[p] \in Nat
  BY <1>2, <1>3
<1>11. CASE restockToLots(back) /\ UNCHANGED writeOffs
  <2>1. StockRollup'
    BY <1>1, <1>4, <1>11, restockToLotsRollup DEF GoodsInv, LotsUnheld
  <2>2. LotsUnheld'
    BY <1>1, <1>4, <1>11 DEF GoodsInv, LotsUnheld, restockToLots, StockTypeOK
  <2>3. RefundedGoodsAccounted'
    <3>1. ASSUME NEW p \in Products
          PROVE  Total(quantityRemaining', LotsOf(p)) = Total(quantityRemaining, LotsOf(p)) + q[p]
      <4>1. \A l \in LotsOf(p) : quantityRemaining'[l] = quantityRemaining[l] + back[l]
        BY <1>11, LotsOfFinite DEF restockToLots
      <4> QED
        BY <1>5, <1>9, <4>1, TotalAdd DEF LineQty
    <3>2. ASSUME NEW p \in Products
          PROVE  Total(RefundedOf(p), Sales)' =
                   Total(quantityRemaining', LotsOf(p)) - Total(OnHand, LotsOf(p)) + writeOffs'[p]
      BY <1>6, <1>8, <1>9, <1>10, <1>11, <3>1
    <3> QED
      BY <3>2 DEF RefundedGoodsAccounted, RefundedOf, LotsOf
  <2>4. LotsRefilled'
    <3>1. \A l \in Lots : quantityRemaining'[l] = quantityRemaining[l] + back[l]
      BY <1>11 DEF restockToLots
    <3>2. \A l \in Lots : quantityRemaining'[l] <= OnHand[l] + Total(RefundedFrom(l), Sales)'
      BY <1>3, <1>4, <1>6, <3>1 DEF GoodsInv, LotsRefilled
    <3> QED
      BY <3>2 DEF LotsRefilled
  <2> QED
    BY <1>7, <2>1, <2>2, <2>3, <2>4
<1>12. CASE writeOffs' = [p \in Products |-> writeOffs[p] + q[p]] /\ UNCHANGED stockVars
  <2>1. StockRollup' /\ LotsUnheld'
    BY <1>12 DEF GoodsInv, StockRollup, ActiveLots, LotsUnheld, stockVars, lotVars, productVars
  <2>2. UNCHANGED quantityRemaining
    BY <1>12 DEF stockVars, lotVars
  <2>3. RefundedGoodsAccounted'
    <3>1. ASSUME NEW p \in Products
          PROVE  Total(RefundedOf(p), Sales)' =
                   Total(quantityRemaining, LotsOf(p)) - Total(OnHand, LotsOf(p)) + writeOffs'[p]
      BY <1>6, <1>8, <1>9, <1>10, <1>12
    <3> QED
      BY <2>2, <3>1 DEF RefundedGoodsAccounted, RefundedOf
  <2>4. LotsRefilled'
    <3>1. \A l \in Lots : quantityRemaining[l] <= OnHand[l] + Total(RefundedFrom(l), Sales)'
      BY <1>3, <1>4, <1>6 DEF GoodsInv, LotsRefilled
    <3> QED
      BY <2>2, <3>1 DEF LotsRefilled
  <2> QED
    BY <1>7, <2>1, <2>3, <2>4
<1> QED
  BY <1>2, <1>11, <1>12

\* Every step keeps the goods accounted for.
LEMMA GoodsStep ==
  ASSUME GoodsInv, [Next]_vars
  PROVE  GoodsInv'
<1> DEFINE Kept == /\ StockRollup' /\ LotsUnheld' /\ RefundedWithin' /\ RefundedGoodsAccounted'
                   /\ LotsRefilled'
<1>1. TypeInv'
  BY TypeStep DEF GoodsInv
<1>2. ASSUME NEW w \in Workers, NEW r \in Refunds, ApplyFinalize(w, r) PROVE Kept
  BY <1>2, FinalizeKeepsGoods
<1>3. ASSUME LotLeavesSale PROVE Kept
  <2>1. PICK l \in Lots : quarantineLot(l) \/ runExpireLotsOnce(l)
    BY <1>3 DEF LotLeavesSale
  <2>2. PICK next \in {"QUARANTINED", "EXPIRED"} : leaveSellableRollup({l}, next)
    BY <2>1 DEF quarantineLot, runExpireLotsOnce
  <2>3. /\ {l} \in SUBSET Lots /\ next \in LotStatus \ {"ACTIVE"}
        /\ \A k \in {l} : quantityReserved[k] = 0 /\ quantityRemaining[k] >= 0
        /\ StockTypeOK /\ StockRollup
    BY DEF LotStatus, GoodsInv, LotsUnheld, TypeInv, TypeOK, InventoryTypeOK
  <2>4. StockRollup'
    BY <2>2, <2>3, leaveSellableRollupRollup
  <2>5. LotsUnheld'
    BY <2>2, <2>3 DEF GoodsInv, LotsUnheld, leaveSellableRollup, StockTypeOK
  <2>6. UNCHANGED <<quantityRemaining, refundedQuantity, writeOffs>>
    BY <1>3, <2>2 DEF leaveSellableRollup, LotLeavesSale, refundSaleVars
  <2>7. RefundedWithin' /\ RefundedGoodsAccounted' /\ LotsRefilled'
    BY <2>6 DEF GoodsInv, RefundedWithin, RefundedGoodsAccounted, LotsRefilled, RefundedFrom
  <2> QED
    BY <2>4, <2>5, <2>7
<1>4. ASSUME UNCHANGED <<inventoryVars, refundedQuantity, writeOffs>> PROVE Kept
  BY <1>4 DEF GoodsInv, StockRollup, ActiveLots, LotsUnheld, RefundedWithin,
              RefundedGoodsAccounted, LotsRefilled, RefundedFrom, inventoryVars, stockVars,
              lotVars, productVars
<1>5. Kept
  BY <1>2, <1>3, <1>4, GoodsKept
<1> QED
  BY <1>1, <1>5 DEF GoodsInv

\* Before the first refund.
LEMMA GoodsInit ==
  ASSUME Init
  PROVE  GoodsInv
<1>1. TypeInv
  BY TypeInit
<1>2. OnHand \in [Lots -> Nat]
  BY RefundAssumption
<1>3. ASSUME NEW p \in Products
      PROVE  /\ stock[p] = Total(quantityRemaining, ActiveLots(p))
             /\ reserved[p] = Total(quantityReserved, ActiveLots(p))
  <2>1. /\ IsFiniteSet(LotsOf(p)) /\ LotsOf(p) \subseteq Lots
        /\ ActiveLots(p) \in SUBSET LotsOf(p)
    BY LotsOfFinite DEF ActiveLots
  <2>2. IntegerOn(OnHand, LotsOf(p)) /\ \A l \in LotsOf(p) \ ActiveLots(p) : OnHand[l] = 0
    BY <1>2, <2>1 DEF Init, IntegerOn, ActiveLots
  <2>3. Total(OnHand, ActiveLots(p)) = Total(OnHand, LotsOf(p))
    BY <2>1, <2>2, TotalFiltered
  <2>4. \A l \in ActiveLots(p) : quantityReserved[l] = 0
    BY <2>1 DEF Init
  <2>5. Total(quantityReserved, ActiveLots(p)) = 0
    BY <2>4, TotalZero
  <2> QED
    BY <2>3, <2>5 DEF Init
<1>4. LotsUnheld
  BY <1>2 DEF Init, LotsUnheld
<1>5. RefundedWithin
  <2>1. \A s \in Sales, p \in Products : SoldQuantity(s, p) \in Nat
    <3>1. refundedQuantity \in [Sales -> [Products -> Nat]]
      BY DEF Init
    <3>2. [p \in Products |-> 0] \in [Products -> Nat]
      OBVIOUS
    <3> QED
      BY <3>1, <3>2, RestorationsType
  <2> QED
    BY <2>1 DEF Init, RefundedWithin
<1>6. RefundedGoodsAccounted
  <2> SUFFICES ASSUME NEW p \in Products
               PROVE  Total(RefundedOf(p), Sales) =
                        Total(quantityRemaining, LotsOf(p)) - Total(OnHand, LotsOf(p))
                        + writeOffs[p]
    BY DEF RefundedGoodsAccounted, RefundedOf
  <2>1. \A s \in Sales : RefundedOf(p)[s] = 0
    BY DEF Init, RefundedOf
  <2>2. Total(RefundedOf(p), Sales) = 0
    BY <2>1, TotalZero
  <2>3. Total(OnHand, LotsOf(p)) \in Int
    <3>1. OnHand \in [Lots -> Int] /\ LotsOf(p) \in SUBSET Lots
      BY <1>2 DEF LotsOf
    <3> QED
      BY <3>1, LotTotalType
  <2> QED
    BY <2>2, <2>3 DEF Init
<1>7. LotsRefilled
  <2> SUFFICES ASSUME NEW l \in Lots
               PROVE  quantityRemaining[l] <= OnHand[l] + Total(RefundedFrom(l), Sales)
    BY DEF LotsRefilled
  <2>1. \A s \in Sales : RefundedFrom(l)[s] \in Nat
    <3>1. \A s \in Sales : refundedQuantity[s][ProductOf[l]] \in Nat
      BY LotsAssumption DEF Init
    <3>2. \A s \in Sales : FirstFrom(s, l, refundedQuantity[s][ProductOf[l]]) \in Nat
      BY <3>1, FirstFromType
    <3> QED
      BY <3>2 DEF RefundedFrom
  <2>2. Total(RefundedFrom(l), Sales) \in Nat
    BY <2>1, RefundAssumption, TotalNatural DEF NaturalOn
  <2> QED
    BY <1>2, <2>2 DEF Init
<1> QED
  BY <1>1, <1>3, <1>4, <1>5, <1>6, <1>7 DEF GoodsInv, StockRollup

\* What is known of the goods holds always.
LEMMA GoodsInvariant == Spec => []GoodsInv
<1>1. Init => GoodsInv
  BY GoodsInit
<1>2. GoodsInv /\ [Next]_vars => GoodsInv'
  BY GoodsStep
<1> QED
  BY <1>1, <1>2, PTL DEF Spec

\* What a lot gets back is bounded by what was sold from it.
LEMMA RefilledWithin ==
  ASSUME GoodsInv
  PROVE  LotNeverOverfilled
<1> SUFFICES ASSUME NEW l \in Lots
             PROVE  quantityRemaining[l] <= OnHand[l]
                      + Total([s \in Sales |-> Allocated[s][l]], Sales)
  BY DEF LotNeverOverfilled
<1> DEFINE sold == [s \in Sales |-> Allocated[s][l]]
<1>1. /\ refundedQuantity \in [Sales -> [Products -> Nat]]
      /\ quantityRemaining[l] \in Int /\ OnHand[l] \in Nat /\ IsFiniteSet(Sales)
  BY RefundAssumption DEF GoodsInv, TypeInv, TypeOK, InventoryTypeOK, StockTypeOK
<1>2. ASSUME NEW s \in Sales
      PROVE  RefundedFrom(l)[s] <= sold[s] /\ RefundedFrom(l)[s] \in Int /\ sold[s] \in Int
  <2>1. refundedQuantity[s][ProductOf[l]] \in Nat
    BY <1>1, LotsAssumption
  <2> QED
    BY <2>1, FirstFromType DEF RefundedFrom
<1> HIDE DEF sold
<1>3. IntegerOn(RefundedFrom(l), Sales) /\ IntegerOn(sold, Sales)
  BY <1>2 DEF IntegerOn
<1>4. /\ Total(RefundedFrom(l), Sales) <= Total(sold, Sales)
      /\ Total(RefundedFrom(l), Sales) \in Int /\ Total(sold, Sales) \in Int
  BY <1>1, <1>2, <1>3, TotalMonotone, TotalType
<1> QED
  BY <1>1, <1>4 DEF GoodsInv, LotsRefilled, sold

\* Even when request and job apply a refund twice, Product.stock stays the
\* rollup of its lots, every unit counted as refunded is back in a lot or
\* written off, and no lot holds more than it ever sold.
THEOREM RefundedGoodsSafe ==
  Spec => [](TypeOK /\ StockRollup /\ RefundedGoodsAccounted /\ LotNeverOverfilled)
<1>1. GoodsInv => TypeOK /\ StockRollup /\ RefundedGoodsAccounted /\ LotNeverOverfilled
  BY RefilledWithin DEF GoodsInv, TypeInv
<1> QED
  BY <1>1, GoodsInvariant, PTL

-----------------------------------------------------------------------------
(* Books, when the job leaves a refund to its request as long as that is alive  *)
(* (REFUNDING_RECONCILE_AFTER_MS is longer than a request lives).  A worker     *)
(* that has read PENDING can then rely on it: nobody else works on the refund,  *)
(* and a PENDING refund is the one its sale waits for.                          *)

OneWorker ==
  \A r \in Refunds : phase["request"][r] = "idle" \/ phase["job"][r] = "idle"

WorkOnClaims ==
  \A w \in Workers, r \in Refunds :
    /\ phase[w][r] # "idle" => refundStatus[r] # "ABSENT"
    /\ phase[w][r] \in {"finalizing", "aborting"} => refundStatus[r] = "PENDING"

PendingIsAwaited ==
  \A r \in Refunds : refundStatus[r] = "PENDING" =>
    /\ paymentStatus[refundOf[r]] = "REFUNDING"
    /\ pendingRefund[refundOf[r]] = r

BooksInv ==
  /\ TypeInv /\ OneWorker /\ WorkOnClaims /\ PendingIsAwaited /\ RefundingHasClaim
  /\ BooksMatchRefunds

\* A step that changes neither the lines nor the refunded quantities nor which
\* refunds succeeded keeps the books.
LEMMA BooksKept ==
  ASSUME TypeInv, BooksMatchRefunds, UNCHANGED <<refundOf, refundedQuantity>>,
         \A r \in Refunds : refundStatus'[r] = "SUCCEEDED" <=> refundStatus[r] = "SUCCEEDED",
         \A r \in Refunds : refundStatus[r] = "SUCCEEDED" => lines'[r] = lines[r]
  PROVE  BooksMatchRefunds'
<1> SUFFICES ASSUME NEW s \in Sales, NEW p \in Products
             PROVE  refundedQuantity[s][p] = Total(RefundLine(p)', SucceededRefunds(s)')
  BY DEF BooksMatchRefunds
<1>1. SucceededRefunds(s)' = SucceededRefunds(s)
  BY DEF SucceededRefunds
<1>2. /\ IntegerOn(RefundLine(p), SucceededRefunds(s))
      /\ \A r \in SucceededRefunds(s) : RefundLine(p)[r] = RefundLine(p)'[r]
  BY DEF IntegerOn, RefundLine, SucceededRefunds, TypeInv, TypeOK
<1>3. Total(RefundLine(p), SucceededRefunds(s)) = Total(RefundLine(p)', SucceededRefunds(s))
  BY <1>2, TotalExtensional
<1> QED
  BY <1>1, <1>3 DEF BooksMatchRefunds

\* Applying a PENDING refund adds it to the books once.
LEMMA BooksApplied ==
  ASSUME TypeInv, BooksMatchRefunds, NEW w \in Workers, NEW r \in Refunds,
         refundStatus[r] = "PENDING", ApplyFinalize(w, r)
  PROVE  BooksMatchRefunds'
<1> DEFINE s == refundOf[r]
<1>1. /\ s \in Sales /\ refundedQuantity \in [Sales -> [Products -> Nat]]
      /\ refundStatus \in [Refunds -> {"ABSENT", "PENDING", "SUCCEEDED", "FAILED"}]
      /\ lines \in [Refunds -> [Products -> Nat]] /\ refundOf \in [Refunds -> Sales]
  BY DEF TypeInv, TypeOK
<1>2. /\ refundedQuantity' = [refundedQuantity EXCEPT ![s] =
           [p \in Products |-> refundedQuantity[s][p] + lines[r][p]]]
      /\ refundStatus' = [refundStatus EXCEPT ![r] = "SUCCEEDED"]
      /\ UNCHANGED <<refundOf, lines>>
  BY DEF ApplyFinalize, RefundedAfter
<1> SUFFICES ASSUME NEW t \in Sales, NEW p \in Products
             PROVE  refundedQuantity'[t][p] = Total(RefundLine(p), SucceededRefunds(t)')
  <2>1. \A p : RefundLine(p)' = RefundLine(p)
    BY <1>2 DEF RefundLine
  <2> QED
    BY <2>1 DEF BooksMatchRefunds
<1> DEFINE f == RefundLine(p)
           done == SucceededRefunds(t)
<1>3. refundedQuantity[t][p] = Total(f, done)
  BY DEF BooksMatchRefunds
<1>4. CASE t # s
  <2>1. SucceededRefunds(t)' = done
    BY <1>1, <1>2, <1>4 DEF SucceededRefunds
  <2>2. refundedQuantity'[t][p] = refundedQuantity[t][p]
    BY <1>1, <1>2, <1>4
  <2> QED
    BY <1>3, <2>1, <2>2
<1>5. CASE t = s
  <2>1. SucceededRefunds(t)' = done \cup {r} /\ done \cap {r} = {}
    BY <1>1, <1>2, <1>5 DEF SucceededRefunds
  <2>2. /\ IsFiniteSet(done) /\ IsFiniteSet({r})
        /\ IntegerOn(f, done \cup {r})
        /\ f[r] = lines[r][p] /\ f[r] \in Int
    <3>1. done \subseteq Refunds
      BY DEF SucceededRefunds
    <3> QED
      BY <1>1, <3>1, RefundAssumption, FS_Subset, FS_Singleton DEF IntegerOn, RefundLine
  <2>3. refundedQuantity'[t][p] = refundedQuantity[t][p] + lines[r][p]
    BY <1>1, <1>2, <1>5
  <2> HIDE DEF f, done
  <2>4. Total(f, done \cup {r}) = Total(f, done) + Total(f, {r})
    BY <2>1, <2>2, TotalDisjoint
  <2>5. Total(f, {r}) = f[r]
    BY <2>2, TotalSingleton
  <2> QED
    BY <1>3, <2>1, <2>2, <2>3, <2>4, <2>5 DEF f
<1> QED
  BY <1>4, <1>5

\* A worker may move on with a refund when the other leaves it alone, or to stop.
LEMMA WorkMoves ==
  ASSUME OneWorker, WorkOnClaims, NEW w \in Workers, NEW r \in Refunds,
         \A v \in Workers, q \in Refunds : v # w \/ q # r => phase'[v][q] = phase[v][q],
         \A v \in Workers : v # w => phase[v][r] = "idle",
         \A q \in Refunds : q # r => refundStatus'[q] = refundStatus[q],
         phase'[w][r] # "idle" => refundStatus'[r] # "ABSENT",
         phase'[w][r] \in {"finalizing", "aborting"} => refundStatus'[r] = "PENDING"
  PROVE  OneWorker' /\ WorkOnClaims'
<1>1. Workers = {"request", "job"}
  BY DEF Workers
<1>2. ASSUME NEW q \in Refunds
      PROVE  phase'["request"][q] = "idle" \/ phase'["job"][q] = "idle"
  <2>1. CASE q # r
    <3>1. phase'["request"][q] = phase["request"][q] /\ phase'["job"][q] = phase["job"][q]
      BY <1>1, <2>1
    <3> QED
      BY <3>1 DEF OneWorker
  <2>2. CASE q = r
    BY <1>1, <2>2
  <2> QED
    BY <2>1, <2>2
<1>3. ASSUME NEW v \in Workers, NEW q \in Refunds
      PROVE  /\ phase'[v][q] # "idle" => refundStatus'[q] # "ABSENT"
             /\ phase'[v][q] \in {"finalizing", "aborting"} => refundStatus'[q] = "PENDING"
  <2>1. CASE q # r
    <3>1. phase'[v][q] = phase[v][q] /\ refundStatus'[q] = refundStatus[q]
      BY <2>1
    <3> QED
      BY <3>1 DEF WorkOnClaims
  <2>2. CASE q = r /\ v # w
    <3>1. phase'[v][q] = "idle"
      BY <2>2
    <3> QED
      BY <3>1
  <2>3. CASE q = r /\ v = w
    BY <2>3
  <2> QED
    BY <2>1, <2>2, <2>3
<1> QED
  BY <1>2, <1>3 DEF OneWorker, WorkOnClaims

\* Every step keeps the books, when request and job do not overlap.
LEMMA BooksStep ==
  ASSUME ~Overlap, BooksInv, [Next]_vars
  PROVE  BooksInv'
<1> DEFINE Claims == OneWorker' /\ WorkOnClaims' /\ PendingIsAwaited' /\ RefundingHasClaim'
<1>1. /\ TypeInv /\ OneWorker /\ WorkOnClaims /\ PendingIsAwaited /\ RefundingHasClaim
      /\ BooksMatchRefunds
  BY DEF BooksInv
<1>2. TypeInv'
  BY <1>1, TypeStep
<1>3. /\ paymentStatus \in [Sales -> {"PAID", "REFUNDING", "REFUNDED"}]
      /\ pendingRefund \in [Sales -> Refunds \cup {NoRefund}] /\ NoRefund \notin Refunds
      /\ refundStatus \in [Refunds -> {"ABSENT", "PENDING", "SUCCEEDED", "FAILED"}]
      /\ lines \in [Refunds -> [Products -> Nat]]
      /\ refundOf \in [Refunds -> Sales]
      /\ phase \in [Workers -> [Refunds -> Phases]]
      /\ Workers = {"request", "job"}
  BY <1>1, RefundAssumption DEF TypeInv, TypeOK, Workers
<1>4. ASSUME NEW w \in Workers, NEW r \in Refunds, NEW next \in Phases, Goto(w, r, next)
      PROVE  /\ phase'[w][r] = next
             /\ \A v \in Workers, q \in Refunds : v # w \/ q # r => phase'[v][q] = phase[v][q]
  BY <1>3, <1>4, GotoMoves
<1>5. ASSUME NEW r \in Refunds, Claim(r) PROVE Claims /\ BooksMatchRefunds'
  <2>1. PICK quantities \in [Products -> 0 .. MaxUnits], restocked \in BOOLEAN :
          claimRefundInDb(r, quantities, restocked)
    BY <1>5 DEF Claim
  <2>2. /\ refundStatus[r] = "ABSENT" /\ paymentStatus[refundOf[r]] = "PAID"
        /\ refundStatus' = [refundStatus EXCEPT ![r] = "PENDING"]
        /\ lines' = [lines EXCEPT ![r] = quantities]
        /\ paymentStatus' = [paymentStatus EXCEPT ![refundOf[r]] = "REFUNDING"]
        /\ pendingRefund' = [pendingRefund EXCEPT ![refundOf[r]] = r]
        /\ UNCHANGED <<refundOf, refundedQuantity>>
    BY <2>1 DEF claimRefundInDb
  <2>3. /\ phase'["request"][r] \in {"finalize", "claimed"}
        /\ \A v \in Workers, q \in Refunds : v # "request" \/ q # r => phase'[v][q] = phase[v][q]
    <3>1. PICK next \in {"finalize", "claimed"} : Goto("request", r, next)
      BY <2>1 DEF claimRefundInDb
    <3> QED
      BY <1>3, <1>4, <3>1 DEF Phases
  <2>4. phase["job"][r] = "idle"
    BY <1>1, <1>3, <2>2 DEF WorkOnClaims
  <2>5. OneWorker' /\ WorkOnClaims'
    BY <1>1, <1>3, <2>2, <2>3, <2>4, WorkMoves
  <2>6. PendingIsAwaited' /\ RefundingHasClaim'
    BY <1>1, <1>3, <2>2 DEF PendingIsAwaited, RefundingHasClaim
  <2>7. BooksMatchRefunds'
    <3>1. \A q \in Refunds : refundStatus'[q] = "SUCCEEDED" <=> refundStatus[q] = "SUCCEEDED"
      BY <1>3, <2>2
    <3>2. \A q \in Refunds : refundStatus[q] = "SUCCEEDED" => lines'[q] = lines[q]
      BY <1>3, <2>2
    <3> QED
      BY <1>1, <2>2, <3>1, <3>2, BooksKept
  <2> QED
    BY <2>5, <2>6, <2>7
<1>6. ASSUME UNCHANGED <<paymentStatus, pendingRefund, refundStatus, refundOf, lines,
                         refundedQuantity>>,
             OneWorker' /\ WorkOnClaims'
      PROVE  Claims /\ BooksMatchRefunds'
  <2>1. PendingIsAwaited' /\ RefundingHasClaim'
    BY <1>1, <1>6 DEF PendingIsAwaited, RefundingHasClaim
  <2>2. BooksMatchRefunds'
    BY <1>1, <1>6, BooksKept
  <2> QED
    BY <1>6, <2>1, <2>2
<1>7. ASSUME NEW r \in Refunds, AtStripe(r) PROVE Claims /\ BooksMatchRefunds'
  <2>1. UNCHANGED <<paymentStatus, pendingRefund, refundStatus, refundOf, lines, refundedQuantity>>
    BY <1>7 DEF AtStripe, StripeRefundCreated, StripeRefundRefused, RecordStripeRefundId,
                CatchRefundError, ReconcileRefundingSale, StripeRefundSettles, refundSaleVars,
                refundRowVars
  <2>2. CASE ReconcileRefundingSale(r)
    <3>1. /\ phase["request"][r] = "idle" /\ refundStatus[r] = "PENDING"
          /\ \E next \in {"finalize", "idle", "abort"} : Goto("job", r, next)
      BY <2>2 DEF ReconcileRefundingSale, ReconcileVerdict
    <3>2. /\ phase'["job"][r] \in {"finalize", "idle", "abort"}
          /\ \A v \in Workers, q \in Refunds : v # "job" \/ q # r => phase'[v][q] = phase[v][q]
      BY <1>3, <1>4, <3>1 DEF Phases
    <3>3. OneWorker' /\ WorkOnClaims'
      BY <1>1, <1>3, <2>1, <3>1, <3>2, WorkMoves
    <3> QED
      BY <1>6, <2>1, <3>3
  <2>3. CASE UNCHANGED phase
    <3>1. OneWorker' /\ WorkOnClaims'
      BY <1>1, <2>1, <2>3 DEF OneWorker, WorkOnClaims
    <3> QED
      BY <1>6, <2>1, <3>1
  <2>4. ASSUME phase["request"][r] \in {"claimed", "created", "caught"},
               NEW next \in {"created", "caught", "finalize", "idle", "abort"},
               Goto("request", r, next)
        PROVE  Claims /\ BooksMatchRefunds'
    <3>1. /\ phase'["request"][r] = next
          /\ \A v \in Workers, q \in Refunds : v # "request" \/ q # r => phase'[v][q] = phase[v][q]
      BY <1>3, <1>4, <2>4 DEF Phases
    <3>2. refundStatus[r] # "ABSENT" /\ \A v \in Workers : v # "request" => phase[v][r] = "idle"
      BY <1>1, <1>3, <2>4 DEF OneWorker, WorkOnClaims
    <3>3. OneWorker' /\ WorkOnClaims'
      BY <1>1, <1>3, <2>1, <3>1, <3>2, WorkMoves
    <3> QED
      BY <1>6, <2>1, <3>3
  <2> HIDE DEF Claims
  <2> QED
    BY <1>7, <2>2, <2>3, <2>4
    DEF AtStripe, StripeRefundCreated, StripeRefundRefused, RecordStripeRefundId,
        CatchRefundError, StripeRefundSettles
<1>8. ASSUME NEW w \in Workers, NEW r \in Refunds, Work(w, r) PROVE Claims /\ BooksMatchRefunds'
  <2>1. UNCHANGED <<paymentStatus, pendingRefund, refundStatus, refundOf, lines, refundedQuantity>>
    BY <1>8 DEF Work, ReadBeforeFinalize, RefuseFinalize, ReadBeforeAbort, TransactionFails,
                refundSaleVars, refundRowVars
  <2>2. phase[w][r] \in {"finalize", "finalizing", "abort", "aborting"}
    BY <1>8 DEF Work, ReadBeforeFinalize, RefuseFinalize, ReadBeforeAbort, TransactionFails
  <2>3. PICK next \in {"finalizing", "aborting", "caught", "idle"} :
          /\ Goto(w, r, next)
          /\ next \in {"finalizing", "aborting"} => refundStatus[r] = "PENDING"
    BY <1>8, RaiseMoves DEF Work, ReadBeforeFinalize, RefuseFinalize, ReadBeforeAbort,
                            TransactionFails
  <2>4. /\ phase'[w][r] = next
        /\ \A v \in Workers, q \in Refunds : v # w \/ q # r => phase'[v][q] = phase[v][q]
    BY <1>4, <2>3 DEF Phases
  <2>5. refundStatus[r] # "ABSENT" /\ \A v \in Workers : v # w => phase[v][r] = "idle"
    BY <1>1, <1>3, <2>2 DEF OneWorker, WorkOnClaims
  <2>6. OneWorker' /\ WorkOnClaims'
    BY <1>1, <2>1, <2>3, <2>4, <2>5, WorkMoves
  <2> QED
    BY <1>6, <2>1, <2>6
<1>9. ASSUME NEW w \in Workers, NEW r \in Refunds, Apply(w, r)
      PROVE  Claims /\ BooksMatchRefunds'
  <2>1. phase[w][r] \in {"finalizing", "aborting"} /\ Goto(w, r, "idle")
    BY <1>9 DEF Apply, ApplyFinalize, ApplyAbort
  <2>2. /\ phase'[w][r] = "idle"
        /\ \A v \in Workers, q \in Refunds : v # w \/ q # r => phase'[v][q] = phase[v][q]
    BY <1>4, <2>1 DEF Phases
  <2>3. /\ refundStatus[r] = "PENDING"
        /\ paymentStatus[refundOf[r]] = "REFUNDING" /\ pendingRefund[refundOf[r]] = r
        /\ \A v \in Workers : v # w => phase[v][r] = "idle"
    BY <1>1, <1>3, <2>1 DEF WorkOnClaims, PendingIsAwaited, OneWorker
  <2>4. /\ \E status \in {"SUCCEEDED", "FAILED"} :
             refundStatus' = [refundStatus EXCEPT ![r] = status]
        /\ \E status \in {"PAID", "REFUNDED"} :
             paymentStatus' = [paymentStatus EXCEPT ![refundOf[r]] = status]
        /\ pendingRefund' = [pendingRefund EXCEPT ![refundOf[r]] = NoRefund]
        /\ UNCHANGED <<refundOf, lines>>
    BY <1>9, <2>3 DEF Apply, ApplyFinalize, ApplyAbort
  <2>5. OneWorker' /\ WorkOnClaims'
    BY <1>1, <1>3, <2>2, <2>3, <2>4, WorkMoves
  <2>6. PendingIsAwaited' /\ RefundingHasClaim'
    BY <1>1, <1>3, <2>3, <2>4 DEF PendingIsAwaited, RefundingHasClaim
  <2>7. BooksMatchRefunds'
    <3>1. CASE ApplyFinalize(w, r)
      BY <1>1, <2>3, <3>1, BooksApplied
    <3>2. CASE ApplyAbort(w, r)
      <4>1. /\ UNCHANGED <<refundOf, refundedQuantity, lines>>
            /\ \A q \in Refunds : refundStatus'[q] = "SUCCEEDED" <=> refundStatus[q] = "SUCCEEDED"
        BY <1>3, <2>3, <3>2 DEF ApplyAbort
      <4> QED
        BY <1>1, <4>1, BooksKept
    <3> QED
      BY <1>9, <3>1, <3>2 DEF Apply
  <2> QED
    BY <2>5, <2>6, <2>7
<1>10. ASSUME LotLeavesSale \/ UNCHANGED vars PROVE Claims /\ BooksMatchRefunds'
  <2>1. UNCHANGED <<paymentStatus, pendingRefund, refundStatus, refundOf, lines, refundedQuantity,
                    phase>>
    BY <1>10 DEF LotLeavesSale, vars, refundSaleVars, refundRowVars
  <2>2. OneWorker' /\ WorkOnClaims'
    BY <1>1, <2>1 DEF OneWorker, WorkOnClaims
  <2> QED
    BY <1>6, <2>1, <2>2
<1>11. ASSUME Restart PROVE Claims /\ BooksMatchRefunds'
  <2>1. /\ UNCHANGED <<paymentStatus, pendingRefund, refundStatus, refundOf, lines,
                       refundedQuantity>>
        /\ \A w \in Workers, r \in Refunds : phase'[w][r] = "idle"
    BY <1>11 DEF Restart, refundSaleVars, refundRowVars
  <2>2. OneWorker' /\ WorkOnClaims'
    BY <1>3, <2>1 DEF OneWorker, WorkOnClaims
  <2> QED
    BY <1>6, <2>1, <2>2
<1> HIDE DEF Claims
<1>12. Claims /\ BooksMatchRefunds'
  BY <1>5, <1>7, <1>8, <1>9, <1>10, <1>11, StepKinds
<1> QED
  BY <1>2, <1>12 DEF BooksInv, Claims

\* Nothing is claimed at first.
LEMMA BooksInit ==
  ASSUME Init
  PROVE  BooksInv
<1>1. TypeInv
  BY TypeInit
<1>2. OneWorker /\ WorkOnClaims /\ PendingIsAwaited /\ RefundingHasClaim
  BY DEF Init, OneWorker, WorkOnClaims, PendingIsAwaited, RefundingHasClaim, Workers
<1>3. \A s \in Sales, p \in Products : Total(RefundLine(p), SucceededRefunds(s)) = 0
  <2>1. \A s \in Sales : SucceededRefunds(s) = {}
    BY DEF Init, SucceededRefunds
  <2> QED
    BY <2>1, TotalZero
<1> QED
  BY <1>1, <1>2, <1>3 DEF Init, BooksInv, BooksMatchRefunds

\* The books are right always, when request and job do not overlap.
LEMMA BooksInvariant ==
  ASSUME ~Overlap
  PROVE  Spec => []BooksInv
<1>1. Init => BooksInv
  BY BooksInit
<1>2. BooksInv /\ [Next]_vars => BooksInv'
  BY BooksStep
<1> QED
  BY <1>1, <1>2, PTL DEF Spec

\* As long as the job stays away from live requests, a sale's refunded
\* quantities are those of its SUCCEEDED refunds: each refund is applied once,
\* across restarts, lost replies and rolled back transactions.
THEOREM RefundsAppliedOnce ==
  ASSUME ~Overlap
  PROVE  Spec => []BooksMatchRefunds
BY BooksInvariant, PTL DEF BooksInv

\* As long as the job stays away from live requests, sale and refund agree on
\* who waits for whom, every refunded unit is on the shelf or written off, and
\* no lot holds more than it ever sold.
THEOREM RefundsStayConsistent ==
  ASSUME ~Overlap
  PROVE  Spec => []RefundsConsistent
<1>1. BooksInv /\ GoodsInv => RefundsConsistent
  BY RefilledWithin DEF BooksInv, GoodsInv, TypeInv, RefundsConsistent
<1> QED
  BY <1>1, BooksInvariant, GoodsInvariant, PTL

-----------------------------------------------------------------------------
(* Recalls *)

\* Nothing is oversold, and only a lot on sale is held.
LotsSound ==
  \A l \in Lots :
    /\ quantityRemaining[l] >= 0 /\ quantityReserved[l] >= 0
    /\ lotStatus[l] = "ACTIVE" => quantityReserved[l] <= quantityRemaining[l]
    /\ lotStatus[l] # "ACTIVE" => quantityReserved[l] = 0

\* One request at a time works on a recall, and finds it as it read it.
OneRequest ==
  \A r \in Recalls :
    /\ r \in initiating => r \notin previewed \cup activating \cup cancelling
    /\ r \in previewed => r \notin activating \cup cancelling
    /\ r \in activating => r \notin cancelling
    /\ r \in activating \cup cancelling => recallStatus[r] = "DRAFT"
    /\ restoring[r] \subseteq ScopeOf[r]

\* The lots of a recall are off sale, for good once it is activated, and whoever
\* bought of them is on the list the activation works from.
RecallHolds ==
  \A r \in Recalls :
    /\ r \in initiating => \A l \in ScopeOf[r] : lotStatus[l] # "ABSENT"
    /\ recallStatus[r] = "DRAFT" => \A l \in ScopeOf[r] : lotStatus[l] \notin {"ABSENT", "ACTIVE"}
    /\ recallStatus[r] \in {"ACTIVE", "COMPLETED"} =>
         \A l \in ScopeOf[r] : lotStatus[l] = "RECALLED" /\ buyers[l] \subseteq notified[r]
    /\ r \in activating \/ (r \in previewed /\ recallStatus[r] = "DRAFT") =>
         \A l \in ScopeOf[r] : buyers[l] \subseteq impact[r]

RecallInv ==
  /\ RecallTypeOK
  /\ OneRequest
  /\ ~revived => LotsSound /\ StockRollup /\ RecallHolds

\* Returning quarantined lots to sale keeps the types.
LEMMA returnToSellableRollupType ==
  ASSUME StockTypeOK, NEW S \in SUBSET Lots, returnToSellableRollup(S)
  PROVE  StockTypeOK'
<1>1. OnShelf \in [Lots -> Int]
  BY DEF StockTypeOK, OnShelf, AtLeastZero
<1>2. \A p \in Products : Total(OnShelf, QuarantinedAmong(S) \cap LotsOf(p)) \in Int
  <2> TAKE p \in Products
  <2>1. QuarantinedAmong(S) \cap LotsOf(p) \in SUBSET Lots
    BY LotsOfFinite
  <2> QED
    BY <1>1, <2>1, LotTotalType
<1> QED
  BY <1>2 DEF StockTypeOK, LotStatus, returnToSellableRollup

\* They enter the rollup with all their units.
LEMMA returnToSellableRollupRollup ==
  ASSUME StockTypeOK, StockRollup, NEW S \in SUBSET Lots, returnToSellableRollup(S),
         \A l \in QuarantinedAmong(S) : quantityReserved[l] = 0 /\ quantityRemaining[l] >= 0
  PROVE  StockRollup'
<1> DEFINE back == [l \in Lots |-> IF l \in QuarantinedAmong(S) THEN quantityRemaining[l] ELSE 0]
<1>1. StockTypeOK'
  BY returnToSellableRollupType
<1>2. back \in [Lots -> Int] /\ NoAllocation \in [Lots -> Int]
  BY DEF StockTypeOK, NoAllocation
<1>3. \A l \in Lots : /\ Sellable(lotStatus', quantityRemaining')[l] =
                           Sellable(lotStatus, quantityRemaining)[l] + back[l]
                      /\ Sellable(lotStatus', quantityReserved')[l] =
                           Sellable(lotStatus, quantityReserved)[l] + NoAllocation[l]
  BY DEF StockTypeOK, returnToSellableRollup, QuarantinedAmong, Sellable, NoAllocation
<1>4. \A p \in Products : Total(OnShelf, QuarantinedAmong(S) \cap LotsOf(p)) = Total(back, LotsOf(p))
  <2> TAKE p \in Products
  <2>1. IntegerOn(back, LotsOf(p))
    BY <1>2, LotsOfFinite DEF IntegerOn
  <2>2. QuarantinedAmong(S) \cap LotsOf(p) \in SUBSET LotsOf(p)
    OBVIOUS
  <2>3. /\ \A l \in QuarantinedAmong(S) \cap LotsOf(p) : back[l] = OnShelf[l]
        /\ \A l \in LotsOf(p) \ (QuarantinedAmong(S) \cap LotsOf(p)) : back[l] = 0
    BY LotsOfFinite DEF StockTypeOK, OnShelf, AtLeastZero
  <2> HIDE DEF back
  <2> QED
    BY <2>1, <2>2, <2>3, LotsOfFinite, TotalFiltered
<1> HIDE DEF back
<1>5. \A p \in Products : /\ stock'[p] = stock[p] + Total(back, LotsOf(p))
                          /\ reserved'[p] = reserved[p] + Total(NoAllocation, LotsOf(p))
  BY <1>2, <1>4, LineChange DEF StockTypeOK, returnToSellableRollup
<1> QED
  BY <1>1, <1>2, <1>3, <1>5, RollupStep

\* Writing off lots that are not on sale leaves types and rollup as they are.
LEMMA recallDepleteLotRollup ==
  ASSUME StockTypeOK, NEW recalled \in SUBSET Lots, recallDepleteLot(recalled)
  PROVE  /\ StockTypeOK'
         /\ StockRollup /\ (\A l \in recalled : lotStatus[l] # "ACTIVE") => StockRollup'
<1>1. StockTypeOK'
  BY DEF StockTypeOK, LotStatus, recallDepleteLot
<1>2. ASSUME StockRollup, \A l \in recalled : lotStatus[l] # "ACTIVE" PROVE StockRollup'
  <2>1. NoAllocation \in [Lots -> Int]
    BY DEF NoAllocation
  <2>2. \A l \in Lots : /\ Sellable(lotStatus', quantityRemaining')[l] =
                             Sellable(lotStatus, quantityRemaining)[l] + NoAllocation[l]
                        /\ Sellable(lotStatus', quantityReserved')[l] =
                             Sellable(lotStatus, quantityReserved)[l] + NoAllocation[l]
    BY <1>2 DEF StockTypeOK, recallDepleteLot, Sellable, NoAllocation
  <2>3. \A p \in Products : /\ stock'[p] = stock[p] + Total(NoAllocation, LotsOf(p))
                            /\ reserved'[p] = reserved[p] + Total(NoAllocation, LotsOf(p))
    BY LineChange DEF StockTypeOK, recallDepleteLot
  <2> QED
    BY <1>1, <1>2, <2>1, <2>2, <2>3, RollupStep
<1> QED
  BY <1>1, <1>2

\* Taking lots without holds off sale.
LEMMA LeaveSound ==
  ASSUME StockTypeOK, LotsSound, StockRollup, NEW leaving \in SUBSET Lots,
         NEW nextStatus \in LotStatus \ {"ACTIVE"}, leaveSellableRollup(leaving, nextStatus),
         \A l \in leaving : quantityReserved[l] <= 0
  PROVE  StockTypeOK' /\ LotsSound' /\ StockRollup'
<1>1. \A l \in leaving : quantityReserved[l] = 0 /\ quantityRemaining[l] >= 0
  BY DEF StockTypeOK, LotsSound
<1>2. StockTypeOK' /\ StockRollup'
  BY <1>1, leaveSellableRollupRollup, leaveSellableRollupType
<1>3. LotsSound'
  BY <1>1 DEF StockTypeOK, LotsSound, leaveSellableRollup
<1> QED
  BY <1>2, <1>3

\* The till sells and holds only what is free, of lots on sale.
LEMMA TillSound ==
  ASSUME StockTypeOK, LotsSound, StockRollup, NEW a \in Allocation,
         reserve(a) \/ consumeDirect(a),
         \A l \in Lots : a[l] > 0 => /\ lotStatus[l] = "ACTIVE"
                                     /\ a[l] <= quantityRemaining[l] - quantityReserved[l]
  PROVE  LotsSound' /\ StockRollup'
<1>1. \A l \in Lots : a[l] \in Nat /\ quantityRemaining[l] \in Int /\ quantityReserved[l] \in Int
  BY DEF StockTypeOK, Allocation
<1>2. CASE reserve(a)
  <2>1. StockRollup'
    BY <1>2, reserveRollup
  <2>2. LotsSound'
    BY <1>1, <1>2 DEF LotsSound, reserve
  <2> QED
    BY <2>1, <2>2
<1>3. CASE consumeDirect(a)
  <2>1. StockRollup'
    BY <1>3, consumeDirectRollup DEF LotsSound
  <2>2. LotsSound'
    BY <1>1, <1>3 DEF LotsSound, consumeDirect, DepletedAtZero
  <2> QED
    BY <2>1, <2>2
<1> QED
  BY <1>2, <1>3

\* Settling the hold of a unit.
LEMMA SettleSound ==
  ASSUME StockTypeOK, NEW l \in Lots, quantityReserved[l] > 0,
         NEW unit, unit = [k \in Lots |-> IF k = l THEN 1 ELSE 0],
         release(unit) \/ consume(unit, NoAllocation)
  PROVE  /\ StockTypeOK' /\ unit \in Allocation
         /\ LotsSound /\ StockRollup => LotsSound' /\ StockRollup'
<1>1. unit \in Allocation /\ NoAllocation \in Allocation
  BY DEF Allocation, NoAllocation
<1>2. StockTypeOK'
  BY <1>1, releaseType, consumeType
<1>3. ASSUME LotsSound, StockRollup PROVE LotsSound' /\ StockRollup'
  <2>1. \A k \in Lots : unit[k] > 0 => /\ lotStatus[k] = "ACTIVE"
                                       /\ unit[k] <= quantityReserved[k]
                                       /\ quantityReserved[k] <= quantityRemaining[k]
    BY <1>3 DEF LotsSound, StockTypeOK
  <2>2. \A k \in Lots : unit[k] \in {0, 1} /\ quantityRemaining[k] \in Int /\ quantityReserved[k] \in Int
    BY DEF StockTypeOK
  <2> HIDE DEF LotsSound
  <2>3. CASE release(unit)
    <3>1. StockRollup'
      BY <1>1, <1>3, <2>1, <2>3, releaseRollup
    <3>2. LotsSound'
      BY <1>3, <2>1, <2>2, <2>3 DEF LotsSound, release
    <3> QED
      BY <3>1, <3>2
  <2>4. CASE consume(unit, NoAllocation)
    <3>1. StockRollup'
      BY <1>1, <1>3, <2>1, <2>4, consumeRollup
    <3>2. LotsSound'
      BY <1>3, <2>1, <2>2, <2>4 DEF LotsSound, consume, DepletedAtZero, NoAllocation
    <3> QED
      BY <3>1, <3>2
  <2> QED
    BY <2>3, <2>4
<1> QED
  BY <1>1, <1>2, <1>3

\* Maintenance keeps types and rollup; a lot that is known and not on sale
\* stays as it is, unless it was sold out.
LEMMA MaintainSound ==
  ASSUME InventoryTypeOK, InventoryNext
  PROVE  /\ InventoryTypeOK'
         /\ LotsSound /\ StockRollup => LotsSound' /\ StockRollup'
         /\ \A k \in Lots :
              /\ lotStatus[k] # "ABSENT" => lotStatus'[k] # "ABSENT"
              /\ lotStatus[k] \notin {"ABSENT", "ACTIVE"} =>
                   lotStatus'[k] = lotStatus[k] \/ (lotStatus[k] = "DEPLETED" /\ lotStatus'[k] = "ACTIVE")
<1> DEFINE Goal == /\ InventoryTypeOK'
                   /\ LotsSound /\ StockRollup => LotsSound' /\ StockRollup'
                   /\ \A k \in Lots :
                        /\ lotStatus[k] # "ABSENT" => lotStatus'[k] # "ABSENT"
                        /\ lotStatus[k] \notin {"ABSENT", "ACTIVE"} =>
                             lotStatus'[k] = lotStatus[k] \/ (lotStatus[k] = "DEPLETED" /\ lotStatus'[k] = "ACTIVE")
<1>1. StockTypeOK /\ ledger \in [Lots -> Int] /\ adjustments \in 0 .. MaxAdjustments
  BY DEF InventoryTypeOK
<1>2. PICK l \in Lots : \/ \E qty \in 0 .. MaxUnits : ReceiveLot(l, qty)
                        \/ \E qty \in 0 .. MaxUnits : adjustLot(l, qty)
                        \/ quarantineLot(l)
                        \/ runExpireLotsOnce(l)
  BY DEF InventoryNext
<1>3. ASSUME NEW qty \in 0 .. MaxUnits, ReceiveLot(l, qty) PROVE Goal
  <2>1. qty \in Nat /\ addLot(l, qty)
    BY <1>3, InventoryAssumption DEF ReceiveLot
  <2>2. StockTypeOK'
    BY <1>1, <2>1, addLotType
  <2>3. InventoryTypeOK'
    BY <1>1, <1>3, <2>1, <2>2 DEF InventoryTypeOK, ReceiveLot
  <2>4. ASSUME LotsSound, StockRollup PROVE LotsSound' /\ StockRollup'
    <3>1. StockRollup'
      BY <1>1, <2>1, <2>4, addLotRollup
    <3>2. LotsSound'
      BY <1>1, <2>1, <2>4 DEF LotsSound, StockTypeOK, addLot
    <3> QED
      BY <3>1, <3>2
  <2> QED
    BY <1>1, <2>1, <2>3, <2>4 DEF StockTypeOK, addLot
<1>4. ASSUME NEW qty \in 0 .. MaxUnits, adjustLot(l, qty) PROVE Goal
  <2>1. qty \in Nat /\ setLotRemaining(l, qty)
    BY <1>4, InventoryAssumption DEF adjustLot
  <2>2. StockTypeOK'
    BY <1>1, <2>1, setLotRemainingType
  <2>3. AdjustmentEntry(l, qty) \in Int
    BY <1>1, <2>1 DEF AdjustmentEntry, RollupDelta, StockTypeOK
  <2>4. adjustments' \in 0 .. MaxAdjustments
    BY <1>1, <1>4, InventoryAssumption DEF adjustLot
  <2>5. InventoryTypeOK'
    BY <1>1, <1>4, <2>2, <2>3, <2>4 DEF InventoryTypeOK, adjustLot
  <2>6. ASSUME LotsSound, StockRollup PROVE LotsSound' /\ StockRollup'
    <3>1. StockRollup'
      BY <1>1, <2>1, <2>6, setLotRemainingRollup DEF LotsSound
    <3>2. LotsSound'
      BY <1>1, <2>1, <2>6 DEF LotsSound, StockTypeOK, setLotRemaining, StatusAtTarget
    <3> QED
      BY <3>1, <3>2
  <2> QED
    BY <1>1, <2>1, <2>5, <2>6 DEF StockTypeOK, setLotRemaining, StatusAtTarget
<1>5. ASSUME quarantineLot(l) \/ runExpireLotsOnce(l) PROVE Goal
  <2>1. PICK next \in {"QUARANTINED", "EXPIRED"} :
          /\ leaveSellableRollup({l}, next) /\ lotStatus[l] = "ACTIVE" /\ quantityReserved[l] <= 0
    BY <1>5 DEF quarantineLot, runExpireLotsOnce
  <2>2. {l} \in SUBSET Lots /\ next \in LotStatus \ {"ACTIVE"}
    BY DEF LotStatus
  <2>3. StockTypeOK'
    BY <1>1, <2>1, <2>2, leaveSellableRollupType
  <2>4. AtLeastZero(quantityRemaining[l]) \in Int
    BY <1>1 DEF StockTypeOK, AtLeastZero
  <2>5. InventoryTypeOK'
    BY <1>1, <1>5, <2>3, <2>4 DEF InventoryTypeOK, quarantineLot, runExpireLotsOnce
  <2>6. LotsSound /\ StockRollup => LotsSound' /\ StockRollup'
    BY <1>1, <2>1, <2>2, LeaveSound
  <2> QED
    BY <1>1, <2>1, <2>5, <2>6 DEF StockTypeOK, leaveSellableRollup
<1> QED
  BY <1>2, <1>3, <1>4, <1>5

\* A step that leaves the recalls alone and puts no recalled lot on sale.
LEMMA LotsStepHolds ==
  ASSUME RecallTypeOK, OneRequest, RecallHolds,
         UNCHANGED <<recallStatus, notified, requestVars>>,
         \A l \in Lots : lotStatus[l] # "ABSENT" => lotStatus'[l] # "ABSENT",
         \A l \in Lots : lotStatus[l] \notin {"ABSENT", "ACTIVE"} =>
           /\ buyers'[l] = buyers[l]
           /\ lotStatus'[l] = lotStatus[l] \/ lotStatus[l] = "DEPLETED",
         \A r \in OpenRecalls : \A l \in ScopeOf[r] :
           lotStatus[l] = "DEPLETED" => lotStatus'[l] # "ACTIVE"
  PROVE  RecallHolds'
<1>1. UNCHANGED <<recallStatus, notified, initiating, previewed, impact, activating>>
  BY DEF requestVars
<1> SUFFICES ASSUME NEW r \in Recalls
             PROVE  /\ r \in initiating => \A l \in ScopeOf[r] : lotStatus'[l] # "ABSENT"
                    /\ recallStatus[r] = "DRAFT" => \A l \in ScopeOf[r] : lotStatus'[l] \notin {"ABSENT", "ACTIVE"}
                    /\ recallStatus[r] \in {"ACTIVE", "COMPLETED"} =>
                         \A l \in ScopeOf[r] : lotStatus'[l] = "RECALLED" /\ buyers'[l] \subseteq notified[r]
                    /\ r \in activating \/ (r \in previewed /\ recallStatus[r] = "DRAFT") =>
                         \A l \in ScopeOf[r] : buyers'[l] \subseteq impact[r]
  BY <1>1 DEF RecallHolds
<1>2. ScopeOf[r] \subseteq Lots
  BY RecallAssumption
<1>3. r \in initiating => \A l \in ScopeOf[r] : lotStatus'[l] # "ABSENT"
  BY <1>2 DEF RecallHolds
<1>4. recallStatus[r] = "DRAFT" => \A l \in ScopeOf[r] : lotStatus'[l] \notin {"ABSENT", "ACTIVE"}
  BY <1>2 DEF RecallHolds, OpenRecalls
<1>5. recallStatus[r] \in {"ACTIVE", "COMPLETED"} =>
        \A l \in ScopeOf[r] : lotStatus'[l] = "RECALLED" /\ buyers'[l] \subseteq notified[r]
  BY <1>2 DEF RecallHolds
<1>6. ASSUME r \in activating \/ (r \in previewed /\ recallStatus[r] = "DRAFT"), recallStatus[r] = "DRAFT"
      PROVE  \A l \in ScopeOf[r] : buyers'[l] \subseteq impact[r]
  BY <1>2, <1>6 DEF RecallHolds
<1>7. r \in activating => recallStatus[r] = "DRAFT"
  BY DEF OneRequest
<1> QED
  BY <1>3, <1>4, <1>5, <1>6, <1>7

\* The parts of the types.
RecallRowsOK ==
  /\ recallStatus \in [Recalls -> {"ABSENT", "DRAFT", "ACTIVE", "COMPLETED", "CANCELLED"}]
  /\ buyers \in [Lots -> SUBSET Members]
  /\ notified \in [Recalls -> SUBSET Members]
  /\ impact \in [Recalls -> SUBSET Members]
  /\ restoring \in [Recalls -> SUBSET Lots]

RequestsOK ==
  /\ initiating \subseteq {r \in Recalls : recallStatus[r] = "ABSENT"}
  /\ previewed \subseteq {r \in Recalls : recallStatus[r] # "ABSENT"}
  /\ activating \subseteq Recalls /\ cancelling \subseteq Recalls

\* They are all of it.
LEMMA RecallTypeParts ==
  RecallTypeOK <=> InventoryTypeOK /\ RecallRowsOK /\ RequestsOK /\ revived \in BOOLEAN
BY DEF RecallTypeOK, RecallRowsOK, RequestsOK

\* The same after a step.
LEMMA RecallTypePartsNext ==
  RecallTypeOK' <=> InventoryTypeOK' /\ RecallRowsOK' /\ RequestsOK' /\ revived' \in BOOLEAN
BY DEF RecallTypeOK, RecallRowsOK, RequestsOK

\* The till, and the maintenance of the lots.
LEMMA ShopKeepsRecalls ==
  ASSUME RecallInv, UNCHANGED <<recallStatus, notified, requestVars>>, revived' \in BOOLEAN,
         revived => revived', InventoryTypeOK', buyers' \in [Lots -> SUBSET Members],
         ~revived /\ LotsSound /\ StockRollup => LotsSound' /\ StockRollup',
         ~revived' /\ LotsSound =>
           /\ \A l \in Lots : lotStatus[l] # "ABSENT" => lotStatus'[l] # "ABSENT"
           /\ \A l \in Lots : lotStatus[l] \notin {"ABSENT", "ACTIVE"} =>
                /\ buyers'[l] = buyers[l]
                /\ lotStatus'[l] = lotStatus[l] \/ lotStatus[l] = "DEPLETED"
           /\ \A r \in OpenRecalls : \A l \in ScopeOf[r] :
                lotStatus[l] = "DEPLETED" => lotStatus'[l] # "ACTIVE"
  PROVE  RecallInv'
<1>1. UNCHANGED <<recallStatus, notified, initiating, previewed, impact, activating, cancelling, restoring>>
  BY DEF requestVars
<1>2. RecallTypeOK /\ OneRequest
  BY DEF RecallInv
<1>3. RecallTypeOK'
  <2>1. RecallRowsOK /\ RequestsOK
    BY <1>2, RecallTypeParts
  <2>2. RecallRowsOK' /\ RequestsOK'
    BY <1>1, <2>1 DEF RecallRowsOK, RequestsOK
  <2> QED
    BY <2>2, RecallTypePartsNext
<1>4. OneRequest'
  BY <1>1, <1>2 DEF OneRequest
<1>5. ASSUME ~revived' PROVE LotsSound' /\ StockRollup' /\ RecallHolds'
  <2>1. ~revived /\ LotsSound /\ StockRollup /\ RecallHolds
    BY <1>5 DEF RecallInv
  <2>2. RecallHolds'
    BY <1>2, <1>5, <2>1, LotsStepHolds
  <2> QED
    BY <2>1, <2>2
<1> QED
  BY <1>3, <1>4, <1>5 DEF RecallInv

\* A unit is sold or held.
LEMMA SellOrHoldKeeps ==
  ASSUME RecallInv, NEW p \in Products,
         HoldUnit(p) \/ \E m \in Members : SellUnit(p, m)
  PROVE  RecallInv'
<1> DEFINE a == allocateFefo(OneUnitOf(p), FALSE)
<1>1. StockTypeOK /\ InventoryTypeOK /\ RecallRowsOK
  BY RecallTypeParts DEF RecallInv, InventoryTypeOK
<1>2. OneUnitOf(p) \in [Products -> Nat]
  BY DEF OneUnitOf
<1>3. /\ a \in Allocation
      /\ \A l \in Lots : a[l] > 0 => /\ lotStatus[l] = "ACTIVE"
                                     /\ a[l] <= quantityRemaining[l] - quantityReserved[l]
  BY <1>1, <1>2, AllocateFefo
<1>4. /\ reserve(a) \/ consumeDirect(a)
      /\ UNCHANGED <<ledger, adjustments, recallStatus, notified, requestVars, revived>>
      /\ buyers' \in [Lots -> SUBSET Members]
      /\ \A l \in Lots : a[l] > 0 \/ buyers'[l] = buyers[l]
  <2>1. CASE HoldUnit(p)
    BY <1>1, <2>1 DEF HoldUnit, RecallRowsOK
  <2>2. ASSUME NEW m \in Members, SellUnit(p, m)
        PROVE  /\ consumeDirect(a)
               /\ UNCHANGED <<ledger, adjustments, recallStatus, notified, requestVars, revived>>
               /\ buyers' \in [Lots -> SUBSET Members]
               /\ \A l \in Lots : a[l] > 0 \/ buyers'[l] = buyers[l]
    <3>1. /\ consumeDirect(a)
          /\ UNCHANGED <<ledger, adjustments, recallStatus, notified, requestVars, revived>>
          /\ buyers' = [l \in Lots |-> IF a[l] > 0 THEN buyers[l] \cup {m} ELSE buyers[l]]
      BY <2>2 DEF SellUnit
    <3> HIDE DEF a
    <3> QED
      BY <1>1, <3>1 DEF RecallRowsOK
  <2> QED
    BY <2>1, <2>2
<1> HIDE DEF a
<1>5. StockTypeOK'
  BY <1>1, <1>3, <1>4, reserveType, consumeDirectType
<1>6. InventoryTypeOK'
  BY <1>1, <1>4, <1>5 DEF InventoryTypeOK
<1>7. LotsSound /\ StockRollup => LotsSound' /\ StockRollup'
  BY <1>1, <1>3, <1>4, TillSound
<1>8. \A l \in Lots : /\ lotStatus[l] # "ABSENT" => lotStatus'[l] # "ABSENT"
                      /\ lotStatus[l] # "ACTIVE" => lotStatus'[l] = lotStatus[l] /\ buyers'[l] = buyers[l]
  <2> TAKE l \in Lots
  <2>1. lotStatus'[l] = lotStatus[l] \/ (a[l] > 0 /\ lotStatus'[l] = "DEPLETED")
    BY <1>4 DEF reserve, consumeDirect, DepletedAtZero
  <2> QED
    BY <1>3, <1>4, <2>1
<1>9. \A r \in OpenRecalls : ScopeOf[r] \subseteq Lots
  BY RecallAssumption DEF OpenRecalls
<1>10. revived' = revived /\ revived' \in BOOLEAN /\ UNCHANGED <<recallStatus, notified, requestVars>>
  BY <1>4, RecallTypeParts DEF RecallInv
<1> QED
  BY <1>4, <1>6, <1>7, <1>8, <1>9, <1>10, ShopKeepsRecalls

\* A hold is settled.
LEMMA SettleHoldKeeps ==
  ASSUME RecallInv, NEW l \in Lots, NEW m \in Members, SettleHold(l, m)
  PROVE  RecallInv'
<1> DEFINE unit == [k \in Lots |-> IF k = l THEN 1 ELSE 0]
<1>1. StockTypeOK /\ InventoryTypeOK /\ RecallRowsOK
  BY RecallTypeParts DEF RecallInv, InventoryTypeOK
<1>2. /\ quantityReserved[l] > 0
      /\ release(unit) \/ consume(unit, NoAllocation)
      /\ UNCHANGED <<ledger, adjustments, recallStatus, notified, requestVars, revived>>
      /\ buyers' = buyers \/ buyers' = [buyers EXCEPT ![l] = @ \cup {m}]
  BY DEF SettleHold
<1>3. /\ buyers' \in [Lots -> SUBSET Members]
      /\ \A k \in Lots : k = l \/ buyers'[k] = buyers[k]
  BY <1>1, <1>2 DEF RecallRowsOK
<1>4. StockTypeOK' /\ (LotsSound /\ StockRollup => LotsSound' /\ StockRollup')
  BY <1>1, <1>2, SettleSound
<1>5. InventoryTypeOK'
  BY <1>1, <1>2, <1>4 DEF InventoryTypeOK
<1>6. \A k \in Lots : lotStatus'[k] = lotStatus[k] \/ (k = l /\ lotStatus'[k] = "DEPLETED")
  BY <1>2 DEF release, consume, DepletedAtZero, NoAllocation
<1>7. LotsSound => lotStatus[l] = "ACTIVE"
  BY <1>1, <1>2 DEF LotsSound, StockTypeOK
<1>8. \A r \in OpenRecalls : ScopeOf[r] \subseteq Lots
  BY RecallAssumption DEF OpenRecalls
<1>9. revived' = revived /\ revived' \in BOOLEAN /\ UNCHANGED <<recallStatus, notified, requestVars>>
  BY <1>2, RecallTypeParts DEF RecallInv
<1> HIDE DEF unit
<1>10. LotsSound =>
         /\ \A k \in Lots : lotStatus[k] # "ABSENT" => lotStatus'[k] # "ABSENT"
         /\ \A k \in Lots : lotStatus[k] # "ACTIVE" => lotStatus'[k] = lotStatus[k] /\ buyers'[k] = buyers[k]
  BY <1>3, <1>6, <1>7
<1> QED
  BY <1>3, <1>4, <1>5, <1>8, <1>9, <1>10, ShopKeepsRecalls

\* Lots are received, adjusted, quarantined or expire.
LEMMA MaintainLotsKeeps ==
  ASSUME RecallInv, MaintainLots
  PROVE  RecallInv'
<1>1. InventoryTypeOK /\ RecallRowsOK /\ revived \in BOOLEAN
  BY RecallTypeParts DEF RecallInv
<1>2. InventoryNext /\ UNCHANGED <<recallStatus, buyers, notified, requestVars>>
  BY DEF MaintainLots
<1>3. revived' = (revived \/ \E r \in OpenRecalls : \E l \in ScopeOf[r] :
                               lotStatus[l] = "DEPLETED" /\ lotStatus'[l] = "ACTIVE")
  BY DEF MaintainLots
<1>4. revived' \in BOOLEAN /\ (revived => revived')
  BY <1>3, Zenon
<1>5. ~revived' => \A r \in OpenRecalls : \A l \in ScopeOf[r] :
                     lotStatus[l] = "DEPLETED" => lotStatus'[l] # "ACTIVE"
  BY <1>3
<1>6. buyers' \in [Lots -> SUBSET Members]
  BY <1>1, <1>2 DEF RecallRowsOK
<1>7. /\ InventoryTypeOK' /\ (LotsSound /\ StockRollup => LotsSound' /\ StockRollup')
      /\ \A l \in Lots :
           /\ lotStatus[l] # "ABSENT" => lotStatus'[l] # "ABSENT"
           /\ lotStatus[l] \notin {"ABSENT", "ACTIVE"} =>
                lotStatus'[l] = lotStatus[l] \/ lotStatus[l] = "DEPLETED"
  BY <1>1, <1>2, MaintainSound
<1> QED
  BY <1>2, <1>4, <1>5, <1>6, <1>7, ShopKeepsRecalls

\* The lots of a recall are of the catalog of lots.
LEMMA ScopeLots ==
  ASSUME NEW r \in Recalls
  PROVE  ScopeOf[r] \in SUBSET Lots
BY RecallAssumption

\* The unlocked reads: nothing is written yet.
LEMMA RequestReadKeeps ==
  ASSUME RecallInv, ~Concurrent, NEW r \in Recalls,
         ReadLotsToRecall(r) \/ PreviewRecallImpact(r) \/ ReadBeforeActivate(r) \/ ReadBeforeCancel(r)
  PROVE  RecallInv'
<1>1. RecallTypeOK /\ OneRequest /\ InventoryTypeOK /\ RecallRowsOK /\ RequestsOK /\ revived \in BOOLEAN
  BY RecallTypeParts DEF RecallInv
<1>2. /\ UNCHANGED <<lotStatus, quantityRemaining, quantityReserved, stock, reserved, ledger, adjustments>>
      /\ UNCHANGED <<recallStatus, buyers, notified, revived>>
  BY DEF ReadLotsToRecall, PreviewRecallImpact, ReadBeforeActivate, ReadBeforeCancel,
         inventoryVars, stockVars, lotVars, productVars
<1>3. InventoryTypeOK' /\ (LotsSound => LotsSound') /\ (StockRollup => StockRollup')
  BY <1>1, <1>2 DEF InventoryTypeOK, StockTypeOK, LotsSound, StockRollup, ActiveLots
<1>4. ASSUME ReadLotsToRecall(r) PROVE RecallRowsOK' /\ RequestsOK' /\ OneRequest' /\ (RecallHolds => RecallHolds')
  <2>1. /\ initiating' = initiating \cup {r}
        /\ UNCHANGED <<previewed, impact, activating, cancelling, restoring>>
        /\ r \notin initiating \cup previewed \cup activating \cup cancelling
        /\ recallStatus[r] = "ABSENT" /\ \A l \in ScopeOf[r] : lotStatus[l] # "ABSENT"
    BY <1>4 DEF ReadLotsToRecall, RequestMayStart
  <2>2. RecallRowsOK' /\ RequestsOK'
    BY <1>1, <1>2, <2>1 DEF RecallRowsOK, RequestsOK
  <2>3. OneRequest'
    BY <1>1, <1>2, <2>1 DEF OneRequest
  <2>4. RecallHolds => RecallHolds'
    BY <1>2, <2>1 DEF RecallHolds
  <2> QED
    BY <2>2, <2>3, <2>4
<1>5. ASSUME PreviewRecallImpact(r) PROVE RecallRowsOK' /\ RequestsOK' /\ OneRequest' /\ (RecallHolds => RecallHolds')
  <2> DEFINE list == UNION {buyers[l] : l \in ScopeOf[r]}
  <2>1. /\ previewed' = previewed \cup {r} /\ impact' = [impact EXCEPT ![r] = list]
        /\ UNCHANGED <<initiating, activating, cancelling, restoring>>
        /\ r \notin initiating \cup previewed \cup activating \cup cancelling
        /\ recallStatus[r] # "ABSENT"
    BY <1>5 DEF PreviewRecallImpact, RequestMayStart
  <2>2. list \in SUBSET Members /\ \A l \in ScopeOf[r] : buyers[l] \subseteq list
    BY <1>1, ScopeLots DEF RecallRowsOK
  <2> HIDE DEF list
  <2>3. /\ impact' \in [Recalls -> SUBSET Members] /\ impact'[r] = list
        /\ \A q \in Recalls : q # r => impact'[q] = impact[q]
    BY <1>1, <2>1, <2>2 DEF RecallRowsOK
  <2>4. RecallRowsOK' /\ RequestsOK'
    BY <1>1, <1>2, <2>1, <2>3 DEF RecallRowsOK, RequestsOK
  <2>5. OneRequest'
    BY <1>1, <1>2, <2>1 DEF OneRequest
  <2>6. RecallHolds => RecallHolds'
    BY <1>2, <2>1, <2>2, <2>3 DEF RecallHolds
  <2> QED
    BY <2>4, <2>5, <2>6
<1>6. ASSUME ReadBeforeActivate(r) PROVE RecallRowsOK' /\ RequestsOK' /\ OneRequest' /\ (RecallHolds => RecallHolds')
  <2>1. /\ r \in previewed /\ previewed' = previewed \ {r}
        /\ activating' = IF recallStatus[r] = "DRAFT" THEN activating \cup {r} ELSE activating
        /\ UNCHANGED <<initiating, impact, cancelling, restoring>>
    BY <1>6 DEF ReadBeforeActivate
  <2>2. RecallRowsOK' /\ RequestsOK'
    BY <1>1, <1>2, <2>1 DEF RecallRowsOK, RequestsOK
  <2>3. OneRequest'
    BY <1>1, <1>2, <2>1 DEF OneRequest
  <2>4. RecallHolds => RecallHolds'
    BY <1>2, <2>1 DEF RecallHolds
  <2> QED
    BY <2>2, <2>3, <2>4
<1>7. ASSUME ReadBeforeCancel(r) PROVE RecallRowsOK' /\ RequestsOK' /\ OneRequest' /\ (RecallHolds => RecallHolds')
  <2>1. /\ cancelling' = cancelling \cup {r}
        /\ restoring' = [restoring EXCEPT ![r] = QuarantinedAmong(ScopeOf[r])]
        /\ UNCHANGED <<initiating, previewed, impact, activating>>
        /\ r \notin initiating \cup previewed \cup activating \cup cancelling
        /\ recallStatus[r] = "DRAFT"
    BY <1>7 DEF ReadBeforeCancel, RequestMayStart
  <2>2. QuarantinedAmong(ScopeOf[r]) \in SUBSET ScopeOf[r]
    BY DEF QuarantinedAmong
  <2>3. /\ restoring' \in [Recalls -> SUBSET Lots] /\ restoring'[r] \subseteq ScopeOf[r]
        /\ \A q \in Recalls : q # r => restoring'[q] = restoring[q]
    BY <1>1, <2>1, <2>2, ScopeLots DEF RecallRowsOK
  <2>4. RecallRowsOK' /\ RequestsOK'
    BY <1>1, <1>2, <2>1, <2>3 DEF RecallRowsOK, RequestsOK
  <2>5. OneRequest'
    BY <1>1, <1>2, <2>1, <2>3 DEF OneRequest
  <2>6. RecallHolds => RecallHolds'
    BY <1>2, <2>1 DEF RecallHolds
  <2> QED
    BY <2>4, <2>5, <2>6
<1>8. RecallRowsOK' /\ RequestsOK' /\ OneRequest' /\ (RecallHolds => RecallHolds')
  BY <1>4, <1>5, <1>6, <1>7
<1>9. RecallTypeOK'
  BY <1>1, <1>2, <1>3, <1>8, RecallTypePartsNext
<1>10. ~revived' => LotsSound' /\ StockRollup' /\ RecallHolds'
  BY <1>2, <1>3, <1>8 DEF RecallInv
<1> QED
  BY <1>8, <1>9, <1>10 DEF RecallInv

\* A recall moves on to another status.
LEMMA StatusMoves ==
  ASSUME RecallRowsOK, NEW r \in Recalls,
         NEW next \in {"ABSENT", "DRAFT", "ACTIVE", "COMPLETED", "CANCELLED"},
         recallStatus' = [recallStatus EXCEPT ![r] = next]
  PROVE  /\ recallStatus' \in [Recalls -> {"ABSENT", "DRAFT", "ACTIVE", "COMPLETED", "CANCELLED"}]
         /\ recallStatus'[r] = next
         /\ \A q \in Recalls : q # r => recallStatus'[q] = recallStatus[q]
BY DEF RecallRowsOK

\* The lots are quarantined, if none is held, and the recall is a DRAFT.
LEMMA InitiateRecallKeeps ==
  ASSUME RecallInv, NEW r \in Recalls, InitiateRecall(r)
  PROVE  RecallInv'
<1> DEFINE leaving == {l \in ScopeOf[r] : lotStatus[l] = "ACTIVE"}
<1>1. RecallTypeOK /\ OneRequest /\ InventoryTypeOK /\ RecallRowsOK /\ RequestsOK /\ revived \in BOOLEAN
      /\ StockTypeOK
  BY RecallTypeParts DEF RecallInv, InventoryTypeOK
<1>2. /\ r \in initiating /\ initiating' = initiating \ {r}
      /\ UNCHANGED <<ledger, adjustments, buyers, notified, previewed, impact, activating, cancelling, restoring, revived>>
  BY DEF InitiateRecall
<1>3. recallStatus[r] = "ABSENT" /\ r \notin previewed \cup activating \cup cancelling
  BY <1>1, <1>2 DEF RequestsOK, OneRequest
<1>4. CASE \A l \in ScopeOf[r] : quantityReserved[l] <= 0
  <2>1. /\ leaveSellableRollup(leaving, "QUARANTINED")
        /\ recallStatus' = [recallStatus EXCEPT ![r] = "DRAFT"]
    BY <1>4 DEF InitiateRecall
  <2>2. leaving \in SUBSET Lots /\ leaving \subseteq ScopeOf[r] /\ "QUARANTINED" \in LotStatus \ {"ACTIVE"}
    BY ScopeLots DEF LotStatus
  <2>3. /\ recallStatus' \in [Recalls -> {"ABSENT", "DRAFT", "ACTIVE", "COMPLETED", "CANCELLED"}]
        /\ recallStatus'[r] = "DRAFT" /\ \A q \in Recalls : q # r => recallStatus'[q] = recallStatus[q]
    BY <1>1, <2>1, StatusMoves
  <2>4. RecallRowsOK' /\ RequestsOK'
    BY <1>1, <1>2, <1>3, <2>3 DEF RecallRowsOK, RequestsOK
  <2>5. OneRequest'
    BY <1>1, <1>2, <1>3, <2>3 DEF OneRequest
  <2>6. StockTypeOK'
    BY <1>1, <2>1, <2>2, leaveSellableRollupType
  <2>7. RecallTypeOK'
    BY <1>1, <1>2, <2>4, <2>6, RecallTypePartsNext DEF InventoryTypeOK
  <2>8. \A l \in Lots : lotStatus'[l] = IF l \in leaving THEN "QUARANTINED" ELSE lotStatus[l]
    BY <2>1 DEF leaveSellableRollup
  <2>9. ASSUME ~revived' PROVE LotsSound' /\ StockRollup' /\ RecallHolds'
    <3>1. LotsSound /\ StockRollup /\ RecallHolds
      BY <1>2, <2>9 DEF RecallInv
    <3>2. LotsSound' /\ StockRollup'
      <4> HIDE DEF leaving
      <4> QED
        BY <1>1, <1>4, <2>1, <2>2, <3>1, LeaveSound
    <3>3. RecallHolds'
      <4> SUFFICES ASSUME NEW q \in Recalls
                   PROVE  /\ q \in initiating' => \A l \in ScopeOf[q] : lotStatus'[l] # "ABSENT"
                          /\ recallStatus'[q] = "DRAFT" => \A l \in ScopeOf[q] : lotStatus'[l] \notin {"ABSENT", "ACTIVE"}
                          /\ recallStatus'[q] \in {"ACTIVE", "COMPLETED"} =>
                               \A l \in ScopeOf[q] : lotStatus'[l] = "RECALLED" /\ buyers'[l] \subseteq notified'[q]
                          /\ q \in activating' \/ (q \in previewed' /\ recallStatus'[q] = "DRAFT") =>
                               \A l \in ScopeOf[q] : buyers'[l] \subseteq impact'[q]
        BY DEF RecallHolds
      <4>1. ScopeOf[q] \subseteq Lots
        BY ScopeLots
      <4>2. CASE q = r
        BY <1>2, <1>3, <2>3, <2>8, <3>1, <4>1, <4>2 DEF RecallHolds
      <4>3. CASE q # r
        BY <1>2, <2>3, <2>8, <3>1, <4>1, <4>3 DEF RecallHolds
      <4> QED
        BY <4>2, <4>3
    <3> QED
      BY <3>2, <3>3
  <2> QED
    BY <2>5, <2>7, <2>9 DEF RecallInv
<1>5. CASE ~ \A l \in ScopeOf[r] : quantityReserved[l] <= 0
  <2>1. UNCHANGED <<lotStatus, quantityRemaining, quantityReserved, stock, reserved, recallStatus>>
    BY <1>5 DEF InitiateRecall, stockVars, lotVars, productVars
  <2>2. InventoryTypeOK' /\ (LotsSound => LotsSound') /\ (StockRollup => StockRollup')
    BY <1>1, <1>2, <2>1 DEF InventoryTypeOK, StockTypeOK, LotsSound, StockRollup, ActiveLots
  <2>3. RecallRowsOK' /\ RequestsOK'
    BY <1>1, <1>2, <2>1 DEF RecallRowsOK, RequestsOK
  <2>4. OneRequest' /\ RecallTypeOK'
    BY <1>1, <1>2, <2>1, <2>2, <2>3, RecallTypePartsNext DEF OneRequest
  <2>5. RecallHolds => RecallHolds'
    BY <1>2, <2>1 DEF RecallHolds
  <2> QED
    BY <1>2, <2>2, <2>4, <2>5 DEF RecallInv
<1> QED
  BY <1>4, <1>5

\* The lots are written off and the buyers on the list get their notification.
LEMMA ActivateRecallKeeps ==
  ASSUME RecallInv, NEW r \in Recalls, ActivateRecall(r)
  PROVE  RecallInv'
<1>1. RecallTypeOK /\ OneRequest /\ InventoryTypeOK /\ RecallRowsOK /\ RequestsOK /\ revived \in BOOLEAN
      /\ StockTypeOK
  BY RecallTypeParts DEF RecallInv, InventoryTypeOK
<1>2. /\ r \in activating /\ activating' = activating \ {r}
      /\ recallDepleteLot(ScopeOf[r])
      /\ ledger' = [l \in Lots |-> IF l \in ScopeOf[r] THEN ledger[l] - OnShelf[l] ELSE ledger[l]]
      /\ notified' = [notified EXCEPT ![r] = @ \cup impact[r]]
      /\ recallStatus' = [recallStatus EXCEPT ![r] = "ACTIVE"]
      /\ UNCHANGED <<adjustments, buyers, initiating, previewed, impact, cancelling, restoring, revived>>
  BY DEF ActivateRecall
<1>3. recallStatus[r] = "DRAFT" /\ r \notin initiating \cup previewed \cup cancelling
  BY <1>1, <1>2 DEF OneRequest
<1>4. /\ recallStatus' \in [Recalls -> {"ABSENT", "DRAFT", "ACTIVE", "COMPLETED", "CANCELLED"}]
      /\ recallStatus'[r] = "ACTIVE" /\ \A q \in Recalls : q # r => recallStatus'[q] = recallStatus[q]
  BY <1>1, <1>2, StatusMoves
<1>5. /\ notified' \in [Recalls -> SUBSET Members] /\ impact[r] \subseteq notified'[r]
      /\ \A q \in Recalls : q # r => notified'[q] = notified[q]
  BY <1>1, <1>2 DEF RecallRowsOK
<1>6. RecallRowsOK' /\ RequestsOK'
  BY <1>1, <1>2, <1>3, <1>4, <1>5 DEF RecallRowsOK, RequestsOK
<1>7. OneRequest'
  BY <1>1, <1>2, <1>3, <1>4 DEF OneRequest
<1>8. StockTypeOK'
  BY <1>1, <1>2, ScopeLots, recallDepleteLotRollup
<1>9. ledger' \in [Lots -> Int]
  BY <1>1, <1>2 DEF InventoryTypeOK, StockTypeOK, OnShelf, AtLeastZero
<1>10. RecallTypeOK'
  BY <1>1, <1>2, <1>6, <1>8, <1>9, RecallTypePartsNext DEF InventoryTypeOK
<1>11. \A l \in Lots : lotStatus'[l] = IF l \in ScopeOf[r] THEN "RECALLED" ELSE lotStatus[l]
  BY <1>2 DEF recallDepleteLot
<1>12. ASSUME ~revived' PROVE LotsSound' /\ StockRollup' /\ RecallHolds'
  <2>1. LotsSound /\ StockRollup /\ RecallHolds
    BY <1>2, <1>12 DEF RecallInv
  <2>2. \A l \in ScopeOf[r] : lotStatus[l] # "ACTIVE" /\ lotStatus[l] # "ABSENT" /\ buyers[l] \subseteq impact[r]
    BY <1>2, <1>3, <2>1 DEF RecallHolds
  <2>3. StockRollup'
    BY <1>1, <1>2, <2>1, <2>2, ScopeLots, recallDepleteLotRollup
  <2>4. LotsSound'
    BY <1>1, <1>2, <1>11, <2>1, <2>2 DEF LotsSound, recallDepleteLot
  <2>5. RecallHolds'
    <3> SUFFICES ASSUME NEW q \in Recalls
                 PROVE  /\ q \in initiating' => \A l \in ScopeOf[q] : lotStatus'[l] # "ABSENT"
                        /\ recallStatus'[q] = "DRAFT" => \A l \in ScopeOf[q] : lotStatus'[l] \notin {"ABSENT", "ACTIVE"}
                        /\ recallStatus'[q] \in {"ACTIVE", "COMPLETED"} =>
                             \A l \in ScopeOf[q] : lotStatus'[l] = "RECALLED" /\ buyers'[l] \subseteq notified'[q]
                        /\ q \in activating' \/ (q \in previewed' /\ recallStatus'[q] = "DRAFT") =>
                             \A l \in ScopeOf[q] : buyers'[l] \subseteq impact'[q]
      BY DEF RecallHolds
    <3>1. ScopeOf[q] \subseteq Lots
      BY ScopeLots
    <3>2. CASE q = r
      BY <1>2, <1>3, <1>4, <1>5, <1>11, <2>2, <3>1, <3>2
    <3>3. CASE q # r
      BY <1>2, <1>4, <1>5, <1>11, <2>1, <3>1, <3>3 DEF RecallHolds
    <3> QED
      BY <3>2, <3>3
  <2> QED
    BY <2>3, <2>4, <2>5
<1> QED
  BY <1>7, <1>10, <1>12 DEF RecallInv

\* No two recalls name the same lot.
ScopesApart == \A r, q \in Recalls : r # q => ScopeOf[r] \cap ScopeOf[q] = {}

\* The lots that are still quarantined return to sale: no other recall names
\* them.
LEMMA CancelRecallKeeps ==
  ASSUME RecallInv, ScopesApart, NEW r \in Recalls, CancelRecall(r)
  PROVE  RecallInv'
<1> DEFINE back == QuarantinedAmong(restoring[r])
<1>1. RecallTypeOK /\ OneRequest /\ InventoryTypeOK /\ RecallRowsOK /\ RequestsOK /\ revived \in BOOLEAN
      /\ StockTypeOK
  BY RecallTypeParts DEF RecallInv, InventoryTypeOK
<1>2. /\ r \in cancelling /\ cancelling' = cancelling \ {r}
      /\ returnToSellableRollup(restoring[r])
      /\ recallStatus' = [recallStatus EXCEPT ![r] = "CANCELLED"]
      /\ UNCHANGED <<ledger, adjustments, buyers, notified, initiating, previewed, impact, activating, restoring, revived>>
  BY DEF CancelRecall
<1>3. recallStatus[r] = "DRAFT" /\ r \notin initiating \cup previewed \cup activating
  BY <1>1, <1>2 DEF OneRequest
<1>4. /\ recallStatus' \in [Recalls -> {"ABSENT", "DRAFT", "ACTIVE", "COMPLETED", "CANCELLED"}]
      /\ recallStatus'[r] = "CANCELLED" /\ \A q \in Recalls : q # r => recallStatus'[q] = recallStatus[q]
  BY <1>1, <1>2, StatusMoves
<1>5. RecallRowsOK' /\ RequestsOK'
  BY <1>1, <1>2, <1>3, <1>4 DEF RecallRowsOK, RequestsOK
<1>6. OneRequest'
  BY <1>1, <1>2, <1>3, <1>4 DEF OneRequest
<1>7. restoring[r] \in SUBSET Lots /\ restoring[r] \subseteq ScopeOf[r] /\ back \subseteq ScopeOf[r]
      /\ \A l \in back : l \in Lots /\ lotStatus[l] = "QUARANTINED"
  BY <1>1 DEF RecallRowsOK, OneRequest, QuarantinedAmong
<1>8. StockTypeOK'
  BY <1>1, <1>2, <1>7, returnToSellableRollupType
<1>9. RecallTypeOK'
  BY <1>1, <1>2, <1>5, <1>8, RecallTypePartsNext DEF InventoryTypeOK
<1>10. \A l \in Lots : lotStatus'[l] = IF l \in back THEN "ACTIVE" ELSE lotStatus[l]
  BY <1>2 DEF returnToSellableRollup
<1>11. ASSUME ~revived' PROVE LotsSound' /\ StockRollup' /\ RecallHolds'
  <2>1. LotsSound /\ StockRollup /\ RecallHolds
    BY <1>2, <1>11 DEF RecallInv
  <2>2. \A l \in back : quantityReserved[l] = 0 /\ quantityRemaining[l] >= 0
    BY <1>7, <2>1 DEF LotsSound
  <2>3. StockRollup'
    BY <1>1, <1>2, <1>7, <2>1, <2>2, returnToSellableRollupRollup
  <2>4. LotsSound'
    BY <1>1, <1>2, <1>10, <2>1, <2>2 DEF LotsSound, StockTypeOK, returnToSellableRollup
  <2>5. RecallHolds'
    <3> SUFFICES ASSUME NEW q \in Recalls
                 PROVE  /\ q \in initiating' => \A l \in ScopeOf[q] : lotStatus'[l] # "ABSENT"
                        /\ recallStatus'[q] = "DRAFT" => \A l \in ScopeOf[q] : lotStatus'[l] \notin {"ABSENT", "ACTIVE"}
                        /\ recallStatus'[q] \in {"ACTIVE", "COMPLETED"} =>
                             \A l \in ScopeOf[q] : lotStatus'[l] = "RECALLED" /\ buyers'[l] \subseteq notified'[q]
                        /\ q \in activating' \/ (q \in previewed' /\ recallStatus'[q] = "DRAFT") =>
                             \A l \in ScopeOf[q] : buyers'[l] \subseteq impact'[q]
      BY DEF RecallHolds
    <3>1. ScopeOf[q] \subseteq Lots
      BY ScopeLots
    <3> HIDE DEF back
    <3>2. CASE q = r
      BY <1>2, <1>3, <1>4, <3>2
    <3>3. CASE q # r
      <4>1. \A l \in ScopeOf[q] : lotStatus'[l] = lotStatus[l]
        BY <1>7, <1>10, <3>1, <3>3 DEF ScopesApart
      <4> QED
        BY <1>2, <1>4, <2>1, <3>3, <4>1 DEF RecallHolds
    <3> QED
      BY <3>2, <3>3
  <2> QED
    BY <2>3, <2>4, <2>5
<1> QED
  BY <1>6, <1>9, <1>11 DEF RecallInv

\* An ACTIVE recall is closed.
LEMMA CloseRecallKeeps ==
  ASSUME RecallInv, ~Concurrent, NEW r \in Recalls, CloseRecall(r)
  PROVE  RecallInv'
<1>1. RecallTypeOK /\ OneRequest /\ InventoryTypeOK /\ RecallRowsOK /\ RequestsOK /\ revived \in BOOLEAN
  BY RecallTypeParts DEF RecallInv
<1>2. /\ recallStatus[r] = "ACTIVE" /\ recallStatus' = [recallStatus EXCEPT ![r] = "COMPLETED"]
      /\ r \notin initiating \cup previewed \cup activating \cup cancelling
      /\ UNCHANGED <<buyers, notified, initiating, previewed, impact, activating, cancelling, restoring, revived>>
      /\ UNCHANGED <<lotStatus, quantityRemaining, quantityReserved, stock, reserved, ledger, adjustments>>
  BY DEF CloseRecall, RequestMayStart, requestVars, inventoryVars, stockVars, lotVars, productVars
<1>3. /\ recallStatus' \in [Recalls -> {"ABSENT", "DRAFT", "ACTIVE", "COMPLETED", "CANCELLED"}]
      /\ recallStatus'[r] = "COMPLETED" /\ \A q \in Recalls : q # r => recallStatus'[q] = recallStatus[q]
  BY <1>1, <1>2, StatusMoves
<1>4. InventoryTypeOK' /\ (LotsSound => LotsSound') /\ (StockRollup => StockRollup')
  BY <1>1, <1>2 DEF InventoryTypeOK, StockTypeOK, LotsSound, StockRollup, ActiveLots
<1>5. RecallRowsOK' /\ RequestsOK'
  BY <1>1, <1>2, <1>3 DEF RecallRowsOK, RequestsOK
<1>6. OneRequest' /\ RecallTypeOK'
  BY <1>1, <1>2, <1>3, <1>4, <1>5, RecallTypePartsNext DEF OneRequest
<1>7. ASSUME RecallHolds, NEW q \in Recalls
      PROVE  /\ q \in initiating' => \A l \in ScopeOf[q] : lotStatus'[l] # "ABSENT"
             /\ recallStatus'[q] = "DRAFT" => \A l \in ScopeOf[q] : lotStatus'[l] \notin {"ABSENT", "ACTIVE"}
             /\ recallStatus'[q] \in {"ACTIVE", "COMPLETED"} =>
                  \A l \in ScopeOf[q] : lotStatus'[l] = "RECALLED" /\ buyers'[l] \subseteq notified'[q]
             /\ q \in activating' \/ (q \in previewed' /\ recallStatus'[q] = "DRAFT") =>
                  \A l \in ScopeOf[q] : buyers'[l] \subseteq impact'[q]
  <2>1. CASE q = r
    BY <1>2, <1>3, <1>7, <2>1 DEF RecallHolds
  <2>2. CASE q # r
    BY <1>2, <1>3, <1>7, <2>2 DEF RecallHolds
  <2> QED
    BY <2>1, <2>2
<1>8. RecallHolds => RecallHolds'
  BY <1>7 DEF RecallHolds
<1> QED
  BY <1>2, <1>4, <1>6, <1>8 DEF RecallInv

\* Every step keeps the invariant.
LEMMA RecallStep ==
  ASSUME RecallInv, ~Concurrent, ScopesApart, [RecallNext]_recallVars
  PROVE  RecallInv'
<1>1. CASE UNCHANGED recallVars
  <2>1. /\ UNCHANGED <<recallStatus, buyers, notified, initiating, previewed, impact, activating, cancelling, restoring, revived>>
        /\ UNCHANGED <<lotStatus, quantityRemaining, quantityReserved, stock, reserved, ledger, adjustments>>
    BY <1>1 DEF recallVars, requestVars, inventoryVars, stockVars, lotVars, productVars
  <2>2. RecallTypeOK' /\ OneRequest'
    BY <2>1 DEF RecallInv, RecallTypeOK, InventoryTypeOK, StockTypeOK, OneRequest
  <2>3. (LotsSound => LotsSound') /\ (StockRollup => StockRollup') /\ (RecallHolds => RecallHolds')
    BY <2>1 DEF LotsSound, StockRollup, ActiveLots, RecallHolds
  <2> QED
    BY <2>1, <2>2, <2>3 DEF RecallInv
<1>2. ASSUME NEW r \in Recalls,
             ReadLotsToRecall(r) \/ PreviewRecallImpact(r) \/ ReadBeforeActivate(r) \/ ReadBeforeCancel(r)
      PROVE  RecallInv'
  BY <1>2, RequestReadKeeps
<1>3. ASSUME NEW r \in Recalls, InitiateRecall(r) PROVE RecallInv'
  BY <1>3, InitiateRecallKeeps
<1>4. ASSUME NEW r \in Recalls, ActivateRecall(r) PROVE RecallInv'
  BY <1>4, ActivateRecallKeeps
<1>5. ASSUME NEW r \in Recalls, CancelRecall(r) PROVE RecallInv'
  BY <1>5, CancelRecallKeeps
<1>6. ASSUME NEW r \in Recalls, CloseRecall(r) PROVE RecallInv'
  BY <1>6, CloseRecallKeeps
<1>7. ASSUME NEW p \in Products, HoldUnit(p) \/ \E m \in Members : SellUnit(p, m) PROVE RecallInv'
  BY <1>7, SellOrHoldKeeps
<1>8. ASSUME NEW l \in Lots, NEW m \in Members, SettleHold(l, m) PROVE RecallInv'
  BY <1>8, SettleHoldKeeps
<1>9. CASE MaintainLots
  BY <1>9, MaintainLotsKeeps
<1> QED
  BY <1>1, <1>2, <1>3, <1>4, <1>5, <1>6, <1>7, <1>8, <1>9 DEF RecallNext

\* A status changes only along the states of a recall.
LEMMA StatusStep ==
  ASSUME RecallInv, RecallNext, NEW r \in Recalls, recallStatus'[r] # recallStatus[r]
  PROVE  <<recallStatus[r], recallStatus'[r]>> \in
           {<<"ABSENT", "DRAFT">>, <<"DRAFT", "ACTIVE">>, <<"DRAFT", "CANCELLED">>,
            <<"ACTIVE", "COMPLETED">>}
<1>1. RecallRowsOK /\ RequestsOK /\ OneRequest
  BY RecallTypeParts DEF RecallInv
<1>2. ASSUME NEW q \in Recalls, InitiateRecall(q)
      PROVE  recallStatus[q] = "ABSENT" /\ recallStatus' = [recallStatus EXCEPT ![q] = "DRAFT"]
  BY <1>1, <1>2 DEF InitiateRecall, RequestsOK
<1>3. ASSUME NEW q \in Recalls, ActivateRecall(q)
      PROVE  recallStatus[q] = "DRAFT" /\ recallStatus' = [recallStatus EXCEPT ![q] = "ACTIVE"]
  BY <1>1, <1>3 DEF ActivateRecall, OneRequest
<1>4. ASSUME NEW q \in Recalls, CancelRecall(q)
      PROVE  recallStatus[q] = "DRAFT" /\ recallStatus' = [recallStatus EXCEPT ![q] = "CANCELLED"]
  BY <1>1, <1>4 DEF CancelRecall, OneRequest
<1>5. ASSUME NEW q \in Recalls, CloseRecall(q)
      PROVE  recallStatus[q] = "ACTIVE" /\ recallStatus' = [recallStatus EXCEPT ![q] = "COMPLETED"]
  BY <1>5 DEF CloseRecall
<1>6. \/ \E q \in Recalls : InitiateRecall(q) \/ ActivateRecall(q) \/ CancelRecall(q) \/ CloseRecall(q)
      \/ UNCHANGED recallStatus
  BY DEF RecallNext, ReadLotsToRecall, PreviewRecallImpact, ReadBeforeActivate, ReadBeforeCancel,
         SellUnit, HoldUnit, SettleHold, MaintainLots
<1>7. PICK q \in Recalls : InitiateRecall(q) \/ ActivateRecall(q) \/ CancelRecall(q) \/ CloseRecall(q)
  BY <1>6
<1>8. PICK before, after :
        /\ recallStatus[q] = before /\ recallStatus' = [recallStatus EXCEPT ![q] = after]
        /\ <<before, after>> \in {<<"ABSENT", "DRAFT">>, <<"DRAFT", "ACTIVE">>, <<"DRAFT", "CANCELLED">>,
                                  <<"ACTIVE", "COMPLETED">>}
  BY <1>2, <1>3, <1>4, <1>5, <1>7
<1>9. r = q
  BY <1>1, <1>8 DEF RecallRowsOK
<1> QED
  BY <1>1, <1>8, <1>9 DEF RecallRowsOK

\* Before any recall.
LEMMA RecallInvInit ==
  ASSUME RecallInit
  PROVE  RecallInv
<1>1. /\ lotStatus = [l \in Lots |-> "ABSENT"] /\ quantityRemaining = [l \in Lots |-> 0]
      /\ quantityReserved = [l \in Lots |-> 0] /\ stock = [p \in Products |-> 0]
      /\ reserved = [p \in Products |-> 0] /\ ledger = [l \in Lots |-> 0] /\ adjustments = 0
  BY DEF RecallInit, InventoryInit
<1>2. InventoryTypeOK
  BY <1>1, InventoryAssumption DEF InventoryTypeOK, StockTypeOK, LotStatus
<1>3. RecallRowsOK /\ RequestsOK
  BY DEF RecallInit, RecallRowsOK, RequestsOK
<1>4. revived \in BOOLEAN
  BY DEF RecallInit
<1>5. OneRequest /\ RecallHolds
  BY DEF RecallInit, OneRequest, RecallHolds
<1>6. LotsSound
  BY <1>1 DEF LotsSound
<1>7. StockRollup
  <2>1. \A p \in Products : ActiveLots(p) = {}
    BY <1>1 DEF ActiveLots, LotsOf
  <2>2. Total(quantityRemaining, {}) = 0 /\ Total(quantityReserved, {}) = 0
    BY TotalZero
  <2> QED
    BY <1>1, <2>1, <2>2 DEF StockRollup
<1> QED
  BY <1>2, <1>3, <1>4, <1>5, <1>6, <1>7, RecallTypeParts DEF RecallInv

\* As long as no two requests about one recall overlap and no two recalls name
\* the same lot, for any number of recalls, lots and customers: a recall takes
\* its lots off sale with nobody paying for them, the rollup stays right, every
\* buyer is notified, and the recall runs through its states in order.
THEOREM RecallsAreEffective ==
  ASSUME ~Concurrent, ScopesApart
  PROVE  RecallSpec => RecallEffective
<1>1. RecallInit => RecallInv
  BY RecallInvInit
<1>2. RecallInv /\ [RecallNext]_recallVars => RecallInv'
  BY RecallStep
<1>3. RecallInv => RecallTypeOK
  BY DEF RecallInv
<1>4. RecallInv => (~revived => StockRollup /\ RecalledOffSale /\ NoHoldOffSale /\ BuyersNotified)
  <2> SUFFICES ASSUME RecallInv, ~revived
               PROVE  StockRollup /\ RecalledOffSale /\ NoHoldOffSale /\ BuyersNotified
    OBVIOUS
  <2>1. LotsSound /\ StockRollup /\ RecallHolds
    BY DEF RecallInv
  <2> QED
    BY <2>1 DEF LotsSound, RecallHolds, RecalledOffSale, NoHoldOffSale, BuyersNotified, OpenRecalls
<1>5. RecallInv /\ [RecallNext]_recallVars =>
        [\A r \in Recalls : recallStatus'[r] # recallStatus[r] =>
           <<recallStatus[r], recallStatus'[r]>> \in
             {<<"ABSENT", "DRAFT">>, <<"DRAFT", "ACTIVE">>, <<"DRAFT", "CANCELLED">>,
              <<"ACTIVE", "COMPLETED">>}]_recallVars
  BY StatusStep
<1> QED
  BY <1>1, <1>2, <1>3, <1>4, <1>5, PTL DEF RecallSpec, RecallEffective, RecallStatusOrder

-----------------------------------------------------------------------------
(* What follows a recall *)

DispatchRequest == [op : {"dispatch"}, pending : SUBSET Rows, handed : SUBSET Rows]
RefundRequest ==
  [op : {"refund"}, todo : SUBSET Purchases, claimed : SUBSET Purchases, refunded : SUBSET Purchases]
PlainRequest == [op : {"none", "recover", "dispose", "close"}]
Request == DispatchRequest \cup RefundRequest \cup PlainRequest

OutreachRowsOK ==
  /\ OutreachTypeOK
  /\ recovered \in Nat /\ disposed \in Nat
  /\ admin \in [Admins -> Request]
  /\ handedOut \in [Rows -> Nat] /\ interrupted \in Nat /\ overlaps \in Nat
  /\ paidBack \in [Purchases -> Nat] /\ answered \subseteq Purchases

\* Nobody works on a recall before it is activated.
DraftQuiet == recall = "DRAFT" => \A a \in Admins : admin[a] = NoRequest

\* The bound on what is recorded counts what is under way.
RecordedBound == IsFiniteSet(acknowledged) /\ recorded <= MaxRecorded

\* The list is the one the sales still give: they stay sold.
ListFixed == recall # "DRAFT" => rows = buyersOf(sale, affected) \X Channels

\* A dispatch works on rows of the list, and marks what it has handed out.
DispatchOK ==
  /\ SentWasHandedOut
  /\ \A a \in Admins : Dispatching(a) =>
       /\ admin[a].pending \subseteq rows /\ admin[a].handed \subseteq admin[a].pending
       /\ \A row \in admin[a].handed : handedOut[row] > 0

\* The dispatches that have the message of a row still to hand out.
Senders(row) == {a \in Admins : Dispatching(a) /\ row \in admin[a].pending /\ row \notin admin[a].handed}

\* What was handed out and what may still be are paid for by interruptions and
\* overlaps; a row that is not marked and that no dispatch has before it was
\* never handed out without one.
MessagesCounted ==
  \A row \in Rows :
    /\ handedOut[row] + Cardinality(Senders(row)) <= 1 + interrupted + overlaps
    /\ row \notin sentAt /\ (\A a \in Admins : Dispatching(a) => row \notin admin[a].pending) =>
         handedOut[row] <= interrupted + overlaps

\* A claim is of one request alone; a sale was paid back if it is REFUNDED.
ClaimsOK ==
  /\ \A a \in Admins : Refunding(a) =>
       /\ \A s \in admin[a].claimed : sale[s].status = "REFUNDING"
       /\ \A s \in admin[a].refunded : sale[s].status = "REFUNDED"
  /\ \A a, b \in Admins : a # b /\ Refunding(a) /\ Refunding(b) => admin[a].claimed \cap admin[b].claimed = {}
  /\ \A s \in Purchases : paidBack[s] = IF sale[s].status = "REFUNDED" THEN 1 ELSE 0
  /\ \A s \in answered : sale[s].status = "REFUNDED"

OutreachInv ==
  /\ OutreachRowsOK /\ DraftQuiet /\ RecordedBound /\ ListFixed
  /\ DispatchOK /\ MessagesCounted /\ ClaimsOK

\* What was recorded is a number of things, and so is what is about to be.
Recorders == {a \in Admins : admin[a].op \in {"recover", "dispose"}}

\* A request is of the kind its name says.
LEMMA RequestKinds ==
  ASSUME admin \in [Admins -> Request], NEW a \in Admins
  PROVE  /\ admin[a] \in Request
         /\ Dispatching(a) => admin[a] \in DispatchRequest
         /\ Refunding(a) => admin[a] \in RefundRequest
         /\ ~Dispatching(a) /\ ~Refunding(a) => admin[a] \in PlainRequest
         /\ Idle(a) => ~Dispatching(a) /\ ~Refunding(a) /\ admin[a].op \notin {"recover", "dispose"}
  BY DEF Request, DispatchRequest, RefundRequest, PlainRequest, Dispatching, Refunding, Idle, NoRequest

\* One administrator's request changes.
LEMMA GoesEffect ==
  ASSUME admin \in [Admins -> Request], NEW a \in Admins, NEW r \in Request, Goes(a, r)
  PROVE  /\ admin' \in [Admins -> Request]
         /\ admin'[a] = r
         /\ \A b \in Admins : b # a => admin'[b] = admin[b]
  BY DEF Goes

\* A request that is neither a dispatch nor becomes one leaves the messages be.
LEMMA MessagesFrame ==
  ASSUME DispatchOK, MessagesCounted, NEW a \in Admins,
         \A b \in Admins : b # a => admin'[b] = admin[b],
         ~Dispatching(a), ~Dispatching(a)', rows \subseteq rows',
         UNCHANGED <<sentAt, handedOut, interrupted, overlaps>>
  PROVE  DispatchOK' /\ MessagesCounted'
<1>1. \A b \in Admins : Dispatching(b)' = Dispatching(b) /\ (Dispatching(b) => admin'[b] = admin[b])
  BY DEF Dispatching
<1>2. \A row \in Rows : Senders(row)' = Senders(row)
  BY <1>1 DEF Senders
<1>3. DispatchOK'
  BY <1>1 DEF DispatchOK, SentWasHandedOut
<1>4. MessagesCounted'
  BY <1>1, <1>2 DEF MessagesCounted
<1> QED BY <1>3, <1>4

\* A request that is neither a refund nor becomes one leaves the claims be.
LEMMA ClaimsFrame ==
  ASSUME ClaimsOK, NEW a \in Admins, \A b \in Admins : b # a => admin'[b] = admin[b],
         ~Refunding(a), ~Refunding(a)', UNCHANGED <<sale, paidBack, answered>>
  PROVE  ClaimsOK'
<1>1. \A b \in Admins : Refunding(b)' = Refunding(b) /\ (Refunding(b) => admin'[b] = admin[b])
  BY DEF Refunding
<1> QED BY <1>1 DEF ClaimsOK

\* A request that records nothing leaves the bound be.
LEMMA RecordFrame ==
  ASSUME RecordedBound, NEW a \in Admins, \A b \in Admins : b # a => admin'[b] = admin[b],
         admin[a].op \notin {"recover", "dispose"}, admin'[a].op \notin {"recover", "dispose"},
         UNCHANGED <<recovered, disposed, acknowledged>>
  PROVE  RecordedBound'
<1>1. Recorders' = Recorders
  BY DEF Recorders
<1> QED BY <1>1 DEF RecordedBound, recorded, Recorders

\* The requests under way are finitely many.
LEMMA RecordersFinite ==
  Recorders \subseteq Admins /\ IsFiniteSet(Recorders) /\ Cardinality(Recorders) \in Nat
  BY OutreachAssumption, FS_Subset, FS_CardinalityType DEF Recorders

\* So are those that have a message to hand out.
LEMMA SendersFinite ==
  ASSUME NEW row
  PROVE  Senders(row) \subseteq Admins /\ IsFiniteSet(Senders(row)) /\ Cardinality(Senders(row)) \in Nat
  BY OutreachAssumption, FS_Subset, FS_CardinalityType DEF Senders

\* The quantities stay within the bound.
LEMMA QuantitiesBounded ==
  ASSUME NEW r \in Nat, NEW d \in Nat, NEW acks, NEW ops, IsFiniteSet(acks),
         r + d + Cardinality(acks) + Cardinality({a \in Admins : ops[a].op \in {"recover", "dispose"}})
           <= MaxRecorded
  PROVE  r \in 0 .. MaxRecorded /\ d \in 0 .. MaxRecorded
<1> DEFINE under == {a \in Admins : ops[a].op \in {"recover", "dispose"}}
<1>1. Cardinality(acks) \in Nat
  BY FS_CardinalityType
<1>2. Cardinality(under) \in Nat
  BY FS_Subset, FS_CardinalityType, OutreachAssumption
<1>3. r + d + Cardinality(acks) + Cardinality(under) <= MaxRecorded
  OBVIOUS
<1> HIDE DEF under
<1> QED BY <1>1, <1>2, <1>3, OutreachAssumption

\* Buyers are customers: the list has a row for each on every channel.
LEMMA BuyersAreCustomers ==
  ASSUME sale \in [Purchases -> SaleRows]
  PROVE  affected \subseteq Purchases /\ buyersOf(sale, affected) \X Channels \subseteq Rows
<1>1. affected \subseteq Purchases
  BY DEF affected, traceForward, collectDownstream
<1>2. \A s \in Purchases : sale[s].member \in Customers \cup {Anonymous}
  BY DEF SaleRows
<1>3. buyersOf(sale, affected) \subseteq Customers
  BY <1>1, <1>2 DEF buyersOf
<1> QED BY <1>1, <1>3 DEF Rows

\* At first there are no rows and no requests.
LEMMA OutreachStart == OutreachInit => OutreachInv
<1> SUFFICES ASSUME OutreachInit PROVE OutreachInv
  OBVIOUS
<1>1. sale \in [Purchases -> SaleRows]
  BY OutreachAssumption DEF OutreachInit
<1>2. NoRequest \in Request /\ NoRequest.op = "none"
  BY DEF NoRequest, Request, PlainRequest
<1>3. admin \in [Admins -> Request] /\ \A a \in Admins : admin[a] = NoRequest
  BY <1>2 DEF OutreachInit
<1>4. \A a \in Admins : ~Dispatching(a) /\ ~Refunding(a) /\ admin[a].op \notin {"recover", "dispose"}
  BY <1>2, <1>3 DEF Dispatching, Refunding
<1>5. OutreachRowsOK
  BY <1>1, <1>3, OutreachAssumption DEF OutreachRowsOK, OutreachTypeOK, OutreachInit
<1>6. DraftQuiet /\ ListFixed
  BY <1>3 DEF DraftQuiet, ListFixed, OutreachInit
<1>7. RecordedBound
  <2>1. Recorders = {}
    BY <1>4 DEF Recorders
  <2>2. recorded = recovered + disposed + Cardinality(acknowledged) + Cardinality(Recorders)
    BY DEF recorded, Recorders
  <2>3. IsFiniteSet(acknowledged) /\ recorded = 0
    BY <2>1, <2>2, FS_EmptySet DEF OutreachInit
  <2> QED BY <2>3, OutreachAssumption DEF RecordedBound
<1>8. DispatchOK
  BY <1>4 DEF DispatchOK, SentWasHandedOut, OutreachInit
<1>9. MessagesCounted
  <2> SUFFICES ASSUME NEW row \in Rows
               PROVE  /\ handedOut[row] + Cardinality(Senders(row)) <= 1 + interrupted + overlaps
                      /\ handedOut[row] <= interrupted + overlaps
    BY DEF MessagesCounted
  <2>1. Senders(row) = {}
    BY <1>4 DEF Senders
  <2> QED BY <2>1, FS_EmptySet DEF OutreachInit
<1>10. ClaimsOK
  BY <1>4 DEF ClaimsOK, OutreachInit
<1> QED BY <1>5, <1>6, <1>7, <1>8, <1>9, <1>10 DEF OutreachInv

\* Steps that change neither the sales, nor the list, nor what was recorded: the
\* rows stay well formed and the list stays the one the sales give.
LEMMA SteadyFrame ==
  ASSUME OutreachInv, NEW a \in Admins, NEW r \in Request, Goes(a, r), recall # "DRAFT",
         sentAt' \subseteq rows,
         handedOut' \in [Rows -> Nat], interrupted' \in Nat, overlaps' \in Nat,
         UNCHANGED <<sale, recall, rows, acknowledged, recovered, disposed, paidBack>>,
         answered' \subseteq Purchases
  PROVE  OutreachRowsOK' /\ DraftQuiet' /\ ListFixed'
<1>1. admin' \in [Admins -> Request]
  BY GoesEffect DEF OutreachInv, OutreachRowsOK
<1>2. OutreachRowsOK'
  BY <1>1 DEF OutreachInv, OutreachRowsOK, OutreachTypeOK
<1>3. DraftQuiet'
  BY DEF DraftQuiet
<1>4. ListFixed'
  BY DEF OutreachInv, ListFixed, affected
<1> QED BY <1>2, <1>3, <1>4

\* The activation writes the list.
LEMMA ActivateKeeps == ASSUME OutreachInv, activateRecall PROVE OutreachInv'
<1>1. /\ OutreachRowsOK /\ OutreachTypeOK /\ recall = "DRAFT" /\ rows = {} /\ sentAt = {} /\ acknowledged = {}
      /\ \A a \in Admins : admin[a] = NoRequest
  BY DEF OutreachInv, OutreachRowsOK, OutreachTypeOK, activateRecall, DraftQuiet
<1>2. rows' \subseteq Rows /\ rows' = buyersOf(sale, affected) \X Channels
  BY <1>1, BuyersAreCustomers DEF OutreachTypeOK, activateRecall
<1>3. OutreachRowsOK'
  BY <1>1, <1>2 DEF OutreachRowsOK, OutreachTypeOK, activateRecall, observed
<1>4. DraftQuiet'
  BY DEF DraftQuiet, activateRecall
<1>5. ListFixed'
  BY <1>2 DEF ListFixed, activateRecall, affected
<1>6. RecordedBound'
  BY DEF RecordedBound, recorded, activateRecall, OutreachInv
<1>7. \A a \in Admins : ~Dispatching(a) /\ ~Dispatching(a)'
  BY <1>1 DEF activateRecall, Dispatching, NoRequest
<1>8. DispatchOK'
  BY <1>1, <1>7 DEF activateRecall, DispatchOK, SentWasHandedOut
<1>9. MessagesCounted'
  <2>1. \A row \in Rows : Senders(row)' = Senders(row)
    BY DEF Senders, activateRecall, Dispatching
  <2> QED BY <2>1 DEF OutreachInv, MessagesCounted, activateRecall, observed, Dispatching
<1>10. ClaimsOK'
  BY DEF OutreachInv, ClaimsOK, activateRecall, observed, Refunding
<1> QED BY <1>3, <1>4, <1>5, <1>6, <1>8, <1>9, <1>10 DEF OutreachInv

\* An answer is counted.
LEMMA AcknowledgeKeeps ==
  ASSUME OutreachInv, NEW row \in Rows, acknowledgeNotification(row) PROVE OutreachInv'
<1>1. /\ OutreachRowsOK /\ OutreachTypeOK /\ row \in rows /\ acknowledged' = acknowledged \cup {row}
      /\ UNCHANGED <<sale, recall, rows, sentAt, recovered, disposed, admin, handedOut, dispatches,
                     refundRuns, interrupted, overlaps, paidBack, answered>>
  BY DEF OutreachInv, OutreachRowsOK, acknowledgeNotification, observed
<1>2. OutreachRowsOK'
  BY <1>1 DEF OutreachRowsOK, OutreachTypeOK
<1>3. DraftQuiet' /\ ListFixed'
  BY <1>1 DEF OutreachInv, DraftQuiet, ListFixed, affected
<1>4. RecordedBound'
  <2>1. IsFiniteSet(acknowledged) /\ recorded + 1 <= MaxRecorded
    <3>1. recorded < MaxRecorded
      BY DEF acknowledgeNotification
    <3>2. Cardinality(acknowledged) \in Nat /\ Cardinality(Recorders) \in Nat /\ IsFiniteSet(acknowledged)
      BY RecordersFinite, FS_CardinalityType DEF OutreachInv, RecordedBound
    <3>3. recorded = recovered + disposed + Cardinality(acknowledged) + Cardinality(Recorders)
      BY DEF recorded, Recorders
    <3> QED BY <3>1, <3>2, <3>3, OutreachAssumption, <1>1 DEF OutreachRowsOK
  <2>2. /\ IsFiniteSet(acknowledged') /\ Cardinality(acknowledged') <= Cardinality(acknowledged) + 1
        /\ Cardinality(acknowledged') \in Nat /\ Cardinality(acknowledged) \in Nat
    <3>1. IsFiniteSet(acknowledged') /\ Cardinality(acknowledged)\in Nat
      BY <2>1, <1>1, FS_AddElement, FS_CardinalityType
    <3>2. \/ Cardinality(acknowledged') = Cardinality(acknowledged) + 1
          \/ Cardinality(acknowledged') = Cardinality(acknowledged)
      BY <2>1, <1>1, FS_AddElement
    <3> QED BY <3>1, <3>2
  <2>3. recorded = recovered + disposed + Cardinality(acknowledged) + Cardinality(Recorders)
    BY DEF recorded, Recorders
  <2>4. recorded' = recovered + disposed + Cardinality(acknowledged') + Cardinality(Recorders)
    BY <1>1 DEF recorded, Recorders
  <2>5. recorded' <= recorded + 1 /\ recorded \in Nat /\ recorded' \in Nat
    BY <2>2, <2>3, <2>4, RecordersFinite, <1>1 DEF OutreachRowsOK
  <2> QED BY <2>1, <2>2, <2>5, OutreachAssumption DEF RecordedBound
<1>5. DispatchOK' /\ ClaimsOK'
  BY <1>1 DEF OutreachInv, DispatchOK, SentWasHandedOut, Dispatching, ClaimsOK, Refunding
<1>6. MessagesCounted'
  <2>1. \A r \in Rows : Senders(r)' = Senders(r)
    BY <1>1 DEF Senders, Dispatching
  <2> QED BY <1>1, <2>1 DEF OutreachInv, MessagesCounted, Dispatching
<1> QED BY <1>2, <1>3, <1>4, <1>5, <1>6 DEF OutreachInv

\* What every step of one administrator may use.
LEMMA AdminFacts ==
  ASSUME OutreachInv, NEW a \in Admins
  PROVE  /\ OutreachTypeOK /\ admin \in [Admins -> Request] /\ admin[a] \in Request
         /\ handedOut \in [Rows -> Nat] /\ interrupted \in Nat /\ overlaps \in Nat
         /\ admin[a] # NoRequest => recall # "DRAFT"
         /\ recall # "DRAFT" => \A b \in Admins : Dispatching(b) => admin[b] \in DispatchRequest
         /\ DispatchOK /\ MessagesCounted /\ ClaimsOK /\ RecordedBound
  BY RequestKinds DEF OutreachInv, OutreachRowsOK, DraftQuiet

\* A dispatch begins: alone it takes what nobody was told, beside another it
\* is an overlap.
LEMMA DispatchKeeps ==
  ASSUME OutreachInv, NEW a \in Admins, dispatchRecallNotifications(a) PROVE OutreachInv'
<1> DEFINE r == [op |-> "dispatch", pending |-> rows \ sentAt, handed |-> {}]
<1>1. /\ OutreachTypeOK /\ admin \in [Admins -> Request] /\ handedOut \in [Rows -> Nat]
      /\ interrupted \in Nat /\ overlaps \in Nat /\ Idle(a) /\ recall # "DRAFT"
      /\ ~Dispatching(a) /\ ~Refunding(a) /\ admin[a].op \notin {"recover", "dispose"}
  BY AdminFacts, RequestKinds DEF dispatchRecallNotifications
<1>2. r \in Request
  BY <1>1 DEF Request, DispatchRequest, OutreachTypeOK
<1>3. /\ Goes(a, r) /\ r.op = "dispatch" /\ r.pending = rows \ sentAt /\ r.handed = {}
      /\ UNCHANGED <<sale, recall, rows, sentAt, acknowledged, recovered, disposed,
                     handedOut, refundRuns, interrupted, paidBack, answered>>
      /\ overlaps' = IF \E b \in Admins : Dispatching(b) THEN overlaps + 1 ELSE overlaps
  BY DEF dispatchRecallNotifications
<1> HIDE DEF r
<1>4. /\ admin'[a] = r /\ \A b \in Admins : b # a => admin'[b] = admin[b]
  BY <1>1, <1>2, <1>3, GoesEffect
<1>5. OutreachRowsOK' /\ DraftQuiet' /\ ListFixed'
  <2>1. overlaps' \in Nat /\ sentAt' \subseteq rows /\ handedOut' \in [Rows -> Nat] /\ interrupted' \in Nat
        /\ answered' \subseteq Purchases
    BY <1>1, <1>3 DEF OutreachTypeOK, OutreachInv, OutreachRowsOK
  <2> QED BY <1>1, <1>2, <1>3, <2>1, SteadyFrame
<1>6. Dispatching(a)' /\ ~Refunding(a)' /\ admin'[a].op \notin {"recover", "dispose"}
  BY <1>3, <1>4 DEF Dispatching, Refunding
<1>7. RecordedBound'
  BY <1>1, <1>3, <1>4, <1>6, AdminFacts, RecordFrame
<1>8. ClaimsOK'
  BY <1>1, <1>3, <1>4, <1>6, AdminFacts, ClaimsFrame
<1>9. DispatchOK'
  BY <1>1, <1>3, <1>4, AdminFacts DEF DispatchOK, SentWasHandedOut, Dispatching
<1>10. MessagesCounted'
  <2> SUFFICES ASSUME NEW row \in Rows
               PROVE  /\ handedOut'[row] + Cardinality(Senders(row)') <= 1 + interrupted' + overlaps'
                      /\ row \notin sentAt' /\ (\A b \in Admins : Dispatching(b)' => row \notin admin'[b].pending) =>
                           handedOut'[row] <= interrupted' + overlaps'
    BY DEF MessagesCounted
  <2>1. /\ handedOut[row] + Cardinality(Senders(row)) <= 1 + interrupted + overlaps
        /\ row \notin sentAt /\ (\A b \in Admins : Dispatching(b) => row \notin admin[b].pending) =>
             handedOut[row] <= interrupted + overlaps
        /\ handedOut[row] \in Nat
    BY AdminFacts, <1>1 DEF MessagesCounted
  <2>2. a \notin Senders(row) /\ Cardinality(Senders(row)) \in Nat /\ IsFiniteSet(Senders(row))
    BY <1>1, SendersFinite DEF Senders
  <2>3. row \in rows \ sentAt => Senders(row)' = Senders(row) \cup {a}
    BY <1>3, <1>4, <1>6, <2>2 DEF Senders, Dispatching
  <2>4. row \notin rows \ sentAt => Senders(row)' = Senders(row)
    BY <1>3, <1>4, <1>6, <2>2 DEF Senders, Dispatching
  <2>5. \/ Cardinality(Senders(row)') = Cardinality(Senders(row)) + 1 /\ row \in rows \ sentAt
        \/ Cardinality(Senders(row)') = Cardinality(Senders(row)) /\ row \notin rows \ sentAt
    BY <2>2, <2>3, <2>4, FS_AddElement
  <2>6. (\A b \in Admins : Dispatching(b)' => row \notin admin'[b].pending) =>
          \A b \in Admins : Dispatching(b) => row \notin admin[b].pending
    BY <1>1, <1>4 DEF Dispatching
  <2>7. handedOut'[row] = handedOut[row] /\ interrupted' = interrupted /\ sentAt' = sentAt
    BY <1>3
  <2>8. CASE \E b \in Admins : Dispatching(b)
    <3>1. overlaps' = overlaps + 1
      BY <1>3, <2>8
    <3>2. handedOut'[row] + Cardinality(Senders(row)') <= 1 + interrupted' + overlaps'
      BY <3>1, <2>1, <2>2, <2>5, <2>7, <1>1
    <3>3. row \notin sentAt' /\ (\A b \in Admins : Dispatching(b)' => row \notin admin'[b].pending) =>
                           handedOut'[row] <= interrupted' + overlaps'
      BY <3>1, <2>1, <2>6, <2>7, <1>1
    <3> QED BY <3>2, <3>3
  <2>9. CASE ~\E b \in Admins : Dispatching(b)
    <3>1. overlaps' = overlaps /\ Senders(row) = {} /\ Cardinality(Senders(row)) = 0
      BY <1>3, <2>9, FS_EmptySet DEF Senders
    <3>2. row \notin sentAt => handedOut[row] <= interrupted + overlaps
      BY <2>1, <2>9
    <3>3. handedOut'[row] + Cardinality(Senders(row)') <= 1 + interrupted' + overlaps'
      BY <3>1, <3>2, <2>1, <2>5, <2>7, <1>1
    <3> QED BY <3>1, <3>2, <3>3, <2>7
  <2> QED BY <2>8, <2>9
<1> QED BY <1>5, <1>7, <1>8, <1>9, <1>10 DEF OutreachInv

\* The message of a row goes out, or its customer cannot be reached.
LEMMA SendKeeps ==
  ASSUME OutreachInv, NEW a \in Admins, NEW row \in Rows, SendMessage(a, row) PROVE OutreachInv'
<1> DEFINE r == IF Reachable(row) THEN [admin[a] EXCEPT !.handed = {row}]
                                  ELSE [admin[a] EXCEPT !.pending = @ \ {row}]
<1>1. /\ OutreachTypeOK /\ admin \in [Admins -> Request] /\ handedOut \in [Rows -> Nat]
      /\ interrupted \in Nat /\ overlaps \in Nat /\ Dispatching(a) /\ admin[a] \in DispatchRequest
      /\ admin[a].handed = {} /\ row \in admin[a].pending /\ ~Refunding(a)
  BY AdminFacts, RequestKinds DEF SendMessage, Dispatching, Refunding
<1>2. /\ r \in DispatchRequest /\ r \in Request /\ r.op = "dispatch"
      /\ Reachable(row) => r.handed = {row} /\ r.pending = admin[a].pending
      /\ ~Reachable(row) => r.handed = {} /\ r.pending = admin[a].pending \ {row}
  <2>1. r \in DispatchRequest
    BY <1>1 DEF DispatchRequest
  <2>2. /\ Reachable(row) => r.handed = {row} /\ r.pending = admin[a].pending
        /\ ~Reachable(row) => r.handed = {} /\ r.pending = admin[a].pending \ {row}
    BY <1>1 DEF DispatchRequest
  <2> HIDE DEF r
  <2> QED BY <2>1, <2>2 DEF Request, DispatchRequest
<1>3. /\ Goes(a, r)
      /\ UNCHANGED <<sale, recall, rows, sentAt, acknowledged, recovered, disposed,
                     dispatches, refundRuns, interrupted, overlaps, paidBack, answered>>
      /\ handedOut' = IF Reachable(row) THEN [handedOut EXCEPT ![row] = @ + 1] ELSE handedOut
  BY DEF SendMessage
<1> HIDE DEF r
<1>4. /\ admin'[a] = r /\ \A b \in Admins : b # a => admin'[b] = admin[b]
  BY <1>1, <1>2, <1>3, GoesEffect
<1>0. recall # "DRAFT"
  BY <1>1, AdminFacts DEF NoRequest, Dispatching
<1>h. /\ handedOut' \in [Rows -> Nat] /\ handedOut'[row] = handedOut[row] + (IF Reachable(row) THEN 1 ELSE 0)
      /\ \A x \in Rows : x # row => handedOut'[x] = handedOut[x]
      /\ \A x \in Rows : handedOut'[x] >= handedOut[x] /\ handedOut[x] \in Nat /\ handedOut'[x] \in Nat
  BY <1>1, <1>3
<1>5. OutreachRowsOK' /\ DraftQuiet' /\ ListFixed'
  <2>1. overlaps' \in Nat /\ sentAt' \subseteq rows /\ interrupted' \in Nat /\ answered' \subseteq Purchases
    BY <1>1, <1>3 DEF OutreachTypeOK, OutreachInv, OutreachRowsOK
  <2> QED BY <1>0, <1>h, <1>1, <1>2, <1>3, <2>1, SteadyFrame
<1>6. Dispatching(a)' /\ ~Refunding(a)' /\ admin'[a].op \notin {"recover", "dispose"}
      /\ admin[a].op \notin {"recover", "dispose"}
  BY <1>1, <1>2, <1>4 DEF Dispatching, Refunding
<1>7. RecordedBound'
  BY <1>1, <1>3, <1>4, <1>6, AdminFacts, RecordFrame
<1>8. ClaimsOK'
  BY <1>1, <1>3, <1>4, <1>6, AdminFacts, ClaimsFrame
<1>9. DispatchOK'
  <2>1. SentWasHandedOut'
    <3> SUFFICES ASSUME NEW x \in sentAt' PROVE handedOut'[x] > 0
      BY DEF SentWasHandedOut
    <3>1. x \in Rows /\ handedOut[x] > 0
      BY <1>1, <1>3, AdminFacts DEF DispatchOK, SentWasHandedOut, OutreachTypeOK
    <3> QED BY <3>1, <1>h
  <2> SUFFICES ASSUME NEW b \in Admins, Dispatching(b)'
               PROVE  /\ admin'[b].pending \subseteq rows' /\ admin'[b].handed \subseteq admin'[b].pending
                      /\ \A x \in admin'[b].handed : handedOut'[x] > 0
    BY <2>1 DEF DispatchOK
  <2>2. CASE b = a
    <3>1. admin[a].pending \subseteq rows
      BY <1>1, AdminFacts DEF DispatchOK
    <3>2. Reachable(row) => handedOut'[row] > 0
      BY <1>h
    <3> QED BY <3>1, <3>2, <2>2, <1>1, <1>2, <1>3, <1>4
  <2>3. CASE b # a
    <3>1. admin'[b] = admin[b] /\ Dispatching(b)
      BY <2>3, <1>4 DEF Dispatching
    <3>2. /\ admin[b].pending \subseteq rows /\ admin[b].handed \subseteq admin[b].pending
          /\ \A x \in admin[b].handed : handedOut[x] > 0
      BY <3>1, AdminFacts DEF DispatchOK
    <3>3. admin[b].handed \subseteq Rows
      BY <3>2, <1>1 DEF OutreachTypeOK
    <3>4. \A x \in admin[b].handed : handedOut'[x] > 0
      BY <3>2, <3>3, <1>h
    <3> QED BY <3>1, <3>2, <3>4, <1>3
  <2> QED BY <2>2, <2>3
<1>10. MessagesCounted'
  <2> SUFFICES ASSUME NEW x \in Rows
               PROVE  /\ handedOut'[x] + Cardinality(Senders(x)') <= 1 + interrupted' + overlaps'
                      /\ x \notin sentAt' /\ (\A b \in Admins : Dispatching(b)' => x \notin admin'[b].pending) =>
                           handedOut'[x] <= interrupted' + overlaps'
    BY DEF MessagesCounted
  <2>1. /\ handedOut[x] + Cardinality(Senders(x)) <= 1 + interrupted + overlaps
        /\ x \notin sentAt /\ (\A b \in Admins : Dispatching(b) => x \notin admin[b].pending) =>
             handedOut[x] <= interrupted + overlaps
    BY AdminFacts, <1>1 DEF MessagesCounted
  <2>2. Cardinality(Senders(x)) \in Nat /\ IsFiniteSet(Senders(x))
    BY SendersFinite
  <2>7. interrupted' = interrupted /\ sentAt' = sentAt /\ overlaps' = overlaps
    BY <1>3
  <2>8. CASE x = row
    <3>1. a \in Senders(row)
      BY <1>1 DEF Senders
    <3>2. Senders(row)' = Senders(row) \ {a}
      BY <1>1, <1>2, <1>4, <1>6 DEF Senders, Dispatching
    <3>3. Cardinality(Senders(row)') = Cardinality(Senders(row)) - 1
      BY <3>1, <3>2, <2>2, <2>8, FS_RemoveElement
    <3>3a. handedOut[row] <= interrupted + overlaps
      <4>1. Cardinality(Senders(row)) >= 1
        BY <3>1, <2>2, <2>8, FS_EmptySet
      <4> QED BY <4>1, <2>1, <2>2, <2>8, <1>1
    <3>4. handedOut'[row] + Cardinality(Senders(row)') <= 1 + interrupted + overlaps
      BY <3>3, <1>h, <2>1, <2>2, <2>8, <1>1
    <3>5. CASE Reachable(row)
      <4>1. Dispatching(a)' /\ x \in admin'[a].pending
        BY <3>5, <2>8, <1>1, <1>2, <1>4, <1>6
      <4> QED BY <4>1, <3>4, <2>7, <2>8
    <3>6. CASE ~Reachable(row)
      <4>1. handedOut'[row] = handedOut[row]
        BY <3>6, <1>3
      <4> QED BY <4>1, <3>3a, <3>4, <2>7, <2>8
    <3> QED BY <3>5, <3>6
  <2>9. CASE x # row
    <3>1. Senders(x)' = Senders(x)
      BY <2>9, <1>1, <1>2, <1>4, <1>6 DEF Senders, Dispatching
    <3>2. handedOut'[x] = handedOut[x]
      BY <2>9, <1>h
    <3>3. (\A b \in Admins : Dispatching(b)' => x \notin admin'[b].pending) =>
            \A b \in Admins : Dispatching(b) => x \notin admin[b].pending
      BY <2>9, <1>2, <1>4, <1>6 DEF Dispatching
    <3> QED BY <3>1, <3>2, <3>3, <2>1, <2>7
  <2> QED BY <2>8, <2>9
<1> QED BY <1>5, <1>7, <1>8, <1>9, <1>10 DEF OutreachInv

\* What was handed out is marked.
LEMMA MarkKeeps ==
  ASSUME OutreachInv, NEW a \in Admins, MarkSent(a) PROVE OutreachInv'
<1> DEFINE r == [admin[a] EXCEPT !.pending = @ \ admin[a].handed, !.handed = {}]
<1>1. /\ OutreachTypeOK /\ admin \in [Admins -> Request] /\ handedOut \in [Rows -> Nat]
      /\ interrupted \in Nat /\ overlaps \in Nat /\ Dispatching(a) /\ admin[a] \in DispatchRequest
      /\ ~Refunding(a)
  BY AdminFacts, RequestKinds DEF MarkSent, Dispatching, Refunding
<1>2. /\ r \in DispatchRequest /\ r \in Request /\ r.op = "dispatch"
      /\ r.handed = {} /\ r.pending = admin[a].pending \ admin[a].handed
  <2>1. r \in DispatchRequest /\ r.handed = {} /\ r.pending = admin[a].pending \ admin[a].handed
    BY <1>1 DEF DispatchRequest
  <2> HIDE DEF r
  <2> QED BY <2>1 DEF Request, DispatchRequest
<1>3. /\ Goes(a, r) /\ sentAt' = sentAt \cup admin[a].handed
      /\ UNCHANGED <<sale, recall, rows, acknowledged, recovered, disposed, handedOut,
                     dispatches, refundRuns, interrupted, overlaps, paidBack, answered>>
  BY DEF MarkSent, observed
<1> HIDE DEF r
<1>4. /\ admin'[a] = r /\ \A b \in Admins : b # a => admin'[b] = admin[b]
  BY <1>1, <1>2, <1>3, GoesEffect
<1>0. recall # "DRAFT"
  BY <1>1, AdminFacts DEF NoRequest, Dispatching
<1>m. /\ admin[a].pending \subseteq rows /\ admin[a].handed \subseteq admin[a].pending
      /\ \A row \in admin[a].handed : handedOut[row] > 0
  BY <1>1, AdminFacts DEF DispatchOK
<1>5. OutreachRowsOK' /\ DraftQuiet' /\ ListFixed'
  <2>1. overlaps' \in Nat /\ sentAt' \subseteq rows /\ interrupted' \in Nat /\ answered' \subseteq Purchases
        /\ handedOut' \in [Rows -> Nat]
    BY <1>1, <1>3, <1>m DEF OutreachTypeOK, OutreachInv, OutreachRowsOK
  <2> QED BY <1>0, <1>1, <1>2, <1>3, <2>1, SteadyFrame
<1>6. Dispatching(a)' /\ ~Refunding(a)' /\ admin'[a].op \notin {"recover", "dispose"}
      /\ admin[a].op \notin {"recover", "dispose"}
  BY <1>1, <1>2, <1>4 DEF Dispatching, Refunding
<1>7. RecordedBound'
  BY <1>1, <1>3, <1>4, <1>6, AdminFacts, RecordFrame
<1>8. ClaimsOK'
  BY <1>1, <1>3, <1>4, <1>6, AdminFacts, ClaimsFrame
<1>9. DispatchOK'
  <2>1. SentWasHandedOut'
    BY <1>3, <1>m, AdminFacts DEF DispatchOK, SentWasHandedOut
  <2>2. \A b \in Admins : b # a /\ Dispatching(b)' => Dispatching(b) /\ admin'[b] = admin[b]
    BY <1>4 DEF Dispatching
  <2> QED BY <2>1, <2>2, <1>m, <1>2, <1>3, <1>4, AdminFacts DEF DispatchOK
<1>10. MessagesCounted'
  <2>1. \A x \in Rows : Senders(x)' = Senders(x)
    BY <1>1, <1>2, <1>4, <1>6 DEF Senders, Dispatching
  <2>2. \A x \in Rows : x \notin sentAt' /\ (\A b \in Admins : Dispatching(b)' => x \notin admin'[b].pending) =>
          x \notin sentAt /\ \A b \in Admins : Dispatching(b) => x \notin admin[b].pending
    BY <1>2, <1>3, <1>4, <1>6 DEF Dispatching
  <2> QED BY <2>1, <2>2, <1>3, AdminFacts DEF MessagesCounted
<1> QED BY <1>5, <1>7, <1>8, <1>9, <1>10 DEF OutreachInv

\* A dispatch ends, or dies with rows before it: that is an interruption.
LEMMA DispatchEndKeeps ==
  ASSUME OutreachInv, NEW a \in Admins, DispatchFails(a) \/ EndDispatch(a) PROVE OutreachInv'
<1>1. /\ OutreachTypeOK /\ admin \in [Admins -> Request] /\ handedOut \in [Rows -> Nat]
      /\ interrupted \in Nat /\ overlaps \in Nat /\ Dispatching(a) /\ admin[a] \in DispatchRequest
      /\ ~Refunding(a)
  BY AdminFacts, RequestKinds DEF DispatchFails, EndDispatch, Dispatching, Refunding
<1>2. NoRequest \in Request /\ NoRequest.op = "none"
  BY DEF Request, PlainRequest, NoRequest
<1>3. /\ Goes(a, NoRequest)
      /\ interrupted' = interrupted + 1 \/ (interrupted' = interrupted /\ admin[a].pending = {})
      /\ UNCHANGED <<sale, recall, rows, sentAt, acknowledged, recovered, disposed, handedOut,
                     dispatches, refundRuns, overlaps, paidBack, answered>>
  <2>1. ASSUME DispatchFails(a)
        PROVE  /\ Goes(a, NoRequest) /\ interrupted' = interrupted + 1
               /\ UNCHANGED <<sale, recall, rows, sentAt, acknowledged, recovered, disposed, handedOut,
                              dispatches, refundRuns, overlaps, paidBack, answered>>
    BY <2>1 DEF DispatchFails
  <2>2. ASSUME EndDispatch(a)
        PROVE  /\ Goes(a, NoRequest) /\ interrupted' = interrupted /\ admin[a].pending = {}
               /\ UNCHANGED <<sale, recall, rows, sentAt, acknowledged, recovered, disposed, handedOut,
                              dispatches, refundRuns, overlaps, paidBack, answered>>
    BY <2>2 DEF EndDispatch, observed
  <2> QED BY <2>1, <2>2, Zenon
<1>4. /\ admin'[a] = NoRequest /\ \A b \in Admins : b # a => admin'[b] = admin[b]
  BY <1>1, <1>2, <1>3, GoesEffect
<1>0. recall # "DRAFT"
  BY <1>1, AdminFacts DEF NoRequest, Dispatching
<1>5. OutreachRowsOK' /\ DraftQuiet' /\ ListFixed'
  <2>1. overlaps' \in Nat /\ sentAt' \subseteq rows /\ interrupted' \in Nat /\ answered' \subseteq Purchases
        /\ handedOut' \in [Rows -> Nat]
    BY <1>1, <1>3 DEF OutreachTypeOK, OutreachInv, OutreachRowsOK
  <2> QED BY <1>0, <1>1, <1>2, <1>3, <2>1, SteadyFrame
<1>6. ~Dispatching(a)' /\ ~Refunding(a)' /\ admin'[a].op \notin {"recover", "dispose"}
      /\ admin[a].op \notin {"recover", "dispose"}
  BY <1>1, <1>2, <1>4 DEF Dispatching, Refunding
<1>7. RecordedBound'
  BY <1>1, <1>3, <1>4, <1>6, AdminFacts, RecordFrame
<1>8. ClaimsOK'
  BY <1>1, <1>3, <1>4, <1>6, AdminFacts, ClaimsFrame
<1>9. DispatchOK'
  <2>2. \A b \in Admins : Dispatching(b)' => Dispatching(b) /\ admin'[b] = admin[b]
    BY <1>4, <1>6 DEF Dispatching
  <2> QED BY <2>2, <1>3, AdminFacts DEF DispatchOK, SentWasHandedOut
<1>10. MessagesCounted'
  <2> SUFFICES ASSUME NEW x \in Rows
               PROVE  /\ handedOut'[x] + Cardinality(Senders(x)') <= 1 + interrupted' + overlaps'
                      /\ x \notin sentAt' /\ (\A b \in Admins : Dispatching(b)' => x \notin admin'[b].pending) =>
                           handedOut'[x] <= interrupted' + overlaps'
    BY DEF MessagesCounted
  <2>1. /\ handedOut[x] + Cardinality(Senders(x)) <= 1 + interrupted + overlaps
        /\ x \notin sentAt /\ (\A b \in Admins : Dispatching(b) => x \notin admin[b].pending) =>
             handedOut[x] <= interrupted + overlaps
        /\ handedOut[x] \in Nat
    BY AdminFacts, <1>1 DEF MessagesCounted
  <2>2. Cardinality(Senders(x)) \in Nat /\ IsFiniteSet(Senders(x))
    BY SendersFinite
  <2>3. Senders(x)' \subseteq Senders(x)
    BY <1>4, <1>6 DEF Senders, Dispatching
  <2>4. Cardinality(Senders(x)') <= Cardinality(Senders(x)) /\ Cardinality(Senders(x)') \in Nat
    BY <2>2, <2>3, FS_Subset, FS_CardinalityType
  <2>5. handedOut'[x] = handedOut[x] /\ overlaps' = overlaps /\ sentAt' = sentAt
    BY <1>3
  <2>6. CASE interrupted' = interrupted + 1
    BY <2>6, <2>1, <2>2, <2>4, <2>5, <1>1
  <2>7. CASE interrupted' = interrupted /\ admin[a].pending = {}
    <3>1. handedOut'[x] + Cardinality(Senders(x)') <= 1 + interrupted' + overlaps'
      BY <2>7, <2>1, <2>2, <2>4, <2>5, <1>1
    <3>2. (\A b \in Admins : Dispatching(b)' => x \notin admin'[b].pending) =>
            \A b \in Admins : Dispatching(b) => x \notin admin[b].pending
      BY <2>7, <1>4 DEF Dispatching
    <3> QED BY <3>1, <3>2, <2>1, <2>5, <2>7
  <2> QED BY <2>6, <2>7, <1>3
<1> QED BY <1>5, <1>7, <1>8, <1>9, <1>10 DEF OutreachInv

\* The purchases named stay sold, of the same member and the same lots.
LEMMA SoldStaysSold ==
  ASSUME sale \in [Purchases -> SaleRows], NEW s \in Purchases, NEW st \in SOLD_STATUSES,
         sale[s].status \in SOLD_STATUSES, sale' = [sale EXCEPT ![s].status = st]
  PROVE  /\ sale' \in [Purchases -> SaleRows]
         /\ sale'[s].status = st /\ \A x \in Purchases : x # s => sale'[x] = sale[x]
         /\ affected' = affected /\ buyersOf(sale, affected)' = buyersOf(sale, affected)
<1>1. sale[s] \in SaleRows
  OBVIOUS
<1> DEFINE row == [sale[s] EXCEPT !.status = st]
<1>2. row \in SaleRows /\ row.status = st /\ row.member = sale[s].member /\ row.lots = sale[s].lots
  BY <1>1 DEF SaleRows, SOLD_STATUSES
<1>3. sale' = [sale EXCEPT ![s] = row]
  OBVIOUS
<1> HIDE DEF row
<1>4. sale' \in [Purchases -> SaleRows] /\ sale'[s] = row /\ \A x \in Purchases : x # s => sale'[x] = sale[x]
  BY <1>2, <1>3
<1>5. DOMAIN sale = Purchases /\ DOMAIN sale' = Purchases
  BY <1>4
<1>6. \A x \in Purchases : /\ sale'[x].member = sale[x].member /\ sale'[x].lots = sale[x].lots
                           /\ sale'[x].status \in SOLD_STATUSES <=> sale[x].status \in SOLD_STATUSES
  BY <1>2, <1>4
<1>7. \A l : traceForward(sale', l) = traceForward(sale, l)
  BY <1>5, <1>6 DEF traceForward, collectDownstream
<1>8. affected' = affected
  <2>1. \A x : x \in affected <=> \E l \in Recalled : x \in traceForward(sale, l)
    BY DEF affected
  <2>2. \A x : x \in affected' <=> \E l \in Recalled : x \in traceForward(sale', l)
    BY DEF affected
  <2>3. \A x : x \in affected' <=> x \in affected
    BY <2>1, <2>2, <1>7
  <2> QED BY <2>3, Zenon
<1>9. affected \subseteq Purchases
  BY <1>5 DEF affected, traceForward, collectDownstream
<1>10. buyersOf(sale, affected)' = buyersOf(sale, affected)
  BY <1>6, <1>8, <1>9 DEF buyersOf
<1> QED BY <1>2, <1>4, <1>8, <1>10

\* A step of a refund run: the messages, the list and the records stay.
LEMMA RefundStepFrame ==
  ASSUME OutreachInv, NEW a \in Admins, NEW r \in Request, Goes(a, r), recall # "DRAFT",
         ~Dispatching(a), r.op \notin {"dispatch", "recover", "dispose"},
         admin[a].op \notin {"recover", "dispose"},
         sale' \in [Purchases -> SaleRows], buyersOf(sale, affected)' = buyersOf(sale, affected),
         UNCHANGED <<recall, rows, sentAt, acknowledged, recovered, disposed, handedOut, interrupted, overlaps>>,
         paidBack' \in [Purchases -> Nat], answered' \subseteq Purchases, ClaimsOK'
  PROVE  OutreachInv'
<1>1. /\ admin' \in [Admins -> Request] /\ admin'[a] = r /\ \A b \in Admins : b # a => admin'[b] = admin[b]
  BY AdminFacts, GoesEffect
<1>2. OutreachRowsOK'
  BY <1>1 DEF OutreachInv, OutreachRowsOK, OutreachTypeOK
<1>3. DraftQuiet' /\ ListFixed'
  BY DEF OutreachInv, DraftQuiet, ListFixed
<1>4. RecordedBound'
  BY <1>1, AdminFacts, RecordFrame
<1>5. ~Dispatching(a)'
  BY <1>1 DEF Dispatching
<1>6. DispatchOK' /\ MessagesCounted'
  BY <1>1, <1>5, AdminFacts, MessagesFrame
<1> QED BY <1>2, <1>3, <1>4, <1>6 DEF OutreachInv

\* What a refund run may use.
LEMMA RefundFacts ==
  ASSUME OutreachInv, NEW a \in Admins, Refunding(a)
  PROVE  /\ recall # "DRAFT" /\ ~Dispatching(a) /\ admin[a].op \notin {"recover", "dispose"}
         /\ admin[a] \in RefundRequest /\ sale \in [Purchases -> SaleRows]
         /\ paidBack \in [Purchases -> Nat] /\ answered \subseteq Purchases
         /\ admin \in [Admins -> Request]
  BY AdminFacts, RequestKinds DEF OutreachInv, OutreachRowsOK, OutreachTypeOK, Refunding, Dispatching, NoRequest

\* A refund run begins with the affected purchases.
LEMMA RefundBegins ==
  ASSUME OutreachInv, NEW a \in Admins, refundRecalledPurchases(a) PROVE OutreachInv'
<1> DEFINE r == [op |-> "refund", todo |-> affected, claimed |-> {}, refunded |-> {}]
<1>1. /\ admin \in [Admins -> Request] /\ Idle(a) /\ recall # "DRAFT" /\ sale \in [Purchases -> SaleRows]
      /\ ~Dispatching(a) /\ ~Refunding(a) /\ admin[a].op \notin {"recover", "dispose"}
      /\ paidBack \in [Purchases -> Nat] /\ answered \subseteq Purchases
  BY AdminFacts, RequestKinds DEF refundRecalledPurchases, OutreachInv, OutreachRowsOK, OutreachTypeOK
<1>2. r \in Request /\ r.op = "refund" /\ r.claimed = {} /\ r.refunded = {}
  BY <1>1, BuyersAreCustomers DEF Request, RefundRequest
<1>3. /\ Goes(a, r)
      /\ UNCHANGED <<sale, recall, rows, sentAt, acknowledged, recovered, disposed,
                     handedOut, dispatches, interrupted, overlaps, paidBack, answered>>
  BY DEF refundRecalledPurchases
<1> HIDE DEF r
<1>4. /\ admin'[a] = r /\ \A b \in Admins : b # a => admin'[b] = admin[b]
  BY <1>1, <1>2, <1>3, GoesEffect
<1>5. ClaimsOK'
  BY <1>2, <1>3, <1>4, AdminFacts DEF ClaimsOK, Refunding
<1>6. buyersOf(sale, affected)' = buyersOf(sale, affected)
  BY <1>3 DEF affected
<1> QED BY <1>1, <1>2, <1>3, <1>5, <1>6, RefundStepFrame

\* The next purchase: reported, refused, or claimed by this run alone.
LEMMA RefundNextKeeps ==
  ASSUME OutreachInv, NEW a \in Admins, NEW s \in Purchases, RefundNext(a, s) PROVE OutreachInv'
<1>1. /\ recall # "DRAFT" /\ ~Dispatching(a) /\ admin[a].op \notin {"recover", "dispose"}
      /\ admin[a] \in RefundRequest /\ sale \in [Purchases -> SaleRows]
      /\ paidBack \in [Purchases -> Nat] /\ answered \subseteq Purchases /\ admin \in [Admins -> Request]
      /\ Refunding(a) /\ admin[a].claimed = {} /\ ClaimsOK
  BY RefundFacts, AdminFacts DEF RefundNext
<1>2. UNCHANGED <<recall, rows, sentAt, acknowledged, recovered, disposed, handedOut, dispatches,
                  refundRuns, interrupted, overlaps, paidBack, answered>>
  BY DEF RefundNext, observed
<1>3. ASSUME sale[s].status = "REFUNDED", UNCHANGED sale,
             Goes(a, [admin[a] EXCEPT !.todo = @ \ {s}, !.refunded = @ \cup {s}])
      PROVE  OutreachInv'
  <2> DEFINE r == [admin[a] EXCEPT !.todo = @ \ {s}, !.refunded = @ \cup {s}]
  <2>1. r \in RefundRequest /\ r.op = "refund" /\ r.claimed = admin[a].claimed
        /\ r.refunded = admin[a].refunded \cup {s}
    BY <1>1 DEF RefundRequest
  <2>2. Goes(a, r)
    BY <1>3
  <2> HIDE DEF r
  <2>3. r \in Request
    BY <2>1 DEF Request
  <2>4. /\ admin'[a] = r /\ \A b \in Admins : b # a => admin'[b] = admin[b]
    BY <1>1, <2>2, <2>3, GoesEffect
  <2>5. ClaimsOK'
    BY <1>1, <1>2, <1>3, <2>1, <2>4 DEF ClaimsOK, Refunding
  <2>6. buyersOf(sale, affected)' = buyersOf(sale, affected)
    BY <1>3 DEF affected
  <2> QED BY <1>1, <1>2, <1>3, <2>1, <2>2, <2>3, <2>5, <2>6, RefundStepFrame
<1>4. ASSUME UNCHANGED sale, Goes(a, [admin[a] EXCEPT !.todo = @ \ {s}])
      PROVE  OutreachInv'
  <2> DEFINE r == [admin[a] EXCEPT !.todo = @ \ {s}]
  <2>1. r \in RefundRequest /\ r.op = "refund" /\ r.claimed = admin[a].claimed
        /\ r.refunded = admin[a].refunded
    BY <1>1 DEF RefundRequest
  <2>2. Goes(a, r)
    BY <1>4
  <2> HIDE DEF r
  <2>3. r \in Request
    BY <2>1 DEF Request
  <2>4. /\ admin'[a] = r /\ \A b \in Admins : b # a => admin'[b] = admin[b]
    BY <1>1, <2>2, <2>3, GoesEffect
  <2>5. ClaimsOK'
    BY <1>1, <1>2, <1>4, <2>1, <2>4 DEF ClaimsOK, Refunding
  <2>6. buyersOf(sale, affected)' = buyersOf(sale, affected)
    BY <1>4 DEF affected
  <2> QED BY <1>1, <1>2, <1>4, <2>1, <2>2, <2>3, <2>5, <2>6, RefundStepFrame
<1>5. ASSUME MayClaim(s), sale' = [sale EXCEPT ![s].status = "REFUNDING"],
             Goes(a, [admin[a] EXCEPT !.todo = @ \ {s}, !.claimed = {s}])
      PROVE  OutreachInv'
  <2> DEFINE r == [admin[a] EXCEPT !.todo = @ \ {s}, !.claimed = {s}]
  <2>1. r \in RefundRequest /\ r.op = "refund" /\ r.claimed = {s}
        /\ r.refunded = admin[a].refunded
    BY <1>1 DEF RefundRequest
  <2>2. Goes(a, r)
    BY <1>5
  <2> HIDE DEF r
  <2>3. r \in Request
    BY <2>1 DEF Request
  <2>4. /\ admin'[a] = r /\ \A b \in Admins : b # a => admin'[b] = admin[b]
    BY <1>1, <2>2, <2>3, GoesEffect
  <2>5. /\ sale' \in [Purchases -> SaleRows] /\ sale'[s].status = "REFUNDING"
        /\ \A x \in Purchases : x # s => sale'[x] = sale[x]
        /\ buyersOf(sale, affected)' = buyersOf(sale, affected) /\ sale[s].status = "PAID"
    BY <1>1, <1>5, SoldStaysSold DEF MayClaim, SOLD_STATUSES
  <2>6. ClaimsOK'
    <3>1. \A b \in Admins : Refunding(b) => admin[b] \in RefundRequest /\ s \notin admin[b].claimed
                                            /\ s \notin admin[b].refunded
      BY <1>1, <2>5, RequestKinds DEF ClaimsOK
    <3>2. \A b \in Admins : b # a => Refunding(b)' = Refunding(b)
      BY <2>4 DEF Refunding
    <3>3. \A b \in Admins : Refunding(b)' =>
            /\ \A x \in admin'[b].claimed : sale'[x].status = "REFUNDING"
            /\ \A x \in admin'[b].refunded : sale'[x].status = "REFUNDED"
      <4> SUFFICES ASSUME NEW b \in Admins, Refunding(b)'
                   PROVE  /\ \A x \in admin'[b].claimed : sale'[x].status = "REFUNDING"
                          /\ \A x \in admin'[b].refunded : sale'[x].status = "REFUNDED"
        OBVIOUS
      <4>1. Refunding(b)
        BY <1>1, <3>2
      <4>2. /\ \A x \in admin[b].claimed : x # s /\ x \in Purchases /\ sale[x].status = "REFUNDING"
            /\ \A x \in admin[b].refunded : x # s /\ x \in Purchases /\ sale[x].status = "REFUNDED"
        BY <1>1, <3>1, <4>1 DEF ClaimsOK, RefundRequest
      <4>3. /\ \A x \in admin[b].claimed : sale'[x].status = "REFUNDING"
            /\ \A x \in admin[b].refunded : sale'[x].status = "REFUNDED"
        BY <4>2, <2>5
      <4> QED BY <4>3, <2>1, <2>4, <2>5
    <3>4. \A b, c \in Admins : b # c /\ Refunding(b)' /\ Refunding(c)' => admin'[b].claimed \cap admin'[c].claimed = {}
      BY <1>1, <2>1, <2>4, <3>1, <3>2 DEF ClaimsOK
    <3>5. \A x \in Purchases : paidBack'[x] = IF sale'[x].status = "REFUNDED" THEN 1 ELSE 0
      BY <1>1, <1>2, <2>5 DEF ClaimsOK
    <3>6. \A x \in answered' : sale'[x].status = "REFUNDED"
      BY <1>1, <1>2, <2>5 DEF ClaimsOK
    <3> QED BY <3>3, <3>4, <3>5, <3>6 DEF ClaimsOK
  <2> QED BY <1>1, <1>2, <2>1, <2>2, <2>3, <2>5, <2>6, RefundStepFrame
<1> QED BY <1>3, <1>4, <1>5 DEF RefundNext

\* A refund ends: paid back once, or PAID again.
LEMMA RefundEndsKeeps ==
  ASSUME OutreachInv, NEW a \in Admins, RefundEnds(a) PROVE OutreachInv'
<1>1. /\ recall # "DRAFT" /\ ~Dispatching(a) /\ admin[a].op \notin {"recover", "dispose"}
      /\ admin[a] \in RefundRequest /\ sale \in [Purchases -> SaleRows]
      /\ paidBack \in [Purchases -> Nat] /\ answered \subseteq Purchases /\ admin \in [Admins -> Request]
      /\ Refunding(a) /\ ClaimsOK
  BY RefundFacts, AdminFacts DEF RefundEnds
<1>2. UNCHANGED <<recall, rows, sentAt, acknowledged, recovered, disposed, handedOut, dispatches,
                  refundRuns, interrupted, overlaps, answered>>
  BY DEF RefundEnds
<1>3. PICK s \in admin[a].claimed :
       \/ /\ sale' = [sale EXCEPT ![s].status = "REFUNDED"]
          /\ paidBack' = [paidBack EXCEPT ![s] = @ + 1]
          /\ Goes(a, [admin[a] EXCEPT !.claimed = {}, !.refunded = @ \cup {s}])
       \/ /\ sale' = [sale EXCEPT ![s].status = "PAID"]
          /\ Goes(a, [admin[a] EXCEPT !.claimed = {}])
          /\ UNCHANGED paidBack
  BY DEF RefundEnds
<1>4. s \in Purchases /\ sale[s].status = "REFUNDING" /\ paidBack[s] = 0
  BY <1>1 DEF ClaimsOK, RefundRequest
<1>5. \A b \in Admins : Refunding(b) =>
        /\ \A x \in admin[b].claimed : x \in Purchases /\ sale[x].status = "REFUNDING" /\ (b # a => x # s)
        /\ \A x \in admin[b].refunded : x \in Purchases /\ sale[x].status = "REFUNDED" /\ x # s
  <2> SUFFICES ASSUME NEW b \in Admins, Refunding(b)
      PROVE /\ \A x \in admin[b].claimed : x \in Purchases /\ sale[x].status = "REFUNDING" /\ (b # a => x # s)
            /\ \A x \in admin[b].refunded : x \in Purchases /\ sale[x].status = "REFUNDED" /\ x # s
    OBVIOUS
  <2>1. admin[b] \in RefundRequest
    BY <1>1, RequestKinds
  <2>2. admin[b].claimed \subseteq Purchases /\ admin[b].refunded \subseteq Purchases
    BY <2>1 DEF RefundRequest
  <2>3. b # a => admin[a].claimed \cap admin[b].claimed = {}
    BY <1>1 DEF ClaimsOK
  <2> QED BY <1>1, <1>3, <1>4, <2>2, <2>3 DEF ClaimsOK
<1>6. \A x \in answered : x # s /\ x \in Purchases
  BY <1>1, <1>4 DEF ClaimsOK
<1>7. ASSUME sale' = [sale EXCEPT ![s].status = "REFUNDED"], paidBack' = [paidBack EXCEPT ![s] = @ + 1],
             Goes(a, [admin[a] EXCEPT !.claimed = {}, !.refunded = @ \cup {s}])
      PROVE  OutreachInv'
  <2> DEFINE r == [admin[a] EXCEPT !.claimed = {}, !.refunded = @ \cup {s}]
  <2>1. r \in RefundRequest /\ r.op = "refund" /\ r.claimed = {}
        /\ r.refunded = admin[a].refunded \cup {s}
    BY <1>1, <1>4 DEF RefundRequest
  <2>2. Goes(a, r)
    BY <1>7
  <2> HIDE DEF r
  <2>3. r \in Request
    BY <2>1 DEF Request
  <2>4. /\ admin'[a] = r /\ \A b \in Admins : b # a => admin'[b] = admin[b]
    BY <1>1, <2>2, <2>3, GoesEffect
  <2>5. /\ sale' \in [Purchases -> SaleRows] /\ sale'[s].status = "REFUNDED"
        /\ \A x \in Purchases : x # s => sale'[x] = sale[x]
        /\ buyersOf(sale, affected)' = buyersOf(sale, affected)
    BY <1>1, <1>4, <1>7, SoldStaysSold DEF SOLD_STATUSES
  <2>6. /\ paidBack' \in [Purchases -> Nat] /\ paidBack'[s] = 1
        /\ \A x \in Purchases : x # s => paidBack'[x] = paidBack[x]
    BY <1>1, <1>4, <1>7
  <2>7. ClaimsOK'
    <3>1. \A b \in Admins : b # a => Refunding(b)' = Refunding(b)
      BY <2>4 DEF Refunding
    <3>2. \A b \in Admins : Refunding(b)' =>
            /\ \A x \in admin'[b].claimed : sale'[x].status = "REFUNDING"
            /\ \A x \in admin'[b].refunded : sale'[x].status = "REFUNDED"
      <4> SUFFICES ASSUME NEW b \in Admins, Refunding(b)'
                   PROVE  /\ \A x \in admin'[b].claimed : sale'[x].status = "REFUNDING"
                          /\ \A x \in admin'[b].refunded : sale'[x].status = "REFUNDED"
        OBVIOUS
      <4>1. Refunding(b)
        BY <1>1, <3>1
      <4>2. \A x \in admin[b].refunded : sale'[x].status = "REFUNDED"
        BY <4>1, <1>5, <2>5
      <4>3. b # a => \A x \in admin[b].claimed : sale'[x].status = "REFUNDING"
        BY <4>1, <1>5, <2>5
      <4> QED BY <4>2, <4>3, <2>1, <2>4, <2>5
    <3>3. \A b, c \in Admins : b # c /\ Refunding(b)' /\ Refunding(c)' => admin'[b].claimed \cap admin'[c].claimed = {}
      BY <1>1, <2>1, <2>4, <3>1 DEF ClaimsOK
    <3>4. \A x \in Purchases : paidBack'[x] = IF sale'[x].status = "REFUNDED" THEN 1 ELSE 0
      BY <1>1, <2>5, <2>6 DEF ClaimsOK
    <3>5. \A x \in answered' : sale'[x].status = "REFUNDED"
      BY <1>1, <1>2, <1>6, <2>5 DEF ClaimsOK
    <3> QED BY <3>2, <3>3, <3>4, <3>5 DEF ClaimsOK
  <2> QED BY <1>1, <1>2, <2>1, <2>2, <2>3, <2>5, <2>6, <2>7, RefundStepFrame
<1>8. ASSUME sale' = [sale EXCEPT ![s].status = "PAID"], Goes(a, [admin[a] EXCEPT !.claimed = {}]),
             UNCHANGED paidBack
      PROVE  OutreachInv'
  <2> DEFINE r == [admin[a] EXCEPT !.claimed = {}]
  <2>1. r \in RefundRequest /\ r.op = "refund" /\ r.claimed = {}
        /\ r.refunded = admin[a].refunded
    BY <1>1, <1>4 DEF RefundRequest
  <2>2. Goes(a, r)
    BY <1>8
  <2> HIDE DEF r
  <2>3. r \in Request
    BY <2>1 DEF Request
  <2>4. /\ admin'[a] = r /\ \A b \in Admins : b # a => admin'[b] = admin[b]
    BY <1>1, <2>2, <2>3, GoesEffect
  <2>5. /\ sale' \in [Purchases -> SaleRows] /\ sale'[s].status = "PAID"
        /\ \A x \in Purchases : x # s => sale'[x] = sale[x]
        /\ buyersOf(sale, affected)' = buyersOf(sale, affected)
    BY <1>1, <1>4, <1>8, SoldStaysSold DEF SOLD_STATUSES
  <2>7. ClaimsOK'
    <3>1. \A b \in Admins : b # a => Refunding(b)' = Refunding(b)
      BY <2>4 DEF Refunding
    <3>2. \A b \in Admins : Refunding(b)' =>
            /\ \A x \in admin'[b].claimed : sale'[x].status = "REFUNDING"
            /\ \A x \in admin'[b].refunded : sale'[x].status = "REFUNDED"
      <4> SUFFICES ASSUME NEW b \in Admins, Refunding(b)'
                   PROVE  /\ \A x \in admin'[b].claimed : sale'[x].status = "REFUNDING"
                          /\ \A x \in admin'[b].refunded : sale'[x].status = "REFUNDED"
        OBVIOUS
      <4>1. Refunding(b)
        BY <1>1, <3>1
      <4>2. \A x \in admin[b].refunded : sale'[x].status = "REFUNDED"
        BY <4>1, <1>5, <2>5
      <4>3. b # a => \A x \in admin[b].claimed : sale'[x].status = "REFUNDING"
        BY <4>1, <1>5, <2>5
      <4> QED BY <4>2, <4>3, <2>1, <2>4, <2>5
    <3>3. \A b, c \in Admins : b # c /\ Refunding(b)' /\ Refunding(c)' => admin'[b].claimed \cap admin'[c].claimed = {}
      BY <1>1, <2>1, <2>4, <3>1 DEF ClaimsOK
    <3>4. \A x \in Purchases : paidBack'[x] = IF sale'[x].status = "REFUNDED" THEN 1 ELSE 0
      BY <1>1, <1>4, <1>8, <2>5 DEF ClaimsOK
    <3>5. \A x \in answered' : sale'[x].status = "REFUNDED"
      BY <1>1, <1>2, <1>6, <2>5 DEF ClaimsOK
    <3> QED BY <3>2, <3>3, <3>4, <3>5 DEF ClaimsOK
  <2> QED BY <1>1, <1>2, <1>8, <2>1, <2>2, <2>3, <2>5, <2>7, RefundStepFrame
<1> QED BY <1>3, <1>7, <1>8

\* A run answers with what was paid back.
LEMMA AnswerKeeps ==
  ASSUME OutreachInv, NEW a \in Admins, AnswerRefunds(a) PROVE OutreachInv'
<1>1. /\ recall # "DRAFT" /\ ~Dispatching(a) /\ admin[a].op \notin {"recover", "dispose"}
      /\ admin[a] \in RefundRequest /\ sale \in [Purchases -> SaleRows]
      /\ paidBack \in [Purchases -> Nat] /\ answered \subseteq Purchases /\ admin \in [Admins -> Request]
      /\ Refunding(a) /\ ClaimsOK
  BY RefundFacts, AdminFacts DEF AnswerRefunds
<1>2. /\ UNCHANGED <<sale, recall, rows, sentAt, acknowledged, recovered, disposed, handedOut, dispatches,
                     refundRuns, interrupted, overlaps, paidBack>>
      /\ Goes(a, NoRequest) /\ answered' = answered \cup admin[a].refunded
  BY DEF AnswerRefunds
<1>3. NoRequest \in Request /\ NoRequest.op = "none"
  BY DEF Request, PlainRequest, NoRequest
<1>4. /\ admin'[a] = NoRequest /\ \A b \in Admins : b # a => admin'[b] = admin[b]
  BY <1>1, <1>2, <1>3, GoesEffect
<1>5. admin[a].refunded \subseteq Purchases
  BY <1>1 DEF RefundRequest
<1>6. ClaimsOK'
  BY <1>1, <1>2, <1>3, <1>4 DEF ClaimsOK, Refunding
<1>7. buyersOf(sale, affected)' = buyersOf(sale, affected)
  BY <1>2 DEF affected
<1>8. sale' \in [Purchases -> SaleRows] /\ paidBack' \in [Purchases -> Nat] /\ answered' \subseteq Purchases
  BY <1>1, <1>2, <1>5
<1> QED BY <1>1, <1>2, <1>3, <1>6, <1>7, <1>8, RefundStepFrame

\* A request that records something or closes the recall: the rest stays.
LEMMA PlainStepFrame ==
  ASSUME OutreachInv, NEW a \in Admins, NEW r \in PlainRequest, Goes(a, r), recall # "DRAFT",
         ~Dispatching(a), ~Refunding(a), recall' \in {"ACTIVE", "COMPLETED"},
         UNCHANGED <<sale, rows, sentAt, acknowledged, handedOut, interrupted, overlaps, paidBack, answered>>,
         recovered' \in Nat, disposed' \in Nat, RecordedBound'
  PROVE  OutreachInv'
<1>1. r \in Request /\ r.op # "dispatch" /\ r.op # "refund"
  BY DEF Request, PlainRequest
<1>2. /\ admin' \in [Admins -> Request] /\ admin'[a] = r /\ \A b \in Admins : b # a => admin'[b] = admin[b]
  BY <1>1, AdminFacts, GoesEffect
<1>3. recovered' \in 0 .. MaxRecorded /\ disposed' \in 0 .. MaxRecorded
  BY QuantitiesBounded DEF RecordedBound, recorded
<1>4. OutreachRowsOK'
  BY <1>2, <1>3 DEF OutreachInv, OutreachRowsOK, OutreachTypeOK
<1>5. DraftQuiet'
  BY DEF DraftQuiet
<1>6. ListFixed'
  BY DEF OutreachInv, ListFixed, affected
<1>7. ~Dispatching(a)' /\ ~Refunding(a)'
  BY <1>1, <1>2 DEF Dispatching, Refunding
<1>8. DispatchOK' /\ MessagesCounted'
  BY <1>2, <1>7, AdminFacts, MessagesFrame
<1>9. ClaimsOK'
  BY <1>2, <1>7, AdminFacts, ClaimsFrame
<1> QED BY <1>4, <1>5, <1>6, <1>8, <1>9 DEF OutreachInv

\* What is about to be recorded is counted from the check on.
LEMMA CheckActiveKeeps ==
  ASSUME OutreachInv, NEW a \in Admins, NEW op \in {"recover", "dispose", "close"}, CheckActive(a, op)
  PROVE  OutreachInv'
<1> DEFINE r == [op |-> op]
<1>1. /\ admin \in [Admins -> Request] /\ Idle(a) /\ recall = "ACTIVE"
      /\ ~Dispatching(a) /\ ~Refunding(a) /\ admin[a].op \notin {"recover", "dispose"}
      /\ recovered \in Nat /\ disposed \in Nat /\ RecordedBound
  BY AdminFacts, RequestKinds DEF CheckActive, OutreachInv, OutreachRowsOK
<1>2. r \in PlainRequest /\ r \in Request /\ r.op = op
  BY DEF PlainRequest, Request
<1>3. /\ Goes(a, r) /\ UNCHANGED <<sale, recall, rows, sentAt, acknowledged, recovered, disposed, handedOut,
                                   dispatches, refundRuns, interrupted, overlaps, paidBack, answered>>
      /\ op # "close" => recorded < MaxRecorded
  BY DEF CheckActive, observed
<1> HIDE DEF r
<1>4. /\ admin'[a] = r /\ \A b \in Admins : b # a => admin'[b] = admin[b]
  BY <1>1, <1>2, <1>3, GoesEffect
<1>5. RecordedBound'
  <2>1. CASE op = "close"
    BY <2>1, <1>1, <1>2, <1>3, <1>4, RecordFrame
  <2>2. CASE op # "close"
    <3>1. Recorders' = Recorders \cup {a} /\ a \notin Recorders
      BY <2>2, <1>1, <1>2, <1>4 DEF Recorders
    <3>2. Cardinality(Recorders') = Cardinality(Recorders) + 1 /\ Cardinality(Recorders) \in Nat
      BY <3>1, RecordersFinite, FS_AddElement
    <3>3. recorded = recovered + disposed + Cardinality(acknowledged) + Cardinality(Recorders)
      BY DEF recorded, Recorders
    <3>4. recorded' = recovered + disposed + Cardinality(acknowledged) + Cardinality(Recorders')
      BY <1>3 DEF recorded, Recorders
    <3>5. IsFiniteSet(acknowledged) /\ Cardinality(acknowledged) \in Nat
      BY <1>1, FS_CardinalityType DEF RecordedBound
    <3>6. recorded' <= MaxRecorded
      BY <2>2, <1>1, <1>3, <3>2, <3>3, <3>4, <3>5, OutreachAssumption
    <3> QED BY <3>5, <3>6, <1>3 DEF RecordedBound
  <2> QED BY <2>1, <2>2
<1>6. recovered' \in Nat /\ disposed' \in Nat /\ recall' \in {"ACTIVE", "COMPLETED"}
  BY <1>1, <1>3
<1> QED BY <1>1, <1>2, <1>3, <1>5, <1>6, PlainStepFrame

\* What was announced is recorded.
LEMMA RecordKeeps ==
  ASSUME OutreachInv, NEW a \in Admins, recordRecovery(a) \/ recordDisposal(a)
  PROVE  OutreachInv'
<1>1. /\ admin[a].op \in {"recover", "dispose"} /\ Goes(a, NoRequest)
      /\ \/ recovered' = recovered + 1 /\ disposed' = disposed
         \/ recovered' = recovered /\ disposed' = disposed + 1
      /\ UNCHANGED <<sale, recall, rows, sentAt, acknowledged, handedOut,
                     dispatches, refundRuns, interrupted, overlaps, paidBack, answered>>
  <2>1. ASSUME recordRecovery(a)
        PROVE  /\ admin[a].op \in {"recover", "dispose"} /\ Goes(a, NoRequest)
               /\ recovered' = recovered + 1 /\ disposed' = disposed
               /\ UNCHANGED <<sale, recall, rows, sentAt, acknowledged, handedOut,
                              dispatches, refundRuns, interrupted, overlaps, paidBack, answered>>
    BY <2>1 DEF recordRecovery, observed
  <2>2. ASSUME recordDisposal(a)
        PROVE  /\ admin[a].op \in {"recover", "dispose"} /\ Goes(a, NoRequest)
               /\ recovered' = recovered /\ disposed' = disposed + 1
               /\ UNCHANGED <<sale, recall, rows, sentAt, acknowledged, handedOut,
                              dispatches, refundRuns, interrupted, overlaps, paidBack, answered>>
    BY <2>2 DEF recordDisposal, observed
  <2> QED BY <2>1, <2>2, Zenon
<1>2. /\ admin \in [Admins -> Request] /\ recall # "DRAFT" /\ recall \in {"DRAFT", "ACTIVE", "COMPLETED"}
      /\ ~Dispatching(a) /\ ~Refunding(a) /\ recovered \in Nat /\ disposed \in Nat /\ RecordedBound
  BY <1>1, AdminFacts DEF OutreachInv, OutreachRowsOK, OutreachTypeOK, Dispatching, Refunding, NoRequest
<1>3. NoRequest \in PlainRequest /\ NoRequest \in Request /\ NoRequest.op = "none"
  BY DEF PlainRequest, NoRequest, Request
<1>4. /\ admin'[a] = NoRequest /\ \A b \in Admins : b # a => admin'[b] = admin[b]
  BY <1>1, <1>2, <1>3, GoesEffect
<1>5. RecordedBound'
  <2>1. Recorders' = Recorders \ {a} /\ a \in Recorders
    BY <1>1, <1>3, <1>4 DEF Recorders
  <2>2. Cardinality(Recorders') = Cardinality(Recorders) - 1 /\ Cardinality(Recorders) \in Nat
    BY <2>1, RecordersFinite, FS_RemoveElement
  <2>3. recorded = recovered + disposed + Cardinality(acknowledged) + Cardinality(Recorders)
    BY DEF recorded, Recorders
  <2>4. recorded' = recovered' + disposed' + Cardinality(acknowledged) + Cardinality(Recorders')
    BY <1>1 DEF recorded, Recorders
  <2>5. IsFiniteSet(acknowledged) /\ Cardinality(acknowledged) \in Nat /\ recorded <= MaxRecorded
    BY <1>2, FS_CardinalityType DEF RecordedBound
  <2>6. recorded' = recorded
    BY <1>1, <1>2, <2>2, <2>3, <2>4, <2>5
  <2> QED BY <2>5, <2>6, <1>1 DEF RecordedBound
<1>6. recovered' \in Nat /\ disposed' \in Nat /\ recall' \in {"ACTIVE", "COMPLETED"}
  BY <1>1, <1>2
<1> QED BY <1>1, <1>2, <1>3, <1>5, <1>6, PlainStepFrame

\* A recall is closed.
LEMMA CloseKeeps == ASSUME OutreachInv, NEW a \in Admins, closeRecall(a) PROVE OutreachInv'
<1>1. /\ admin[a].op = "close" /\ Goes(a, NoRequest) /\ recall' = "COMPLETED"
      /\ UNCHANGED <<sale, rows, sentAt, acknowledged, recovered, disposed, handedOut,
                     dispatches, refundRuns, interrupted, overlaps, paidBack, answered>>
  BY DEF closeRecall, observed
<1>2. /\ admin \in [Admins -> Request] /\ recall # "DRAFT"
      /\ ~Dispatching(a) /\ ~Refunding(a) /\ recovered \in Nat /\ disposed \in Nat /\ RecordedBound
  BY <1>1, AdminFacts DEF OutreachInv, OutreachRowsOK, OutreachTypeOK, Dispatching, Refunding, NoRequest
<1>3. NoRequest \in PlainRequest /\ NoRequest \in Request /\ NoRequest.op = "none"
  BY DEF PlainRequest, NoRequest, Request
<1>4. /\ admin'[a] = NoRequest /\ \A b \in Admins : b # a => admin'[b] = admin[b]
  BY <1>1, <1>2, <1>3, GoesEffect
<1>5. RecordedBound'
  BY <1>1, <1>2, <1>3, <1>4, RecordFrame
<1>6. recovered' \in Nat /\ disposed' \in Nat
  BY <1>1, <1>2
<1> QED BY <1>1, <1>2, <1>3, <1>5, <1>6, PlainStepFrame

\* Every step keeps the invariant.
LEMMA OutreachSteps == OutreachInv /\ [OutreachNext]_outreachVars => OutreachInv'
<1> SUFFICES ASSUME OutreachInv, [OutreachNext]_outreachVars PROVE OutreachInv'
  OBVIOUS
<1>1. CASE activateRecall
  BY <1>1, ActivateKeeps
<1>2. ASSUME NEW row \in Rows, acknowledgeNotification(row) PROVE OutreachInv'
  BY <1>2, AcknowledgeKeeps
<1>3. ASSUME NEW a \in Admins, AdminStep(a) PROVE OutreachInv'
  BY <1>3, DispatchKeeps, SendKeeps, MarkKeeps, DispatchEndKeeps, RefundBegins, RefundNextKeeps,
     RefundEndsKeeps, AnswerKeeps, CheckActiveKeeps, RecordKeeps, CloseKeeps DEF AdminStep
<1>4. CASE UNCHANGED outreachVars
  <2>1. UNCHANGED <<sale, recall, rows, sentAt, acknowledged, recovered, disposed, admin,
                    handedOut, dispatches, refundRuns, interrupted, overlaps, paidBack, answered>>
    BY <1>4 DEF outreachVars
  <2>2. \A row \in Rows : Senders(row)' = Senders(row)
    BY <2>1 DEF Senders, Dispatching
  <2>3. OutreachRowsOK' /\ DraftQuiet' /\ ListFixed'
    BY <2>1 DEF OutreachInv, OutreachRowsOK, OutreachTypeOK, DraftQuiet, ListFixed, affected
  <2>4. RecordedBound'
    BY <2>1 DEF OutreachInv, RecordedBound, recorded
  <2>5. DispatchOK' /\ ClaimsOK'
    BY <2>1 DEF OutreachInv, DispatchOK, SentWasHandedOut, Dispatching, ClaimsOK, Refunding
  <2>6. MessagesCounted'
    BY <2>1, <2>2 DEF OutreachInv, MessagesCounted, Dispatching
  <2> QED BY <2>3, <2>4, <2>5, <2>6 DEF OutreachInv
<1> QED BY <1>1, <1>2, <1>3, <1>4 DEF OutreachNext

\* The invariant says what the rows promise.
LEMMA OutreachInvIsEnough == OutreachInv => OutreachHonest
<1> SUFFICES ASSUME OutreachInv PROVE OutreachHonest
  OBVIOUS
<1>1. OutreachTypeOK /\ SentWasHandedOut
  BY DEF OutreachInv, OutreachRowsOK, DispatchOK
<1>2. AffectedListComplete
  <2> SUFFICES ASSUME recall # "DRAFT"
      PROVE /\ \A l \in Recalled : getLotGenealogy(sale, l) \X Channels \subseteq rows
            /\ \A s \in Purchases :
                 (sale[s].status \in {"PAID", "REFUNDING", "REFUNDED"} /\ sale[s].member # Anonymous
                    /\ traceBackward(sale[s]) \cap Recalled # {})
                   => {sale[s].member} \X Channels \subseteq rows
    BY DEF AffectedListComplete
  <2>1. rows = buyersOf(sale, affected) \X Channels /\ DOMAIN sale = Purchases
    BY <1>1 DEF OutreachInv, ListFixed, OutreachTypeOK
  <2>2. \A s \in Purchases, l \in Recalled :
          sale[s].status \in SOLD_STATUSES /\ l \in sale[s].lots => s \in affected
    <3> SUFFICES ASSUME NEW s \in Purchases, NEW l \in Recalled,
                        sale[s].status \in SOLD_STATUSES, l \in sale[s].lots
                 PROVE  s \in affected
      OBVIOUS
    <3>1. l \in batchLots(l)
      BY OutreachAssumption DEF batchLots
    <3>2. s \in traceForward(sale, l)
      BY <3>1, <2>1 DEF traceForward, collectDownstream
    <3> QED BY <3>2 DEF affected
  <2>3. \A l \in Recalled : collectDownstream(sale, {l}) \subseteq affected
    BY <2>1, <2>2 DEF collectDownstream
  <2>4. \A l \in Recalled : getLotGenealogy(sale, l) \subseteq buyersOf(sale, affected)
    BY <2>3 DEF getLotGenealogy, buyersOf
  <2>5. \A s \in Purchases :
          (sale[s].status \in {"PAID", "REFUNDING", "REFUNDED"} /\ sale[s].member # Anonymous
             /\ traceBackward(sale[s]) \cap Recalled # {}) => sale[s].member \in buyersOf(sale, affected)
    BY <2>2 DEF traceBackward, buyersOf, SOLD_STATUSES
  <2> QED BY <2>1, <2>4, <2>5
<1>3. DuplicatesExplained
  <2> SUFFICES ASSUME NEW row \in Rows PROVE handedOut[row] <= 1 + interrupted + overlaps
    BY DEF DuplicatesExplained
  <2>1. handedOut[row] + Cardinality(Senders(row)) <= 1 + interrupted + overlaps
    BY DEF OutreachInv, MessagesCounted
  <2>2. handedOut[row] \in Nat /\ interrupted \in Nat /\ overlaps \in Nat /\ Cardinality(Senders(row)) \in Nat
    BY SendersFinite DEF OutreachInv, OutreachRowsOK
  <2> QED BY <2>1, <2>2
<1>4. PaidBackOnce
  BY DEF OutreachInv, OutreachRowsOK, ClaimsOK, PaidBackOnce
<1> QED BY <1>1, <1>2, <1>3, <1>4 DEF OutreachHonest

\* What the rows of a recall say of customers was done, however many
\* administrators work on it and wherever a dispatch dies: everyone who took a
\* recalled unit home is on the list, a row marked as sent was handed out, nobody
\* is told twice without an interruption or an overlap, and a purchase is paid
\* back once (recall.service.ts).
THEOREM OutreachStaysHonest == OutreachSpec => []OutreachHonest
  BY OutreachStart, OutreachSteps, OutreachInvIsEnough, PTL DEF OutreachSpec

=============================================================================
