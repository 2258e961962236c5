--------------------------- MODULE CheckoutProofs ---------------------------
(***************************************************************************)
(* Safety of the checkout for any number of products, lots and sales, any  *)
(* delivery of webhooks and any interleaving with the job and restarts.    *)
(* Then its books: where every unit of a lot went, that overselling is     *)
(* flagged, in which order lots are sold, and that the checkout implements *)
(* the sale ledger.  Then the offline queue, for any number of tabs, keys  *)
(* and baskets: what was rung up at the till is on the server once and in  *)
(* order, or queued.                                                       *)
(***************************************************************************)
EXTENDS OfflineQueue, CheckoutLedger, StockProofs

-----------------------------------------------------------------------------
(* Types *)

\* A cart line is a natural number.
LEMMA CartType ==
  ASSUME NEW cart \in Carts
  PROVE  cart \in [Products -> Nat] /\ cart \in [Products -> 0 .. MaxLine]
BY CheckoutAssumption DEF Carts

\* The two parts of a sale's allocation are allocations.
LEMMA HeldFreeType ==
  ASSUME TypeOK, NEW s \in Sales
  PROVE  Held(s) \in Allocation /\ Free(s) \in Allocation
BY DEF TypeOK, Held, Free, Allocation

\* Settling a sale, either way, keeps the types of stock and of sales.
LEMMA SettlementType ==
  ASSUME TypeOK, NEW s \in Sales, NEW nextStatus \in {"FAILED", "EXPIRED"},
         finalizePaidSale(s) \/ settleUnpaidSale(s, nextStatus)
  PROVE  /\ StockTypeOK'
         /\ paymentStatus' \in [Sales -> PaymentStatus]
         /\ UNCHANGED <<cash, saleItem, allocation>>
<1>1. StockTypeOK
  BY DEF TypeOK, InventoryTypeOK
<1>2. allocation[s] \in Allocation
  BY DEF TypeOK
<1>3. CASE consume(Held(s), Free(s)) /\ UNCHANGED <<cash, saleItem, allocation>>
             /\ paymentStatus' = [paymentStatus EXCEPT ![s] = "PAID"]
  BY <1>1, <1>3, HeldFreeType, consumeType DEF TypeOK, PaymentStatus
<1>4. CASE release(allocation[s]) /\ UNCHANGED <<cash, saleItem, allocation>>
             /\ paymentStatus' = [paymentStatus EXCEPT ![s] = nextStatus]
  BY <1>1, <1>2, <1>4, releaseType DEF TypeOK, PaymentStatus
<1>5. CASE UNCHANGED <<stockVars, saleVars>>
  BY <1>1, <1>5 DEF TypeOK, StockTypeOK, stockVars, lotVars, productVars, saleVars
<1> QED
  BY <1>3, <1>4, <1>5 DEF finalizePaidSale, settleUnpaidSale

\* Maintenance of the lots keeps the types of stock and ledger.
LEMMA MaintainType ==
  ASSUME InventoryTypeOK, InventoryNext
  PROVE  InventoryTypeOK'
<1>1. StockTypeOK /\ ledger \in [Lots -> Int] /\ adjustments \in 0 .. MaxAdjustments
  BY DEF InventoryTypeOK
<1>2. PICK l \in Lots : \/ \E qty \in 0 .. MaxUnits : ReceiveLot(l, qty)
                        \/ \E qty \in 0 .. MaxUnits : adjustLot(l, qty)
                        \/ quarantineLot(l)
                        \/ runExpireLotsOnce(l)
  BY DEF InventoryNext
<1>3. ASSUME NEW qty \in 0 .. MaxUnits, ReceiveLot(l, qty)
      PROVE  InventoryTypeOK'
  <2>1. qty \in Nat
    BY InventoryAssumption
  <2>2. StockTypeOK'
    BY <1>1, <1>3, <2>1, addLotType DEF ReceiveLot
  <2> QED
    BY <1>1, <1>3, <2>1, <2>2 DEF InventoryTypeOK, ReceiveLot
<1>4. ASSUME NEW qty \in 0 .. MaxUnits, adjustLot(l, qty)
      PROVE  InventoryTypeOK'
  <2>1. qty \in Nat
    BY InventoryAssumption
  <2>2. StockTypeOK'
    BY <1>1, <1>4, <2>1, setLotRemainingType DEF adjustLot
  <2>3. AdjustmentEntry(l, qty) \in Int
    BY <1>1, <2>1 DEF AdjustmentEntry, RollupDelta, StockTypeOK
  <2>4. adjustments' \in 0 .. MaxAdjustments
    BY <1>1, <1>4, InventoryAssumption DEF adjustLot
  <2> QED
    BY <1>1, <1>4, <2>2, <2>3, <2>4 DEF InventoryTypeOK, adjustLot
<1>5. CASE quarantineLot(l)
  <2>1. {l} \in SUBSET Lots /\ "QUARANTINED" \in LotStatus
    BY DEF LotStatus
  <2>2. StockTypeOK'
    BY <1>1, <1>5, <2>1, leaveSellableRollupType DEF quarantineLot
  <2> QED
    BY <1>1, <1>5, <2>2 DEF InventoryTypeOK, quarantineLot
<1>6. CASE runExpireLotsOnce(l)
  <2>1. {l} \in SUBSET Lots /\ "EXPIRED" \in LotStatus
    BY DEF LotStatus
  <2>2. StockTypeOK'
    BY <1>1, <1>6, <2>1, leaveSellableRollupType DEF runExpireLotsOnce
  <2>3. AtLeastZero(quantityRemaining[l]) \in Int
    BY <1>1 DEF StockTypeOK, AtLeastZero
  <2> QED
    BY <1>1, <1>6, <2>2, <2>3 DEF InventoryTypeOK, runExpireLotsOnce
<1> QED
  BY <1>2, <1>3, <1>4, <1>5, <1>6

\* Everything of TypeOK that is not about stock.
SaleTypeOK ==
  /\ paymentStatus \in [Sales -> PaymentStatus]
  /\ cash \subseteq Sales
  /\ saleItem \in [Sales -> [Products -> 0 .. MaxLine]]
  /\ allocation \in [Sales -> Allocation]
  /\ reconciliation \subseteq Products

PaymentTypeOK ==
  /\ stripe \in [Sales -> {"none", "open", "paid"}]
  /\ sent \subseteq Events
  /\ processedEvent \subseteq sent
  /\ running \subseteq processedEvent
  /\ conflicted \subseteq sent
  /\ due \subseteq Sales
  /\ verdict \in [Sales -> SUBSET BOOLEAN]
  /\ restarts \in 0 .. MaxRestarts

\* The type invariant in its three parts.
LEMMA TypeParts == TypeOK <=> InventoryTypeOK /\ SaleTypeOK /\ PaymentTypeOK
BY DEF TypeOK, SaleTypeOK, PaymentTypeOK

\* Creating a sale keeps the type invariant.
LEMMA CreateSaleType ==
  ASSUME TypeOK, NEW s \in Sales, NEW cart \in Carts, NEW offlineSync \in BOOLEAN,
         createCardSale(s, cart) \/ createCashSale(s, cart, offlineSync)
  PROVE  TypeOK'
<1>1. StockTypeOK /\ InventoryTypeOK /\ SaleTypeOK /\ PaymentTypeOK
  BY TypeParts DEF InventoryTypeOK
<1>2. /\ cart \in [Products -> Nat]
      /\ cart \in [Products -> 0 .. MaxLine]
  BY CartType
<1>3. /\ allocateFefo(cart, FALSE) \in Allocation
      /\ allocateFefo(cart, offlineSync) \in Allocation
  BY <1>1, <1>2, AllocateFefo
<1>4. CASE createCardSale(s, cart)
  <2>1. StockTypeOK'
    BY <1>1, <1>3, <1>4, reserveType DEF createCardSale
  <2>2. InventoryTypeOK'
    BY <1>1, <1>4, <2>1 DEF InventoryTypeOK, createCardSale
  <2>3. SaleTypeOK'
    BY <1>1, <1>2, <1>3, <1>4 DEF SaleTypeOK, PaymentStatus, createCardSale
  <2>4. PaymentTypeOK'
    BY <1>1, <1>4 DEF PaymentTypeOK, createCardSale, webhookVars
  <2> QED
    BY <2>2, <2>3, <2>4, TypeParts, PTL
<1>5. CASE createCashSale(s, cart, offlineSync)
  <2>1. StockTypeOK'
    BY <1>1, <1>3, <1>5, consumeDirectType DEF createCashSale
  <2>2. InventoryTypeOK'
    BY <1>1, <1>5, <2>1 DEF InventoryTypeOK, createCashSale
  <2>3. SaleTypeOK'
    BY <1>1, <1>2, <1>3, <1>5 DEF SaleTypeOK, PaymentStatus, createCashSale
  <2>4. PaymentTypeOK'
    BY <1>1, <1>5 DEF PaymentTypeOK, createCashSale, webhookVars
  <2> QED
    BY <2>2, <2>3, <2>4, TypeParts, PTL
<1> QED
  BY <1>4, <1>5

\* A step that settles a sale and leaves ledger and payment bookkeeping in type
\* keeps the type invariant.
LEMMA SettlingStepType ==
  ASSUME TypeOK, NEW s \in Sales, NEW nextStatus \in {"FAILED", "EXPIRED"},
         finalizePaidSale(s) \/ settleUnpaidSale(s, nextStatus),
         UNCHANGED <<ledger, adjustments, reconciliation>>, PaymentTypeOK'
  PROVE  TypeOK'
<1>1. InventoryTypeOK /\ SaleTypeOK /\ PaymentTypeOK
  BY TypeParts
<1>2. /\ StockTypeOK'
      /\ paymentStatus' \in [Sales -> PaymentStatus]
      /\ UNCHANGED <<cash, saleItem, allocation>>
  BY SettlementType
<1>3. InventoryTypeOK'
  BY <1>1, <1>2 DEF InventoryTypeOK
<1>4. SaleTypeOK'
  BY <1>1, <1>2 DEF SaleTypeOK
<1> QED
  BY <1>3, <1>4, TypeParts, PTL

\* A step that leaves stock and sales alone keeps the type invariant when it
\* keeps the types of the payment bookkeeping.
LEMMA BookkeepingStepType ==
  ASSUME TypeOK, UNCHANGED <<inventoryVars, saleVars, reconciliation>>, PaymentTypeOK'
  PROVE  TypeOK'
<1>1. InventoryTypeOK /\ SaleTypeOK /\ PaymentTypeOK
  BY TypeParts
<1>2. InventoryTypeOK'
  BY <1>1 DEF InventoryTypeOK, StockTypeOK, inventoryVars, stockVars, lotVars, productVars
<1>3. SaleTypeOK'
  BY <1>1 DEF SaleTypeOK, saleVars
<1> QED
  BY <1>2, <1>3, TypeParts, PTL

-----------------------------------------------------------------------------
(* The kinds of steps: each proof below has one case for each *)

Bookkeeping == UNCHANGED <<inventoryVars, saleVars, reconciliation>>

Settling(s) ==
  /\ \/ finalizePaidSale(s)
     \/ \E nextStatus \in {"FAILED", "EXPIRED"} : settleUnpaidSale(s, nextStatus)
  /\ UNCHANGED <<ledger, adjustments, reconciliation>>

Selling(s) ==
  \E cart \in Carts :
    \/ createCardSale(s, cart)
    \/ \E offlineSync \in {FALSE, Offline} : createCashSale(s, cart, offlineSync)

\* A step of one of these kinds that keeps the types of the payments.
StoreStep ==
  /\ \/ Maintain
     \/ \E s \in Sales : Selling(s)
     \/ \E s \in Sales : Settling(s)
     \/ Bookkeeping
  /\ PaymentTypeOK'

\* Every step maintains lots, creates a sale, settles one, or only keeps books
\* about payments, events and the job; and keeps the types of those books.
LEMMA StepKinds ==
  ASSUME TypeOK, [Next]_vars
  PROVE  StoreStep
<1> DEFINE Kinds == \/ Maintain
                    \/ \E s \in Sales : Selling(s)
                    \/ \E s \in Sales : Settling(s)
                    \/ Bookkeeping
<1> SUFFICES Kinds /\ PaymentTypeOK'
  BY DEF StoreStep
<1>1. PaymentTypeOK
  BY TypeParts
<1> USE DEF PaymentTypeOK
<1>2. CASE Maintain
  BY <1>1, <1>2 DEF Maintain, webhookVars
<1>3. ASSUME NEW s \in Sales, Selling(s) PROVE Kinds /\ PaymentTypeOK'
  BY <1>1, <1>3 DEF Selling, createCardSale, createCashSale, webhookVars
<1>4. ASSUME NEW s \in Sales, startPayment(s) PROVE Kinds /\ PaymentTypeOK'
  BY <1>1, <1>4 DEF startPayment, Bookkeeping, webhookVars
<1>5. ASSUME NEW s \in Sales, CustomerPays(s) PROVE Kinds /\ PaymentTypeOK'
  <2>1. sent' \subseteq Events
    BY <1>1, <1>5 DEF CustomerPays, Events
  <2> QED
    BY <1>1, <1>5, <2>1 DEF CustomerPays, Bookkeeping
<1>6. ASSUME NEW s \in Sales, AttemptDeclined(s) PROVE Kinds /\ PaymentTypeOK'
  <2>1. sent' \subseteq Events
    BY <1>1, <1>6 DEF AttemptDeclined, Events
  <2> QED
    BY <1>1, <1>6, <2>1 DEF AttemptDeclined, Bookkeeping
<1>7. ASSUME NEW s \in Sales, confirmSalePayment(s) PROVE Kinds /\ PaymentTypeOK'
  BY <1>1, <1>7 DEF confirmSalePayment, Settling, webhookVars
<1>8. ASSUME NEW s \in Sales, ReservationExpires(s) PROVE Kinds /\ PaymentTypeOK'
  BY <1>1, <1>8 DEF ReservationExpires, Bookkeeping, webhookVars
<1>9. ASSUME NEW s \in Sales, JobAsksStripe(s) PROVE Kinds /\ PaymentTypeOK'
  <2>1. (stripe[s] = "paid") \in BOOLEAN
    OBVIOUS
  <2>2. verdict' \in [Sales -> SUBSET BOOLEAN]
    BY <1>1, <1>9, <2>1 DEF JobAsksStripe
  <2> QED
    BY <1>1, <1>9, <2>2 DEF JobAsksStripe, Bookkeeping, webhookVars
<1>10. ASSUME NEW s \in Sales, NEW paid \in BOOLEAN, JobSettles(s, paid)
       PROVE  Kinds /\ PaymentTypeOK'
  <2>1. verdict' \in [Sales -> SUBSET BOOLEAN]
    BY <1>1, <1>10 DEF JobSettles
  <2>2. Settling(s)
    BY <1>10 DEF JobSettles, Settling
  <2> QED
    BY <1>1, <1>10, <2>1, <2>2 DEF JobSettles, webhookVars
<1>11. ASSUME NEW s \in Sales, NEW paid \in BOOLEAN, JobFails(s, paid)
       PROVE  Kinds /\ PaymentTypeOK'
  <2>1. verdict' \in [Sales -> SUBSET BOOLEAN]
    BY <1>1, <1>11 DEF JobFails
  <2> QED
    BY <1>1, <1>11, <2>1 DEF JobFails, Bookkeeping, webhookVars
<1>12. ASSUME NEW e \in Events, claimStripeEvent(e) PROVE Kinds /\ PaymentTypeOK'
  BY <1>1, <1>12 DEF claimStripeEvent, Bookkeeping
<1>13. ASSUME NEW e \in Events, HandleEvent(e) PROVE Kinds /\ PaymentTypeOK'
  <2>1. e[2] \in Sales
    BY DEF Events
  <2>2. Settling(e[2])
    BY <1>13 DEF HandleEvent, Settling
  <2> QED
    BY <1>1, <1>13, <2>1, <2>2 DEF HandleEvent
<1>14. ASSUME NEW e \in Events, EventConflicts(e) PROVE Kinds /\ PaymentTypeOK'
  BY <1>1, <1>14 DEF EventConflicts, Bookkeeping
<1>15. ASSUME NEW e \in Events, EventErrors(e) PROVE Kinds /\ PaymentTypeOK'
  BY <1>1, <1>15 DEF EventErrors, Bookkeeping
<1>16. ASSUME NEW e \in Events, AcknowledgeConflict(e) PROVE Kinds /\ PaymentTypeOK'
  BY <1>1, <1>16 DEF AcknowledgeConflict, Bookkeeping
<1>17. CASE Restart
  BY <1>1, <1>17, CheckoutAssumption DEF Restart, Bookkeeping
<1>18. CASE UNCHANGED vars
  BY <1>1, <1>18 DEF vars, Bookkeeping, webhookVars
<1> HIDE DEF Kinds, PaymentTypeOK
<1>19. ASSUME NEW s \in Sales, SaleStep(s) PROVE Kinds /\ PaymentTypeOK'
  <2>1. ASSUME JobStep(s) PROVE Kinds /\ PaymentTypeOK'
    BY <1>10, <1>11, <2>1 DEF JobStep
  <2>2. ASSUME Selling(s) PROVE Kinds /\ PaymentTypeOK'
    BY <1>3, <2>2
  <2> QED
    BY <1>4, <1>5, <1>6, <1>7, <1>8, <1>9, <1>19, <2>1, <2>2 DEF SaleStep, Selling
<1>20. ASSUME NEW e \in Events, EventStep(e) PROVE Kinds /\ PaymentTypeOK'
  BY <1>12, <1>13, <1>14, <1>15, <1>16, <1>20 DEF EventStep
<1>21. Kinds /\ PaymentTypeOK'
  BY <1>2, <1>17, <1>18, <1>19, <1>20 DEF Next, Kinds
<1> QED
  BY <1>21

\* Every step keeps the type invariant.
LEMMA TypeStep ==
  ASSUME TypeOK, StoreStep
  PROVE  TypeOK'
<1>1. PaymentTypeOK'
  BY DEF StoreStep
<1>2. CASE Maintain
  <2>1. InventoryTypeOK'
    BY <1>2, TypeParts, MaintainType DEF Maintain
  <2>2. SaleTypeOK'
    BY <1>2, TypeParts DEF SaleTypeOK, Maintain, saleVars
  <2> QED
    BY <1>1, <2>1, <2>2, TypeParts, PTL
<1>3. ASSUME NEW s \in Sales, Selling(s) PROVE TypeOK'
  <2>1. FALSE \in BOOLEAN /\ Offline \in BOOLEAN
    BY CheckoutAssumption
  <2> QED
    BY <1>3, <2>1, CreateSaleType DEF Selling
<1>4. ASSUME NEW s \in Sales, Settling(s) PROVE TypeOK'
  BY <1>1, <1>4, SettlingStepType DEF Settling
<1>5. CASE Bookkeeping
  BY <1>1, <1>5, BookkeepingStepType DEF Bookkeeping
<1> QED
  BY <1>2, <1>3, <1>4, <1>5 DEF StoreStep

\* The initial state has the types.
LEMMA TypeInit ==
  ASSUME Init
  PROVE  TypeOK
BY InventoryAssumption, CheckoutAssumption
DEF Init, TypeOK, InventoryInit, InventoryTypeOK, StockTypeOK, LotStatus, PaymentStatus,
    NoItems, NoAllocation, Allocation

\* Every column keeps its type, in any instance: quantities stay integers,
\* events are only processed when they were sent, and a running handler always
\* owns its claim.
THEOREM TypeCorrect == Spec => []TypeOK
<1>1. Init => TypeOK
  BY TypeInit
<1>2. TypeOK /\ [Next]_vars => TypeOK'
  BY TypeStep, StepKinds
<1> QED
  BY <1>1, <1>2, PTL DEF Spec

-----------------------------------------------------------------------------
(* Holds.  Nothing is allocated from a lot before it is received: with the    *)
(* type invariant this makes HoldsMatchPending inductive.                     *)

AbsentUnallocated ==
  \A l \in Lots, s \in Sales : lotStatus[l] = "ABSENT" => allocation[s][l] = 0

HoldInv == TypeOK /\ HoldsMatchPending /\ AbsentUnallocated

\* The units each sale took from a lot are a natural column over the sales.
LEMMA UnitsFromType ==
  ASSUME TypeOK, NEW l \in Lots, NEW S \in SUBSET Sales
  PROVE  IsFiniteSet(S) /\ NaturalOn(UnitsFrom(l), S) /\ IntegerOn(UnitsFrom(l), S)
<1>1. \A s \in S : UnitsFrom(l)[s] \in Nat
  BY DEF TypeOK, UnitsFrom, Allocation
<1> QED
  BY <1>1, CheckoutAssumption, FS_Subset DEF NaturalOn, IntegerOn

\* What a PENDING sale was allocated is part of what the lot holds.
LEMMA HoldShare ==
  ASSUME TypeOK, HoldsMatchPending, NEW l \in Lots
  PROVE  /\ quantityReserved[l] \in Nat
         /\ \A s \in PendingSales : allocation[s][l] <= quantityReserved[l]
<1>1. PendingSales \in SUBSET Sales
  BY DEF PendingSales
<1>2. /\ IsFiniteSet(PendingSales)
      /\ NaturalOn(UnitsFrom(l), PendingSales)
  BY <1>1, UnitsFromType
<1>3. Total(UnitsFrom(l), PendingSales) \in Nat
  BY <1>2, TotalNatural
<1>4. \A s \in PendingSales : UnitsFrom(l)[s] <= Total(UnitsFrom(l), PendingSales)
  BY <1>2, TotalMember
<1>5. \A s \in PendingSales : UnitsFrom(l)[s] = allocation[s][l]
  BY <1>1 DEF UnitsFrom
<1> QED
  BY <1>3, <1>4, <1>5 DEF HoldsMatchPending

\* finalizePaidSale finds the hold of a PENDING sale whole, or the last-chance
\* claim is refused: the sale's own units are among the reserved ones, which
\* the claim must not touch.
LEMMA FreeRefused ==
  ASSUME TypeOK, HoldsMatchPending, NEW s \in PendingSales, FreeCovered(Free(s))
  PROVE  /\ \A p \in Products : ReservationIntact(s, p)
         /\ Free(s) = NoAllocation
         /\ Held(s) = allocation[s]
<1>1. s \in Sales /\ allocation[s] \in [Lots -> Nat]
  BY DEF TypeOK, PendingSales, Allocation
<1>2. \A l \in Lots : /\ quantityReserved[l] \in Nat
                      /\ allocation[s][l] <= quantityReserved[l]
                      /\ quantityRemaining[l] \in Int
  BY HoldShare DEF TypeOK, InventoryTypeOK, StockTypeOK
<1>3. ASSUME NEW p \in Products, ~ReservationIntact(s, p)
      PROVE  FALSE
  <2>1. PICK l \in LotsOf(p) : /\ allocation[s][l] > 0
                               /\ \/ ~(quantityReserved[l] >= allocation[s][l])
                                  \/ ~(quantityRemaining[l] >= allocation[s][l])
    BY <1>3 DEF ReservationIntact
  <2>2. l \in Lots /\ ProductOf[l] = p
    BY DEF LotsOf
  <2>3. Free(s)[l] = allocation[s][l]
    BY <1>3, <2>2 DEF Free
  <2>4. quantityRemaining[l] - quantityReserved[l] >= allocation[s][l]
    BY <2>1, <2>2, <2>3 DEF FreeCovered
  <2> QED
    BY <1>1, <1>2, <2>1, <2>2, <2>4
<1>4. \A l \in Lots : ReservationIntact(s, ProductOf[l])
  BY <1>3, LotsAssumption
<1>5. Free(s) = NoAllocation
  BY <1>4 DEF Free, NoAllocation
<1>6. Held(s) = allocation[s]
  BY <1>1, <1>4 DEF Held
<1> QED
  BY <1>3, <1>5, <1>6

\* A step that leaves the PENDING sales and the holds alone.
LEMMA HoldsKept ==
  ASSUME TypeOK, HoldsMatchPending, UNCHANGED quantityReserved,
         \A s \in Sales : paymentStatus'[s] = "PENDING" <=> paymentStatus[s] = "PENDING",
         \A s \in PendingSales : allocation'[s] = allocation[s]
  PROVE  HoldsMatchPending'
<1>1. PendingSales' = PendingSales
  BY DEF PendingSales
<1>2. ASSUME NEW l \in Lots
      PROVE  Total(UnitsFrom(l)', PendingSales) = Total(UnitsFrom(l), PendingSales)
  <2>1. PendingSales \in SUBSET Sales
    BY DEF PendingSales
  <2>2. IntegerOn(UnitsFrom(l), PendingSales)
    BY <2>1, UnitsFromType
  <2>3. \A s \in PendingSales : UnitsFrom(l)[s] = UnitsFrom(l)'[s]
    BY <2>1 DEF UnitsFrom
  <2> QED
    BY <2>2, <2>3, TotalExtensional
<1> QED
  BY <1>1, <1>2 DEF HoldsMatchPending

\* A PENDING sale settles and its units leave the hold.
LEMMA HoldsDropped ==
  ASSUME TypeOK, HoldsMatchPending, NEW s \in PendingSales, UNCHANGED allocation,
         paymentStatus' = [paymentStatus EXCEPT ![s] = paymentStatus'[s]],
         paymentStatus'[s] # "PENDING",
         \A l \in Lots : quantityReserved'[l] = quantityReserved[l] - allocation[s][l]
  PROVE  HoldsMatchPending'
<1> DEFINE rest == PendingSales \ {s}
<1>1. s \in Sales /\ PendingSales' = rest
  BY DEF PendingSales, TypeOK
<1>2. ASSUME NEW l \in Lots
      PROVE  quantityReserved'[l] = Total(UnitsFrom(l), rest)
  <2>1. PendingSales \in SUBSET Sales /\ rest \in SUBSET Sales
    BY DEF PendingSales
  <2>2. /\ IsFiniteSet(rest) /\ IsFiniteSet({s})
        /\ IntegerOn(UnitsFrom(l), rest) /\ IntegerOn(UnitsFrom(l), PendingSales)
    BY <2>1, UnitsFromType, FS_Singleton
  <2>3. PendingSales = rest \cup {s} /\ rest \cap {s} = {}
    OBVIOUS
  <2>4. Total(UnitsFrom(l), PendingSales) =
          Total(UnitsFrom(l), rest) + Total(UnitsFrom(l), {s})
    <3> HIDE DEF rest
    <3> QED
      BY <2>2, <2>3, TotalDisjoint
  <2>5. UnitsFrom(l)[s] = allocation[s][l] /\ allocation[s][l] \in Int
    BY <1>1 DEF UnitsFrom, TypeOK, Allocation
  <2>6. Total(UnitsFrom(l), {s}) = allocation[s][l]
    BY <2>5, TotalSingleton
  <2>7. Total(UnitsFrom(l), rest) \in Int
    BY <2>2, TotalType
  <2> QED
    BY <2>4, <2>5, <2>6, <2>7 DEF HoldsMatchPending
<1>3. \A l \in Lots : UnitsFrom(l)' = UnitsFrom(l)
  BY DEF UnitsFrom
<1> HIDE DEF rest
<1> QED
  BY <1>1, <1>2, <1>3 DEF HoldsMatchPending

\* A new PENDING sale and its units join the hold.
LEMMA HoldsTaken ==
  ASSUME TypeOK, TypeOK', HoldsMatchPending, NEW s \in Sales \ PendingSales,
         paymentStatus' = [paymentStatus EXCEPT ![s] = "PENDING"],
         \A t \in Sales \ {s} : allocation'[t] = allocation[t],
         \A l \in Lots : quantityReserved'[l] = quantityReserved[l] + allocation'[s][l]
  PROVE  HoldsMatchPending'
<1>1. PendingSales' = PendingSales \cup {s} /\ PendingSales \cap {s} = {}
  BY DEF PendingSales, TypeOK
<1>2. ASSUME NEW l \in Lots
      PROVE  quantityReserved'[l] = Total(UnitsFrom(l)', PendingSales \cup {s})
  <2> DEFINE f == UnitsFrom(l)
             g == [t \in Sales |-> allocation'[t][l]]
  <2>1. PendingSales \in SUBSET Sales
    BY DEF PendingSales
  <2>2. IsFiniteSet(PendingSales) /\ IsFiniteSet({s}) /\ IntegerOn(f, PendingSales)
    BY <2>1, UnitsFromType, FS_Singleton
  <2>3. \A t \in Sales : g[t] \in Int
    BY DEF TypeOK, Allocation
  <2>4. \A t \in PendingSales : f[t] = g[t]
    BY <2>1 DEF UnitsFrom
  <2>5. g[s] = allocation'[s][l] /\ UnitsFrom(l)' = g
    BY DEF UnitsFrom
  <2> HIDE DEF f, g
  <2>6. IntegerOn(g, PendingSales \cup {s})
    BY <2>1, <2>3 DEF IntegerOn
  <2>7. Total(g, PendingSales \cup {s}) = Total(g, PendingSales) + Total(g, {s})
    BY <1>1, <2>2, <2>6, TotalDisjoint
  <2>8. Total(g, {s}) = g[s]
    BY <2>3, TotalSingleton
  <2>9. Total(g, PendingSales) = Total(f, PendingSales)
    BY <2>2, <2>4, TotalExtensional
  <2> QED
    BY <2>5, <2>7, <2>8, <2>9 DEF HoldsMatchPending, f
<1> QED
  BY <1>1, <1>2 DEF HoldsMatchPending

\* Maintenance moves no hold: the only lot it gives a new quantityReserved is
\* one that had none.
LEMMA MaintainHolds ==
  ASSUME HoldInv, InventoryNext
  PROVE  /\ UNCHANGED quantityReserved
         /\ \A l \in Lots : lotStatus'[l] = "ABSENT" => lotStatus[l] = "ABSENT"
<1>1. /\ lotStatus \in [Lots -> LotStatus]
      /\ quantityReserved \in [Lots -> Int]
  BY DEF HoldInv, TypeOK, InventoryTypeOK, StockTypeOK
<1>2. PICK l \in Lots : \/ \E qty \in 0 .. MaxUnits : ReceiveLot(l, qty)
                        \/ \E qty \in 0 .. MaxUnits : adjustLot(l, qty)
                        \/ quarantineLot(l)
                        \/ runExpireLotsOnce(l)
  BY DEF InventoryNext
<1>3. ASSUME NEW qty \in 0 .. MaxUnits, ReceiveLot(l, qty)
      PROVE  /\ UNCHANGED quantityReserved
             /\ \A k \in Lots : lotStatus'[k] = "ABSENT" => lotStatus[k] = "ABSENT"
  <2>1. addLot(l, qty)
    BY <1>3 DEF ReceiveLot
  <2>2. PendingSales \in SUBSET Sales
    BY DEF PendingSales
  <2>3. \A s \in PendingSales : UnitsFrom(l)[s] = 0
    BY <2>1, <2>2 DEF HoldInv, AbsentUnallocated, UnitsFrom, addLot
  <2>4. quantityReserved[l] = 0
    BY <2>3, TotalZero DEF HoldInv, HoldsMatchPending
  <2> QED
    BY <1>1, <2>1, <2>4 DEF addLot
<1>4. ASSUME NEW qty \in 0 .. MaxUnits, adjustLot(l, qty)
      PROVE  /\ UNCHANGED quantityReserved
             /\ \A k \in Lots : lotStatus'[k] = "ABSENT" => lotStatus[k] = "ABSENT"
  BY <1>1, <1>4 DEF adjustLot, setLotRemaining, StatusAtTarget
<1>5. CASE quarantineLot(l)
  BY <1>1, <1>5 DEF quarantineLot, leaveSellableRollup
<1>6. CASE runExpireLotsOnce(l)
  BY <1>1, <1>6 DEF runExpireLotsOnce, leaveSellableRollup
<1> QED
  BY <1>2, <1>3, <1>4, <1>5, <1>6

\* Settling a sale: a PENDING one converts or releases exactly its own hold, a
\* settled one changes nothing.
LEMMA SettlingCases ==
  ASSUME TypeOK, HoldsMatchPending, NEW s \in Sales, Settling(s)
  PROVE  \/ /\ s \in PendingSales
            /\ \/ consume(allocation[s], NoAllocation)
               \/ release(allocation[s])
            /\ UNCHANGED <<cash, saleItem, allocation>>
            /\ paymentStatus' = [paymentStatus EXCEPT ![s] = paymentStatus'[s]]
            /\ paymentStatus'[s] # "PENDING"
         \/ UNCHANGED <<stockVars, saleVars>>
<1>1. paymentStatus \in [Sales -> PaymentStatus]
  BY DEF TypeOK
<1>2. CASE /\ paymentStatus[s] = "PENDING"
           /\ consume(Held(s), Free(s))
           /\ paymentStatus' = [paymentStatus EXCEPT ![s] = "PAID"]
           /\ UNCHANGED <<cash, saleItem, allocation>>
  <2>1. s \in PendingSales /\ FreeCovered(Free(s))
    BY <1>2 DEF PendingSales, consume
  <2>2. Free(s) = NoAllocation /\ Held(s) = allocation[s]
    BY <2>1, FreeRefused
  <2> QED
    BY <1>1, <1>2, <2>1, <2>2
<1>3. ASSUME NEW nextStatus \in {"FAILED", "EXPIRED"}, paymentStatus[s] = "PENDING",
             release(allocation[s]),
             paymentStatus' = [paymentStatus EXCEPT ![s] = nextStatus],
             UNCHANGED <<cash, saleItem, allocation>>
      PROVE  /\ s \in PendingSales
             /\ release(allocation[s])
             /\ UNCHANGED <<cash, saleItem, allocation>>
             /\ paymentStatus' = [paymentStatus EXCEPT ![s] = paymentStatus'[s]]
             /\ paymentStatus'[s] # "PENDING"
  BY <1>1, <1>3 DEF PendingSales
<1> QED
  BY <1>2, <1>3 DEF Settling, finalizePaidSale, settleUnpaidSale

\* Every step keeps the hold invariant.
LEMMA HoldStep ==
  ASSUME HoldInv, StoreStep
  PROVE  HoldInv'
<1>1. TypeOK /\ HoldsMatchPending /\ AbsentUnallocated
  BY DEF HoldInv
<1>2. TypeOK'
  BY <1>1, TypeStep
<1>3. CASE Maintain
  <2>1. /\ UNCHANGED quantityReserved
        /\ \A l \in Lots : lotStatus'[l] = "ABSENT" => lotStatus[l] = "ABSENT"
        /\ UNCHANGED saleVars
    BY <1>3, MaintainHolds DEF Maintain
  <2>2. HoldsMatchPending'
    BY <1>1, <2>1, HoldsKept DEF saleVars
  <2>3. AbsentUnallocated'
    BY <1>1, <2>1 DEF AbsentUnallocated, saleVars
  <2> QED
    BY <1>2, <2>2, <2>3 DEF HoldInv
<1>4. ASSUME NEW s \in Sales, Selling(s) PROVE HoldInv'
  <2>1. PICK cart \in Carts :
          \/ createCardSale(s, cart)
          \/ \E offlineSync \in {FALSE, Offline} : createCashSale(s, cart, offlineSync)
    BY <1>4 DEF Selling
  <2>2. cart \in [Products -> Nat] /\ StockTypeOK /\ s \notin PendingSales
    BY <1>1, <2>1, CartType
    DEF TypeOK, InventoryTypeOK, PendingSales, createCardSale, createCashSale
  <2>3. CASE createCardSale(s, cart)
    <3> DEFINE a == allocateFefo(cart, FALSE)
    <3>1. a \in Allocation /\ \A l \in Lots : a[l] > 0 => lotStatus[l] = "ACTIVE"
      BY <2>2, AllocateFefo
    <3>2. /\ allocation' = [allocation EXCEPT ![s] = a]
          /\ paymentStatus' = [paymentStatus EXCEPT ![s] = "PENDING"]
          /\ reserve(a)
      BY <2>3 DEF createCardSale
    <3> HIDE DEF a
    <3>3. allocation \in [Sales -> Allocation]
      BY <1>1 DEF TypeOK
    <3>4. HoldsMatchPending'
      BY <1>1, <1>2, <2>2, <3>2, <3>3, HoldsTaken DEF reserve
    <3>5. AbsentUnallocated'
      BY <1>1, <3>1, <3>2, <3>3 DEF AbsentUnallocated, reserve, Allocation
    <3> QED
      BY <1>2, <3>4, <3>5 DEF HoldInv
  <2>4. ASSUME NEW offlineSync \in {FALSE, Offline}, createCashSale(s, cart, offlineSync)
        PROVE  HoldInv'
    <3> DEFINE a == allocateFefo(cart, offlineSync)
    <3>1. offlineSync \in BOOLEAN
      BY CheckoutAssumption
    <3>2. a \in Allocation /\ \A l \in Lots : a[l] > 0 => lotStatus[l] = "ACTIVE"
      BY <2>2, <3>1, AllocateFefo
    <3>3. /\ allocation' = [allocation EXCEPT ![s] = a]
          /\ paymentStatus' = [paymentStatus EXCEPT ![s] = "PAID"]
          /\ consumeDirect(a)
      BY <2>4 DEF createCashSale
    <3> HIDE DEF a
    <3>4. allocation \in [Sales -> Allocation] /\ paymentStatus \in [Sales -> PaymentStatus]
      BY <1>1 DEF TypeOK
    <3>5. HoldsMatchPending'
      <4>1. \A t \in Sales : paymentStatus'[t] = "PENDING" <=> paymentStatus[t] = "PENDING"
        BY <2>2, <3>3, <3>4 DEF PendingSales
      <4>2. \A t \in PendingSales : allocation'[t] = allocation[t]
        BY <2>2, <3>3, <3>4 DEF PendingSales
      <4>3. UNCHANGED quantityReserved
        BY <3>3 DEF consumeDirect
      <4> QED
        BY <1>1, <4>1, <4>2, <4>3, HoldsKept
    <3>6. AbsentUnallocated'
      BY <1>1, <3>2, <3>3, <3>4
      DEF AbsentUnallocated, consumeDirect, DepletedAtZero, Allocation
    <3> QED
      BY <1>2, <3>5, <3>6 DEF HoldInv
  <2> QED
    BY <2>1, <2>3, <2>4
<1>5. ASSUME NEW s \in Sales, Settling(s) PROVE HoldInv'
  <2>1. CASE /\ s \in PendingSales
             /\ \/ consume(allocation[s], NoAllocation)
                \/ release(allocation[s])
             /\ UNCHANGED <<cash, saleItem, allocation>>
             /\ paymentStatus' = [paymentStatus EXCEPT ![s] = paymentStatus'[s]]
             /\ paymentStatus'[s] # "PENDING"
    <3>1. \A l \in Lots : quantityReserved'[l] = quantityReserved[l] - allocation[s][l]
      BY <2>1 DEF consume, release
    <3>2. HoldsMatchPending'
      BY <1>1, <2>1, <3>1, HoldsDropped
    <3>3. AbsentUnallocated'
      BY <1>1, <2>1 DEF AbsentUnallocated, consume, release, DepletedAtZero
    <3> QED
      BY <1>2, <3>2, <3>3 DEF HoldInv
  <2>2. CASE UNCHANGED <<stockVars, saleVars>>
    <3>1. HoldsMatchPending'
      BY <1>1, <2>2, HoldsKept DEF stockVars, lotVars, saleVars
    <3>2. AbsentUnallocated'
      BY <1>1, <2>2 DEF AbsentUnallocated, stockVars, lotVars, saleVars
    <3> QED
      BY <1>2, <3>1, <3>2 DEF HoldInv
  <2> QED
    BY <1>1, <1>5, <2>1, <2>2, SettlingCases
<1>6. CASE Bookkeeping
  <2>1. UNCHANGED <<stockVars, saleVars>>
    BY <1>6 DEF Bookkeeping, inventoryVars
  <2>2. HoldsMatchPending'
    BY <1>1, <2>1, HoldsKept DEF stockVars, lotVars, saleVars
  <2>3. AbsentUnallocated'
    BY <1>1, <2>1 DEF AbsentUnallocated, stockVars, lotVars, saleVars
  <2> QED
    BY <1>2, <2>2, <2>3 DEF HoldInv
<1> QED
  BY <1>1, <1>3, <1>4, <1>5, <1>6 DEF StoreStep

\* Before the first lot there are no holds.
LEMMA HoldInit ==
  ASSUME Init
  PROVE  HoldInv
<1>1. TypeOK
  BY TypeInit
<1>2. PendingSales = {}
  BY DEF Init, PendingSales
<1>3. \A l \in Lots : Total(UnitsFrom(l), PendingSales) = 0
  BY <1>2, TotalZero
<1>4. \A l \in Lots : quantityReserved[l] = 0
  BY DEF Init, InventoryInit
<1>5. AbsentUnallocated
  BY DEF Init, AbsentUnallocated, NoAllocation
<1> QED
  BY <1>1, <1>3, <1>4, <1>5 DEF HoldInv, HoldsMatchPending

\* The hold invariant is an invariant.
LEMMA HoldInvariant == Spec => []HoldInv
<1>1. Init => HoldInv
  BY HoldInit
<1>2. HoldInv /\ [Next]_vars => HoldInv'
  BY HoldStep, StepKinds DEF HoldInv
<1> QED
  BY <1>1, <1>2, PTL DEF Spec

\* In any instance, oversold or not, the units held on a lot are those of the
\* PENDING sales: webhook, confirm endpoint and expiry job together drop every
\* hold once.
THEOREM HoldsMatch == Spec => []HoldsMatchPending
BY HoldInvariant, PTL DEF HoldInv

\* The last-chance claim of finalizePaidSale never succeeds.
THEOREM LastChanceNever == Spec => []LastChanceRefused
<1>1. HoldInv => LastChanceRefused
  BY FreeRefused DEF HoldInv, LastChanceRefused
<1> QED
  BY <1>1, HoldInvariant, PTL

-----------------------------------------------------------------------------
(* Stock, while tills are online.  The rollup is not inductive alone: a lot   *)
(* that leaves sale must hold nothing and not be oversold, which is what      *)
(* HoldsBacked and NotOversold say; both need HoldsMatchPending.              *)

NotOversold == \A l \in Lots : quantityRemaining[l] >= 0

StockInv == HoldInv /\ StockRollup /\ HoldsBacked /\ NotOversold

\* What StockInv says of one lot.
LEMMA LotFacts ==
  ASSUME StockInv, NEW l \in Lots
  PROVE  /\ quantityRemaining[l] \in Nat
         /\ quantityReserved[l] \in Nat
         /\ quantityReserved[l] <= quantityRemaining[l]
         /\ lotStatus[l] # "ACTIVE" => quantityReserved[l] = 0
<1>1. quantityReserved[l] \in Nat
  BY HoldShare DEF StockInv, HoldInv
<1>2. quantityRemaining[l] \in Int
  BY DEF StockInv, HoldInv, TypeOK, InventoryTypeOK, StockTypeOK
<1> QED
  BY <1>1, <1>2 DEF StockInv, HoldsBacked, NotOversold

\* Maintenance of lots keeps the rollup, and takes no held unit.
LEMMA MaintainStock ==
  ASSUME StockInv, InventoryNext
  PROVE  StockRollup' /\ HoldsBacked' /\ NotOversold'
<1>1. StockTypeOK /\ StockRollup /\ HoldsBacked /\ NotOversold
  BY DEF StockInv, HoldInv, TypeOK, InventoryTypeOK
<1>2. \A k \in Lots : /\ quantityRemaining[k] \in Nat
                      /\ quantityReserved[k] \in Nat
                      /\ quantityReserved[k] <= quantityRemaining[k]
                      /\ lotStatus[k] # "ACTIVE" => quantityReserved[k] = 0
  BY LotFacts
<1>3. /\ lotStatus \in [Lots -> LotStatus]
      /\ quantityRemaining \in [Lots -> Int]
      /\ quantityReserved \in [Lots -> Int]
  BY <1>1 DEF StockTypeOK
<1>4. PICK l \in Lots : \/ \E qty \in 0 .. MaxUnits : ReceiveLot(l, qty)
                        \/ \E qty \in 0 .. MaxUnits : adjustLot(l, qty)
                        \/ quarantineLot(l)
                        \/ runExpireLotsOnce(l)
  BY DEF InventoryNext
<1>5. ASSUME NEW qty \in 0 .. MaxUnits, ReceiveLot(l, qty)
      PROVE  StockRollup' /\ HoldsBacked' /\ NotOversold'
  <2>1. qty \in Nat /\ addLot(l, qty)
    BY <1>5, InventoryAssumption DEF ReceiveLot
  <2>2. StockRollup'
    BY <1>1, <2>1, addLotRollup
  <2>3. HoldsBacked' /\ NotOversold'
    BY <1>2, <1>3, <2>1 DEF HoldsBacked, NotOversold, addLot
  <2> QED
    BY <2>2, <2>3
<1>6. ASSUME NEW qty \in 0 .. MaxUnits, adjustLot(l, qty)
      PROVE  StockRollup' /\ HoldsBacked' /\ NotOversold'
  <2>1. qty \in Nat /\ setLotRemaining(l, qty)
    BY <1>6, InventoryAssumption DEF adjustLot
  <2>2. StockRollup'
    BY <1>1, <1>2, <2>1, setLotRemainingRollup
  <2>3. HoldsBacked' /\ NotOversold'
    BY <1>2, <1>3, <2>1 DEF HoldsBacked, NotOversold, setLotRemaining, StatusAtTarget
  <2> QED
    BY <2>2, <2>3
<1>7. ASSUME NEW nextStatus \in {"QUARANTINED", "EXPIRED"},
             leaveSellableRollup({l}, nextStatus), quantityReserved[l] <= 0
      PROVE  StockRollup' /\ HoldsBacked' /\ NotOversold'
  <2>1. /\ {l} \in SUBSET Lots
        /\ nextStatus \in LotStatus \ {"ACTIVE"}
        /\ \A k \in {l} : quantityReserved[k] = 0 /\ quantityRemaining[k] >= 0
    BY <1>2, <1>7 DEF LotStatus
  <2>2. StockRollup'
    BY <1>1, <1>7, <2>1, leaveSellableRollupRollup
  <2>3. HoldsBacked' /\ NotOversold'
    BY <1>2, <1>3, <1>7 DEF HoldsBacked, NotOversold, leaveSellableRollup
  <2> QED
    BY <2>2, <2>3
<1>8. CASE quarantineLot(l)
  BY <1>7, <1>8 DEF quarantineLot
<1>9. CASE runExpireLotsOnce(l)
  BY <1>7, <1>9 DEF runExpireLotsOnce
<1> QED
  BY <1>4, <1>5, <1>6, <1>8, <1>9

\* A new sale takes or holds free units of ACTIVE lots.
LEMMA SellingStock ==
  ASSUME ~Offline, StockInv, NEW s \in Sales, Selling(s)
  PROVE  StockRollup' /\ HoldsBacked' /\ NotOversold'
<1>1. StockTypeOK /\ StockRollup /\ HoldsBacked /\ NotOversold
  BY DEF StockInv, HoldInv, TypeOK, InventoryTypeOK
<1>2. \A l \in Lots : /\ quantityRemaining[l] \in Nat
                      /\ quantityReserved[l] \in Nat
                      /\ quantityReserved[l] <= quantityRemaining[l]
                      /\ lotStatus[l] # "ACTIVE" => quantityReserved[l] = 0
  BY LotFacts
<1>3. PICK cart \in Carts : createCardSale(s, cart) \/ createCashSale(s, cart, FALSE)
  <2>1. Offline = FALSE
    BY CheckoutAssumption
  <2>2. {FALSE, Offline} = {FALSE}
    BY <2>1
  <2> QED
    BY <2>2 DEF Selling
<1> DEFINE a == allocateFefo(cart, FALSE)
<1>4. cart \in [Products -> Nat]
  BY CartType
<1>5. /\ a \in Allocation
      /\ \A l \in Lots : a[l] > 0 => /\ lotStatus[l] = "ACTIVE"
                                     /\ a[l] <= quantityRemaining[l] - quantityReserved[l]
  BY <1>1, <1>4, AllocateFefo
<1>6. reserve(a) \/ consumeDirect(a)
  BY <1>3 DEF createCardSale, createCashSale
<1> HIDE DEF a
<1>7. a \in [Lots -> Nat]
  BY <1>5 DEF Allocation
<1>8. CASE reserve(a)
  <2>1. StockRollup'
    BY <1>1, <1>5, <1>8, reserveRollup
  <2>2. HoldsBacked' /\ NotOversold'
    BY <1>2, <1>5, <1>7, <1>8 DEF HoldsBacked, NotOversold, reserve
  <2> QED
    BY <2>1, <2>2
<1>9. CASE consumeDirect(a)
  <2>1. \A l \in Lots : a[l] > 0 => quantityReserved[l] >= 0
    BY <1>2
  <2>2. StockRollup'
    BY <1>1, <1>5, <1>9, <2>1, consumeDirectRollup
  <2>3. HoldsBacked' /\ NotOversold'
    BY <1>2, <1>5, <1>7, <1>9 DEF HoldsBacked, NotOversold, consumeDirect, DepletedAtZero
  <2> QED
    BY <2>2, <2>3
<1> QED
  BY <1>6, <1>8, <1>9

\* What a PENDING sale was allocated is held on ACTIVE lots that have it.
LEMMA AllocationBacked ==
  ASSUME StockInv, NEW s \in PendingSales
  PROVE  /\ allocation[s] \in Allocation
         /\ \A l \in Lots : /\ allocation[s][l] \in Nat
                            /\ allocation[s][l] <= quantityReserved[l]
                            /\ quantityReserved[l] <= quantityRemaining[l]
                            /\ allocation[s][l] > 0 => lotStatus[l] = "ACTIVE"
<1>1. s \in Sales /\ TypeOK /\ HoldsMatchPending
  BY DEF PendingSales, StockInv, HoldInv
<1>2. allocation[s] \in Allocation
  BY <1>1 DEF TypeOK
<1>3. \A l \in Lots : allocation[s][l] \in Nat /\ allocation[s][l] <= quantityReserved[l]
  BY <1>1, <1>2, HoldShare DEF Allocation
<1> QED
  BY <1>2, <1>3, LotFacts

\* Settling a sale converts or releases units that are held and on the shelf.
LEMMA SettlingStock ==
  ASSUME StockInv, NEW s \in Sales, Settling(s)
  PROVE  StockRollup' /\ HoldsBacked' /\ NotOversold'
<1>1. StockTypeOK /\ StockRollup /\ HoldsBacked /\ NotOversold /\ TypeOK /\ HoldsMatchPending
  BY DEF StockInv, HoldInv, TypeOK, InventoryTypeOK
<1>2. \A l \in Lots : /\ quantityRemaining[l] \in Nat
                      /\ quantityReserved[l] \in Nat
                      /\ quantityReserved[l] <= quantityRemaining[l]
  BY LotFacts
<1>3. CASE s \in PendingSales /\ consume(allocation[s], NoAllocation)
  <2>1. StockRollup'
    BY <1>1, <1>3, AllocationBacked, consumeRollup
  <2>2. HoldsBacked' /\ NotOversold'
    BY <1>1, <1>2, <1>3, AllocationBacked
    DEF HoldsBacked, NotOversold, consume, DepletedAtZero, NoAllocation
  <2> QED
    BY <2>1, <2>2
<1>4. CASE s \in PendingSales /\ release(allocation[s])
  <2>1. StockRollup'
    BY <1>1, <1>4, AllocationBacked, releaseRollup
  <2>2. HoldsBacked' /\ NotOversold'
    BY <1>1, <1>2, <1>4, AllocationBacked DEF HoldsBacked, NotOversold, release
  <2> QED
    BY <2>1, <2>2
<1>5. CASE UNCHANGED <<stockVars, saleVars>>
  BY <1>1, <1>5 DEF StockRollup, ActiveLots, HoldsBacked, NotOversold, stockVars, lotVars,
                    productVars
<1> QED
  BY <1>1, <1>3, <1>4, <1>5, SettlingCases

\* Every online step keeps the stock invariant.
LEMMA StockStep ==
  ASSUME ~Offline, StockInv, [Next]_vars
  PROVE  StockInv'
<1>1. HoldInv'
  BY HoldStep, StepKinds DEF StockInv, HoldInv
<1>2. ASSUME Maintain PROVE StockRollup' /\ HoldsBacked' /\ NotOversold'
  BY <1>2, MaintainStock DEF Maintain
<1>3. ASSUME NEW s \in Sales, Selling(s) PROVE StockRollup' /\ HoldsBacked' /\ NotOversold'
  BY <1>3, SellingStock
<1>4. ASSUME NEW s \in Sales, Settling(s) PROVE StockRollup' /\ HoldsBacked' /\ NotOversold'
  BY <1>4, SettlingStock
<1>5. ASSUME Bookkeeping PROVE StockRollup' /\ HoldsBacked' /\ NotOversold'
  BY <1>5 DEF StockInv, Bookkeeping, inventoryVars, stockVars, lotVars, productVars,
              StockRollup, ActiveLots, HoldsBacked, NotOversold
<1>6. TypeOK
  BY DEF StockInv, HoldInv
<1>7. StockRollup' /\ HoldsBacked' /\ NotOversold'
  BY <1>2, <1>3, <1>4, <1>5, <1>6, StepKinds DEF StoreStep
<1> QED
  BY <1>1, <1>7 DEF StockInv

\* The stock invariant is an invariant while tills are online.
LEMMA StockInvariant ==
  ASSUME ~Offline
  PROVE  Spec => []StockInv
<1>1. Init => StockInv
  <2> SUFFICES ASSUME Init PROVE StockInv
    OBVIOUS
  <2>1. \A p \in Products : ActiveLots(p) = {}
    BY DEF Init, InventoryInit, ActiveLots, LotsOf
  <2>2. \A p \in Products : /\ Total(quantityRemaining, ActiveLots(p)) = 0
                            /\ Total(quantityReserved, ActiveLots(p)) = 0
    BY <2>1, TotalZero
  <2>3. StockRollup
    BY <2>2 DEF Init, InventoryInit, StockRollup
  <2>4. HoldsBacked /\ NotOversold
    BY DEF Init, InventoryInit, HoldsBacked, NotOversold
  <2> QED
    BY <2>3, <2>4, HoldInit DEF StockInv
<1>2. StockInv /\ [Next]_vars => StockInv'
  BY StockStep
<1> QED
  BY <1>1, <1>2, PTL DEF Spec

\* While tills are online, Product.stock and Product.reserved are the sums over
\* the ACTIVE lots after every commit, for any number of lots and sales and
\* whatever the jobs, the webhooks and the inventory staff do meanwhile.
THEOREM RollupHolds ==
  ASSUME ~Offline
  PROVE  Spec => []StockRollup
BY StockInvariant, PTL DEF StockInv

\* While tills are online, a held unit is on the shelf of a lot on sale.
THEOREM HoldsAreBacked ==
  ASSUME ~Offline
  PROVE  Spec => []HoldsBacked
BY StockInvariant, PTL DEF StockInv

\* A hold is covered by the product row, so converting it is never refused.
LEMMA PendingCanConsume ==
  ASSUME StockInv, NEW s \in PendingSales
  PROVE  CanConsume(s)
<1>1. StockTypeOK /\ StockRollup /\ TypeOK /\ HoldsMatchPending
  BY DEF StockInv, HoldInv, TypeOK, InventoryTypeOK
<1>2. /\ allocation[s] \in Allocation
      /\ \A l \in Lots : /\ allocation[s][l] \in Nat
                         /\ allocation[s][l] <= quantityReserved[l]
                         /\ quantityReserved[l] <= quantityRemaining[l]
                         /\ allocation[s][l] > 0 => lotStatus[l] = "ACTIVE"
  BY AllocationBacked
<1>3. \A l \in Lots : ReservationIntact(s, ProductOf[l])
  <2>1. \A l \in Lots : quantityReserved[l] \in Int /\ quantityRemaining[l] \in Int
    BY <1>1 DEF StockTypeOK
  <2> QED
    BY <1>2, <2>1 DEF ReservationIntact, LotsOf
<1>4. Held(s) = allocation[s] /\ Free(s) = NoAllocation
  BY <1>2, <1>3 DEF Held, Free, NoAllocation, Allocation
<1>5. FreeCovered(NoAllocation)
  <2>1. \A p \in Products : LineQty(NoAllocation, p) = 0
    BY LineChange DEF LineQty
  <2> QED
    BY <2>1 DEF FreeCovered, NoAllocation
<1>6. HeldCovered(allocation[s])
  <2> SUFFICES ASSUME NEW p \in Products
               PROVE  /\ reserved[p] >= LineQty(allocation[s], p)
                      /\ stock[p] >= LineQty(allocation[s], p)
    BY DEF HeldCovered
  <2>1. /\ stock[p] = Total(quantityRemaining, ActiveLots(p))
        /\ reserved[p] = Total(quantityReserved, ActiveLots(p))
    BY <1>1 DEF StockRollup
  <2>2. ActiveLots(p) \in SUBSET LotsOf(p) /\ LotsOf(p) \subseteq Lots
    BY DEF ActiveLots, LotsOf
  <2>3. Total(allocation[s], ActiveLots(p)) = LineQty(allocation[s], p)
    <3>1. IntegerOn(allocation[s], LotsOf(p))
      BY <1>2, <2>2 DEF IntegerOn
    <3>2. \A l \in LotsOf(p) \ ActiveLots(p) : allocation[s][l] = 0
      BY <1>2, <2>2 DEF ActiveLots
    <3> QED
      BY <2>2, <3>1, <3>2, LotsOfFinite, TotalFiltered DEF LineQty
  <2>4. /\ IsFiniteSet(ActiveLots(p))
        /\ IntegerOn(allocation[s], ActiveLots(p))
        /\ IntegerOn(quantityReserved, ActiveLots(p))
        /\ IntegerOn(quantityRemaining, ActiveLots(p))
    BY <1>1, <1>2, <2>2, LotsOfFinite, FS_Subset DEF IntegerOn, StockTypeOK
  <2>5. \A l \in ActiveLots(p) : /\ allocation[s][l] <= quantityReserved[l]
                                 /\ allocation[s][l] <= quantityRemaining[l]
    BY <1>1, <1>2, <2>2 DEF StockTypeOK
  <2>6. /\ Total(allocation[s], ActiveLots(p)) <= Total(quantityReserved, ActiveLots(p))
        /\ Total(allocation[s], ActiveLots(p)) <= Total(quantityRemaining, ActiveLots(p))
    BY <2>4, <2>5, TotalMonotone
  <2>7. /\ LineQty(allocation[s], p) \in Int
        /\ stock[p] \in Int /\ reserved[p] \in Int
    BY <1>1, <1>2, LineQtyType DEF StockTypeOK
  <2> QED
    BY <2>1, <2>3, <2>6, <2>7
<1> QED
  BY <1>4, <1>5, <1>6 DEF CanConsume

\* While tills are online, a customer charged for a PENDING sale gets the goods:
\* finalizePaidSale never fails for want of stock.
THEOREM ChargedSettles ==
  ASSUME ~Offline
  PROVE  Spec => []ChargedSaleCanSettle
<1>1. StockInv => ChargedSaleCanSettle
  BY PendingCanConsume DEF ChargedSaleCanSettle
<1> QED
  BY <1>1, StockInvariant, PTL

-----------------------------------------------------------------------------
(* Payment.  Whoever finalizes a sale has it from Stripe: the confirm endpoint *)
(* asks, the webhook acts on an event, the job on an answer it got earlier.    *)
(* What makes PaidMeansCharged inductive is that neither can be out of date.   *)

EventsTellTruth == \A e \in sent : e[1] \in PaidEventTypes => stripe[e[2]] = "paid"

VerdictsTellTruth == \A s \in Sales : TRUE \in verdict[s] => stripe[s] = "paid"

ChargeInv == TypeOK /\ PaidMeansCharged /\ EventsTellTruth /\ VerdictsTellTruth

\* Settling takes goods off the shelf only for a sale that is paid at Stripe.
LEMMA SettlingCharged ==
  ASSUME TypeOK, PaidMeansCharged, NEW s \in Sales, UNCHANGED stripe,
         \/ finalizePaidSale(s) /\ stripe[s] = "paid"
         \/ \E nextStatus \in {"FAILED", "EXPIRED"} : settleUnpaidSale(s, nextStatus)
  PROVE  PaidMeansCharged'
<1>1. paymentStatus \in [Sales -> PaymentStatus]
  BY DEF TypeOK
<1>2. cash' = cash
  BY DEF finalizePaidSale, settleUnpaidSale, saleVars
<1>3. \A t \in Sales : paymentStatus'[t] = "PAID" =>
        paymentStatus[t] = "PAID" \/ stripe[t] = "paid"
  BY <1>1 DEF finalizePaidSale, settleUnpaidSale, saleVars
<1> QED
  BY <1>2, <1>3 DEF PaidMeansCharged, PaidSales

\* Every step keeps what is known about charges true.
LEMMA ChargeStep ==
  ASSUME ChargeInv, [Next]_vars
  PROVE  ChargeInv'
<1>1. TypeOK /\ PaidMeansCharged /\ EventsTellTruth /\ VerdictsTellTruth
  BY DEF ChargeInv
<1>2. TypeOK'
  BY <1>1, TypeStep, StepKinds
<1>3. /\ stripe \in [Sales -> {"none", "open", "paid"}]
      /\ verdict \in [Sales -> SUBSET BOOLEAN]
      /\ paymentStatus \in [Sales -> PaymentStatus]
      /\ sent \subseteq Events /\ running \subseteq sent
      /\ \A e \in Events : e[2] \in Sales
  BY <1>1 DEF TypeOK, Events
<1> DEFINE Charged == PaidMeansCharged' /\ EventsTellTruth' /\ VerdictsTellTruth'
<1> USE DEF EventsTellTruth, VerdictsTellTruth
<1>4. ASSUME Maintain \/ UNCHANGED vars PROVE Charged
  <2>1. UNCHANGED <<paymentStatus, cash, stripe, sent, verdict>>
    BY <1>4 DEF Maintain, vars, saleVars, webhookVars
  <2> QED
    BY <1>1, <2>1 DEF PaidMeansCharged, PaidSales
<1>5. ASSUME NEW s \in Sales, Selling(s) PROVE Charged
  <2>1. UNCHANGED <<stripe, sent, verdict>>
    BY <1>5 DEF Selling, createCardSale, createCashSale, webhookVars
  <2>2. \A t \in Sales : paymentStatus'[t] = "PAID" /\ t \notin cash' =>
          paymentStatus[t] = "PAID" /\ t \notin cash
    BY <1>3, <1>5 DEF Selling, createCardSale, createCashSale
  <2> QED
    BY <1>1, <2>1, <2>2 DEF PaidMeansCharged, PaidSales
<1>6. ASSUME NEW s \in Sales, startPayment(s) \/ CustomerPays(s) \/ AttemptDeclined(s)
      PROVE  Charged
  <2>1. UNCHANGED <<paymentStatus, cash, verdict>>
    BY <1>6 DEF startPayment, CustomerPays, AttemptDeclined, saleVars
  <2>2. \A t \in Sales : stripe[t] = "paid" => stripe'[t] = "paid"
    BY <1>3, <1>6 DEF startPayment, CustomerPays, AttemptDeclined
  <2>3. \A e \in sent' : e[1] \in PaidEventTypes =>
          e \in sent \/ (e[2] = s /\ stripe'[s] = "paid")
    BY <1>3, <1>6 DEF startPayment, CustomerPays, AttemptDeclined, webhookVars
  <2>4. EventsTellTruth'
    BY <1>1, <1>3, <2>2, <2>3
  <2> QED
    BY <1>1, <2>1, <2>2, <2>4 DEF PaidMeansCharged, PaidSales
<1>7. ASSUME NEW s \in Sales, confirmSalePayment(s) PROVE Charged
  <2>1. UNCHANGED <<stripe, sent, verdict>> /\ finalizePaidSale(s) /\ stripe[s] = "paid"
    BY <1>7 DEF confirmSalePayment, webhookVars
  <2>2. PaidMeansCharged'
    BY <1>1, <2>1, SettlingCharged
  <2> QED
    BY <1>1, <2>1, <2>2
<1>8. ASSUME NEW s \in Sales, ReservationExpires(s) \/ JobAsksStripe(s)
                                \/ \E paid \in BOOLEAN : JobFails(s, paid)
      PROVE  Charged
  <2>1. UNCHANGED <<paymentStatus, cash, stripe, sent>>
    BY <1>8 DEF ReservationExpires, JobAsksStripe, JobFails, saleVars, webhookVars
  <2>2. \A t \in Sales : TRUE \in verdict'[t] => TRUE \in verdict[t] \/ stripe[t] = "paid"
    BY <1>3, <1>8 DEF ReservationExpires, JobAsksStripe, JobFails
  <2> QED
    BY <1>1, <2>1, <2>2 DEF PaidMeansCharged, PaidSales
<1>9. ASSUME NEW s \in Sales, NEW paid \in BOOLEAN, JobSettles(s, paid) PROVE Charged
  <2>1. UNCHANGED <<stripe, sent>>
    BY <1>9 DEF JobSettles, webhookVars
  <2>2. \A t \in Sales : verdict'[t] \subseteq verdict[t]
    BY <1>3, <1>9 DEF JobSettles
  <2>3. \/ finalizePaidSale(s) /\ stripe[s] = "paid"
        \/ settleUnpaidSale(s, "EXPIRED")
    BY <1>1, <1>9 DEF JobSettles
  <2>4. PaidMeansCharged'
    BY <1>1, <2>1, <2>3, SettlingCharged
  <2> QED
    BY <1>1, <2>1, <2>2, <2>4
<1>10. ASSUME NEW e \in Events, HandleEvent(e) PROVE Charged
  <2>1. UNCHANGED <<stripe, sent, verdict>>
    BY <1>10 DEF HandleEvent
  <2>2. \/ finalizePaidSale(e[2]) /\ stripe[e[2]] = "paid"
        \/ settleUnpaidSale(e[2], "FAILED")
    BY <1>1, <1>3, <1>10 DEF HandleEvent
  <2>3. PaidMeansCharged'
    BY <1>1, <1>3, <2>1, <2>2, SettlingCharged
  <2> QED
    BY <1>1, <2>1, <2>3
<1>11. ASSUME NEW e \in Events, \/ claimStripeEvent(e) \/ EventConflicts(e)
                                \/ EventErrors(e) \/ AcknowledgeConflict(e)
       PROVE  Charged
  <2>1. UNCHANGED <<paymentStatus, cash, stripe, sent, verdict>>
    BY <1>11 DEF claimStripeEvent, EventConflicts, EventErrors, AcknowledgeConflict, saleVars
  <2> QED
    BY <1>1, <2>1 DEF PaidMeansCharged, PaidSales
<1>12. ASSUME Restart PROVE Charged
  <2>1. UNCHANGED <<paymentStatus, cash, stripe, sent>> /\ \A t \in Sales : verdict'[t] = {}
    BY <1>12 DEF Restart, saleVars
  <2> QED
    BY <1>1, <2>1 DEF PaidMeansCharged, PaidSales
<1> HIDE DEF EventsTellTruth, VerdictsTellTruth, Charged
<1>13. ASSUME NEW s \in Sales, SaleStep(s) PROVE Charged
  BY <1>5, <1>6, <1>7, <1>8, <1>9, <1>13 DEF SaleStep, JobStep, Selling
<1>14. ASSUME NEW e \in Events, EventStep(e) PROVE Charged
  BY <1>10, <1>11, <1>14 DEF EventStep
<1>15. Charged
  BY <1>4, <1>12, <1>13, <1>14 DEF Next, Charged
<1> QED
  BY <1>2, <1>15 DEF ChargeInv, Charged

\* Goods of a card sale never leave the shelf without a payment at Stripe,
\* whichever of webhook, confirm endpoint and job reports it, however late.
THEOREM GoodsOnlyAgainstPayment == Spec => []PaidMeansCharged
<1>1. Init => ChargeInv
  <2> SUFFICES ASSUME Init PROVE ChargeInv
    OBVIOUS
  <2>1. PaidMeansCharged /\ EventsTellTruth /\ VerdictsTellTruth
    BY DEF Init, PaidMeansCharged, PaidSales, EventsTellTruth, VerdictsTellTruth
  <2> QED
    BY <2>1, TypeInit DEF ChargeInv
<1>2. ChargeInv /\ [Next]_vars => ChargeInv'
  BY ChargeStep
<1>3. ChargeInv => PaidMeansCharged
  BY DEF ChargeInv
<1> QED
  BY <1>1, <1>2, <1>3, PTL DEF Spec

-----------------------------------------------------------------------------
(* Every unit in one place.  Inductive together with the hold invariant and   *)
(* what is known of lots off the shelf: an empty lot comes back on sale with  *)
(* what the adjustment recorded, a lot has no records before it is received,  *)
(* and only a lot on sale, or sold out, is held.                              *)

DepletedEmpty == \A l \in Lots : lotStatus[l] = "DEPLETED" => quantityRemaining[l] = 0

AbsentUnrecorded == \A l \in Lots : lotStatus[l] = "ABSENT" => ledger[l] = 0

HeldOnSale ==
  \A l \in Lots : quantityReserved[l] # 0 => lotStatus[l] \in {"ACTIVE", "DEPLETED"}

AccountInv ==
  HoldInv /\ UnitsAccounted /\ DepletedEmpty /\ AbsentUnrecorded /\ HeldOnSale

\* The units of lot l that went to paid sales.
SoldFrom(l) == Total(UnitsFrom(l), PaidSales)

\* The two halves of UnitsAccounted.
Balanced ==
  \A l \in Lots : lotStatus[l] \in {"ACTIVE", "DEPLETED"} =>
    quantityRemaining[l] = ledger[l] - SoldFrom(l)

LinesSupplied == \A s \in Sales, p \in Products : LineQty(allocation[s], p) = saleItem[s][p]

\* UnitsAccounted in its two halves.
LEMMA AccountedParts == UnitsAccounted <=> Balanced /\ LinesSupplied
BY DEF UnitsAccounted, Balanced, LinesSupplied, SoldFrom

\* A step that leaves the paid sales alone leaves alone what was sold.
LEMMA SoldKept ==
  ASSUME TypeOK, NEW l \in Lots,
         \A s \in Sales : paymentStatus'[s] = "PAID" <=> paymentStatus[s] = "PAID",
         \A s \in PaidSales : allocation'[s] = allocation[s]
  PROVE  SoldFrom(l)' = SoldFrom(l)
<1>1. PaidSales' = PaidSales /\ PaidSales \in SUBSET Sales
  BY DEF PaidSales
<1>2. IntegerOn(UnitsFrom(l), PaidSales)
  BY <1>1, UnitsFromType
<1>3. \A s \in PaidSales : UnitsFrom(l)[s] = UnitsFrom(l)'[s]
  BY <1>1 DEF UnitsFrom
<1>4. Total(UnitsFrom(l)', PaidSales) = Total(UnitsFrom(l), PaidSales)
  BY <1>2, <1>3, TotalExtensional
<1> QED
  BY <1>1, <1>4 DEF SoldFrom

\* A sale that becomes PAID adds its units.
LEMMA SoldMore ==
  ASSUME TypeOK, TypeOK', NEW l \in Lots, NEW s \in Sales \ PaidSales,
         paymentStatus' = [paymentStatus EXCEPT ![s] = "PAID"],
         \A t \in Sales \ {s} : allocation'[t] = allocation[t]
  PROVE  SoldFrom(l)' = SoldFrom(l) + allocation'[s][l]
<1> DEFINE f == UnitsFrom(l)
           g == [t \in Sales |-> allocation'[t][l]]
<1>1. PaidSales' = PaidSales \cup {s} /\ PaidSales \cap {s} = {} /\ PaidSales \in SUBSET Sales
  BY DEF PaidSales, TypeOK
<1>2. IsFiniteSet(PaidSales) /\ IsFiniteSet({s}) /\ IntegerOn(f, PaidSales)
  BY <1>1, UnitsFromType, FS_Singleton
<1>3. \A t \in Sales : g[t] \in Int
  BY DEF TypeOK, Allocation
<1>4. \A t \in PaidSales : f[t] = g[t]
  BY <1>1 DEF UnitsFrom
<1>5. g[s] = allocation'[s][l] /\ UnitsFrom(l)' = g
  BY DEF UnitsFrom
<1> HIDE DEF f, g
<1>6. IntegerOn(g, PaidSales \cup {s})
  BY <1>1, <1>3 DEF IntegerOn
<1>7. Total(g, PaidSales \cup {s}) = Total(g, PaidSales) + Total(g, {s})
  BY <1>1, <1>2, <1>6, TotalDisjoint
<1>8. Total(g, {s}) = g[s]
  BY <1>3, TotalSingleton
<1>9. Total(g, PaidSales) = Total(f, PaidSales)
  BY <1>2, <1>4, TotalExtensional
<1> QED
  BY <1>1, <1>5, <1>7, <1>8, <1>9 DEF f, SoldFrom

\* What was sold of a lot is a natural number, and nothing before it came.
LEMMA SoldType ==
  ASSUME TypeOK, NEW l \in Lots
  PROVE  /\ SoldFrom(l) \in Nat
         /\ AbsentUnallocated /\ lotStatus[l] = "ABSENT" => SoldFrom(l) = 0
<1>1. PaidSales \in SUBSET Sales
  BY DEF PaidSales
<1>2. IsFiniteSet(PaidSales) /\ NaturalOn(UnitsFrom(l), PaidSales)
  BY <1>1, UnitsFromType
<1>3. ASSUME AbsentUnallocated, lotStatus[l] = "ABSENT" PROVE SoldFrom(l) = 0
  <2>1. \A s \in PaidSales : UnitsFrom(l)[s] = 0
    BY <1>1, <1>3 DEF UnitsFrom, AbsentUnallocated
  <2> QED
    BY <2>1, TotalZero DEF SoldFrom
<1> QED
  BY <1>2, <1>3, TotalNatural DEF SoldFrom

\* What AccountInv says of one lot.
LEMMA AccountFacts ==
  ASSUME AccountInv, NEW l \in Lots
  PROVE  /\ lotStatus[l] \in LotStatus
         /\ quantityRemaining[l] \in Int
         /\ quantityReserved[l] \in Nat
         /\ ledger[l] \in Int
         /\ SoldFrom(l) \in Nat
         /\ lotStatus[l] \in {"ACTIVE", "DEPLETED"} =>
              quantityRemaining[l] = ledger[l] - SoldFrom(l)
         /\ lotStatus[l] = "DEPLETED" => quantityRemaining[l] = 0
         /\ lotStatus[l] = "ABSENT" => ledger[l] = 0 /\ SoldFrom(l) = 0
         /\ quantityReserved[l] # 0 => lotStatus[l] \in {"ACTIVE", "DEPLETED"}
<1>1. TypeOK /\ HoldsMatchPending /\ AbsentUnallocated /\ Balanced
  BY AccountedParts DEF AccountInv, HoldInv
<1>2. quantityReserved[l] \in Nat
  BY <1>1, HoldShare
<1>3. SoldFrom(l) \in Nat /\ (lotStatus[l] = "ABSENT" => SoldFrom(l) = 0)
  BY <1>1, SoldType
<1>4. lotStatus[l] \in LotStatus /\ quantityRemaining[l] \in Int /\ ledger[l] \in Int
  BY <1>1 DEF TypeOK, InventoryTypeOK, StockTypeOK
<1> QED
  BY <1>1, <1>2, <1>3, <1>4 DEF AccountInv, Balanced, DepletedEmpty, AbsentUnrecorded, HeldOnSale

\* What a step must keep, besides the hold invariant.
Accounts == Balanced /\ LinesSupplied /\ DepletedEmpty /\ AbsentUnrecorded /\ HeldOnSale

\* AccountInv is the hold invariant and the accounts.
LEMMA AccountParts == AccountInv <=> HoldInv /\ Accounts
BY AccountedParts DEF AccountInv, Accounts

\* Lot maintenance records what it changes: a receipt, an adjustment up or down
\* and an expiry, of a lot in whatever status.
LEMMA MaintainAccounts ==
  ASSUME AccountInv, InventoryNext, UNCHANGED saleVars
  PROVE  Accounts'
<1>1. TypeOK /\ HoldInv /\ Accounts
  BY AccountParts DEF HoldInv
<1>2. /\ lotStatus \in [Lots -> LotStatus] /\ quantityRemaining \in [Lots -> Int]
      /\ quantityReserved \in [Lots -> Int] /\ ledger \in [Lots -> Int]
  BY <1>1 DEF TypeOK, InventoryTypeOK, StockTypeOK
<1>3. \A l \in Lots : SoldFrom(l)' = SoldFrom(l)
  BY <1>1, SoldKept DEF saleVars
<1>4. LinesSupplied'
  BY <1>1 DEF Accounts, LinesSupplied, saleVars
<1>5. UNCHANGED quantityReserved
  BY <1>1, MaintainHolds
<1> DEFINE LotAccounts(k) ==
      /\ lotStatus'[k] \in {"ACTIVE", "DEPLETED"} =>
           quantityRemaining'[k] = ledger'[k] - SoldFrom(k)
      /\ lotStatus'[k] = "DEPLETED" => quantityRemaining'[k] = 0
      /\ lotStatus'[k] = "ABSENT" => ledger'[k] = 0
      /\ quantityReserved[k] # 0 => lotStatus'[k] \in {"ACTIVE", "DEPLETED"}
<1>6. PICK l \in Lots : \/ \E qty \in 0 .. MaxUnits : ReceiveLot(l, qty)
                        \/ \E qty \in 0 .. MaxUnits : adjustLot(l, qty)
                        \/ quarantineLot(l)
                        \/ runExpireLotsOnce(l)
  BY DEF InventoryNext
<1>7. ASSUME NEW k \in Lots, k # l PROVE LotAccounts(k)
  <2>1. /\ lotStatus'[k] = lotStatus[k] /\ quantityRemaining'[k] = quantityRemaining[k]
        /\ ledger'[k] = ledger[k]
    BY <1>2, <1>6, <1>7 DEF ReceiveLot, addLot, adjustLot, setLotRemaining, quarantineLot,
                            runExpireLotsOnce, leaveSellableRollup
  <2> QED
    BY <2>1, AccountFacts
<1>8. LotAccounts(l)
  <2> DEFINE r == quantityRemaining[l]
             sold == SoldFrom(l)
             h == quantityReserved[l]
  <2>1. /\ lotStatus[l] \in LotStatus /\ r \in Int /\ h \in Nat /\ ledger[l] \in Int
        /\ sold \in Nat
        /\ lotStatus[l] \in {"ACTIVE", "DEPLETED"} => r = ledger[l] - sold
        /\ lotStatus[l] = "DEPLETED" => r = 0
        /\ lotStatus[l] = "ABSENT" => ledger[l] = 0 /\ sold = 0
        /\ h # 0 => lotStatus[l] \in {"ACTIVE", "DEPLETED"}
    BY AccountFacts
  <2> HIDE DEF sold, h
  <2>2. ASSUME NEW qty \in 0 .. MaxUnits, ReceiveLot(l, qty) PROVE LotAccounts(l)
    <3>1. qty \in Int /\ lotStatus[l] = "ABSENT"
      BY <2>2, InventoryAssumption DEF ReceiveLot, addLot
    <3>2. /\ lotStatus'[l] = "ACTIVE" /\ quantityRemaining'[l] = qty
          /\ ledger'[l] = ledger[l] + qty
      BY <1>2, <2>2 DEF ReceiveLot, addLot
    <3> QED
      BY <2>1, <3>1, <3>2 DEF sold, h
  <2>3. ASSUME NEW qty \in 0 .. MaxUnits, adjustLot(l, qty) PROVE LotAccounts(l)
    <3>1. qty \in Nat /\ lotStatus[l] # "ABSENT"
      BY <2>3, InventoryAssumption DEF adjustLot, setLotRemaining
    <3>2. /\ lotStatus'[l] = StatusAtTarget(l, qty) /\ quantityRemaining'[l] = qty
          /\ ledger'[l] = ledger[l] + AdjustmentEntry(l, qty) /\ qty # r
      BY <1>2, <2>3 DEF adjustLot, setLotRemaining
    <3>3. CASE lotStatus[l] \in {"ACTIVE", "DEPLETED"}
      <4>1. AdjustmentEntry(l, qty) = qty - r
        BY <2>1, <3>1, <3>2, <3>3 DEF AdjustmentEntry, RollupDelta, StatusAtTarget
      <4>2. /\ StatusAtTarget(l, qty) \in {"ACTIVE", "DEPLETED"}
            /\ StatusAtTarget(l, qty) = "DEPLETED" => qty = 0
        BY <2>1, <3>1, <3>2, <3>3 DEF StatusAtTarget
      <4> QED
        BY <2>1, <3>1, <3>2, <3>3, <4>1, <4>2 DEF sold, h
    <3>4. CASE lotStatus[l] \notin {"ACTIVE", "DEPLETED"}
      <4>1. lotStatus'[l] = lotStatus[l]
        BY <3>2, <3>4 DEF StatusAtTarget
      <4> QED
        BY <2>1, <3>1, <3>4, <4>1 DEF sold, h
    <3> QED
      BY <3>3, <3>4
  <2>4. ASSUME quarantineLot(l) \/ runExpireLotsOnce(l) PROVE LotAccounts(l)
    <3>1. lotStatus'[l] \in {"QUARANTINED", "EXPIRED"} /\ h <= 0
      BY <1>2, <2>4 DEF quarantineLot, runExpireLotsOnce, leaveSellableRollup, h
    <3> QED
      BY <2>1, <3>1 DEF h
  <2> QED
    BY <1>6, <2>2, <2>3, <2>4
<1>9. \A k \in Lots : LotAccounts(k)
  BY <1>7, <1>8
<1>10. Balanced' /\ DepletedEmpty' /\ AbsentUnrecorded' /\ HeldOnSale'
  BY <1>3, <1>5, <1>9 DEF Balanced, DepletedEmpty, AbsentUnrecorded, HeldOnSale
<1> QED
  BY <1>4, <1>10 DEF Accounts

\* A new sale takes its units from lots on sale, and its lines are supplied in
\* full, also when the offline queue oversells the last lot.
LEMMA SellingAccounts ==
  ASSUME AccountInv, TypeOK', NEW s \in Sales, Selling(s)
  PROVE  Accounts'
<1>1. TypeOK /\ StockTypeOK /\ Accounts
  BY AccountParts DEF HoldInv, TypeOK, InventoryTypeOK
<1>2. /\ lotStatus \in [Lots -> LotStatus] /\ quantityRemaining \in [Lots -> Int]
      /\ quantityReserved \in [Lots -> Int]
      /\ allocation \in [Sales -> Allocation] /\ paymentStatus \in [Sales -> PaymentStatus]
      /\ saleItem \in [Sales -> [Products -> 0 .. MaxLine]]
  BY <1>1 DEF TypeOK, StockTypeOK
<1>3. PICK cart \in Carts, offlineSync \in BOOLEAN :
        \/ createCardSale(s, cart) /\ ~offlineSync
        \/ createCashSale(s, cart, offlineSync)
  BY CheckoutAssumption DEF Selling
<1> DEFINE a == allocateFefo(cart, offlineSync)
<1>4. cart \in [Products -> Nat]
  BY CartType
<1>5. a \in [Lots -> Nat] /\ \A l \in Lots : a[l] > 0 => lotStatus[l] = "ACTIVE"
  BY <1>1, <1>4, AllocateFefo DEF Allocation
<1>6. CanAllocate(cart, offlineSync)
  BY <1>3 DEF createCardSale, createCashSale, CanSell
<1>7. \A p \in Products : LineQty(a, p) = cart[p]
  BY <1>1, <1>4, <1>6, AllocationSupplies
<1>8. /\ saleItem' = [saleItem EXCEPT ![s] = cart]
      /\ allocation' = [allocation EXCEPT ![s] = a]
      /\ UNCHANGED ledger /\ paymentStatus[s] = "NONE"
      /\ \/ /\ reserve(a)
            /\ paymentStatus' = [paymentStatus EXCEPT ![s] = "PENDING"]
         \/ /\ consumeDirect(a)
            /\ paymentStatus' = [paymentStatus EXCEPT ![s] = "PAID"]
  BY <1>3 DEF createCardSale, createCashSale
<1> HIDE DEF a
<1>9. LinesSupplied'
  <2>1. \A p \in Products : LineQty(allocation'[s], p) = saleItem'[s][p]
    BY <1>2, <1>7, <1>8
  <2>2. \A t \in Sales, p \in Products : t # s =>
          LineQty(allocation'[t], p) = saleItem'[t][p]
    BY <1>1, <1>2, <1>8 DEF Accounts, LinesSupplied
  <2> QED
    BY <2>1, <2>2 DEF LinesSupplied, LineQty, LotsOf
<1>10. ASSUME NEW l \in Lots
       PROVE  /\ lotStatus'[l] \in {"ACTIVE", "DEPLETED"} =>
                   quantityRemaining'[l] = ledger'[l] - SoldFrom(l)'
              /\ lotStatus'[l] = "DEPLETED" => quantityRemaining'[l] = 0
              /\ lotStatus'[l] = "ABSENT" => ledger'[l] = 0
              /\ quantityReserved'[l] # 0 => lotStatus'[l] \in {"ACTIVE", "DEPLETED"}
  <2> DEFINE sold == SoldFrom(l)
  <2>1. /\ lotStatus[l] \in LotStatus /\ quantityRemaining[l] \in Int
        /\ quantityReserved[l] \in Nat /\ ledger[l] \in Int /\ sold \in Nat
        /\ lotStatus[l] \in {"ACTIVE", "DEPLETED"} => quantityRemaining[l] = ledger[l] - sold
        /\ lotStatus[l] = "DEPLETED" => quantityRemaining[l] = 0
        /\ lotStatus[l] = "ABSENT" => ledger[l] = 0 /\ sold = 0
        /\ quantityReserved[l] # 0 => lotStatus[l] \in {"ACTIVE", "DEPLETED"}
    BY AccountFacts
  <2>2. a[l] \in Nat /\ (a[l] > 0 => lotStatus[l] = "ACTIVE") /\ ledger'[l] = ledger[l]
    BY <1>5, <1>8
  <2>3. CASE reserve(a) /\ paymentStatus' = [paymentStatus EXCEPT ![s] = "PENDING"]
    <3>1. SoldFrom(l)' = sold
      <4>1. \A t \in Sales : paymentStatus'[t] = "PAID" <=> paymentStatus[t] = "PAID"
        BY <1>2, <1>8, <2>3
      <4>2. \A t \in PaidSales : allocation'[t] = allocation[t]
        BY <1>2, <1>8 DEF PaidSales
      <4> QED
        BY <1>1, <4>1, <4>2, SoldKept
    <3>2. /\ lotStatus'[l] = lotStatus[l] /\ quantityRemaining'[l] = quantityRemaining[l]
          /\ quantityReserved'[l] = quantityReserved[l] + a[l]
      BY <2>3 DEF reserve
    <3> HIDE DEF sold
    <3> QED
      BY <2>1, <2>2, <3>1, <3>2
  <2>4. CASE consumeDirect(a) /\ paymentStatus' = [paymentStatus EXCEPT ![s] = "PAID"]
    <3>1. SoldFrom(l)' = sold + a[l]
      <4>1. s \in Sales \ PaidSales /\ \A t \in Sales \ {s} : allocation'[t] = allocation[t]
        BY <1>2, <1>8 DEF PaidSales
      <4>2. allocation'[s] = a
        BY <1>2, <1>8
      <4> QED
        BY <1>1, <2>4, <4>1, <4>2, SoldMore
    <3>2. /\ quantityRemaining'[l] = quantityRemaining[l] - a[l]
          /\ quantityReserved'[l] = quantityReserved[l]
          /\ lotStatus'[l] = IF a[l] > 0 /\ quantityRemaining[l] = a[l]
                             THEN "DEPLETED" ELSE lotStatus[l]
      BY <2>4 DEF consumeDirect, DepletedAtZero
    <3> HIDE DEF sold
    <3> QED
      BY <2>1, <2>2, <3>1, <3>2
  <2> QED
    BY <1>8, <2>3, <2>4
<1> QED
  BY <1>9, <1>10 DEF Accounts, Balanced, DepletedEmpty, AbsentUnrecorded, HeldOnSale

\* What settling does, told apart by its outcome: a PENDING sale becomes PAID
\* and its whole hold leaves the lots, or ends unpaid and the hold is released.
LEMMA SettlingOutcome ==
  ASSUME TypeOK, HoldsMatchPending, NEW s \in Sales, Settling(s)
  PROVE  /\ UNCHANGED ledger
         /\ \/ /\ s \in PendingSales
               /\ UNCHANGED <<cash, saleItem, allocation>>
               /\ \/ /\ consume(allocation[s], NoAllocation)
                     /\ \A p \in Products : ReservationIntact(s, p)
                     /\ paymentStatus' = [paymentStatus EXCEPT ![s] = "PAID"]
                  \/ /\ release(allocation[s])
                     /\ \E nextStatus \in {"FAILED", "EXPIRED"} :
                          paymentStatus' = [paymentStatus EXCEPT ![s] = nextStatus]
            \/ UNCHANGED <<stockVars, saleVars>>
<1>1. CASE /\ paymentStatus[s] = "PENDING"
           /\ consume(Held(s), Free(s))
           /\ paymentStatus' = [paymentStatus EXCEPT ![s] = "PAID"]
           /\ UNCHANGED <<cash, saleItem, allocation>>
  <2>1. s \in PendingSales /\ FreeCovered(Free(s))
    BY <1>1 DEF PendingSales, consume
  <2>2. /\ Free(s) = NoAllocation /\ Held(s) = allocation[s]
        /\ \A p \in Products : ReservationIntact(s, p)
    BY <2>1, FreeRefused
  <2> QED
    BY <1>1, <2>1, <2>2 DEF Settling
<1>2. CASE /\ paymentStatus[s] = "PENDING"
           /\ release(allocation[s])
           /\ \E nextStatus \in {"FAILED", "EXPIRED"} :
                paymentStatus' = [paymentStatus EXCEPT ![s] = nextStatus]
           /\ UNCHANGED <<cash, saleItem, allocation>>
  <2>1. s \in PendingSales
    BY <1>2 DEF PendingSales
  <2> QED
    BY <1>2, <2>1 DEF Settling
<1>3. CASE UNCHANGED <<stockVars, saleVars>>
  BY <1>3 DEF Settling
<1> QED
  BY <1>1, <1>2, <1>3 DEF Settling, finalizePaidSale, settleUnpaidSale

\* A step that leaves lots, ledger and sales alone leaves the accounts alone.
LEMMA UntouchedAccounts ==
  ASSUME AccountInv, UNCHANGED <<stockVars, saleVars, ledger>>
  PROVE  Accounts'
<1>1. TypeOK /\ Accounts
  BY AccountParts DEF HoldInv
<1>2. \A l \in Lots : SoldFrom(l)' = SoldFrom(l)
  BY <1>1, SoldKept DEF saleVars
<1> QED
  BY <1>1, <1>2 DEF Accounts, Balanced, LinesSupplied, DepletedEmpty, AbsentUnrecorded,
                    HeldOnSale, stockVars, lotVars, saleVars

\* Settling moves the units of a hold from the lots to the paid sales, or
\* leaves them in the lots.
LEMMA SettlingAccounts ==
  ASSUME AccountInv, TypeOK', NEW s \in Sales, Settling(s)
  PROVE  Accounts'
<1>1. TypeOK /\ HoldsMatchPending /\ Accounts
  BY AccountParts DEF HoldInv
<1>2. /\ allocation \in [Sales -> Allocation] /\ paymentStatus \in [Sales -> PaymentStatus]
  BY <1>1 DEF TypeOK
<1>3. CASE UNCHANGED <<stockVars, saleVars>>
  BY <1>1, <1>3, SettlingOutcome, UntouchedAccounts
<1>4. ASSUME s \in PendingSales, UNCHANGED <<cash, saleItem, allocation>>,
             \/ /\ consume(allocation[s], NoAllocation)
                /\ \A p \in Products : ReservationIntact(s, p)
                /\ paymentStatus' = [paymentStatus EXCEPT ![s] = "PAID"]
             \/ /\ release(allocation[s])
                /\ \E nextStatus \in {"FAILED", "EXPIRED"} :
                     paymentStatus' = [paymentStatus EXCEPT ![s] = nextStatus]
      PROVE  Accounts'
  <2>1. UNCHANGED ledger
    BY <1>1, SettlingOutcome
  <2>2. LinesSupplied'
    BY <1>1, <1>4 DEF Accounts, LinesSupplied
  <2>3. ASSUME NEW l \in Lots
        PROVE  /\ lotStatus'[l] \in {"ACTIVE", "DEPLETED"} =>
                    quantityRemaining'[l] = ledger'[l] - SoldFrom(l)'
               /\ lotStatus'[l] = "DEPLETED" => quantityRemaining'[l] = 0
               /\ lotStatus'[l] = "ABSENT" => ledger'[l] = 0
               /\ quantityReserved'[l] # 0 => lotStatus'[l] \in {"ACTIVE", "DEPLETED"}
    <3> DEFINE sold == SoldFrom(l)
               a == allocation[s][l]
    <3>1. /\ lotStatus[l] \in LotStatus /\ quantityRemaining[l] \in Int
          /\ quantityReserved[l] \in Nat /\ ledger[l] \in Int /\ sold \in Nat
          /\ lotStatus[l] \in {"ACTIVE", "DEPLETED"} => quantityRemaining[l] = ledger[l] - sold
          /\ lotStatus[l] = "DEPLETED" => quantityRemaining[l] = 0
          /\ lotStatus[l] = "ABSENT" => ledger[l] = 0 /\ sold = 0
          /\ quantityReserved[l] # 0 => lotStatus[l] \in {"ACTIVE", "DEPLETED"}
      BY AccountFacts
    <3>2. a \in Nat /\ a <= quantityReserved[l]
      BY <1>1, <1>2, <1>4, HoldShare DEF Allocation
    <3>3. ledger'[l] = ledger[l]
      BY <2>1
    <3>4. CASE /\ consume(allocation[s], NoAllocation)
               /\ \A p \in Products : ReservationIntact(s, p)
               /\ paymentStatus' = [paymentStatus EXCEPT ![s] = "PAID"]
      <4>1. SoldFrom(l)' = sold + a
        <5>1. s \in Sales \ PaidSales /\ allocation' = allocation
          BY <1>4 DEF PendingSales, PaidSales
        <5> QED
          BY <1>1, <3>4, <5>1, SoldMore
      <4>2. a > 0 => quantityRemaining[l] >= a
        BY <3>4, LotsAssumption DEF ReservationIntact, LotsOf
      <4>3. /\ quantityRemaining'[l] = quantityRemaining[l] - a
            /\ quantityReserved'[l] = quantityReserved[l] - a
            /\ lotStatus'[l] = IF a > 0 /\ quantityRemaining[l] = a
                               THEN "DEPLETED" ELSE lotStatus[l]
        BY <3>1, <3>2, <3>4 DEF consume, DepletedAtZero, NoAllocation
      <4> HIDE DEF sold, a
      <4> QED
        BY <3>1, <3>2, <3>3, <4>1, <4>2, <4>3
    <3>5. CASE /\ release(allocation[s])
               /\ \E nextStatus \in {"FAILED", "EXPIRED"} :
                    paymentStatus' = [paymentStatus EXCEPT ![s] = nextStatus]
      <4>1. SoldFrom(l)' = sold
        <5>1. \A t \in Sales : paymentStatus'[t] = "PAID" <=> paymentStatus[t] = "PAID"
          BY <1>2, <1>4, <3>5 DEF PendingSales
        <5> QED
          BY <1>1, <1>4, <5>1, SoldKept
      <4>2. /\ lotStatus'[l] = lotStatus[l] /\ quantityRemaining'[l] = quantityRemaining[l]
            /\ quantityReserved'[l] = quantityReserved[l] - a
        BY <3>5 DEF release
      <4> HIDE DEF sold, a
      <4> QED
        BY <3>1, <3>2, <3>3, <4>1, <4>2
    <3> QED
      BY <1>4, <3>4, <3>5
  <2> QED
    BY <2>2, <2>3 DEF Accounts, Balanced, DepletedEmpty, AbsentUnrecorded, HeldOnSale
<1> QED
  BY <1>1, <1>3, <1>4, SettlingOutcome

\* Every step keeps the accounts.
LEMMA AccountStep ==
  ASSUME AccountInv, StoreStep
  PROVE  AccountInv'
<1>1. HoldInv /\ TypeOK
  BY DEF AccountInv, HoldInv
<1>2. HoldInv' /\ TypeOK'
  BY <1>1, HoldStep DEF HoldInv
<1>3. ASSUME Maintain PROVE Accounts'
  BY <1>3, MaintainAccounts DEF Maintain
<1>4. ASSUME NEW s \in Sales, Selling(s) PROVE Accounts'
  BY <1>2, <1>4, SellingAccounts
<1>5. ASSUME NEW s \in Sales, Settling(s) PROVE Accounts'
  BY <1>2, <1>5, SettlingAccounts
<1>6. ASSUME Bookkeeping PROVE Accounts'
  BY <1>6, UntouchedAccounts DEF Bookkeeping, inventoryVars
<1>7. Accounts'
  BY <1>1, <1>3, <1>4, <1>5, <1>6 DEF StoreStep
<1> QED
  BY <1>2, <1>7, AccountParts, PTL

\* Nothing has been sold and nothing recorded.
LEMMA AccountInit ==
  ASSUME Init
  PROVE  AccountInv
<1>1. HoldInv
  BY HoldInit
<1>2. Balanced /\ DepletedEmpty /\ AbsentUnrecorded /\ HeldOnSale
  BY DEF Init, InventoryInit, Balanced, DepletedEmpty, AbsentUnrecorded, HeldOnSale
<1>3. LinesSupplied
  <2>1. \A p \in Products : LineQty(NoAllocation, p) = 0
    BY LineChange DEF LineQty
  <2> QED
    BY <2>1 DEF Init, LinesSupplied, NoItems
<1> QED
  BY <1>1, <1>2, <1>3, AccountParts DEF Accounts

\* The accounts are an invariant.
LEMMA AccountInvariant == Spec => []AccountInv
<1>1. Init => AccountInv
  BY AccountInit
<1>2. AccountInv /\ [Next]_vars => AccountInv'
  BY AccountStep, StepKinds DEF AccountInv, HoldInv
<1> QED
  BY <1>1, <1>2, PTL DEF Spec

\* Every unit of a lot is in the lot, on a paid sale or in the audit tables, and
\* the lots of a sale supply its lines: in any instance, tills working offline
\* and overselling lots included.
THEOREM EveryUnitAccounted == Spec => []UnitsAccounted
BY AccountInvariant, PTL DEF AccountInv

-----------------------------------------------------------------------------
(* Overselling is flagged.  With the accounts this is inductive: a hold is on *)
(* a lot on sale, which an adjustment does not take below its holds, or on    *)
(* one sold out under it, which was flagged then.                             *)

\* A sale whose cart the free units cover takes no more of a lot than are free.
LEMMA CoveredWithinFree ==
  ASSUME StockTypeOK, NEW cart \in [Products -> Nat], NEW offlineSync \in BOOLEAN,
         NEW l \in Lots,
         ~offlineSync \/ cart[ProductOf[l]] <= TotalAvailable(ProductOf[l]),
         allocateFefo(cart, offlineSync)[l] > 0
  PROVE  allocateFefo(cart, offlineSync)[l] <= quantityRemaining[l] - quantityReserved[l]
<1> DEFINE p == ProductOf[l]
           q == cart[p]
           free == TotalAvailable(p)
<1>1. CASE ~offlineSync
  BY <1>1, AllocateFefo
<1>2. CASE offlineSync /\ q <= free
  <2>1. p \in Products /\ q \in Nat
    BY LotsAssumption
  <2>2. free \in Int
    <3>1. AvailableOf \in [Lots -> Int]
      BY DEF StockTypeOK, AvailableOf, Available, AtLeastZero
    <3>2. ActiveLots(p) \in SUBSET Lots
      BY DEF ActiveLots, LotsOf
    <3> QED
      BY <3>1, <3>2, LotTotalType DEF TotalAvailable
  <2>3. /\ FefoTake(l, q) \in Nat /\ FefoTake(l, q) <= Available(l)
        /\ Available(l) \in Nat
    BY <2>1, FefoTakeBounds
  <2>4. AtLeastZero(q - free) = 0
    BY <1>2, <2>1, <2>2 DEF AtLeastZero
  <2>5. allocateFefo(cart, offlineSync)[l] \in {0, FefoTake(l, q)}
    BY <2>3, <2>4 DEF allocateFefo
  <2>6. quantityRemaining[l] \in Int /\ quantityReserved[l] \in Int
    BY DEF StockTypeOK
  <2> QED
    BY <2>3, <2>5, <2>6 DEF Available, AtLeastZero
<1> QED
  BY <1>1, <1>2

\* Every step keeps the oversold lots flagged.
LEMMA FlagStep ==
  ASSUME AccountInv, OversellFlagged, StoreStep
  PROVE  OversellFlagged'
<1> DEFINE Flagged(l) ==
      quantityRemaining'[l] < AtLeastZero(quantityReserved'[l]) =>
        ProductOf[l] \in reconciliation'
<1>1. HoldInv /\ TypeOK /\ StockTypeOK /\ HoldsMatchPending
  BY DEF AccountInv, HoldInv, TypeOK, InventoryTypeOK
<1>2. /\ lotStatus \in [Lots -> LotStatus] /\ quantityRemaining \in [Lots -> Int]
      /\ quantityReserved \in [Lots -> Int] /\ reconciliation \subseteq Products
  BY <1>1 DEF TypeOK, StockTypeOK
<1>3. \A l \in Lots : /\ quantityRemaining[l] \in Int /\ quantityReserved[l] \in Nat
                      /\ lotStatus[l] = "DEPLETED" => quantityRemaining[l] = 0
                      /\ quantityReserved[l] # 0 => lotStatus[l] \in {"ACTIVE", "DEPLETED"}
                      /\ quantityRemaining[l] < quantityReserved[l] =>
                           ProductOf[l] \in reconciliation
  BY AccountFacts DEF OversellFlagged, AtLeastZero
<1>4. ASSUME NEW l \in Lots, UNCHANGED reconciliation,
             quantityRemaining'[l] = quantityRemaining[l],
             quantityReserved'[l] = quantityReserved[l]
      PROVE  Flagged(l)
  BY <1>3, <1>4 DEF AtLeastZero
<1>5. ASSUME Maintain, NEW k \in Lots PROVE Flagged(k)
  <2>1. /\ UNCHANGED <<quantityReserved, reconciliation>>
    BY <1>1, <1>5, MaintainHolds DEF Maintain
  <2>2. PICK l \in Lots : \/ \E qty \in 0 .. MaxUnits : ReceiveLot(l, qty)
                          \/ \E qty \in 0 .. MaxUnits : adjustLot(l, qty)
                          \/ quarantineLot(l)
                          \/ runExpireLotsOnce(l)
    BY <1>5 DEF Maintain, InventoryNext
  <2>3. CASE quantityRemaining'[k] = quantityRemaining[k]
    BY <1>4, <2>1, <2>3
  <2>4. ASSUME quantityRemaining'[k] # quantityRemaining[k]
        PROVE  Flagged(k)
    <3>1. PICK qty \in 0 .. MaxUnits : ReceiveLot(k, qty) \/ adjustLot(k, qty)
      BY <1>2, <2>2, <2>4 DEF ReceiveLot, addLot, adjustLot, setLotRemaining,
                              quarantineLot, runExpireLotsOnce, leaveSellableRollup
    <3>2. qty \in Nat /\ quantityRemaining'[k] = qty
      BY <1>2, <3>1, InventoryAssumption DEF ReceiveLot, addLot, adjustLot, setLotRemaining
    <3>3. lotStatus[k] = "ACTIVE" => qty >= quantityReserved[k]
      BY <3>1 DEF ReceiveLot, addLot, adjustLot, setLotRemaining
    <3> QED
      BY <1>3, <2>1, <3>2, <3>3 DEF AtLeastZero
  <2> QED
    BY <2>3, <2>4
<1>6. ASSUME NEW s \in Sales, Selling(s), NEW l \in Lots PROVE Flagged(l)
  <2>1. PICK cart \in Carts, offlineSync \in BOOLEAN :
          \/ createCardSale(s, cart) /\ ~offlineSync
          \/ createCashSale(s, cart, offlineSync)
    BY <1>6, CheckoutAssumption DEF Selling
  <2> DEFINE p == ProductOf[l]
             a == allocateFefo(cart, offlineSync)
  <2>2. cart \in [Products -> Nat] /\ p \in Products
    BY CartType, LotsAssumption
  <2>3. a[l] \in Nat
    BY <1>1, <2>2, AllocateFefo DEF Allocation
  <2>4. /\ \/ /\ quantityRemaining'[l] = quantityRemaining[l]
              /\ quantityReserved'[l] = quantityReserved[l] + a[l]
           \/ /\ quantityRemaining'[l] = quantityRemaining[l] - a[l]
              /\ quantityReserved'[l] = quantityReserved[l]
        /\ reconciliation \subseteq reconciliation'
    <3>1. reserve(a) \/ consumeDirect(a)
      BY <2>1 DEF createCardSale, createCashSale
    <3>2. reconciliation \subseteq reconciliation'
      BY <2>1 DEF createCardSale, createCashSale
    <3> HIDE DEF a
    <3> QED
      BY <3>1, <3>2 DEF reserve, consumeDirect
  <2>5. CASE a[l] > 0 /\ (~offlineSync \/ cart[p] <= TotalAvailable(p))
    <3>1. a[l] <= quantityRemaining[l] - quantityReserved[l]
      BY <1>1, <2>2, <2>5, CoveredWithinFree
    <3> HIDE DEF a
    <3> QED
      BY <1>3, <2>3, <2>4, <3>1 DEF AtLeastZero
  <2>6. CASE offlineSync /\ ~(cart[p] <= TotalAvailable(p))
    <3>1. TotalAvailable(p) \in Int
      <4>1. AvailableOf \in [Lots -> Int] /\ ActiveLots(p) \in SUBSET Lots
        BY <1>2 DEF AvailableOf, Available, AtLeastZero, ActiveLots, LotsOf
      <4> QED
        BY <4>1, LotTotalType DEF TotalAvailable
    <3>2. cart[p] > TotalAvailable(p)
      BY <2>2, <2>6, <3>1
    <3> QED
      BY <2>1, <2>2, <2>6, <3>2 DEF createCashSale
  <2>7. CASE a[l] = 0
    <3> HIDE DEF a
    <3> QED
      BY <1>3, <2>4, <2>7 DEF AtLeastZero
  <2> HIDE DEF a
  <2> QED
    BY <2>3, <2>5, <2>6, <2>7
<1>7. ASSUME NEW s \in Sales, Settling(s), NEW l \in Lots PROVE Flagged(l)
  <2>1. UNCHANGED reconciliation
    BY <1>7 DEF Settling
  <2>2. CASE UNCHANGED <<stockVars, saleVars>>
    BY <1>4, <2>1, <2>2 DEF stockVars, lotVars
  <2>3. ASSUME s \in PendingSales,
               consume(allocation[s], NoAllocation) \/ release(allocation[s])
        PROVE  Flagged(l)
    <3>1. allocation[s][l] \in Nat /\ allocation[s][l] <= quantityReserved[l]
      BY <1>1, <2>3, HoldShare DEF TypeOK, Allocation
    <3>2. /\ quantityReserved'[l] = quantityReserved[l] - allocation[s][l]
          /\ \/ quantityRemaining'[l] = quantityRemaining[l]
             \/ quantityRemaining'[l] = quantityRemaining[l] - allocation[s][l]
      BY <1>3, <2>3, <3>1 DEF consume, release, NoAllocation
    <3> QED
      BY <1>3, <2>1, <3>1, <3>2 DEF AtLeastZero
  <2> QED
    BY <1>1, <1>7, <2>2, <2>3, SettlingOutcome
<1>8. ASSUME Bookkeeping, NEW l \in Lots PROVE Flagged(l)
  BY <1>4, <1>8 DEF Bookkeeping, inventoryVars, stockVars, lotVars
<1>9. \A l \in Lots : Flagged(l)
  BY <1>5, <1>6, <1>7, <1>8 DEF StoreStep
<1> QED
  BY <1>9 DEF OversellFlagged

\* A sale synced from the offline queue never oversells a lot in silence: in
\* any instance, a lot below zero or below its holds is queued for
\* reconciliation, whatever is adjusted, settled and released afterwards.
THEOREM OversellNeverSilent == Spec => []OversellFlagged
<1>1. Init => OversellFlagged
  BY DEF Init, InventoryInit, OversellFlagged, AtLeastZero
<1>2. AccountInv /\ OversellFlagged /\ [Next]_vars => OversellFlagged'
  BY FlagStep, StepKinds DEF AccountInv, HoldInv
<1> QED
  BY <1>1, <1>2, AccountInvariant, PTL DEF Spec

-----------------------------------------------------------------------------
(* First expired, first out *)

\* A sale is allocated when it is created and never again.
LEMMA AllocatedOnce ==
  ASSUME TypeOK, [Next]_vars, NEW s \in Sales,
         paymentStatus[s] = "NONE", paymentStatus'[s] # "NONE"
  PROVE  \E cart \in Carts, offlineSync \in BOOLEAN :
           allocation'[s] = allocateFefo(cart, offlineSync)
<1>1. /\ paymentStatus \in [Sales -> PaymentStatus] /\ allocation \in [Sales -> Allocation]
  BY DEF TypeOK
<1>2. CASE Maintain \/ Bookkeeping
  BY <1>2 DEF Maintain, Bookkeeping, saleVars
<1>3. ASSUME NEW t \in Sales, Settling(t) PROVE FALSE
  BY <1>1, <1>3 DEF Settling, finalizePaidSale, settleUnpaidSale, saleVars
<1>4. ASSUME NEW t \in Sales, Selling(t)
      PROVE  \E cart \in Carts, offlineSync \in BOOLEAN :
               allocation'[s] = allocateFefo(cart, offlineSync)
  <2>1. PICK cart \in Carts, offlineSync \in BOOLEAN :
          \/ createCardSale(t, cart) /\ ~offlineSync
          \/ createCashSale(t, cart, offlineSync)
    BY <1>4, CheckoutAssumption DEF Selling
  <2>2. /\ allocation' = [allocation EXCEPT ![t] = allocateFefo(cart, offlineSync)]
        /\ \E status \in {"PENDING", "PAID"} :
             paymentStatus' = [paymentStatus EXCEPT ![t] = status]
    BY <2>1 DEF createCardSale, createCashSale
  <2>3. s = t
    BY <1>1, <2>2
  <2> QED
    BY <1>1, <2>2, <2>3
<1> QED
  BY <1>2, <1>3, <1>4, StepKinds DEF StoreStep

\* A lot supplies a new sale only after every ACTIVE lot of the product that
\* expires earlier gave all its free units, whatever is held or oversold.
THEOREM EarliestExpirySoldFirst == Spec => FefoOrder
<1> DEFINE Ordered ==
      \A s \in Sales, k, l \in Lots :
        (/\ paymentStatus[s] = "NONE" /\ paymentStatus'[s] # "NONE"
         /\ allocation'[s][l] > 0
         /\ ProductOf[k] = ProductOf[l] /\ FefoRank[k] < FefoRank[l]
         /\ lotStatus[k] = "ACTIVE")
        => allocation'[s][k] = Available(k)
<1>1. TypeOK /\ [Next]_vars => [Ordered]_vars
  <2> SUFFICES ASSUME TypeOK, [Next]_vars, NEW s \in Sales, NEW k \in Lots, NEW l \in Lots,
                      paymentStatus[s] = "NONE", paymentStatus'[s] # "NONE",
                      allocation'[s][l] > 0,
                      ProductOf[k] = ProductOf[l], FefoRank[k] < FefoRank[l],
                      lotStatus[k] = "ACTIVE"
               PROVE  allocation'[s][k] = Available(k)
    OBVIOUS
  <2>1. PICK cart \in Carts, offlineSync \in BOOLEAN :
          allocation'[s] = allocateFefo(cart, offlineSync)
    BY AllocatedOnce
  <2>2. cart \in [Products -> Nat] /\ StockTypeOK
    BY CartType DEF TypeOK, InventoryTypeOK
  <2> QED
    BY <2>1, <2>2, EarlierLotsExhausted
<1>2. Spec => []TypeOK
  BY TypeCorrect
<1>3. Spec => [][Ordered]_vars
  BY <1>1, <1>2, PTL DEF Spec
<1> QED
  BY <1>3 DEF FefoOrder

-----------------------------------------------------------------------------
(* The sale ledger.  What links the two levels is that the free units FEFO     *)
(* allocates from are the units on hand less the units on hold: the sums over  *)
(* sales and the sums over lots count the same SaleItemLot rows.               *)

\* A sum of the sale ledger is a sum of the checkout.
LEMMA LedgerTotal ==
  ASSUME NEW f, NEW S
  PROVE  Ledger!Total(f, S) = Total(f, S)
<1>1. \A T : Ledger!Cardinality(T) = Cardinality(T)
  BY DEF Ledger!Cardinality, Cardinality
<1>2. Ledger!Units(f, S) = Units(f, S) /\ Ledger!Negated(f, S) = Negated(f, S)
  BY DEF Ledger!Units, Units, Ledger!Negated, Negated
<1>3. Ledger!Units(Negated(f, S), S) = Units(Negated(f, S), S)
  BY DEF Ledger!Units, Units
<1> QED
  BY <1>1, <1>2, <1>3 DEF Ledger!Total, Total

\* While tills are online, the units on hold are what the product row says is
\* reserved: lines of PENDING sales by sale, their lots by lot.
LEMMA OnHoldReserved ==
  ASSUME StockInv, LinesSupplied, NEW p \in Products
  PROVE  Ledger!OnHold(p) = reserved[p]
<1> DEFINE lines == [s \in Sales |-> saleItem[s][p]]
           bySale == [s \in PendingSales |-> Total(allocation[s], LotsOf(p))]
           byLot == [l \in LotsOf(p) |->
                       Total([s \in PendingSales |-> allocation[s][l]], PendingSales)]
<1>1. TypeOK /\ HoldsMatchPending /\ StockRollup
  BY DEF StockInv, HoldInv
<1>2. PendingSales \in SUBSET Sales /\ IsFiniteSet(PendingSales)
  BY CheckoutAssumption, FS_Subset DEF PendingSales
<1>3. IsFiniteSet(LotsOf(p)) /\ LotsOf(p) \subseteq Lots /\ ActiveLots(p) \in SUBSET LotsOf(p)
  BY LotsOfFinite DEF ActiveLots
<1>4. Ledger!OnHold(p) = Total(lines, PendingSales)
  BY LedgerTotal DEF Ledger!OnHold, Ledger!Pending, PendingSales
<1>5. IntegerOn(lines, PendingSales)
  BY <1>1, <1>2, CheckoutAssumption DEF TypeOK, IntegerOn
<1>6. \A s \in PendingSales : lines[s] = bySale[s]
  BY <1>2 DEF LinesSupplied, LineQty
<1>7. Total(lines, PendingSales) = Total(bySale, PendingSales)
  <2> HIDE DEF lines, bySale
  <2> QED
    BY <1>5, <1>6, TotalExtensional
<1>8. \A s \in PendingSales : \A l \in LotsOf(p) : allocation[s][l] \in Int
  BY <1>1, <1>2, <1>3 DEF TypeOK, Allocation
<1>9. Total(bySale, PendingSales) = Total(byLot, LotsOf(p))
  BY <1>2, <1>3, <1>8, TotalExchange
<1>10. ASSUME NEW l \in LotsOf(p) PROVE quantityReserved[l] = byLot[l]
  <2> DEFINE f == UnitsFrom(l)
             g == [s \in PendingSales |-> allocation[s][l]]
  <2>1. l \in Lots /\ \A s \in PendingSales : f[s] = g[s]
    BY <1>2, <1>3 DEF UnitsFrom
  <2>2. IntegerOn(f, PendingSales)
    BY <1>1, <1>2, <2>1, UnitsFromType
  <2>3. quantityReserved[l] = Total(f, PendingSales)
    BY <1>1, <2>1 DEF HoldsMatchPending
  <2>4. byLot[l] = Total(g, PendingSales)
    OBVIOUS
  <2> HIDE DEF f, g, byLot
  <2> QED
    BY <2>1, <2>2, <2>3, <2>4, TotalExtensional
<1>11. IntegerOn(quantityReserved, LotsOf(p))
  BY <1>1, <1>3 DEF TypeOK, InventoryTypeOK, StockTypeOK, IntegerOn
<1> HIDE DEF lines, bySale, byLot
<1>12. Total(quantityReserved, LotsOf(p)) = Total(byLot, LotsOf(p))
  BY <1>10, <1>11, TotalExtensional
<1>13. \A l \in LotsOf(p) \ ActiveLots(p) : quantityReserved[l] = 0
  BY <1>3, LotFacts DEF ActiveLots
<1>14. Total(quantityReserved, ActiveLots(p)) = Total(quantityReserved, LotsOf(p))
  BY <1>3, <1>11, <1>13, TotalFiltered
<1> QED
  BY <1>1, <1>4, <1>7, <1>9, <1>12, <1>14 DEF StockRollup

FreeOfHolds ==
  \A p \in Products : /\ TotalAvailable(p) = stock[p] - Ledger!OnHold(p)
                      /\ TotalAvailable(p) \in Nat
                      /\ stock[p] \in Nat
                      /\ Ledger!OnHold(p) \in Int

\* While tills are online, what FEFO can allocate is what is on hand and not on
\* hold.
LEMMA FreeUnits == StockInv /\ LinesSupplied => FreeOfHolds
<1> SUFFICES ASSUME StockInv, LinesSupplied, NEW p \in Products
             PROVE  /\ TotalAvailable(p) = stock[p] - reserved[p]
                    /\ TotalAvailable(p) \in Nat
                    /\ stock[p] \in Nat
                    /\ reserved[p] \in Int
  BY OnHoldReserved DEF FreeOfHolds
<1>1. IsFiniteSet(ActiveLots(p)) /\ ActiveLots(p) \subseteq Lots
  BY LotsOfFinite, FS_Subset DEF ActiveLots
<1>2. \A l \in ActiveLots(p) : /\ AvailableOf[l] \in Nat
                               /\ quantityRemaining[l] = AvailableOf[l] + quantityReserved[l]
                               /\ quantityRemaining[l] \in Nat
                               /\ quantityReserved[l] \in Nat
  <2>1. \A l \in Lots : /\ quantityRemaining[l] \in Nat
                        /\ quantityReserved[l] \in Nat
                        /\ quantityReserved[l] <= quantityRemaining[l]
    BY LotFacts
  <2> QED
    BY <1>1, <2>1 DEF AvailableOf, Available, AtLeastZero
<1>3. /\ NaturalOn(AvailableOf, ActiveLots(p)) /\ NaturalOn(quantityRemaining, ActiveLots(p))
      /\ IntegerOn(AvailableOf, ActiveLots(p)) /\ IntegerOn(quantityReserved, ActiveLots(p))
  BY <1>2 DEF NaturalOn, IntegerOn
<1>4. Total(quantityRemaining, ActiveLots(p)) =
        Total(AvailableOf, ActiveLots(p)) + Total(quantityReserved, ActiveLots(p))
  BY <1>1, <1>2, <1>3, TotalAdd
<1>5. /\ Total(AvailableOf, ActiveLots(p)) \in Nat
      /\ Total(quantityRemaining, ActiveLots(p)) \in Nat
      /\ Total(quantityReserved, ActiveLots(p)) \in Int
  BY <1>1, <1>3, TotalNatural, TotalType
<1>6. /\ stock[p] = Total(quantityRemaining, ActiveLots(p))
      /\ reserved[p] = Total(quantityReserved, ActiveLots(p))
  BY DEF StockInv, StockRollup
<1> QED
  BY <1>4, <1>5, <1>6 DEF TotalAvailable

\* A new sale orders units that are on hand and not on hold.
LEMMA SellingOrders ==
  ASSUME ~Offline, StockInv, LinesSupplied, NEW s \in Sales, Selling(s)
  PROVE  Ledger!Order(s)
<1>1. TypeOK /\ StockTypeOK
  BY DEF StockInv, HoldInv, TypeOK, InventoryTypeOK
<1>2. /\ saleItem \in [Sales -> [Products -> 0 .. MaxLine]]
      /\ stock \in [Products -> Int]
  BY <1>1 DEF TypeOK, StockTypeOK
<1>3. PICK cart \in Carts : createCardSale(s, cart) \/ createCashSale(s, cart, FALSE)
  <2>1. {FALSE, Offline} = {FALSE}
    BY CheckoutAssumption
  <2> QED
    BY <2>1 DEF Selling
<1> DEFINE a == allocateFefo(cart, FALSE)
<1>4. cart \in [Products -> Nat]
  BY CartType
<1>5. CanAllocate(cart, FALSE) /\ paymentStatus[s] = "NONE"
  BY <1>3 DEF createCardSale, createCashSale, CanSell
<1>6. \A p \in Products : LineQty(a, p) = cart[p]
  BY <1>1, <1>4, <1>5, AllocationSupplies
<1>7. saleItem' = [saleItem EXCEPT ![s] = cart]
  BY <1>3 DEF createCardSale, createCashSale
<1>8. \/ /\ UNCHANGED stock
         /\ paymentStatus' = [paymentStatus EXCEPT ![s] = "PENDING"]
      \/ /\ stock' = [p \in Products |-> stock[p] - LineQty(a, p)]
         /\ paymentStatus' = [paymentStatus EXCEPT ![s] = "PAID"]
  BY <1>3 DEF createCardSale, createCashSale, reserve, consumeDirect
<1> HIDE DEF a
<1>9. \A p \in Products : cart[p] <= stock[p] - Ledger!OnHold(p)
  <2>1. \A p \in Products : cart[p] <= TotalAvailable(p)
    BY <1>4, <1>5, FreeUnits DEF CanAllocate, FreeOfHolds
  <2> QED
    BY <2>1, FreeUnits DEF FreeOfHolds
<1>10. saleItem'[s] = cart /\ \A q \in Sales \ {s} : saleItem'[q] = saleItem[q]
  BY <1>2, <1>7
<1>11. \/ UNCHANGED stock /\ Ledger!Takes(s, "PENDING")
       \/ /\ stock' = [p \in Products |-> stock[p] - saleItem'[s][p]]
          /\ Ledger!Takes(s, "PAID")
  BY <1>6, <1>8, <1>10 DEF Ledger!Takes
<1> QED
  BY <1>5, <1>9, <1>10, <1>11 DEF Ledger!Order

\* Settling pays a sale on hold once, or releases it, or changes nothing.
LEMMA SettlingPaysOrReleases ==
  ASSUME StockInv, LinesSupplied, NEW s \in Sales, Settling(s)
  PROVE  Ledger!Pay(s) \/ Ledger!Release(s) \/ UNCHANGED <<stock, saleItem, paymentStatus>>
<1>1. TypeOK /\ HoldsMatchPending
  BY DEF StockInv, HoldInv
<1>2. CASE /\ s \in PendingSales
           /\ UNCHANGED <<cash, saleItem, allocation>>
           /\ consume(allocation[s], NoAllocation)
           /\ paymentStatus' = [paymentStatus EXCEPT ![s] = "PAID"]
  <2>1. \A p \in Products : /\ LineQty(allocation[s], p) = saleItem[s][p]
                            /\ LineQty(NoAllocation, p) = 0
    BY LineChange DEF LinesSupplied, LineQty
  <2>2. /\ stock \in [Products -> Int]
        /\ saleItem[s] \in [Products -> 0 .. MaxLine]
    BY <1>1 DEF TypeOK, InventoryTypeOK, StockTypeOK
  <2>3. \A p \in Products : stock[p] - LineQty(allocation[s], p) - LineQty(NoAllocation, p)
                              = stock[p] - saleItem[s][p]
    BY <2>1, <2>2
  <2>4. stock' = [p \in Products |-> stock[p] - saleItem[s][p]]
    BY <1>2, <2>3 DEF consume
  <2> QED
    BY <1>2, <2>4 DEF Ledger!Pay, Ledger!Takes, PendingSales
<1>3. CASE /\ s \in PendingSales
           /\ UNCHANGED <<cash, saleItem, allocation>>
           /\ release(allocation[s])
           /\ \E nextStatus \in {"FAILED", "EXPIRED"} :
                paymentStatus' = [paymentStatus EXCEPT ![s] = nextStatus]
  BY <1>3 DEF Ledger!Release, Ledger!Takes, PendingSales, release
<1>4. CASE UNCHANGED <<stockVars, saleVars>>
  BY <1>4 DEF stockVars, productVars, saleVars
<1> QED
  BY <1>1, <1>2, <1>3, <1>4, SettlingOutcome

\* Lot maintenance takes no unit that is on hold.
LEMMA MaintainReplenishes ==
  ASSUME TypeOK', StockInv', LinesSupplied', Maintain
  PROVE  Ledger!Replenish
<1>1. FreeOfHolds'
  BY FreeUnits, PTL
<1>2. stock' \in [Products -> Int]
  BY DEF TypeOK, InventoryTypeOK, StockTypeOK
<1>3. UNCHANGED <<saleItem, paymentStatus>>
  BY DEF Maintain, saleVars
<1>4. \A p \in Products : Ledger!OnHold(p)' = Ledger!OnHold(p)
  BY <1>3 DEF Ledger!OnHold, Ledger!Pending
<1>5. stock' \in [Products -> Nat]
  BY <1>1, <1>2 DEF FreeOfHolds
<1>6. \A p \in Products : stock'[p] >= Ledger!OnHold(p)
  BY <1>1, <1>4 DEF FreeOfHolds
<1> QED
  BY <1>3, <1>5, <1>6 DEF Ledger!Replenish

\* The checkout implements the sale ledger while tills are online: whatever the
\* webhook, the confirm endpoint, the expiry job and the lot maintenance do in
\* whichever order, no unit is promised twice, no promised unit is taken away
\* and every sale is settled once.
THEOREM CheckoutImplementsLedger ==
  ASSUME ~Offline
  PROVE  Spec => ImplementsLedger
<1>1. Init => Ledger!LedgerInit
  BY DEF Init, InventoryInit, Ledger!LedgerInit, NoItems
<1>2. StockInv /\ StockInv' /\ AccountInv /\ AccountInv' /\ [Next]_vars
        => [Ledger!LedgerNext]_(Ledger!ledgerVars)
  <2> SUFFICES ASSUME StockInv, StockInv', AccountInv, AccountInv', [Next]_vars
               PROVE  [Ledger!LedgerNext]_(Ledger!ledgerVars)
    OBVIOUS
  <2>1. TypeOK /\ TypeOK'
    BY DEF StockInv, HoldInv
  <2>2. LinesSupplied
    BY AccountedParts DEF AccountInv
  <2>3. LinesSupplied'
    <3>1. UnitsAccounted'
      BY DEF AccountInv
    <3> QED
      BY <3>1, AccountedParts, PTL
  <2>4. ASSUME Maintain PROVE Ledger!LedgerNext
    BY <2>1, <2>3, <2>4, MaintainReplenishes DEF Ledger!LedgerNext
  <2>5. ASSUME NEW s \in Sales, Selling(s) PROVE Ledger!LedgerNext
    BY <2>2, <2>5, SellingOrders DEF Ledger!LedgerNext
  <2>6. ASSUME NEW s \in Sales, Settling(s)
        PROVE  Ledger!LedgerNext \/ UNCHANGED <<stock, saleItem, paymentStatus>>
    BY <2>2, <2>6, SettlingPaysOrReleases DEF Ledger!LedgerNext
  <2>7. ASSUME Bookkeeping PROVE UNCHANGED <<stock, saleItem, paymentStatus>>
    BY <2>7 DEF Bookkeeping, inventoryVars, stockVars, productVars, saleVars
  <2> QED
    BY <2>1, <2>4, <2>5, <2>6, <2>7, StepKinds DEF StoreStep, Ledger!ledgerVars
<1>3. Spec => []StockInv
  BY StockInvariant
<1>4. Spec => []AccountInv
  BY AccountInvariant
<1> QED
  BY <1>1, <1>2, <1>3, <1>4, PTL DEF Spec, ImplementsLedger, Ledger!LedgerSpec

-----------------------------------------------------------------------------
(* The offline queue.  What a request on its way, or a row a tab has still to *)
(* send, is worth does not depend on when it arrives: the sales taken before  *)
(* it are on the server already.                                              *)

TillTypeOK ==
  /\ minted \in [Keys -> [basket : Baskets \cup {NoBasket}, offlineSync : BOOLEAN]]
  /\ queue \subseteq {k \in Keys : minted[k].offlineSync}
  /\ walk \in [Tabs -> SUBSET {k \in Keys : minted[k].offlineSync}]
  /\ answer \in [Tabs -> {"none", "awaited", "ok", "failed", "refused"}]
  /\ \A t \in Tabs : answer[t] # "none" => walk[t] # {}
  /\ ringing \in Keys \cup {NoKey}
  /\ wire \subseteq (Tabs \cup {Till}) \X {k \in Keys : minted[k] # NotMinted}
  /\ unpaid \subseteq Baskets /\ unsure \subseteq Baskets /\ refused \subseteq Keys
  /\ losses \in 0 .. MaxLosses

\* Keys are minted in order, and make no sale before.
KeysOK ==
  \A k \in Keys : /\ paymentStatus[k] \in {"NONE", "PAID"}
                  /\ paymentStatus[k] = "PAID" => minted[k] # NotMinted
                  /\ minted[k] # NotMinted => minted[k].basket \in Baskets
                  /\ \A j \in Keys : j < k /\ minted[k] # NotMinted => minted[j] # NotMinted

\* The sales taken offline before key k are on the server.
EarlierRecorded(k) ==
  \A j \in Keys : j < k /\ minted[j].offlineSync => paymentStatus[j] = "PAID"

\* What a tab has passed over is on the server, and what was answered too.
WalkOK(t) ==
  /\ \A k \in walk[t] : \A j \in Keys \ walk[t] :
       j < k /\ minted[j].offlineSync => paymentStatus[j] = "PAID"
  /\ answer[t] = "ok" => paymentStatus[NextRow(t)] = "PAID"

\* A request on its way: of the cashier, who waits for it unless the basket is
\* unsure, or of a sync, in order.
WireOK(t, k) ==
  /\ t = Till => ~minted[k].offlineSync /\ (ringing = k \/ minted[k].basket \in unsure)
  /\ t # Till => minted[k].offlineSync /\ EarlierRecorded(k)

RingingOK ==
  ringing # NoKey => /\ minted[ringing] # NotMinted /\ ~minted[ringing].offlineSync
                     /\ minted[ringing].basket \in unpaid

\* A key whose basket has left the till with it.
Taken(k) == minted[k].offlineSync \/ paymentStatus[k] = "PAID"

BasketOK(b) ==
  /\ b \in unpaid => \A k \in Keys : minted[k].basket = b => ~Taken(k)
  /\ \A j, k \in Keys : (/\ minted[j].basket = b /\ Taken(j)
                         /\ minted[k].basket = b /\ Taken(k)) => j = k

WalksOK == \A t \in Tabs : WalkOK(t)

WiresOK == \A t \in Tabs \cup {Till}, k \in Keys : <<t, k>> \in wire => WireOK(t, k)

BasketsOK == \A b \in Baskets \ unsure : BasketOK(b)

TillOK ==
  /\ TillTypeOK /\ KeysOK /\ QueuedOrRecorded /\ SyncedInOrder
  /\ WalksOK /\ WiresOK /\ RingingOK /\ BasketsOK

TillInv == AccountInv /\ OversellFlagged /\ TillOK

\* The type invariant of server and till.
LEMMA QueueTypeParts == QueueTypeOK <=> TypeOK /\ TillTypeOK
BY DEF QueueTypeOK, TillTypeOK

\* The next row of a tab is the earliest it has still to send.
LEMMA EarliestRow ==
  ASSUME TillTypeOK, NEW t \in Tabs, walk[t] # {}
  PROVE  NextRow(t) \in walk[t] /\ \A j \in walk[t] : NextRow(t) <= j
<1> DEFINE rows == walk[t]
           rank == [k \in rows |-> 0 - k]
<1>1. rows \subseteq Sales /\ rows \subseteq Nat /\ rows # {}
  BY OfflineQueueAssumption DEF TillTypeOK
<1> HIDE DEF rows
<1>2. IsFiniteSet(rows)
  BY <1>1, CheckoutAssumption, FS_Subset
<1>3. IntegerOn(rank, rows)
  BY <1>1 DEF IntegerOn
<1>4. \E x \in rows : \A y \in rows : rank[y] <= rank[x]
  BY <1>1, <1>2, <1>3, LastRow
<1>5. \E x \in rows : \A y \in rows : x <= y
  BY <1>1, <1>4
<1>6. Min(rows) \in rows /\ \A j \in rows : Min(rows) <= j
  BY <1>5 DEF Min
<1> QED
  BY <1>6 DEF rows, NextRow

\* A step of tills and server is, for the server, a step of one of its kinds;
\* and the sales of this till change only when a request is served.
LEMMA QueueStoreStep ==
  ASSUME TypeOK, TillTypeOK, KeysOK, [QueueNext]_<<vars, queueVars>>
  PROVE  StoreStep
<1>1. ASSUME UNCHANGED vars PROVE StoreStep
  BY <1>1, StepKinds
<1>2. ASSUME NEW s \in Sales, JobExpiresSale(s) PROVE StoreStep
  <2>1. Settling(s)
    BY <1>2 DEF JobExpiresSale, Settling
  <2>2. PaymentTypeOK'
    BY <1>2, TypeParts DEF JobExpiresSale, PaymentTypeOK, webhookVars
  <2> QED
    BY <2>1, <2>2 DEF StoreStep
<1>3. ASSUME Elsewhere PROVE StoreStep
  <2>1. CASE Maintain
    BY <2>1, StepKinds DEF Next
  <2>2. ASSUME NEW s \in Sales, SaleStep(s) PROVE StoreStep
    BY <2>2, StepKinds DEF Next
  <2> QED
    BY <1>2, <1>3, <2>1, <2>2 DEF Elsewhere, SaleStep
<1>4. ASSUME NEW t, NEW k \in Keys, createSale(t, k) PROVE StoreStep
  <2>1. k \in Sales /\ minted[k] # NotMinted /\ minted[k].offlineSync \in BOOLEAN
    BY <1>4, OfflineQueueAssumption DEF TillTypeOK, createSale
  <2>2. Cart(k) \in Carts
    BY <2>1, OfflineQueueAssumption DEF KeysOK, Cart
  <2>3. minted[k].offlineSync \in {FALSE, Offline}
    BY <2>1, OfflineQueueAssumption, CheckoutAssumption
  <2>4. CASE createCashSale(k, Cart(k), minted[k].offlineSync)
    <3>1. SaleStep(k)
      BY <2>2, <2>3, <2>4 DEF SaleStep
    <3> QED
      BY <2>1, <3>1, StepKinds DEF Next
  <2>5. CASE ReplaysSale(k)
    BY <1>1, <2>5 DEF ReplaysSale
  <2> QED
    BY <1>4, <2>4, <2>5 DEF createSale
<1> QED
  BY <1>1, <1>3, <1>4
  DEF QueueNext, enqueueOfflineSale, checkoutOnline, OnlineAnswerLost, createSaleRefused,
      TabStep, syncQueuedSales, replayOne, ReplayFails, removeQueuedSale,
      markQueuedSaleError, Reload

\* What the steps of this section leave alone on the server.
KeysKept == \A k \in Keys : paymentStatus'[k] = paymentStatus[k]

\* Steps that mint no key, serve no request and leave baskets alone keep what
\* is known of keys and baskets.
LEMMA KeysUntouched ==
  ASSUME TillOK, KeysKept, UNCHANGED minted
  PROVE  /\ KeysOK' /\ SyncedInOrder'
         /\ \A k \in Keys : EarlierRecorded(k) => EarlierRecorded(k)'
         /\ UNCHANGED <<unpaid, unsure>> => BasketsOK'
         /\ UNCHANGED <<unpaid, ringing>> => RingingOK'
         /\ queue \subseteq queue' => QueuedOrRecorded'
<1>1. KeysOK /\ SyncedInOrder /\ BasketsOK /\ RingingOK /\ QueuedOrRecorded
  BY DEF TillOK
<1>2. KeysOK' /\ SyncedInOrder'
  BY <1>1 DEF KeysOK, SyncedInOrder, KeysKept
<1>3. \A k \in Keys : EarlierRecorded(k) => EarlierRecorded(k)'
  BY DEF EarlierRecorded, KeysKept
<1>4. UNCHANGED <<unpaid, unsure>> => BasketsOK'
  BY <1>1 DEF BasketsOK, BasketOK, Taken, KeysKept
<1>5. UNCHANGED <<unpaid, ringing>> => RingingOK'
  BY <1>1 DEF RingingOK
<1>6. queue \subseteq queue' => QueuedOrRecorded'
  BY <1>1 DEF QueuedOrRecorded, KeysKept
<1> QED
  BY <1>2, <1>3, <1>4, <1>5, <1>6

\* Requests on their way stay in order when only new ones are in question.
LEMMA WiresUntouched ==
  ASSUME TillOK, KeysKept, UNCHANGED <<minted, ringing, unsure>>, wire' \subseteq wire
  PROVE  WiresOK'
BY KeysUntouched DEF TillOK, WiresOK, WireOK

\* A tab that is not at work keeps what it knows.
LEMMA WalkKept ==
  ASSUME TillOK, KeysKept, UNCHANGED minted, NEW t \in Tabs,
         walk'[t] = walk[t], answer'[t] = "ok" => answer[t] = "ok"
  PROVE  WalkOK(t)'
<1>1. WalkOK(t) /\ TillTypeOK
  BY DEF TillOK, WalksOK
<1>2. NextRow(t)' = NextRow(t)
  BY DEF NextRow
<1>3. ASSUME answer'[t] = "ok" PROVE paymentStatus'[NextRow(t)'] = "PAID"
  <2>1. answer[t] = "ok" /\ walk[t] # {}
    BY <1>1, <1>3 DEF TillTypeOK
  <2>2. NextRow(t) \in Keys
    BY <1>1, <2>1, EarliestRow DEF TillTypeOK
  <2> QED
    BY <1>1, <1>2, <2>1, <2>2 DEF WalkOK, KeysKept
<1>4. \A k \in walk'[t] : \A j \in Keys \ walk'[t] :
        j < k /\ minted'[j].offlineSync => paymentStatus'[j] = "PAID"
  BY <1>1 DEF WalkOK, KeysKept
<1> QED
  BY <1>3, <1>4 DEF WalkOK

\* What goes on elsewhere leaves the till alone.
LEMMA ElsewhereTill ==
  ASSUME TypeOK, TillOK, KeysKept, UNCHANGED queueVars
  PROVE  TillOK'
<1>1. UNCHANGED <<minted, queue, walk, answer, ringing, wire, unpaid, unsure, refused, losses>>
  BY DEF queueVars
<1>2. /\ KeysOK' /\ SyncedInOrder' /\ BasketsOK' /\ RingingOK' /\ QueuedOrRecorded'
  BY <1>1, KeysUntouched
<1>3. WiresOK'
  BY <1>1, WiresUntouched
<1>4. WalksOK'
  BY <1>1, WalkKept DEF WalksOK
<1>5. TillTypeOK'
  BY <1>1 DEF TillOK, TillTypeOK
<1> QED
  BY <1>2, <1>3, <1>4, <1>5 DEF TillOK

\* A tab at work: its snapshot is the queue, what it passes over was answered,
\* and what it posts is the earliest it has not dealt with.
LEMMA TabTill ==
  ASSUME TypeOK, TillOK, NEW t \in Tabs, TabStep(t)
  PROVE  TillOK'
<1>1. /\ TillTypeOK /\ KeysOK /\ QueuedOrRecorded /\ WalksOK /\ WiresOK
      /\ WalkOK(t)
  BY DEF TillOK, WalksOK
<1>2. /\ UNCHANGED <<paymentStatus, minted, ringing, unpaid, unsure, refused>>
      /\ KeysKept
  BY DEF TabStep, syncQueuedSales, replayOne, ReplayFails, removeQueuedSale,
         markQueuedSaleError, Reload, vars, saleVars, KeysKept
<1>3. KeysOK' /\ SyncedInOrder' /\ BasketsOK' /\ RingingOK'
  BY <1>2, KeysUntouched
<1>4. /\ walk \in [Tabs -> SUBSET {k \in Keys : minted[k].offlineSync}]
      /\ answer \in [Tabs -> {"none", "awaited", "ok", "failed", "refused"}]
      /\ queue \subseteq {k \in Keys : minted[k].offlineSync}
      /\ answer[t] # "none" => walk[t] # {}
      /\ losses \in 0 .. MaxLosses /\ MaxLosses \in Nat
  BY <1>1, OfflineQueueAssumption DEF TillTypeOK
<1>5. walk[t] # {} => NextRow(t) \in walk[t] /\ \A j \in walk[t] : NextRow(t) <= j
  BY <1>1, EarliestRow
<1>6. ASSUME NEW u \in Tabs, u # t PROVE WalkOK(u)'
  <2>1. walk'[u] = walk[u] /\ answer'[u] = answer[u]
    BY <1>4, <1>6 DEF TabStep, syncQueuedSales, replayOne, ReplayFails, removeQueuedSale,
                      markQueuedSaleError, Reload
  <2> QED
    BY <1>2, <2>1, WalkKept
<1>7. CASE syncQueuedSales(t)
  <2>1. /\ walk' = [walk EXCEPT ![t] = queue] /\ walk'[t] = queue
        /\ UNCHANGED <<queue, answer, wire, losses>>
        /\ answer[t] = "none"
    BY <1>4, <1>7 DEF syncQueuedSales, Syncing
  <2>2. TillTypeOK'
    BY <1>1, <1>2, <1>4, <2>1 DEF TillTypeOK
  <2>3. WalkOK(t)'
    BY <1>1, <1>2, <2>1 DEF WalkOK, QueuedOrRecorded
  <2>4. QueuedOrRecorded' /\ WiresOK'
    BY <1>2, <2>1, KeysUntouched, WiresUntouched
  <2> QED
    BY <1>3, <1>6, <2>2, <2>3, <2>4 DEF TillOK, WalksOK
<1>8. CASE replayOne(t)
  <2>1. /\ walk[t] # {} /\ UNCHANGED <<queue, walk, losses>>
        /\ answer' = [answer EXCEPT ![t] = "awaited"]
        /\ wire' = wire \cup {<<t, NextRow(t)>>}
    BY <1>8 DEF replayOne, Syncing
  <2>2. /\ NextRow(t) \in Keys /\ minted[NextRow(t)].offlineSync
        /\ minted[NextRow(t)] # NotMinted
    BY <1>4, <1>5, <2>1 DEF NotMinted
  <2>3. TillTypeOK'
    BY <1>1, <1>2, <1>4, <2>1, <2>2 DEF TillTypeOK
  <2>4. WalkOK(t)'
    BY <1>2, <1>4, <2>1, WalkKept
  <2>5. EarlierRecorded(NextRow(t))
    <3>1. \A j \in Keys : j < NextRow(t) => j \notin walk[t]
      <4>1. \A j \in Keys : j \in Nat
        BY OfflineQueueAssumption
      <4>2. ASSUME NEW j \in Keys, j < NextRow(t), j \in walk[t] PROVE FALSE
        <5>1. NextRow(t) <= j
          BY <1>5, <2>1, <4>2
        <5>2. j \in Nat /\ NextRow(t) \in Nat
          BY <2>2, <4>1
        <5> QED
          BY <4>2, <5>1, <5>2
      <4> QED
        BY <4>2
    <3> QED
      BY <1>1, <1>5, <2>1, <3>1 DEF EarlierRecorded, WalkOK
  <2>6. WiresOK'
    <3>1. \A k \in Keys : EarlierRecorded(k) => EarlierRecorded(k)'
      BY <1>2, KeysUntouched
    <3>2. t # Till
      BY OfflineQueueAssumption
    <3> QED
      BY <1>1, <1>2, <2>1, <2>2, <2>5, <3>1, <3>2 DEF WiresOK, WireOK
  <2>7. QueuedOrRecorded'
    BY <1>2, <2>1, KeysUntouched
  <2> QED
    BY <1>3, <1>6, <2>3, <2>4, <2>6, <2>7 DEF TillOK, WalksOK
<1>9. CASE ReplayFails(t)
  <2>1. /\ UNCHANGED <<queue, walk, wire>> /\ losses' = losses + 1 /\ losses < MaxLosses
        /\ answer' = [answer EXCEPT ![t] = "failed"] /\ answer[t] # "none"
    BY <1>9 DEF ReplayFails
  <2>2. TillTypeOK'
    BY <1>1, <1>2, <1>4, <2>1 DEF TillTypeOK
  <2>3. WalkOK(t)'
    BY <1>2, <1>4, <2>1, WalkKept
  <2>4. QueuedOrRecorded' /\ WiresOK'
    BY <1>2, <2>1, KeysUntouched, WiresUntouched
  <2> QED
    BY <1>3, <1>6, <2>2, <2>3, <2>4 DEF TillOK, WalksOK
<1>10. CASE removeQueuedSale(t)
  <2>1. /\ answer[t] = "ok" /\ UNCHANGED <<wire, losses>>
        /\ queue' = queue \ {NextRow(t)}
        /\ walk' = [walk EXCEPT ![t] = @ \ {NextRow(t)}]
        /\ answer' = [answer EXCEPT ![t] = "none"]
    BY <1>10 DEF removeQueuedSale
  <2>2. paymentStatus[NextRow(t)] = "PAID"
    BY <1>1, <2>1 DEF WalkOK
  <2>3. TillTypeOK'
    BY <1>1, <1>2, <1>4, <2>1 DEF TillTypeOK
  <2>4. walk'[t] = walk[t] \ {NextRow(t)} /\ answer'[t] = "none"
    BY <1>4, <2>1
  <2>5. WalkOK(t)'
    BY <1>1, <1>2, <2>2, <2>4 DEF WalkOK
  <2>6. QueuedOrRecorded'
    BY <1>1, <1>2, <2>1, <2>2 DEF QueuedOrRecorded
  <2>7. WiresOK'
    BY <1>2, <2>1, WiresUntouched
  <2> QED
    BY <1>3, <1>6, <2>3, <2>5, <2>6, <2>7 DEF TillOK, WalksOK
<1>11. CASE markQueuedSaleError(t) \/ Reload(t)
  <2>1. /\ answer[t] # "none" /\ UNCHANGED wire /\ losses' \in 0 .. MaxLosses
        /\ queue' \in {queue, queue \cup {NextRow(t)}}
        /\ walk' = [walk EXCEPT ![t] = {}]
        /\ answer' = [answer EXCEPT ![t] = "none"]
    BY <1>4, <1>11 DEF markQueuedSaleError, Reload
  <2>2. queue' \subseteq {k \in Keys : minted[k].offlineSync} /\ queue \subseteq queue'
    BY <1>4, <1>5, <2>1
  <2>3. TillTypeOK'
    BY <1>1, <1>2, <1>4, <2>1, <2>2 DEF TillTypeOK
  <2>4. walk'[t] = {} /\ answer'[t] = "none"
    BY <1>4, <2>1
  <2>5. WalkOK(t)'
    BY <2>4 DEF WalkOK
  <2>6. QueuedOrRecorded' /\ WiresOK'
    BY <1>2, <2>1, <2>2, KeysUntouched, WiresUntouched
  <2> QED
    BY <1>3, <1>6, <2>3, <2>5, <2>6 DEF TillOK, WalksOK
<1> QED
  BY <1>7, <1>8, <1>9, <1>10, <1>11 DEF TabStep

\* A key is minted: the last one, of a basket no earlier key has taken.
LEMMA MintTill ==
  ASSUME TypeOK, TillOK, NEW b \in Baskets, NEW k \in Keys,
         enqueueOfflineSale(b, k) \/ checkoutOnline(b, k)
  PROVE  TillOK'
<1>1. /\ TillTypeOK /\ KeysOK /\ QueuedOrRecorded /\ SyncedInOrder /\ WalksOK /\ WiresOK
      /\ RingingOK /\ BasketsOK
  BY DEF TillOK
<1>2. PICK offlineSync \in BOOLEAN :
        /\ offlineSync <=> enqueueOfflineSale(b, k)
        /\ newIdempotencyKey(k, b, offlineSync)
  BY DEF enqueueOfflineSale, checkoutOnline, newIdempotencyKey
<1> DEFINE new == [basket |-> b, offlineSync |-> offlineSync]
<1>3. /\ minted \in [Keys -> [basket : Baskets \cup {NoBasket}, offlineSync : BOOLEAN]]
      /\ minted[k] = NotMinted /\ \A j \in Keys : j < k => minted[j] # NotMinted
      /\ minted' = [minted EXCEPT ![k] = new]
  BY <1>1, <1>2 DEF newIdempotencyKey, TillTypeOK
<1>4. /\ new \in [basket : Baskets \cup {NoBasket}, offlineSync : BOOLEAN]
      /\ new.basket = b /\ new.offlineSync = offlineSync /\ new # NotMinted
      /\ ~NotMinted.offlineSync
  BY OfflineQueueAssumption DEF NotMinted
<1> HIDE DEF new
<1>5. /\ minted'[k] = new
      /\ \A j \in Keys : j # k => minted'[j] = minted[j]
  BY <1>3
<1>6. /\ b \in unpaid /\ ringing = NoKey /\ NoKey \notin Keys
      /\ UNCHANGED <<paymentStatus, walk, answer, unsure, refused, losses>>
      /\ \/ /\ offlineSync /\ queue' = queue \cup {k} /\ unpaid' = unpaid \ {b}
            /\ UNCHANGED <<ringing, wire>>
         \/ /\ ~offlineSync /\ ringing' = k /\ wire' = wire \cup {<<Till, k>>}
            /\ UNCHANGED <<queue, unpaid>>
  BY <1>2, OfflineQueueAssumption
  DEF enqueueOfflineSale, checkoutOnline, AtTill, vars, saleVars
<1>7. /\ paymentStatus[k] = "NONE"
      /\ \A j \in Keys : k < j => minted[j] = NotMinted /\ paymentStatus[j] = "NONE"
  BY <1>1, <1>3 DEF KeysOK
<1>8. \A j \in Keys : minted[j].offlineSync => minted'[j].offlineSync /\ j # k
  BY <1>3, <1>4, <1>5
<1>9. TillTypeOK'
  <2>1. minted' \in [Keys -> [basket : Baskets \cup {NoBasket}, offlineSync : BOOLEAN]]
    BY <1>3, <1>4
  <2>2. /\ queue' \subseteq {j \in Keys : minted'[j].offlineSync}
        /\ walk' \in [Tabs -> SUBSET {j \in Keys : minted'[j].offlineSync}]
    <3>1. {j \in Keys : minted[j].offlineSync} \subseteq {j \in Keys : minted'[j].offlineSync}
      BY <1>8
    <3>2. queue \subseteq {j \in Keys : minted'[j].offlineSync}
      BY <1>1, <3>1 DEF TillTypeOK
    <3>3. walk \in [Tabs -> SUBSET {j \in Keys : minted'[j].offlineSync}]
      BY <1>1, <3>1 DEF TillTypeOK
    <3>4. offlineSync => k \in {j \in Keys : minted'[j].offlineSync}
      BY <1>4, <1>5
    <3> QED
      BY <1>6, <3>2, <3>3, <3>4
  <2>3. wire' \subseteq (Tabs \cup {Till}) \X {j \in Keys : minted'[j] # NotMinted}
    BY <1>1, <1>4, <1>5, <1>6 DEF TillTypeOK
  <2> QED
    BY <1>1, <1>6, <2>1, <2>2, <2>3 DEF TillTypeOK
<1>10. KeysOK'
  BY <1>1, <1>3, <1>4, <1>5, <1>6, <1>7 DEF KeysOK
<1>11. QueuedOrRecorded'
  BY <1>1, <1>4, <1>5, <1>6 DEF QueuedOrRecorded
<1>12. SyncedInOrder'
  BY <1>1, <1>5, <1>6, <1>7 DEF SyncedInOrder
<1>13. \A j \in Keys : minted[j] # NotMinted /\ EarlierRecorded(j) => EarlierRecorded(j)'
  BY <1>5, <1>6, <1>7 DEF EarlierRecorded
<1>14. ASSUME NEW t \in Tabs PROVE WalkOK(t)'
  <2>1. WalkOK(t) /\ NextRow(t)' = NextRow(t)
    BY <1>1, <1>6 DEF WalksOK, NextRow
  <2>2. \A m \in walk[t] : m \in Keys /\ minted[m].offlineSync
    BY <1>1 DEF TillTypeOK
  <2>3. \A m \in walk[t] : m # k /\ ~(k < m)
    BY <1>4, <1>7, <1>8, <2>2
  <2> QED
    BY <1>5, <1>6, <2>1, <2>3 DEF WalkOK
<1>15. WiresOK'
  <2>1. ASSUME NEW t \in Tabs \cup {Till}, NEW m \in Keys, <<t, m>> \in wire PROVE WireOK(t, m)'
    <3>1. minted[m] # NotMinted /\ WireOK(t, m)
      BY <1>1, <2>1 DEF TillTypeOK, WiresOK
    <3>2. minted'[m] = minted[m]
      BY <1>3, <1>5, <3>1
    <3> QED
      BY <1>6, <1>13, <3>1, <3>2 DEF WireOK
  <2>2. ASSUME ~offlineSync, ringing' = k PROVE WireOK(Till, k)'
    BY <1>4, <1>5, <2>2 DEF WireOK
  <2> QED
    BY <1>6, <2>1, <2>2 DEF WiresOK
<1>16. RingingOK'
  BY <1>4, <1>5, <1>6 DEF RingingOK
<1>17. ASSUME NEW c \in Baskets \ unsure PROVE BasketOK(c)'
  <2>1. BasketOK(c)
    BY <1>1, <1>17 DEF BasketsOK
  <2>2. \A j \in Keys : j # k => (Taken(j)' <=> Taken(j))
    BY <1>5, <1>6 DEF Taken
  <2>3. Taken(k)' <=> offlineSync
    BY <1>4, <1>5, <1>6, <1>7 DEF Taken
  <2>4. CASE c = b
    <3>1. \A j \in Keys : j # k /\ minted'[j].basket = c => ~Taken(j)'
      BY <1>5, <1>6, <2>1, <2>2, <2>4 DEF BasketOK
    <3> QED
      BY <1>6, <2>3, <2>4, <3>1 DEF BasketOK
  <2>5. CASE c # b
    <3>1. minted'[k].basket # c
      BY <1>4, <1>5, <2>5
    <3> QED
      BY <1>5, <1>6, <2>1, <2>2, <3>1 DEF BasketOK
  <2> QED
    BY <2>4, <2>5
<1> QED
  BY <1>6, <1>9, <1>10, <1>11, <1>12, <1>14, <1>15, <1>16, <1>17 DEF TillOK, WalksOK, BasketsOK

\* The cashier gives up: the basket is unsure.
LEMMA LostTill ==
  ASSUME TypeOK, TillOK, OnlineAnswerLost
  PROVE  TillOK'
<1>1. TillTypeOK /\ WiresOK /\ RingingOK /\ BasketsOK
  BY DEF TillOK
<1>2. /\ UNCHANGED <<paymentStatus, minted, queue, walk, answer, wire, unpaid, refused>>
      /\ KeysKept /\ ringing \in Keys /\ ringing' = NoKey
      /\ unsure' = unsure \cup {minted[ringing].basket}
      /\ losses' \in 0 .. MaxLosses
  BY <1>1, OfflineQueueAssumption DEF OnlineAnswerLost, TillTypeOK, vars, saleVars, KeysKept
<1>3. minted[ringing].basket \in Baskets
  BY <1>1, <1>2, OfflineQueueAssumption DEF RingingOK, TillTypeOK
<1>4. TillTypeOK'
  BY <1>1, <1>2, <1>3 DEF TillTypeOK
<1>5. KeysOK' /\ SyncedInOrder' /\ QueuedOrRecorded'
  BY <1>2, KeysUntouched
<1>6. WalksOK'
  BY <1>2, WalkKept DEF WalksOK
<1>7. WiresOK'
  <2>1. \A m \in Keys : EarlierRecorded(m) => EarlierRecorded(m)'
    BY <1>2, KeysUntouched
  <2> QED
    BY <1>1, <1>2, <2>1 DEF WiresOK, WireOK
<1>8. RingingOK' /\ BasketsOK'
  BY <1>1, <1>2 DEF RingingOK, BasketsOK, BasketOK, Taken
<1> QED
  BY <1>4, <1>5, <1>6, <1>7, <1>8 DEF TillOK

\* The server answers a request, whenever it arrives: the sale it makes is the
\* first of its basket, and the sales taken offline before it are there.
LEMMA ServeTill ==
  ASSUME TypeOK, TillOK, NEW t \in Tabs \cup {Till}, NEW k \in Keys,
         NEW given \in {"ok", "refused"}, <<t, k>> \in wire,
         \A j \in Keys : paymentStatus'[j] = IF j = k /\ given = "ok" THEN "PAID"
                                             ELSE paymentStatus[j],
         Answers(t, k, given), UNCHANGED <<minted, queue, walk, unsure, losses>>,
         refused' \subseteq Keys
  PROVE  TillOK'
<1>1. /\ TillTypeOK /\ KeysOK /\ QueuedOrRecorded /\ SyncedInOrder /\ WalksOK /\ WiresOK
      /\ RingingOK /\ BasketsOK
  BY DEF TillOK
<1>2. /\ WireOK(t, k) /\ minted[k] # NotMinted /\ minted[k].basket \in Baskets
      /\ wire' \subseteq wire /\ <<t, k>> \notin wire'
      /\ Till \notin Tabs /\ NoKey \notin Keys
  BY <1>1, OfflineQueueAssumption DEF WiresOK, TillTypeOK, KeysOK, Answers
<1>3. /\ answer \in [Tabs -> {"none", "awaited", "ok", "failed", "refused"}]
      /\ answer' = IF Sending(t, k) THEN [answer EXCEPT ![t] = given] ELSE answer
      /\ ringing' = IF ringing = k THEN NoKey ELSE ringing
      /\ unpaid' = IF ringing = k /\ given = "ok" THEN unpaid \ {minted[k].basket} ELSE unpaid
  BY <1>1 DEF TillTypeOK, Answers
<1>4. Sending(t, k) => t \in Tabs /\ answer[t] = "awaited" /\ NextRow(t) = k
  BY DEF Sending
<1>5. ringing = k => t = Till
  BY <1>1, <1>2 DEF RingingOK, WireOK
<1>6. \A j \in Keys : paymentStatus[j] = "PAID" => paymentStatus'[j] = "PAID"
  OBVIOUS
<1>7. TillTypeOK'
  <2>1. /\ answer' \in [Tabs -> {"none", "awaited", "ok", "failed", "refused"}]
        /\ \A u \in Tabs : answer'[u] # "none" => answer[u] # "none"
    BY <1>3, <1>4
  <2> QED
    BY <1>1, <1>2, <1>3, <2>1 DEF TillTypeOK
<1>8. KeysOK'
  BY <1>1, <1>2 DEF KeysOK
<1>9. QueuedOrRecorded'
  BY <1>1, <1>6 DEF QueuedOrRecorded
<1>10. SyncedInOrder'
  BY <1>1, <1>2, <1>6 DEF SyncedInOrder, WireOK, EarlierRecorded
<1>11. ASSUME NEW u \in Tabs PROVE WalkOK(u)'
  <2>1. WalkOK(u) /\ NextRow(u)' = NextRow(u)
    BY <1>1 DEF WalksOK, NextRow
  <2>2. ASSUME answer'[u] = "ok" PROVE paymentStatus'[NextRow(u)] = "PAID"
    <3>1. CASE Sending(t, k) /\ u = t
      BY <1>3, <1>4, <2>2, <3>1
    <3>2. CASE ~(Sending(t, k) /\ u = t)
      <4>1. answer[u] = "ok" /\ walk[u] # {}
        BY <1>1, <1>3, <1>4, <2>2, <3>2 DEF TillTypeOK
      <4>2. NextRow(u) \in Keys
        BY <1>1, <4>1, EarliestRow DEF TillTypeOK
      <4> QED
        BY <1>6, <2>1, <4>1, <4>2 DEF WalkOK
    <3> QED
      BY <3>1, <3>2
  <2> QED
    BY <1>6, <2>1, <2>2 DEF WalkOK
<1>12. WiresOK'
  <2>1. \A m \in Keys : EarlierRecorded(m) => EarlierRecorded(m)'
    BY <1>6 DEF EarlierRecorded
  <2>2. ASSUME NEW u \in Tabs \cup {Till}, NEW m \in Keys, <<u, m>> \in wire' PROVE WireOK(u, m)'
    <3>1. WireOK(u, m) /\ <<u, m>> # <<t, k>>
      BY <1>1, <1>2, <2>2 DEF WiresOK
    <3>2. ASSUME u = Till, ringing = m PROVE ringing' = m
      BY <1>2, <1>3, <1>5, <3>1, <3>2
    <3> QED
      BY <2>1, <3>1, <3>2 DEF WireOK
  <2> QED
    BY <2>2 DEF WiresOK
<1>13. RingingOK'
  BY <1>1, <1>3 DEF RingingOK
<1>14. ASSUME NEW b \in Baskets \ unsure PROVE BasketOK(b)'
  <2>1. BasketOK(b) /\ unpaid' \subseteq unpaid
    BY <1>1, <1>3, <1>14 DEF BasketsOK
  <2>2. \A j \in Keys : j # k \/ given # "ok" \/ Taken(k) => (Taken(j)' <=> Taken(j))
    BY DEF Taken
  <2>3. CASE given # "ok" \/ Taken(k) \/ minted[k].basket # b
    BY <2>1, <2>2, <2>3 DEF BasketOK
  <2>4. CASE given = "ok" /\ ~Taken(k) /\ minted[k].basket = b
    <3>1. ringing = k
      BY <1>2, <1>14, <2>4 DEF WireOK, Taken
    <3>2. b \in unpaid /\ b \notin unpaid'
      BY <1>1, <1>2, <1>3, <2>4, <3>1 DEF RingingOK
    <3>3. \A j \in Keys : minted[j].basket = b => ~Taken(j)
      BY <2>1, <3>2 DEF BasketOK
    <3> QED
      BY <2>2, <3>2, <3>3 DEF BasketOK
  <2> QED
    BY <2>3, <2>4
<1> QED
  BY <1>7, <1>8, <1>9, <1>10, <1>11, <1>12, <1>13, <1>14 DEF TillOK, WalksOK, BasketsOK

\* Every step keeps server and till in agreement.
LEMMA TillStep ==
  ASSUME TillInv, [QueueNext]_<<vars, queueVars>>
  PROVE  TillInv'
<1>1. TypeOK /\ TillOK /\ TillTypeOK /\ KeysOK /\ AccountInv /\ OversellFlagged
  BY DEF TillInv, TillOK, AccountInv, HoldInv
<1>2. StoreStep
  BY <1>1, QueueStoreStep
<1>3. AccountInv' /\ OversellFlagged'
  BY <1>1, <1>2, AccountStep, FlagStep
<1>4. paymentStatus \in [Sales -> PaymentStatus] /\ Keys \subseteq Sales
  BY <1>1, OfflineQueueAssumption DEF TypeOK
<1>5. ASSUME UNCHANGED <<vars, queueVars>> PROVE TillOK'
  <2>1. KeysKept /\ UNCHANGED queueVars
    BY <1>5 DEF KeysKept, vars, saleVars
  <2> QED
    BY <1>1, <2>1, ElsewhereTill
<1>6. ASSUME Elsewhere PROVE TillOK'
  <2>1. ASSUME NEW k \in Keys PROVE paymentStatus'[k] = paymentStatus[k]
    <3>1. CASE Maintain
      BY <3>1 DEF Maintain, saleVars
    <3>2. ASSUME NEW s \in Sales \ Keys,
                 \/ \E cart \in Carts : createCardSale(s, cart)
                 \/ startPayment(s)
                 \/ CustomerPays(s)
                 \/ confirmSalePayment(s)
                 \/ JobExpiresSale(s)
          PROVE  paymentStatus'[k] = paymentStatus[k]
      <4>1. UNCHANGED paymentStatus \/ \E status : paymentStatus' = [paymentStatus EXCEPT ![s] = status]
        BY <3>2 DEF createCardSale, startPayment, CustomerPays, confirmSalePayment,
                    JobExpiresSale, finalizePaidSale, settleUnpaidSale, saleVars
      <4> QED
        BY <1>4, <3>2, <4>1
    <3> QED
      BY <1>6, <3>1, <3>2 DEF Elsewhere
  <2>2. KeysKept /\ UNCHANGED queueVars
    BY <1>6, <2>1 DEF KeysKept, Elsewhere
  <2> QED
    BY <1>1, <2>2, ElsewhereTill
<1>7. ASSUME NEW t \in Tabs \cup {Till}, NEW k \in Keys, createSale(t, k) PROVE TillOK'
  <2>1. \/ paymentStatus' = [paymentStatus EXCEPT ![k] = "PAID"]
        \/ paymentStatus' = paymentStatus /\ paymentStatus[k] = "PAID"
    BY <1>1, <1>7 DEF createSale, createCashSale, ReplaysSale, Recorded, KeysOK, vars, saleVars
  <2>2. \A j \in Keys : paymentStatus'[j] = IF j = k THEN "PAID" ELSE paymentStatus[j]
    BY <1>4, <2>1
  <2>3. /\ <<t, k>> \in wire /\ Answers(t, k, "ok")
        /\ UNCHANGED <<minted, queue, walk, unsure, losses>> /\ refused' \subseteq Keys
    BY <1>1, <1>7 DEF createSale, TillTypeOK
  <2> QED
    BY <1>1, <2>2, <2>3, ServeTill
<1>8. ASSUME NEW t \in Tabs \cup {Till}, NEW k \in Keys, createSaleRefused(t, k) PROVE TillOK'
  <2>1. /\ <<t, k>> \in wire /\ Answers(t, k, "refused") /\ UNCHANGED paymentStatus
        /\ UNCHANGED <<minted, queue, walk, unsure, losses>> /\ refused' \subseteq Keys
    BY <1>1, <1>8 DEF createSaleRefused, TillTypeOK, vars, saleVars
  <2> QED
    BY <1>1, <2>1, ServeTill
<1>9. TillOK'
  BY <1>1, <1>5, <1>6, <1>7, <1>8, MintTill, LostTill, TabTill DEF QueueNext
<1> QED
  BY <1>3, <1>9 DEF TillInv

\* An empty queue.
LEMMA TillInit ==
  ASSUME QueueInit
  PROVE  TillInv
<1>1. Init
  BY DEF QueueInit
<1>2. AccountInv /\ OversellFlagged
  BY <1>1, AccountInit DEF Init, InventoryInit, OversellFlagged, AtLeastZero
<1>3. \A k \in Keys : /\ minted[k] = NotMinted /\ ~minted[k].offlineSync
                      /\ paymentStatus[k] = "NONE"
  BY <1>1, OfflineQueueAssumption DEF QueueInit, Init, NotMinted
<1>4. TillTypeOK
  BY OfflineQueueAssumption DEF QueueInit, TillTypeOK, NotMinted
<1>5. KeysOK /\ QueuedOrRecorded /\ SyncedInOrder
  BY <1>3 DEF KeysOK, QueuedOrRecorded, SyncedInOrder
<1>6. WalksOK /\ WiresOK /\ RingingOK
  BY DEF QueueInit, WalksOK, WalkOK, WiresOK, RingingOK
<1>7. BasketsOK
  BY <1>3 DEF BasketsOK, BasketOK, Taken
<1> QED
  BY <1>2, <1>4, <1>5, <1>6, <1>7 DEF TillInv, TillOK

\* Server and till agree.
LEMMA TillInvariant == QueueSpec => []TillInv
<1>1. QueueInit => TillInv
  BY TillInit
<1>2. TillInv /\ [QueueNext]_<<vars, queueVars>> => TillInv'
  BY TillStep
<1> QED
  BY <1>1, <1>2, PTL DEF QueueSpec

\* What was rung up at the till is on the server once, in the order of the till,
\* or still in the queue: for any number of tabs, keys and baskets, whatever is
\* lost, late, repeated or reloaded, and however often.
THEOREM QueueKeepsFaith == QueueSpec => []QueueFaithful
<1>1. TillInv => QueueFaithful
  <2> SUFFICES ASSUME TillInv PROVE QueueFaithful
    OBVIOUS
  <2>1. TypeOK /\ TillTypeOK /\ QueuedOrRecorded /\ SyncedInOrder /\ BasketsOK
    BY DEF TillInv, TillOK, AccountInv, HoldInv
  <2>2. ASSUME NEW b \in Baskets \ unsure
        PROVE  Cardinality({k \in Keys : minted[k].basket = b /\ paymentStatus[k] = "PAID"}) <= 1
    <3> DEFINE sales == {k \in Keys : minted[k].basket = b /\ paymentStatus[k] = "PAID"}
    <3>1. \A j, k \in sales : j = k
      BY <2>1, <2>2 DEF BasketsOK, BasketOK, Taken
    <3> HIDE DEF sales
    <3>2. CASE sales = {}
      BY <3>2, FS_EmptySet DEF sales
    <3>3. CASE sales # {}
      <4>1. PICK k : k \in sales
        BY <3>3
      <4>2. sales = {k}
        BY <3>1, <4>1
      <4>3. Cardinality({k}) = 1
        BY FS_Singleton
      <4> QED
        BY <4>2, <4>3 DEF sales
    <3> QED
      BY <3>2, <3>3
  <2> QED
    BY <2>1, <2>2, QueueTypeParts DEF QueueFaithful, OneSalePerBasket
<1> QED
  BY <1>1, TillInvariant, PTL

\* With the queue synced from any number of tabs the units still add up, below
\* zero too, and no lot is oversold in silence.
THEOREM OversellStaysAccounted == QueueSpec => []OversellAccounted
<1>1. TillInv => OversellAccounted
  BY DEF TillInv, AccountInv, OversellAccounted
<1> QED
  BY <1>1, TillInvariant, PTL

=============================================================================
