----------------------------- MODULE Inventory -----------------------------
(***************************************************************************)
(* Lot maintenance: the operations of inventory.service.ts, the goods      *)
(* receipt of purchasing.service.ts and the lot expiry job that create     *)
(* lots or change them outside a sale.                                     *)
(*                                                                         *)
(* ledger[l] is what the audit tables say about lot l: the deltas of its   *)
(* StockAdjustment rows (opening stock, receipt, increase) less the        *)
(* quantities of its InventoryWriteOff rows.                               *)
(***************************************************************************)
EXTENDS StockEngine

CONSTANTS
  MaxUnits,       \* bound on the units of a receipt or of an adjustment's target
  MaxAdjustments  \* bound on the number of manual adjustments

ASSUME InventoryAssumption == MaxUnits \in Nat /\ MaxAdjustments \in Nat

VARIABLES
  ledger,      \* SUM(StockAdjustment.delta) - SUM(InventoryWriteOff.quantity) per lot
  adjustments  \* number of manual adjustments so far

inventoryVars == <<stockVars, ledger, adjustments>>

InventoryTypeOK ==
  /\ StockTypeOK
  /\ ledger \in [Lots -> Int]
  /\ adjustments \in 0 .. MaxAdjustments

InventoryInit ==
  /\ lotStatus = [l \in Lots |-> "ABSENT"]
  /\ quantityRemaining = [l \in Lots |-> 0]
  /\ quantityReserved = [l \in Lots |-> 0]
  /\ stock = [p \in Products |-> 0]
  /\ reserved = [p \in Products |-> 0]
  /\ ledger = [l \in Lots |-> 0]
  /\ adjustments = 0

\* Opening stock (createProduct) or one accepted line of a goods receipt: the
\* lot and its StockAdjustment row.  Neither creates a lot of no units.
ReceiveLot(l, qty) ==
  /\ qty > 0
  /\ addLot(l, qty)
  /\ ledger' = [ledger EXCEPT ![l] = @ + qty]
  /\ UNCHANGED adjustments

\* A decrease is a write-off of the units that left the lot; an increase is
\* recorded by what it added to Product.stock.
AdjustmentEntry(l, newQuantity) ==
  LET delta == newQuantity - quantityRemaining[l]
  IN  IF delta < 0 THEN delta ELSE RollupDelta(l, newQuantity)

adjustLot(l, newQuantity) ==
  /\ adjustments < MaxAdjustments
  /\ setLotRemaining(l, newQuantity)
  /\ newQuantity # quantityRemaining[l]
  /\ ledger' = [ledger EXCEPT ![l] = @ + AdjustmentEntry(l, newQuantity)]
  /\ adjustments' = adjustments + 1

\* Only ACTIVE lots no pending sale holds; the status read before the locks
\* is checked again under them.
quarantineLot(l) ==
  /\ lotStatus[l] = "ACTIVE"
  /\ quantityReserved[l] <= 0
  /\ leaveSellableRollup({l}, "QUARANTINED")
  /\ UNCHANGED <<ledger, adjustments>>

\* Mutant of runExpireLotsOnce: the holds on the lot are not looked at.
runExpireLotsOnceUnderHold(l) ==
  /\ lotStatus[l] = "ACTIVE"
  /\ leaveSellableRollup({l}, "EXPIRED")
  /\ ledger' = [ledger EXCEPT ![l] = @ - AtLeastZero(quantityRemaining[l])]
  /\ UNCHANGED adjustments

\* The daily job, one transaction per lot.  quantityRemaining stays.
runExpireLotsOnce(l) ==
  /\ lotStatus[l] = "ACTIVE"
  /\ quantityReserved[l] <= 0
  /\ leaveSellableRollup({l}, "EXPIRED")
  /\ ledger' = [ledger EXCEPT ![l] = @ - AtLeastZero(quantityRemaining[l])]
  /\ UNCHANGED adjustments

InventoryNext ==
  \E l \in Lots :
    \/ \E qty \in 0 .. MaxUnits : ReceiveLot(l, qty)
    \/ \E qty \in 0 .. MaxUnits : adjustLot(l, qty)
    \/ quarantineLot(l)
    \/ runExpireLotsOnce(l)

=============================================================================
