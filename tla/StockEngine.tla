---------------------------- MODULE StockEngine ----------------------------
(***************************************************************************)
(* The stock engine (backend/src/services/stockEngine.ts): the only code   *)
(* that changes lot quantities and the Product.stock / Product.reserved    *)
(* rollup.  Each column of the Lot and Product tables is a variable; each  *)
(* exported mutation is an action.                                         *)
(*                                                                         *)
(* Every caller locks the Product rows, then the Lot rows, before it       *)
(* writes either (lib/locks.ts), and all writers do so: a transaction that *)
(* holds its Product locks is alone on those rows, so what it does between *)
(* the locks and the commit is one step here.  An operation that throws    *)
(* rolls its transaction back: its guard is false and nothing changes.     *)
(*                                                                         *)
(* An allocation (LotAllocation[]) is a function from lots to quantities;  *)
(* a lot that is not allocated maps to 0.                                  *)
(***************************************************************************)
EXTENDS Totals

CONSTANTS
  Products,   \* product rows of one store
  Lots,       \* lot ids, those not yet received included
  ProductOf,  \* the product each lot is a lot of
  FefoRank    \* position in ORDER BY expiryDate NULLS LAST, receivedAt, id

ASSUME LotsAssumption ==
  /\ IsFiniteSet(Lots)
  /\ ProductOf \in [Lots -> Products]
  /\ FefoRank \in [Lots -> Nat]
  /\ \A k, l \in Lots : FefoRank[k] = FefoRank[l] => k = l

VARIABLES
  lotStatus,          \* Lot.status, "ABSENT" before the row exists
  quantityRemaining,  \* Lot.quantityRemaining
  quantityReserved,   \* Lot.quantityReserved
  stock,              \* Product.stock
  reserved            \* Product.reserved

lotVars == <<lotStatus, quantityRemaining, quantityReserved>>
productVars == <<stock, reserved>>
stockVars == <<lotVars, productVars>>

LotStatus == {"ABSENT", "ACTIVE", "DEPLETED", "QUARANTINED", "RECALLED", "EXPIRED"}

StockTypeOK ==
  /\ lotStatus \in [Lots -> LotStatus]
  /\ quantityRemaining \in [Lots -> Int]
  /\ quantityReserved \in [Lots -> Int]
  /\ stock \in [Products -> Int]
  /\ reserved \in [Products -> Int]

Allocation == [Lots -> Nat]

NoAllocation == [l \in Lots |-> 0]

LotsOf(p) == {l \in Lots : ProductOf[l] = p}

ActiveLots(p) == {l \in LotsOf(p) : lotStatus[l] = "ACTIVE"}

\* What one product's lines of an allocation add up to (lineQty).
LineQty(a, p) == Total(a, LotsOf(p))

-----------------------------------------------------------------------------
(* First expired, first out allocation *)

\* Free units of a lot; oversold lots offer none.
Available(l) == AtLeastZero(quantityRemaining[l] - quantityReserved[l])

AvailableOf == [l \in Lots |-> Available(l)]

TotalAvailable(p) == Total(AvailableOf, ActiveLots(p))

\* Mutant of AvailableBefore: the lots in the opposite order.
AvailableBeforeLifo(l) ==
  Total(AvailableOf, {k \in ActiveLots(ProductOf[l]) : FefoRank[k] > FefoRank[l]})

\* Units the lots that expire before l can supply.
AvailableBefore(l) ==
  Total(AvailableOf, {k \in ActiveLots(ProductOf[l]) : FefoRank[k] < FefoRank[l]})

\* The lot an offline sale oversells when the others run out.
LastLot(p) ==
  CHOOSE l \in ActiveLots(p) : \A k \in ActiveLots(p) : FefoRank[k] <= FefoRank[l]

\* Mutant of FefoTake: `left` is not reduced by what earlier lots supplied.
FefoTakeEach(l, quantity) == Smaller(Available(l), quantity)

\* The loop of allocateFefo: each lot in turn supplies what the earlier ones
\* left open, as far as it has free units.
FefoTake(l, quantity) ==
  AtLeastZero(Smaller(Available(l), quantity - AvailableBefore(l)))

\* Mutant of allocateFefo: what the lots cannot supply is dropped.
allocateFefoDropsShortage(cart, offlineSync) ==
  [l \in Lots |-> IF lotStatus[l] # "ACTIVE" THEN 0 ELSE FefoTake(l, cart[ProductOf[l]])]

\* allocateFefo for a cart (units per product).  A shortage is only accepted
\* from the offline queue, and then lands on the last lot.
allocateFefo(cart, offlineSync) ==
  [l \in Lots |->
     LET p == ProductOf[l]
     IN  IF lotStatus[l] # "ACTIVE" \/ cart[p] = 0 THEN 0
         ELSE FefoTake(l, cart[p]) +
              (IF offlineSync /\ l = LastLot(p)
               THEN AtLeastZero(cart[p] - TotalAvailable(p)) ELSE 0)]

CanAllocate(cart, offlineSync) ==
  \A p \in Products : cart[p] > 0 =>
     /\ ActiveLots(p) # {}
     /\ offlineSync \/ TotalAvailable(p) >= cart[p]

-----------------------------------------------------------------------------
(* Mutations *)

\* Mutant of reserve: the lot rows are forgotten.
reserveProductOnly(a) ==
  /\ reserved' = [p \in Products |-> reserved[p] + LineQty(a, p)]
  /\ UNCHANGED <<lotVars, stock>>

reserve(a) ==
  /\ quantityReserved' = [l \in Lots |-> quantityReserved[l] + a[l]]
  /\ reserved' = [p \in Products |-> reserved[p] + LineQty(a, p)]
  /\ UNCHANGED <<lotStatus, quantityRemaining, stock>>

release(a) ==
  /\ \A l \in Lots : quantityReserved[l] >= a[l]
  /\ \A p \in Products : reserved[p] >= LineQty(a, p)
  /\ quantityReserved' = [l \in Lots |-> quantityReserved[l] - a[l]]
  /\ reserved' = [p \in Products |-> reserved[p] - LineQty(a, p)]
  /\ UNCHANGED <<lotStatus, quantityRemaining, stock>>

\* Lot.status after `taken` units leave: DEPLETED at exactly zero.
DepletedAtZero(taken) ==
  [l \in Lots |-> IF taken[l] > 0 /\ quantityRemaining[l] = taken[l]
                  THEN "DEPLETED" ELSE lotStatus[l]]

\* Cash and offline sales: no prior reservation, no availability re-check.
consumeDirect(a) ==
  /\ lotStatus' = DepletedAtZero(a)
  /\ quantityRemaining' = [l \in Lots |-> quantityRemaining[l] - a[l]]
  /\ stock' = [p \in Products |-> stock[p] - LineQty(a, p)]
  /\ UNCHANGED <<quantityReserved, reserved>>

\* Card finalisation.  The lines in `held` convert their reservation
\* (consumeReserved), which the product row must cover; a shortage is an
\* internal error.
HeldCovered(held) ==
  \A p \in Products : /\ reserved[p] >= LineQty(held, p)
                      /\ stock[p] >= LineQty(held, p)

\* The lines in `free`, of other products, have lost their reservation and
\* claim free units (consumeDirect with requireAvailable); a shortage is a 409.
FreeCovered(free) ==
  /\ \A l \in Lots : free[l] > 0 =>
        /\ lotStatus[l] = "ACTIVE"
        /\ quantityRemaining[l] - quantityReserved[l] >= free[l]
  /\ \A p \in Products : LineQty(free, p) > 0 => stock[p] - reserved[p] >= LineQty(free, p)

\* Mutant of consume: the lot keeps the hold it has converted.
consumeKeepsHold(held, free) ==
  /\ HeldCovered(held)
  /\ FreeCovered(free)
  /\ lotStatus' = DepletedAtZero([l \in Lots |-> held[l] + free[l]])
  /\ quantityRemaining' = [l \in Lots |-> quantityRemaining[l] - held[l] - free[l]]
  /\ stock' = [p \in Products |-> stock[p] - LineQty(held, p) - LineQty(free, p)]
  /\ reserved' = [p \in Products |-> reserved[p] - LineQty(held, p)]
  /\ UNCHANGED quantityReserved

consume(held, free) ==
  /\ HeldCovered(held)
  /\ FreeCovered(free)
  /\ lotStatus' = DepletedAtZero([l \in Lots |-> held[l] + free[l]])
  /\ quantityRemaining' = [l \in Lots |-> quantityRemaining[l] - held[l] - free[l]]
  /\ quantityReserved' = [l \in Lots |-> quantityReserved[l] - held[l]]
  /\ stock' = [p \in Products |-> stock[p] - LineQty(held, p) - LineQty(free, p)]
  /\ reserved' = [p \in Products |-> reserved[p] - LineQty(held, p)]

\* Mutant of restockToLots: quarantined units count as sellable.
restockToLotsSellable(r) ==
  /\ \A l \in Lots : r[l] > 0 => lotStatus[l] \notin {"RECALLED", "EXPIRED"}
  /\ quantityRemaining' = [l \in Lots |-> quantityRemaining[l] + r[l]]
  /\ lotStatus' = [l \in Lots |->
       IF r[l] > 0 /\ lotStatus[l] = "DEPLETED" /\ quantityRemaining[l] + r[l] > 0
       THEN "ACTIVE" ELSE lotStatus[l]]
  /\ stock' = [p \in Products |-> stock[p] + LineQty(r, p)]
  /\ UNCHANGED <<quantityReserved, reserved>>

\* Refund restock into the original lots.  Quarantined lots take the units
\* outside the sellable rollup; recalled and expired lots refuse them.
restockToLots(r) ==
  /\ \A l \in Lots : r[l] > 0 => lotStatus[l] \notin {"RECALLED", "EXPIRED"}
  /\ quantityRemaining' = [l \in Lots |-> quantityRemaining[l] + r[l]]
  /\ lotStatus' = [l \in Lots |->
       IF r[l] > 0 /\ lotStatus[l] = "DEPLETED" /\ quantityRemaining[l] + r[l] > 0
       THEN "ACTIVE" ELSE lotStatus[l]]
  /\ stock' = [p \in Products |->
       stock[p] + Total(r, {l \in LotsOf(p) : lotStatus[l] # "QUARANTINED"})]
  /\ UNCHANGED <<quantityReserved, reserved>>

addLot(l, qty) ==
  /\ lotStatus[l] = "ABSENT"
  /\ lotStatus' = [lotStatus EXCEPT ![l] = "ACTIVE"]
  /\ quantityRemaining' = [quantityRemaining EXCEPT ![l] = qty]
  /\ quantityReserved' = [quantityReserved EXCEPT ![l] = 0]
  /\ stock' = [stock EXCEPT ![ProductOf[l]] = @ + qty]
  /\ UNCHANGED reserved

\* Lot.status after setLotRemaining writes targetQty.
StatusAtTarget(l, targetQty) ==
  CASE lotStatus[l] = "ACTIVE" /\ targetQty = 0 -> "DEPLETED"
    [] lotStatus[l] = "DEPLETED" /\ targetQty > 0 -> "ACTIVE"
    [] OTHER -> lotStatus[l]

\* Mutant of RollupDelta: the status of the lot is not looked at.
RollupDeltaAnyStatus(l, targetQty) == targetQty - quantityRemaining[l]

\* What the write adds to the sellable rollup.
RollupDelta(l, targetQty) ==
  (IF StatusAtTarget(l, targetQty) = "ACTIVE" THEN targetQty ELSE 0) -
  (IF lotStatus[l] = "ACTIVE" THEN quantityRemaining[l] ELSE 0)

\* Mutant of setLotRemaining: the holds on the lot are not looked at.
setLotRemainingUnderHold(l, targetQty) ==
  /\ lotStatus[l] # "ABSENT"
  /\ lotStatus' = [lotStatus EXCEPT ![l] = StatusAtTarget(l, targetQty)]
  /\ quantityRemaining' = [quantityRemaining EXCEPT ![l] = targetQty]
  /\ stock' = [stock EXCEPT ![ProductOf[l]] = @ + RollupDelta(l, targetQty)]
  /\ UNCHANGED <<quantityReserved, reserved>>

setLotRemaining(l, targetQty) ==
  /\ lotStatus[l] # "ABSENT"
  /\ lotStatus[l] = "ACTIVE" => targetQty >= quantityReserved[l]
  /\ lotStatus' = [lotStatus EXCEPT ![l] = StatusAtTarget(l, targetQty)]
  /\ quantityRemaining' = [quantityRemaining EXCEPT ![l] = targetQty]
  /\ stock' = [stock EXCEPT ![ProductOf[l]] = @ + RollupDelta(l, targetQty)]
  /\ UNCHANGED <<quantityReserved, reserved>>

\* Units on the shelf: an oversold lot has none.
OnShelf == [l \in Lots |-> AtLeastZero(quantityRemaining[l])]

\* Leave the sellable rollup: what the ACTIVE lots among `leaving` still had
\* comes off Product.stock, a negative remainder does not.
leaveSellableRollup(leaving, nextStatus) ==
  /\ lotStatus' = [l \in Lots |-> IF l \in leaving THEN nextStatus ELSE lotStatus[l]]
  /\ stock' = [p \in Products |-> stock[p] - Total(OnShelf, leaving \cap ActiveLots(p))]
  /\ UNCHANGED <<quantityRemaining, quantityReserved, reserved>>

\* Mutant of recallDepleteLot: the units come off Product.stock a second time.
recallDepleteLotTwice(recalled) ==
  /\ lotStatus' = [l \in Lots |-> IF l \in recalled THEN "RECALLED" ELSE lotStatus[l]]
  /\ quantityRemaining' = [l \in Lots |-> IF l \in recalled THEN 0 ELSE quantityRemaining[l]]
  /\ stock' = [p \in Products |-> stock[p] - Total(OnShelf, recalled \cap LotsOf(p))]
  /\ UNCHANGED <<quantityReserved, reserved>>

\* Recall activation.  Product.stock is left alone: quarantine is taken to have
\* reduced it.
recallDepleteLot(recalled) ==
  /\ lotStatus' = [l \in Lots |-> IF l \in recalled THEN "RECALLED" ELSE lotStatus[l]]
  /\ quantityRemaining' = [l \in Lots |-> IF l \in recalled THEN 0 ELSE quantityRemaining[l]]
  /\ UNCHANGED <<quantityReserved, stock, reserved>>

QuarantinedAmong(S) == {l \in S : lotStatus[l] = "QUARANTINED"}

\* Recall cancellation: QUARANTINED lots go back on sale.
returnToSellableRollup(S) ==
  /\ lotStatus' = [l \in Lots |-> IF l \in QuarantinedAmong(S) THEN "ACTIVE" ELSE lotStatus[l]]
  /\ stock' = [p \in Products |->
       stock[p] + Total(OnShelf, QuarantinedAmong(S) \cap LotsOf(p))]
  /\ UNCHANGED <<quantityRemaining, quantityReserved, reserved>>

-----------------------------------------------------------------------------
(* The rollup verify:stock audits (lib/stockInvariant.ts) *)

\* Product.stock is the sum of quantityRemaining, and Product.reserved the
\* sum of quantityReserved, over the product's ACTIVE lots.
StockRollup ==
  \A p \in Products : /\ stock[p] = Total(quantityRemaining, ActiveLots(p))
                      /\ reserved[p] = Total(quantityReserved, ActiveLots(p))

=============================================================================
