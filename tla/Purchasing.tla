----------------------------- MODULE Purchasing ----------------------------
(***************************************************************************)
(* Purchase orders and goods receipts (purchasing.service.ts) over the     *)
(* lots a receipt creates.                                                 *)
(*                                                                         *)
(* Every request loads the order without a lock (loadPo, or the first read *)
(* of receiveGoods), decides on what it loaded and writes rows by their    *)
(* id.  So a request is two steps, and other requests may commit between   *)
(* them.  receiveGoods has a step more: it computes the order's status     *)
(* from the lines it can see and commits that status later; in between it  *)
(* holds the locks of its products.                                        *)
(*                                                                         *)
(* An order has at most one line per product, a receipt at most one line   *)
(* per order line.  Costs are in the unit the columns are rounded to       *)
(* (0.0001).  Supplier rows are not modelled; see Reorder.                 *)
(***************************************************************************)
EXTENDS StockEngine, Money

CONSTANTS
  Orders,      \* purchase order ids, those not yet made included
  Requests,    \* requests being served at once
  PoLines,     \* the lines an order may have: orderedQty per product, 0 for none
  MaxUnits,    \* bound on the accepted units of a receipt line
  UnitCosts    \* values of unitCostActual

ASSUME PurchasingAssumption ==
  /\ PoLines \subseteq [Products -> Nat] \ {[p \in Products |-> 0]}
  /\ MaxUnits \in Nat
  /\ UnitCosts \subseteq Nat /\ UnitCosts # {}

VARIABLES
  poStatus,     \* PurchaseOrder.status, "NONE" before the row exists
  orderedQty,   \* PurchaseOrderLine.orderedQty, 0: no line for the product
  receivedQty,  \* PurchaseOrderLine.receivedQty
  shortClosed,  \* products whose PurchaseOrderLine.shortClosed is set
  receipted,    \* products with a GoodsReceiptLine
  accepted,     \* SUM(GoodsReceiptLine.quantityReceived)
  overReceipt,  \* products received with acknowledgeOverReceipt
  cost,         \* Product.cost
  loaded,       \* the order as a request loaded it
  receipt,      \* the receipt a request is about to commit
  raced         \* orders a request changed on a reading others had outdated

orderVars == <<poStatus, orderedQty, receivedQty, shortClosed>>
receiptVars == <<receipted, accepted, overReceipt>>
vars == <<stockVars, orderVars, receiptVars, cost, loaded, receipt, raced>>

PurchaseOrderStatus ==
  {"NONE", "DRAFT", "SUBMITTED", "PARTIALLY_RECEIVED", "RECEIVED", "CANCELLED"}

Nothing == [order |-> "none"]

NoUnits == [p \in Products |-> 0]

TypeOK ==
  /\ StockTypeOK
  /\ poStatus \in [Orders -> PurchaseOrderStatus]
  /\ orderedQty \in [Orders -> PoLines \cup {NoUnits}]
  /\ receivedQty \in [Orders -> [Products -> Nat]]
  /\ accepted \in [Orders -> [Products -> Nat]]
  /\ \A o \in Orders : /\ receipted[o] \subseteq Products
                       /\ overReceipt[o] \subseteq receipted[o]
                       /\ \A p \in shortClosed[o] : orderedQty[o][p] > 0
  /\ cost \in [Products -> Nat]
  /\ DOMAIN loaded = Requests /\ DOMAIN receipt = Requests
  /\ \A r \in Requests : receipt[r] # Nothing => loaded[r] # Nothing
  /\ raced \subseteq Orders

Init ==
  /\ lotStatus = [l \in Lots |-> "ABSENT"]
  /\ quantityRemaining = [l \in Lots |-> 0]
  /\ quantityReserved = [l \in Lots |-> 0]
  /\ stock = [p \in Products |-> 0]
  /\ reserved = [p \in Products |-> 0]
  /\ poStatus = [o \in Orders |-> "NONE"]
  /\ orderedQty = [o \in Orders |-> NoUnits]
  /\ receivedQty = [o \in Orders |-> NoUnits]
  /\ shortClosed = [o \in Orders |-> {}]
  /\ receipted = [o \in Orders |-> {}]
  /\ accepted = [o \in Orders |-> NoUnits]
  /\ overReceipt = [o \in Orders |-> {}]
  /\ cost = [p \in Products |-> CHOOSE c \in UnitCosts : TRUE]
  /\ loaded = [r \in Requests |-> Nothing]
  /\ receipt = [r \in Requests |-> Nothing]
  /\ raced = {}

-----------------------------------------------------------------------------
(* Loading an order, and what a commit does to the readings of the others *)

loadPo(r, o) ==
  /\ loaded[r] = Nothing
  /\ poStatus[o] # "NONE"
  /\ loaded' = [loaded EXCEPT ![r] =
       [order |-> o, status |-> poStatus[o], orderedQty |-> orderedQty[o],
        receivedQty |-> receivedQty[o], shortClosed |-> shortClosed[o],
        outdated |-> FALSE, replaced |-> FALSE]]
  /\ UNCHANGED <<stockVars, orderVars, receiptVars, cost, receipt, raced>>

\* Mutant of Respond: the answer does not wait for the transaction.
RespondEarly(r) ==
  /\ loaded[r] # Nothing
  /\ loaded' = [loaded EXCEPT ![r] = Nothing]
  /\ UNCHANGED <<stockVars, orderVars, receiptVars, cost, receipt, raced>>

\* The request ends: it only read, or one of its checks refused it.
Respond(r) ==
  /\ loaded[r] # Nothing
  /\ receipt[r] = Nothing
  /\ loaded' = [loaded EXCEPT ![r] = Nothing]
  /\ UNCHANGED <<stockVars, orderVars, receiptVars, cost, receipt, raced>>

\* The request commits its change of order o; the other readings of o are
\* outdated from here on, and its own may have been.
Commits(r, o, replacesLines) ==
  /\ loaded' = [q \in Requests |->
       IF q = r THEN Nothing
       ELSE IF loaded[q] # Nothing /\ loaded[q].order = o
            THEN [loaded[q] EXCEPT !.outdated = TRUE,
                                   !.replaced = @ \/ replacesLines]
            ELSE loaded[q]]
  /\ receipt' = [receipt EXCEPT ![r] = Nothing]
  /\ raced' = IF loaded[r].outdated THEN raced \cup {o} ELSE raced

-----------------------------------------------------------------------------
(* The life cycle of an order *)

createPurchaseOrder(o, lines) ==
  /\ poStatus[o] = "NONE"
  /\ poStatus' = [poStatus EXCEPT ![o] = "DRAFT"]
  /\ orderedQty' = [orderedQty EXCEPT ![o] = lines]
  /\ UNCHANGED <<stockVars, receivedQty, shortClosed, receiptVars, cost, loaded,
                 receipt, raced>>

\* The lines are deleted and created anew, which the foreign key of a
\* GoodsReceiptLine forbids once there is one.
updatePurchaseOrder(r, lines) ==
  /\ loaded[r] # Nothing /\ receipt[r] = Nothing
  /\ loaded[r].status = "DRAFT"
  /\ LET o == loaded[r].order
     IN  /\ receipted[o] = {}
         /\ \A q \in Requests : receipt[q] # Nothing => loaded[q].order # o
         /\ orderedQty' = [orderedQty EXCEPT ![o] = lines]
         /\ receivedQty' = [receivedQty EXCEPT ![o] = NoUnits]
         /\ shortClosed' = [shortClosed EXCEPT ![o] = {}]
         /\ Commits(r, o, TRUE)
  /\ UNCHANGED <<stockVars, poStatus, receiptVars, cost>>

submitPurchaseOrder(r) ==
  /\ loaded[r] # Nothing /\ receipt[r] = Nothing
  /\ loaded[r].status = "DRAFT"
  /\ poStatus' = [poStatus EXCEPT ![loaded[r].order] = "SUBMITTED"]
  /\ Commits(r, loaded[r].order, FALSE)
  /\ UNCHANGED <<stockVars, orderedQty, receivedQty, shortClosed, receiptVars, cost>>

\* Mutant of cancelPurchaseOrder: partly received orders may be cancelled.
cancelPurchaseOrderPartly(r) ==
  /\ loaded[r] # Nothing /\ receipt[r] = Nothing
  /\ loaded[r].status \in {"DRAFT", "SUBMITTED", "PARTIALLY_RECEIVED"}
  /\ poStatus' = [poStatus EXCEPT ![loaded[r].order] = "CANCELLED"]
  /\ Commits(r, loaded[r].order, FALSE)
  /\ UNCHANGED <<stockVars, orderedQty, receivedQty, shortClosed, receiptVars, cost>>

cancelPurchaseOrder(r) ==
  /\ loaded[r] # Nothing /\ receipt[r] = Nothing
  /\ loaded[r].status \in {"DRAFT", "SUBMITTED"}
  /\ \A p \in Products : loaded[r].receivedQty[p] = 0
  /\ poStatus' = [poStatus EXCEPT ![loaded[r].order] = "CANCELLED"]
  /\ Commits(r, loaded[r].order, FALSE)
  /\ UNCHANGED <<stockVars, orderedQty, receivedQty, shortClosed, receiptVars, cost>>

-----------------------------------------------------------------------------
(* receiveGoods *)

lineIsComplete(ordered, received, short, p) ==
  p \in short \/ received[p] >= ordered[p]

LinesIn(ordered) == {p \in Products : ordered[p] > 0}

\* Mutant of derivePoStatus: one complete line is enough.
derivePoStatusAnyComplete(ordered, received, short, current) ==
  IF current \in {"CANCELLED", "DRAFT"} THEN current
  ELSE IF \E p \in LinesIn(ordered) : lineIsComplete(ordered, received, short, p) THEN "RECEIVED"
  ELSE IF \E p \in LinesIn(ordered) : received[p] > 0 \/ p \in short THEN "PARTIALLY_RECEIVED"
  ELSE "SUBMITTED"

derivePoStatus(ordered, received, short, current) ==
  IF current \in {"CANCELLED", "DRAFT"} THEN current
  ELSE IF \A p \in LinesIn(ordered) : lineIsComplete(ordered, received, short, p) THEN "RECEIVED"
  ELSE IF \E p \in LinesIn(ordered) : received[p] > 0 \/ p \in short THEN "PARTIALLY_RECEIVED"
  ELSE "SUBMITTED"

\* New lots for the accepted units, one per line at most.
FreshLots ==
  {new \in [Lots -> 0 .. MaxUnits] :
     /\ \A l \in Lots : new[l] > 0 => lotStatus[l] = "ABSENT"
     /\ \A k, l \in Lots :
          new[k] > 0 /\ new[l] > 0 /\ ProductOf[k] = ProductOf[l] => k = l}

LockedProducts ==
  UNION {receipt[r].lines : r \in {q \in Requests : receipt[q] # Nothing}}

\* nextReceived: what the line had when it was loaded, and what came in.
NextReceived(r, rec) ==
  [p \in Products |-> loaded[r].receivedQty[p] + LineQty(rec.new, p)]

Outstanding(r, p) == AtLeastZero(loaded[r].orderedQty[p] - loaded[r].receivedQty[p])

\* Mutant of ReceiptAllowed: any number of units is taken in.
ReceiptAllowedUnasked(r, rec) ==
  /\ rec.lines # {} /\ rec.lines \subseteq LinesIn(loaded[r].orderedQty)
  /\ rec.lines \cap loaded[r].shortClosed = {}
  /\ \A p \in Products \ rec.lines : LineQty(rec.new, p) = 0
  /\ rec.closing \subseteq {p \in rec.lines : NextReceived(r, rec)[p] < loaded[r].orderedQty[p]}
  /\ rec.acknowledged \subseteq {p \in rec.lines : LineQty(rec.new, p) > Outstanding(r, p)}

\* The checks on the lines.  A line that accepts nothing and does not close
\* rejects units, which leave no trace in the order or in stock.  Closing a
\* line short is always acknowledged here.
ReceiptAllowed(r, rec) ==
  /\ rec.lines # {} /\ rec.lines \subseteq LinesIn(loaded[r].orderedQty)
  /\ rec.lines \cap loaded[r].shortClosed = {}
  /\ \A p \in Products \ rec.lines : LineQty(rec.new, p) = 0
  /\ rec.closing \subseteq {p \in rec.lines : NextReceived(r, rec)[p] < loaded[r].orderedQty[p]}
  /\ rec.acknowledged = {p \in rec.lines : LineQty(rec.new, p) > Outstanding(r, p)}

\* The lines as the transaction sees them when it derives the status: its own
\* writes, and what others have committed to the other lines.
RefreshedReceived(r, rec) ==
  [p \in Products |-> IF p \in rec.lines THEN NextReceived(r, rec)[p]
                      ELSE receivedQty[loaded[r].order][p]]

RefreshedShort(r, rec) == (shortClosed[loaded[r].order] \ rec.lines) \cup rec.closing

\* Lock the products, check the lines, write them, derive the status.
receiveLines(r, rec) ==
  /\ loaded[r] # Nothing /\ receipt[r] = Nothing
  /\ loaded[r].status \in {"SUBMITTED", "PARTIALLY_RECEIVED"}
  /\ ~loaded[r].replaced
  /\ rec.lines \cap LockedProducts = {}
  /\ ReceiptAllowed(r, rec)
  /\ receipt' = [receipt EXCEPT ![r] =
       [lines |-> rec.lines, new |-> rec.new, closing |-> rec.closing,
        acknowledged |-> rec.acknowledged, unitCostActual |-> rec.unitCostActual,
        nextStatus |-> derivePoStatus(orderedQty[loaded[r].order],
                                      RefreshedReceived(r, rec),
                                      RefreshedShort(r, rec), loaded[r].status)]]
  /\ UNCHANGED <<stockVars, orderVars, receiptVars, cost, loaded, raced>>

\* Mutant of averageCost: the units are not weighed.
averageCostAdds(previousStock, oldCost, qtyIn, unitCostActual) ==
  IF previousStock <= 0 THEN unitCostActual
  ELSE Rounded(previousStock * oldCost + qtyIn * unitCostActual, previousStock)

\* Weighted-average Product.cost of a receipt line.
averageCost(previousStock, oldCost, qtyIn, unitCostActual) ==
  IF previousStock <= 0 THEN unitCostActual
  ELSE Rounded(previousStock * oldCost + qtyIn * unitCostActual, previousStock + qtyIn)

\* Mutant of addLots: the caller adds the units to Product.stock once more.
addLotsTwice(new) ==
  /\ lotStatus' = [l \in Lots |-> IF new[l] > 0 THEN "ACTIVE" ELSE lotStatus[l]]
  /\ quantityRemaining' = [l \in Lots |-> quantityRemaining[l] + new[l]]
  /\ stock' = [p \in Products |-> stock[p] + 2 * LineQty(new, p)]
  /\ UNCHANGED <<quantityReserved, reserved>>

\* addLot for every line that accepted units.
addLots(new) ==
  /\ lotStatus' = [l \in Lots |-> IF new[l] > 0 THEN "ACTIVE" ELSE lotStatus[l]]
  /\ quantityRemaining' = [l \in Lots |-> quantityRemaining[l] + new[l]]
  /\ stock' = [p \in Products |-> stock[p] + LineQty(new, p)]
  /\ UNCHANGED <<quantityReserved, reserved>>

\* Mutant of LineAfter: the line keeps what it had.
LineAfterUnchanged(r, p) ==
  IF p \in receipt[r].lines THEN loaded[r].receivedQty[p] ELSE receivedQty[loaded[r].order][p]

\* Mutant of LineAfter: closing a line short books it as received in full.
LineAfterFull(r, p) ==
  CASE p \in receipt[r].closing -> loaded[r].orderedQty[p]
    [] p \in receipt[r].lines \ receipt[r].closing -> NextReceived(r, receipt[r])[p]
    [] OTHER -> receivedQty[loaded[r].order][p]

\* receivedQty and shortClosed are written as values, on what was loaded.
LineAfter(r, p) ==
  IF p \in receipt[r].lines THEN NextReceived(r, receipt[r])[p]
                            ELSE receivedQty[loaded[r].order][p]

receiveGoods(r) ==
  /\ receipt[r] # Nothing
  /\ LET o == loaded[r].order
         rec == receipt[r]
     IN  /\ addLots(rec.new)
         /\ receivedQty' = [receivedQty EXCEPT ![o] = [p \in Products |-> LineAfter(r, p)]]
         /\ shortClosed' = [shortClosed EXCEPT ![o] = RefreshedShort(r, rec)]
         /\ receipted' = [receipted EXCEPT ![o] = @ \cup rec.lines]
         /\ accepted' = [accepted EXCEPT ![o] =
              [p \in Products |-> @[p] + LineQty(rec.new, p)]]
         /\ overReceipt' = [overReceipt EXCEPT ![o] = @ \cup rec.acknowledged]
         /\ cost' = [p \in Products |->
              IF LineQty(rec.new, p) > 0
              THEN averageCost(stock[p], cost[p], LineQty(rec.new, p), rec.unitCostActual)
              ELSE cost[p]]
         /\ poStatus' = [poStatus EXCEPT ![o] = rec.nextStatus]
         /\ Commits(r, o, FALSE)
  /\ UNCHANGED orderedQty

\* Sales go on; they need the lock of the product.
SellUnit(p) ==
  LET cart == [q \in Products |-> IF q = p THEN 1 ELSE 0]
  IN  /\ p \notin LockedProducts
      /\ CanAllocate(cart, FALSE)
      /\ consumeDirect(allocateFefo(cart, FALSE))
      /\ UNCHANGED <<orderVars, receiptVars, cost, loaded, receipt, raced>>

-----------------------------------------------------------------------------

\* What a receipt may say; its cost matters when it brings units.
ReceiptOf(lines) ==
  {rec \in [lines : {lines}, new : FreshLots, closing : SUBSET lines,
            acknowledged : SUBSET lines, unitCostActual : UnitCosts] :
     (\A l \in Lots : rec.new[l] = 0) => rec.unitCostActual = CHOOSE c \in UnitCosts : TRUE}

Next ==
  \/ \E o \in Orders, lines \in PoLines : createPurchaseOrder(o, lines)
  \/ \E r \in Requests :
       \/ \E o \in Orders : loadPo(r, o)
       \/ Respond(r)
       \/ \E lines \in PoLines : updatePurchaseOrder(r, lines)
       \/ submitPurchaseOrder(r)
       \/ cancelPurchaseOrder(r)
       \/ /\ loaded[r] # Nothing
          /\ \E lines \in SUBSET LinesIn(loaded[r].orderedQty) :
               \E rec \in ReceiptOf(lines) : receiveLines(r, rec)
       \/ receiveGoods(r)
  \/ \E p \in Products : SellUnit(p)

Spec == Init /\ [][Next]_vars

-----------------------------------------------------------------------------
(* Properties *)

\* Orders no two requests worked on at once.
Orderly == Orders \ raced

\* An order line counts the units its receipts accepted, over any sequence of
\* partial, rejected and short receipts.
ReceivedIsAccepted ==
  \A o \in Orderly : receivedQty[o] = accepted[o]

\* Whatever requests overlap, an order line never claims more units than its
\* receipts accepted: racing receipts may lose units from the order, never
\* invent them.
ReceivedNeverOverstated ==
  \A o \in Orders, p \in Products : receivedQty[o][p] <= accepted[o][p]

\* The status of an order says what its lines say: RECEIVED when every line has
\* its units or was closed short, SUBMITTED while no line has any.
StatusFollowsLines ==
  \A o \in Orderly : poStatus[o] \in {"SUBMITTED", "PARTIALLY_RECEIVED", "RECEIVED"} =>
    /\ poStatus[o] = "RECEIVED" <=>
         \A p \in Products : accepted[o][p] >= orderedQty[o][p] \/ p \in shortClosed[o]
    /\ poStatus[o] = "SUBMITTED" <=> accepted[o] = NoUnits /\ shortClosed[o] = {}

\* No goods were ever received on a CANCELLED order.
CancelledHasNoGoods ==
  \A o \in Orderly : poStatus[o] = "CANCELLED" => accepted[o] = NoUnits

\* More units than were ordered are in stock only where the receiver
\* acknowledged it: over-receipt is never silent.
OverReceiptAcknowledged ==
  \A o \in Orderly, p \in Products :
    accepted[o][p] > orderedQty[o][p] => p \in overReceipt[o]

\* Product.cost stays within the prices that were ever paid, whatever is sold
\* and received in between and however often it is rounded.
CostWithinPrices ==
  \A p \in Products : \E low, high \in UnitCosts : low <= cost[p] /\ cost[p] <= high

\* An order says what arrived: units, status, over-receipt and cancellation
\* agree with its receipts, and the stock with the lots they made.
OrdersTruthful ==
  /\ TypeOK
  /\ StockRollup
  /\ ReceivedIsAccepted
  /\ StatusFollowsLines
  /\ CancelledHasNoGoods
  /\ OverReceiptAcknowledged

=============================================================================
