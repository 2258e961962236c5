-------------------------- MODULE PurchasingProofs --------------------------
(***************************************************************************)
(* Safety of purchasing for any number of orders, requests, products and   *)
(* lots: whatever requests overlap, an order line never overstates what    *)
(* arrived and the lots carry the stock; an order only one request at a    *)
(* time worked on says exactly what arrived.                               *)
(*                                                                         *)
(* The invariant says what a reading taken without a lock is still worth   *)
(* when it is used: a bound on the units accepted for ever, the order's    *)
(* lines until they are replaced, and the whole row until somebody else    *)
(* commits.                                                                *)
(*                                                                         *)
(* Then what a buyer is told to order, for any shelf and any orders, and   *)
(* the cycle counts of a store, for any number of products.                *)
(***************************************************************************)
EXTENDS Purchasing, Reorder, CycleCount, StockProofs

Reading ==
  [order : Orders, status : PurchaseOrderStatus, orderedQty : PoLines \cup {NoUnits},
   receivedQty : [Products -> Nat], shortClosed : SUBSET Products,
   outdated : BOOLEAN, replaced : BOOLEAN]

Received == {"SUBMITTED", "PARTIALLY_RECEIVED", "RECEIVED"}

ReceiptRow ==
  [lines : SUBSET Products, new : [Lots -> 0 .. MaxUnits], closing : SUBSET Products,
   acknowledged : SUBSET Products, unitCostActual : UnitCosts, nextStatus : Received]

RowTypeOK ==
  /\ poStatus \in [Orders -> PurchaseOrderStatus]
  /\ orderedQty \in [Orders -> PoLines \cup {NoUnits}]
  /\ receivedQty \in [Orders -> [Products -> Nat]]
  /\ accepted \in [Orders -> [Products -> Nat]]
  /\ shortClosed \in [Orders -> SUBSET Products]
  /\ receipted \in [Orders -> SUBSET Products]
  /\ overReceipt \in [Orders -> SUBSET Products]
  /\ raced \subseteq Orders

DeskTypeOK ==
  /\ loaded \in [Requests -> Reading \cup {Nothing}]
  /\ receipt \in [Requests -> ReceiptRow \cup {Nothing}]

\* The rows of one order, raced or not.
RowsOK(o) ==
  /\ overReceipt[o] \subseteq receipted[o]
  /\ receipted[o] \subseteq LinesIn(orderedQty[o])
  /\ shortClosed[o] \subseteq LinesIn(orderedQty[o])
  /\ \A p \in Products : accepted[o][p] > 0 => p \in receipted[o]
  /\ \A p \in Products : receivedQty[o][p] <= accepted[o][p]
  /\ poStatus[o] = "NONE" => orderedQty[o] = NoUnits
  /\ poStatus[o] # "NONE" => orderedQty[o] \in PoLines

\* The rows of an order no two requests worked on at once.
OrderlyOK(o) ==
  /\ receivedQty[o] = accepted[o]
  /\ poStatus[o] \notin Received => accepted[o] = NoUnits /\ shortClosed[o] = {}
  /\ poStatus[o] \in Received =>
       /\ poStatus[o] = "RECEIVED" <=>
            \A p \in Products : accepted[o][p] >= orderedQty[o][p] \/ p \in shortClosed[o]
       /\ poStatus[o] = "SUBMITTED" <=> accepted[o] = NoUnits /\ shortClosed[o] = {}
  /\ \A p \in Products : accepted[o][p] > orderedQty[o][p] => p \in overReceipt[o]

\* What a reading of order o still says about it.
ReadingOK(q) ==
  LET m == loaded[q]
      o == loaded[q].order
  IN  m # Nothing =>
        /\ poStatus[o] # "NONE"
        /\ \A p \in Products : m.receivedQty[p] <= accepted[o][p]
        /\ ~m.replaced => m.orderedQty = orderedQty[o]
        /\ ~m.outdated => /\ ~m.replaced
                          /\ m.status = poStatus[o]
                          /\ m.receivedQty = receivedQty[o]
                          /\ m.shortClosed = shortClosed[o]

\* What a receipt about to be committed rests on.
ReceiptOK(q) ==
  LET rec == receipt[q]
  IN  rec # Nothing =>
        /\ loaded[q] # Nothing /\ ~loaded[q].replaced
        /\ rec.lines \subseteq LinesIn(loaded[q].orderedQty)
        /\ rec.closing \subseteq rec.lines
        /\ rec.acknowledged = {p \in rec.lines : LineQty(rec.new, p) > Outstanding(q, p)}
        /\ \A l \in Lots : rec.new[l] > 0 => lotStatus[l] = "ABSENT" /\ ProductOf[l] \in rec.lines
        /\ ~loaded[q].outdated =>
             rec.nextStatus = derivePoStatus(orderedQty[loaded[q].order],
                                             RefreshedReceived(q, rec), RefreshedShort(q, rec),
                                             "SUBMITTED")

LocksApart ==
  \A q, r \in Requests :
    q # r /\ receipt[q] # Nothing /\ receipt[r] # Nothing => receipt[q].lines \cap receipt[r].lines = {}

\* A lot that does not exist yet has no units; nothing is ever held.
LotsOK ==
  /\ StockTypeOK
  /\ StockRollup
  /\ \A l \in Lots : /\ quantityReserved[l] = 0
                     /\ lotStatus[l] = "ABSENT" => quantityRemaining[l] = 0

PricesOK == cost \in [Products -> Nat] /\ CostWithinPrices

OrdersOK == \A o \in Orders : RowsOK(o) /\ (o \notin raced => OrderlyOK(o))

DeskOK == (\A q \in Requests : ReadingOK(q) /\ ReceiptOK(q)) /\ LocksApart

PurchasingInv == RowTypeOK /\ DeskTypeOK /\ OrdersOK /\ DeskOK /\ LotsOK /\ PricesOK

-----------------------------------------------------------------------------
(* The operators of the model *)

\* The marker for "nothing" is neither a reading nor a receipt.
LEMMA NothingApart == Nothing \notin Reading /\ Nothing \notin ReceiptRow
BY DEF Nothing, Reading, ReceiptRow

\* The units a receipt brings, line by line; a product that is not among its
\* lines gets none.
LEMMA ReceiptLines ==
  ASSUME NEW new \in [Lots -> 0 .. MaxUnits], NEW p \in Products
  PROVE  /\ new \in Allocation
         /\ LineQty(new, p) \in Nat
         /\ (\A l \in Lots : new[l] > 0 => ProductOf[l] # p) => LineQty(new, p) = 0
         /\ LineQty(new, p) = 0 => \A l \in Lots : new[l] > 0 => ProductOf[l] # p
<1>1. new \in Allocation
  BY PurchasingAssumption DEF Allocation
<1>2. LineQty(new, p) \in Nat
  BY <1>1, LineQtyType
<1>3. ASSUME \A l \in Lots : new[l] > 0 => ProductOf[l] # p
      PROVE  LineQty(new, p) = 0
  <2>1. \A l \in LotsOf(p) : new[l] = 0
    BY <1>1, <1>3 DEF LotsOf, Allocation
  <2> QED
    BY <2>1, LotsOfFinite, TotalZero DEF LineQty
<1>4. ASSUME LineQty(new, p) = 0, NEW l \in Lots, new[l] > 0
      PROVE  ProductOf[l] # p
  <2>1. SUFFICES ASSUME ProductOf[l] = p PROVE FALSE
    OBVIOUS
  <2>2. l \in LotsOf(p) /\ NaturalOn(new, LotsOf(p))
    BY <1>1, <2>1, LotsOfFinite DEF LotsOf, NaturalOn, Allocation
  <2>3. new[l] <= LineQty(new, p)
    BY <2>2, LotsOfFinite, TotalMember DEF LineQty
  <2> QED
    BY <1>1, <1>4, <2>3 DEF Allocation
<1> QED
  BY <1>1, <1>2, <1>3, <1>4

\* The derived status says what the lines say.
LEMMA DerivedStatus ==
  ASSUME NEW ordered \in PoLines, NEW got \in [Products -> Nat],
         NEW short \in SUBSET LinesIn(ordered),
         NEW current \in {"SUBMITTED", "PARTIALLY_RECEIVED"},
         \A p \in Products : got[p] > 0 => p \in LinesIn(ordered)
  PROVE  LET next == derivePoStatus(ordered, got, short, current)
         IN  /\ next \in Received
             /\ next = derivePoStatus(ordered, got, short, "SUBMITTED")
             /\ next = "RECEIVED" <=> \A p \in Products : got[p] >= ordered[p] \/ p \in short
             /\ next = "SUBMITTED" <=> got = NoUnits /\ short = {}
<1> DEFINE next == derivePoStatus(ordered, got, short, current)
           complete == \A p \in LinesIn(ordered) : lineIsComplete(ordered, got, short, p)
           started == \E p \in LinesIn(ordered) : got[p] > 0 \/ p \in short
<1>1. /\ ordered \in [Products -> Nat] /\ \E p \in Products : ordered[p] # 0
  BY PurchasingAssumption
<1>2. /\ next = IF complete THEN "RECEIVED"
                ELSE IF started THEN "PARTIALLY_RECEIVED" ELSE "SUBMITTED"
      /\ derivePoStatus(ordered, got, short, "SUBMITTED") = next
  BY DEF derivePoStatus
<1>3. complete <=> \A p \in Products : got[p] >= ordered[p] \/ p \in short
  BY <1>1 DEF lineIsComplete, LinesIn
<1>4. started <=> ~(got = NoUnits /\ short = {})
  <2>1. got = NoUnits <=> \A p \in Products : got[p] = 0
    BY DEF NoUnits
  <2>2. (\E p \in Products : got[p] > 0) <=> ~(got = NoUnits)
    BY <2>1
  <2> QED
    BY <2>2 DEF LinesIn
<1>5. got = NoUnits /\ short = {} => ~complete
  BY <1>1, <1>3 DEF NoUnits
<1> QED
  BY <1>2, <1>3, <1>4, <1>5 DEF Received

\* Rounding to the nearest unit stays within whole bounds.
LEMMA RoundedWithin ==
  ASSUME NEW n \in Nat, NEW d \in Nat \ {0}, NEW low \in Nat, NEW high \in Nat,
         d * low <= n, n <= d * high
  PROVE  Rounded(n, d) \in Nat /\ low <= Rounded(n, d) /\ Rounded(n, d) <= high
<1> DEFINE a == 2 * n + d
           b == 2 * d
           q == a \div b
<1>1. a \in Nat /\ b \in Nat \ {0} /\ q \in Int
  OBVIOUS
<1>2. b * q <= a /\ a < b * (q + 1)
  <2> HIDE DEF a, b
  <2> QED
    BY <1>1 DEF q
<1>3. b * low <= a /\ a < b * (high + 1)
  OBVIOUS
<1>4. Rounded(n, d) = q
  BY DEF Rounded
<1>5. low <= q /\ q <= high
  <2> HIDE DEF a, b, q
  <2>1. b * low < b * (q + 1) /\ b * q < b * (high + 1)
    BY <1>1, <1>2, <1>3
  <2>2. low < q + 1 /\ q < high + 1
    BY <1>1, <2>1
  <2> QED
    BY <1>1, <2>2
<1> QED
  BY <1>1, <1>4, <1>5

\* A weighted average lies between the prices it averages.
LEMMA averageCostWithin ==
  ASSUME NEW previousStock \in Int, NEW oldCost \in Nat, NEW qtyIn \in Nat \ {0},
         NEW unitCostActual \in Nat, NEW low \in Nat, NEW high \in Nat,
         low <= oldCost, oldCost <= high, low <= unitCostActual, unitCostActual <= high
  PROVE  LET c == averageCost(previousStock, oldCost, qtyIn, unitCostActual)
         IN  c \in Nat /\ low <= c /\ c <= high
<1>1. CASE previousStock <= 0
  BY <1>1 DEF averageCost
<1>2. CASE previousStock > 0
  <2> DEFINE n == previousStock * oldCost + qtyIn * unitCostActual
             d == previousStock + qtyIn
  <2>1. previousStock \in Nat \ {0} /\ d \in Nat \ {0}
    BY <1>2
  <2>2. /\ previousStock * low <= previousStock * oldCost
        /\ previousStock * oldCost <= previousStock * high
        /\ qtyIn * low <= qtyIn * unitCostActual
        /\ qtyIn * unitCostActual <= qtyIn * high
    BY <2>1
  <2>3. n \in Nat /\ d * low <= n /\ n <= d * high
    BY <2>1, <2>2
  <2>4. averageCost(previousStock, oldCost, qtyIn, unitCostActual) = Rounded(n, d)
    BY <1>2 DEF averageCost
  <2> HIDE DEF n, d
  <2> QED
    BY <2>1, <2>3, <2>4, RoundedWithin
<1> QED
  BY <1>1, <1>2

-----------------------------------------------------------------------------
(* Lots and costs *)

\* The lots of a receipt enter the rollup with the units they bring.
LEMMA addLotsKeeps ==
  ASSUME LotsOK, NEW new \in [Lots -> 0 .. MaxUnits], addLots(new),
         \A l \in Lots : new[l] > 0 => lotStatus[l] = "ABSENT"
  PROVE  LotsOK'
<1>1. new \in Allocation /\ new \in [Lots -> Int] /\ NoAllocation \in [Lots -> Int]
  BY PurchasingAssumption DEF Allocation, NoAllocation
<1>2. StockTypeOK'
  BY <1>1, LineQtyType DEF LotsOK, StockTypeOK, LotStatus, Allocation, addLots
<1>3. \A l \in Lots : /\ Sellable(lotStatus', quantityRemaining')[l] =
                           Sellable(lotStatus, quantityRemaining)[l] + new[l]
                      /\ Sellable(lotStatus', quantityReserved')[l] =
                           Sellable(lotStatus, quantityReserved)[l] + NoAllocation[l]
  BY <1>1 DEF LotsOK, StockTypeOK, Allocation, addLots, Sellable, NoAllocation
<1>4. \A p \in Products : /\ stock'[p] = stock[p] + Total(new, LotsOf(p))
                          /\ reserved'[p] = reserved[p] + Total(NoAllocation, LotsOf(p))
  BY LineChange DEF LotsOK, StockTypeOK, addLots, LineQty
<1>5. StockRollup'
  BY <1>1, <1>2, <1>3, <1>4, RollupStep DEF LotsOK
<1>6. \A l \in Lots : /\ quantityReserved'[l] = 0
                      /\ lotStatus'[l] = "ABSENT" => quantityRemaining'[l] = 0
  BY <1>1 DEF LotsOK, StockTypeOK, Allocation, addLots
<1> QED
  BY <1>2, <1>5, <1>6 DEF LotsOK

\* A sale takes units of ACTIVE lots, so no lot that is still to come changes.
LEMMA SellUnitKeeps ==
  ASSUME LotsOK, NEW p \in Products, SellUnit(p)
  PROVE  /\ LotsOK'
         /\ \A l \in Lots : lotStatus[l] = "ABSENT" => lotStatus'[l] = "ABSENT"
<1> DEFINE cart == [q \in Products |-> IF q = p THEN 1 ELSE 0]
           a == allocateFefo(cart, FALSE)
<1>1. consumeDirect(a) /\ cart \in [Products -> Nat]
  BY DEF SellUnit
<1>2. /\ a \in Allocation
      /\ \A l \in Lots : a[l] > 0 => /\ lotStatus[l] = "ACTIVE"
                                     /\ a[l] <= quantityRemaining[l] - quantityReserved[l]
  <2> HIDE DEF cart
  <2> QED
    BY <1>1, AllocateFefo DEF LotsOK
<1> HIDE DEF a
<1>3. \A l \in Lots : a[l] \in Nat /\ quantityReserved[l] = 0 /\ quantityRemaining[l] \in Int
  BY <1>2 DEF LotsOK, Allocation, StockTypeOK
<1>4. StockTypeOK'
  BY <1>1, <1>2, consumeDirectType DEF LotsOK
<1>5. StockRollup'
  BY <1>1, <1>2, <1>3, consumeDirectRollup DEF LotsOK
<1>6. \A l \in Lots : lotStatus[l] = "ABSENT" <=> lotStatus'[l] = "ABSENT"
  BY <1>1, <1>2, <1>3 DEF consumeDirect, DepletedAtZero
<1>7. \A l \in Lots : /\ quantityReserved'[l] = 0
                      /\ lotStatus'[l] = "ABSENT" => quantityRemaining'[l] = 0
  BY <1>1, <1>2, <1>3, <1>6 DEF LotsOK, consumeDirect
<1> QED
  BY <1>4, <1>5, <1>6, <1>7 DEF LotsOK

\* A receipt moves the cost of its products to an average of prices paid.
LEMMA CostsKept ==
  ASSUME PricesOK, StockTypeOK, NEW new \in [Lots -> 0 .. MaxUnits], NEW price \in UnitCosts,
         cost' = [p \in Products |->
                    IF LineQty(new, p) > 0
                    THEN averageCost(stock[p], cost[p], LineQty(new, p), price)
                    ELSE cost[p]]
  PROVE  PricesOK'
<1>1. ASSUME NEW p \in Products
      PROVE  cost'[p] \in Nat /\ \E low, high \in UnitCosts : low <= cost'[p] /\ cost'[p] <= high
  <2>1. CASE ~(LineQty(new, p) > 0)
    BY <2>1 DEF PricesOK, CostWithinPrices
  <2>2. CASE LineQty(new, p) > 0
    <3>1. PICK below \in UnitCosts, above \in UnitCosts : below <= cost[p] /\ cost[p] <= above
      BY DEF PricesOK, CostWithinPrices
    <3>2. below \in Nat /\ above \in Nat /\ price \in Nat /\ cost[p] \in Nat /\ stock[p] \in Int
      BY PurchasingAssumption DEF PricesOK, StockTypeOK
    <3>3. PICK low \in UnitCosts : low \in Nat /\ low <= below /\ low <= price
      BY <3>2
    <3>4. PICK high \in UnitCosts : high \in Nat /\ above <= high /\ price <= high
      BY <3>2
    <3>5. low <= cost[p] /\ cost[p] <= high
      BY <3>1, <3>2, <3>3, <3>4
    <3>6. LineQty(new, p) \in Nat \ {0}
      BY <2>2, ReceiptLines
    <3>7. /\ averageCost(stock[p], cost[p], LineQty(new, p), price) \in Nat
          /\ low <= averageCost(stock[p], cost[p], LineQty(new, p), price)
          /\ averageCost(stock[p], cost[p], LineQty(new, p), price) <= high
      BY <3>2, <3>3, <3>4, <3>5, <3>6, averageCostWithin
    <3> QED
      BY <2>2, <3>7
  <2> QED
    BY <2>1, <2>2
<1> QED
  BY <1>1 DEF PricesOK, CostWithinPrices

-----------------------------------------------------------------------------
(* Orders and readings *)

RowsElsewhere(o) ==
  \A x \in Orders \ {o} :
    /\ poStatus'[x] = poStatus[x] /\ orderedQty'[x] = orderedQty[x]
    /\ receivedQty'[x] = receivedQty[x] /\ shortClosed'[x] = shortClosed[x]
    /\ accepted'[x] = accepted[x] /\ receipted'[x] = receipted[x]
    /\ overReceipt'[x] = overReceipt[x]

\* A step that works on one order keeps the others.
LEMMA OtherOrders ==
  ASSUME OrdersOK, NEW o \in Orders, RowsElsewhere(o), raced \subseteq raced', RowsOK(o)',
         o \notin raced' => OrderlyOK(o)'
  PROVE  OrdersOK'
<1>1. ASSUME NEW x \in Orders, x # o
      PROVE  RowsOK(x)' /\ (x \notin raced' => OrderlyOK(x)')
  <2>1. RowsOK(x)'
    BY <1>1 DEF OrdersOK, RowsElsewhere, RowsOK
  <2>2. ASSUME x \notin raced' PROVE OrderlyOK(x)'
    BY <1>1, <2>2 DEF OrdersOK, RowsElsewhere, OrderlyOK
  <2> QED
    BY <2>1, <2>2
<1> QED
  BY <1>1 DEF OrdersOK

\* What a commit to order o does to the readings: its own ends, the others of
\* o are outdated, and the order is raced when its own was.
LEMMA CommitReadings ==
  ASSUME DeskTypeOK, RowTypeOK, NEW r \in Requests, loaded[r] # Nothing, NEW rep \in BOOLEAN,
         Commits(r, loaded[r].order, rep)
  PROVE  /\ DeskTypeOK'
         /\ loaded[r] \in Reading /\ loaded[r].order \in Orders
         /\ loaded'[r] = Nothing /\ receipt'[r] = Nothing
         /\ raced' = IF loaded[r].outdated THEN raced \cup {loaded[r].order} ELSE raced
         /\ \A q \in Requests \ {r} :
              /\ receipt'[q] = receipt[q]
              /\ loaded[q] = Nothing => loaded'[q] = Nothing
              /\ loaded[q] # Nothing =>
                   /\ loaded[q] \in Reading /\ loaded'[q] \in Reading /\ loaded'[q] # Nothing
                   /\ loaded'[q].order = loaded[q].order
                   /\ loaded'[q].status = loaded[q].status
                   /\ loaded'[q].orderedQty = loaded[q].orderedQty
                   /\ loaded'[q].receivedQty = loaded[q].receivedQty
                   /\ loaded'[q].shortClosed = loaded[q].shortClosed
                   /\ loaded[q].order = loaded[r].order =>
                        /\ loaded'[q].outdated
                        /\ loaded'[q].replaced <=> loaded[q].replaced \/ rep
                   /\ loaded[q].order # loaded[r].order =>
                        /\ loaded'[q].outdated <=> loaded[q].outdated
                        /\ loaded'[q].replaced <=> loaded[q].replaced
<1> DEFINE o == loaded[r].order
<1>1. loaded[r] \in Reading /\ o \in Orders
  BY DEF DeskTypeOK, Reading
<1>2. /\ loaded'[r] = Nothing /\ receipt'[r] = Nothing
      /\ raced' = IF loaded[r].outdated THEN raced \cup {o} ELSE raced
      /\ \A q \in Requests \ {r} : receipt'[q] = receipt[q]
  BY DEF Commits, DeskTypeOK
<1>3. ASSUME NEW q \in Requests \ {r}, loaded[q] # Nothing
      PROVE  /\ loaded[q] \in Reading /\ loaded'[q] \in Reading
             /\ loaded'[q].order = loaded[q].order
             /\ loaded'[q].status = loaded[q].status
             /\ loaded'[q].orderedQty = loaded[q].orderedQty
             /\ loaded'[q].receivedQty = loaded[q].receivedQty
             /\ loaded'[q].shortClosed = loaded[q].shortClosed
             /\ loaded[q].order = o => /\ loaded'[q].outdated
                                       /\ loaded'[q].replaced <=> loaded[q].replaced \/ rep
             /\ loaded[q].order # o => loaded'[q] = loaded[q]
  <2>1. loaded[q] \in Reading
    BY <1>3 DEF DeskTypeOK
  <2>2. loaded'[q] = IF loaded[q].order = o
                     THEN [loaded[q] EXCEPT !.outdated = TRUE,
                                            !.replaced = loaded[q].replaced \/ rep]
                     ELSE loaded[q]
    BY <1>3 DEF Commits
  <2>3. CASE loaded[q].order = o
    <3> DEFINE m == loaded[q]
               n == [m EXCEPT !.outdated = TRUE, !.replaced = m.replaced \/ rep]
    <3>1. loaded'[q] = n /\ m.replaced \in BOOLEAN /\ (m.replaced \/ rep) \in BOOLEAN
      BY <2>1, <2>2, <2>3 DEF Reading
    <3>2. /\ n \in Reading /\ n.order = m.order /\ n.status = m.status
          /\ n.orderedQty = m.orderedQty /\ n.receivedQty = m.receivedQty
          /\ n.shortClosed = m.shortClosed /\ n.outdated = TRUE
          /\ n.replaced = (m.replaced \/ rep)
      BY <2>1, <3>1 DEF Reading
    <3> QED
      BY <2>1, <2>3, <3>1, <3>2
  <2>4. CASE loaded[q].order # o
    BY <2>1, <2>2, <2>4
  <2> QED
    BY <2>3, <2>4
<1>4. \A q \in Requests \ {r} : loaded[q] = Nothing => loaded'[q] = Nothing
  BY DEF Commits
<1>5. loaded' \in [Requests -> Reading \cup {Nothing}]
  <2>1. loaded' = [q \in Requests |-> loaded'[q]]
    BY DEF Commits
  <2> QED
    BY <1>2, <1>3, <1>4, <2>1
<1>6. receipt' \in [Requests -> ReceiptRow \cup {Nothing}]
  BY DEF Commits, DeskTypeOK
<1> QED
  BY <1>1, <1>2, <1>3, <1>4, <1>5, <1>6, NothingApart DEF DeskTypeOK

\* A commit keeps what the readings and the receipts of the others rest on:
\* other orders are as they were, the units accepted for this one only grow,
\* and its lines are replaced only while no receipt is about to be committed.
LEMMA CommitDesk ==
  ASSUME DeskTypeOK, RowTypeOK, DeskOK, RowTypeOK',
         NEW r \in Requests, loaded[r] # Nothing, NEW rep \in BOOLEAN,
         Commits(r, loaded[r].order, rep), RowsElsewhere(loaded[r].order),
         poStatus'[loaded[r].order] # "NONE",
         \A p \in Products : accepted[loaded[r].order][p] <= accepted'[loaded[r].order][p],
         ~rep => orderedQty'[loaded[r].order] = orderedQty[loaded[r].order],
         rep => \A q \in Requests : receipt[q] # Nothing => loaded[q].order # loaded[r].order,
         \A q \in Requests \ {r} : receipt[q] # Nothing =>
           \A l \in Lots : receipt[q].new[l] > 0 => lotStatus'[l] = "ABSENT"
  PROVE  DeskTypeOK' /\ DeskOK'
<1> DEFINE o == loaded[r].order
<1>1. DeskTypeOK' /\ o \in Orders /\ loaded'[r] = Nothing /\ receipt'[r] = Nothing
  BY CommitReadings
<1>2. ASSUME NEW q \in Requests PROVE ReadingOK(q)'
  <2>1. CASE q = r \/ loaded[q] = Nothing
    BY <1>1, <2>1, CommitReadings DEF ReadingOK
  <2>2. CASE q # r /\ loaded[q] # Nothing /\ loaded[q].order # o
    <3>1. /\ loaded[q] \in Reading /\ loaded[q].order \in Orders \ {o}
          /\ loaded'[q].order = loaded[q].order
          /\ loaded'[q].status = loaded[q].status
          /\ loaded'[q].orderedQty = loaded[q].orderedQty
          /\ loaded'[q].receivedQty = loaded[q].receivedQty
          /\ loaded'[q].shortClosed = loaded[q].shortClosed
          /\ loaded'[q].outdated <=> loaded[q].outdated
          /\ loaded'[q].replaced <=> loaded[q].replaced
      BY <2>2, CommitReadings DEF Reading
    <3>2. ReadingOK(q)
      BY DEF DeskOK
    <3> QED
      BY <2>2, <3>1, <3>2 DEF ReadingOK, RowsElsewhere
  <2>3. CASE q # r /\ loaded[q] # Nothing /\ loaded[q].order = o
    <3>1. /\ loaded[q] \in Reading /\ loaded'[q].order = o
          /\ loaded'[q].orderedQty = loaded[q].orderedQty
          /\ loaded'[q].receivedQty = loaded[q].receivedQty
          /\ loaded'[q].outdated
          /\ loaded'[q].replaced <=> loaded[q].replaced \/ rep
      BY <2>3, CommitReadings
    <3>2. ReadingOK(q)
      BY DEF DeskOK
    <3>3. \A p \in Products : loaded[q].receivedQty[p] \in Nat /\ accepted[o][p] \in Nat
                              /\ accepted'[o][p] \in Nat
      BY <1>1, <3>1 DEF Reading, RowTypeOK
    <3>4. \A p \in Products : loaded'[q].receivedQty[p] <= accepted'[o][p]
      BY <2>3, <3>1, <3>2, <3>3 DEF ReadingOK
    <3>5. ~loaded'[q].replaced => loaded'[q].orderedQty = orderedQty'[o]
      BY <2>3, <3>1, <3>2 DEF ReadingOK
    <3> QED
      BY <3>1, <3>4, <3>5 DEF ReadingOK
  <2> QED
    BY <2>1, <2>2, <2>3
<1>3. ASSUME NEW q \in Requests PROVE ReceiptOK(q)'
  <2>1. CASE q = r \/ receipt[q] = Nothing
    BY <1>1, <2>1, CommitReadings DEF ReceiptOK
  <2>2. CASE q # r /\ receipt[q] # Nothing
    <3>1. receipt'[q] = receipt[q] /\ ReceiptOK(q) /\ loaded[q] # Nothing
      BY <2>2, CommitReadings DEF DeskOK, ReceiptOK
    <3>2. /\ loaded[q] \in Reading /\ loaded'[q] # Nothing
          /\ loaded'[q].order = loaded[q].order /\ loaded[q].order \in Orders
          /\ loaded'[q].orderedQty = loaded[q].orderedQty
          /\ loaded'[q].receivedQty = loaded[q].receivedQty
          /\ loaded[q].order = o =>
               loaded'[q].outdated /\ (loaded'[q].replaced <=> loaded[q].replaced \/ rep)
          /\ loaded[q].order # o =>
               /\ loaded'[q].outdated <=> loaded[q].outdated
               /\ loaded'[q].replaced <=> loaded[q].replaced
      BY <2>2, <3>1, CommitReadings DEF Reading
    <3>3. ~loaded'[q].replaced
      BY <2>2, <3>1, <3>2 DEF ReceiptOK
    <3>4. \A p : Outstanding(q, p)' = Outstanding(q, p)
      BY <3>2 DEF Outstanding
    <3>5. ASSUME ~loaded'[q].outdated
          PROVE  receipt[q].nextStatus =
                   derivePoStatus(orderedQty[loaded[q].order], RefreshedReceived(q, receipt[q]),
                                  RefreshedShort(q, receipt[q]), "SUBMITTED")'
      <4>1. loaded[q].order \in Orders \ {o} /\ ~loaded[q].outdated
        BY <3>2, <3>5
      <4>2. /\ RefreshedReceived(q, receipt[q])' = RefreshedReceived(q, receipt[q])
            /\ RefreshedShort(q, receipt[q])' = RefreshedShort(q, receipt[q])
            /\ orderedQty[loaded[q].order]' = orderedQty[loaded[q].order]
        BY <3>1, <3>2, <4>1 DEF RefreshedReceived, RefreshedShort, NextReceived, RowsElsewhere
      <4>3. derivePoStatus(orderedQty[loaded[q].order], RefreshedReceived(q, receipt[q]),
                           RefreshedShort(q, receipt[q]), "SUBMITTED")' =
            derivePoStatus(orderedQty[loaded[q].order], RefreshedReceived(q, receipt[q]),
                           RefreshedShort(q, receipt[q]), "SUBMITTED")
        BY <4>2 DEF derivePoStatus, lineIsComplete, LinesIn
      <4> QED
        BY <2>2, <3>1, <4>1, <4>3 DEF ReceiptOK
    <3>6. \A l \in Lots : receipt[q].new[l] > 0 => lotStatus'[l] = "ABSENT"
      BY <2>2
    <3> QED
      BY <2>2, <3>1, <3>2, <3>3, <3>4, <3>5, <3>6 DEF ReceiptOK
  <2> QED
    BY <2>1, <2>2
<1>4. LocksApart'
  <2>1. \A q \in Requests : receipt'[q] # Nothing => receipt'[q] = receipt[q]
    BY <1>1, CommitReadings
  <2> QED
    BY <2>1 DEF DeskOK, LocksApart
<1> QED
  BY <1>1, <1>2, <1>3, <1>4 DEF DeskOK

-----------------------------------------------------------------------------
(* The steps *)

\* An order of at least one line is not complete with nothing received.
LEMMA LinesMissing ==
  ASSUME NEW ordered \in PoLines
  PROVE  /\ ordered \in [Products -> Nat]
         /\ ~(\A p \in Products : NoUnits[p] >= ordered[p])
         /\ \A p \in Products : NoUnits[p] = 0 /\ ~(NoUnits[p] > ordered[p])
<1>1. ordered \in [Products -> Nat] /\ \E p \in Products : ordered[p] # 0
  BY PurchasingAssumption
<1> QED
  BY <1>1 DEF NoUnits

\* Placing an order: nobody has read it yet.
LEMMA createKeeps ==
  ASSUME PurchasingInv, NEW o \in Orders, NEW lines \in PoLines, createPurchaseOrder(o, lines)
  PROVE  PurchasingInv'
<1> USE DEF PurchasingInv
<1>1. RowTypeOK'
  BY DEF RowTypeOK, createPurchaseOrder, receiptVars, PurchaseOrderStatus
<1>2. RowsElsewhere(o) /\ UNCHANGED <<raced, loaded, receipt, lotStatus>>
  BY DEF RowTypeOK, RowsElsewhere, createPurchaseOrder, receiptVars, stockVars, lotVars
<1>3. /\ poStatus[o] = "NONE" /\ poStatus'[o] = "DRAFT" /\ orderedQty'[o] = lines
      /\ receivedQty'[o] = receivedQty[o] /\ shortClosed'[o] = shortClosed[o]
      /\ accepted'[o] = accepted[o] /\ receipted'[o] = receipted[o]
      /\ overReceipt'[o] = overReceipt[o]
  BY DEF RowTypeOK, createPurchaseOrder, receiptVars
<1>4. RowsOK(o) /\ LinesIn(orderedQty[o]) = {}
  BY <1>3 DEF OrdersOK, RowsOK, LinesIn, NoUnits
<1>5. /\ shortClosed[o] = {} /\ receipted[o] = {} /\ overReceipt[o] = {}
      /\ accepted[o] = NoUnits /\ receivedQty[o] = NoUnits
  <2>1. shortClosed[o] = {} /\ receipted[o] = {} /\ overReceipt[o] = {}
    BY <1>4 DEF RowsOK
  <2>2. \A p \in Products : accepted[o][p] = 0 /\ receivedQty[o][p] = 0
    BY <1>4, <2>1 DEF RowsOK, RowTypeOK
  <2>3. accepted[o] \in [Products -> Nat] /\ receivedQty[o] \in [Products -> Nat]
    BY DEF RowTypeOK
  <2> QED
    BY <2>1, <2>2, <2>3 DEF NoUnits
<1>6. RowsOK(o)'
  BY <1>3, <1>5, LinesMissing DEF RowsOK, NoUnits
<1>7. OrderlyOK(o)'
  BY <1>3, <1>5, LinesMissing DEF OrderlyOK, Received
<1>8. OrdersOK'
  BY <1>2, <1>6, <1>7, OtherOrders
<1>9. ASSUME NEW q \in Requests, loaded[q] # Nothing
      PROVE  loaded[q].order \in Orders \ {o}
  <2>1. loaded[q] \in Reading /\ ReadingOK(q)
    BY <1>9 DEF DeskTypeOK, DeskOK
  <2> QED
    BY <1>3, <1>9, <2>1 DEF ReadingOK, Reading
<1>10. ASSUME NEW q \in Requests PROVE ReadingOK(q)'
  BY <1>2, <1>9 DEF DeskOK, ReadingOK, RowsElsewhere
<1>11. ASSUME NEW q \in Requests PROVE ReceiptOK(q)'
  <2>1. CASE receipt[q] = Nothing
    BY <1>2, <2>1 DEF ReceiptOK
  <2>2. CASE receipt[q] # Nothing
    <3>1. ReceiptOK(q) /\ loaded[q] # Nothing /\ loaded[q].order \in Orders \ {o}
      BY <1>9, <2>2 DEF DeskOK, ReceiptOK
    <3>2. /\ orderedQty'[loaded[q].order] = orderedQty[loaded[q].order]
          /\ RefreshedReceived(q, receipt[q])' = RefreshedReceived(q, receipt[q])
          /\ RefreshedShort(q, receipt[q])' = RefreshedShort(q, receipt[q])
          /\ \A p : Outstanding(q, p)' = Outstanding(q, p)
      BY <1>2, <3>1 DEF RefreshedReceived, RefreshedShort, NextReceived, RowsElsewhere, Outstanding
    <3>3. derivePoStatus(orderedQty[loaded[q].order], RefreshedReceived(q, receipt[q]),
                         RefreshedShort(q, receipt[q]), "SUBMITTED")' =
          derivePoStatus(orderedQty[loaded[q].order], RefreshedReceived(q, receipt[q]),
                         RefreshedShort(q, receipt[q]), "SUBMITTED")
      BY <1>2, <3>2 DEF derivePoStatus, lineIsComplete, LinesIn
    <3> QED
      BY <1>2, <2>2, <3>1, <3>2, <3>3 DEF ReceiptOK
  <2> QED
    BY <2>1, <2>2
<1>12. DeskOK' /\ DeskTypeOK'
  BY <1>2, <1>10, <1>11 DEF DeskOK, LocksApart, DeskTypeOK
<1>13. LotsOK' /\ PricesOK'
  BY DEF createPurchaseOrder, stockVars, lotVars, productVars, LotsOK, StockTypeOK, StockRollup,
         ActiveLots, PricesOK, CostWithinPrices
<1> QED
  BY <1>1, <1>8, <1>12, <1>13

\* Steps that leave rows, lots and costs alone.
LEMMA RowsKept ==
  ASSUME PurchasingInv, UNCHANGED <<stockVars, orderVars, receiptVars, cost, raced>>
  PROVE  RowTypeOK' /\ OrdersOK' /\ LotsOK' /\ PricesOK'
<1>1. RowTypeOK' /\ OrdersOK'
  BY DEF PurchasingInv, orderVars, receiptVars, RowTypeOK, OrdersOK, RowsOK, OrderlyOK
<1>2. LotsOK'
  BY DEF PurchasingInv, stockVars, lotVars, productVars, LotsOK, StockTypeOK, StockRollup,
         ActiveLots
<1>3. PricesOK'
  BY DEF PurchasingInv, PricesOK, CostWithinPrices
<1> QED
  BY <1>1, <1>2, <1>3

\* A request that holds no receipt moves to another reading of its own.
LEMMA ReadingKeeps ==
  ASSUME PurchasingInv, UNCHANGED <<stockVars, orderVars, receiptVars, cost, receipt, raced>>,
         NEW r \in Requests, receipt[r] = Nothing,
         NEW m \in Reading \cup {Nothing}, loaded' = [loaded EXCEPT ![r] = m], ReadingOK(r)'
  PROVE  PurchasingInv'
<1> USE DEF PurchasingInv
<1>1. RowTypeOK' /\ OrdersOK' /\ LotsOK' /\ PricesOK'
  BY RowsKept
<1>2. DeskTypeOK' /\ \A q \in Requests \ {r} : loaded'[q] = loaded[q]
  BY DEF DeskTypeOK
<1>3. UNCHANGED <<lotStatus, poStatus, orderedQty, receivedQty, shortClosed, accepted, receipt>>
  BY DEF stockVars, lotVars, orderVars, receiptVars
<1>4. ASSUME NEW q \in Requests PROVE ReadingOK(q)' /\ ReceiptOK(q)'
  <2>1. CASE q = r
    BY <1>3, <2>1 DEF ReceiptOK
  <2>2. CASE q # r
    <3>1. ReadingOK(q) /\ ReceiptOK(q) /\ loaded'[q] = loaded[q]
      BY <1>2, <2>2 DEF DeskOK
    <3>2. ReadingOK(q)'
      BY <1>3, <3>1 DEF ReadingOK
    <3>3. ReceiptOK(q)'
      BY <1>3, <3>1 DEF ReceiptOK, RefreshedReceived, RefreshedShort, NextReceived, Outstanding,
                        derivePoStatus, lineIsComplete, LinesIn
    <3> QED
      BY <3>2, <3>3
  <2> QED
    BY <2>1, <2>2
<1> QED
  BY <1>1, <1>2, <1>3, <1>4 DEF DeskOK, LocksApart

\* Loading an order, and answering.
LEMMA loadPoKeeps ==
  ASSUME PurchasingInv, NEW r \in Requests, NEW o \in Orders, loadPo(r, o)
  PROVE  PurchasingInv'
<1> DEFINE m == [order |-> o, status |-> poStatus[o], orderedQty |-> orderedQty[o],
                 receivedQty |-> receivedQty[o], shortClosed |-> shortClosed[o],
                 outdated |-> FALSE, replaced |-> FALSE]
<1>1. m \in Reading
  BY DEF PurchasingInv, RowTypeOK, Reading
<1>2. loaded' = [loaded EXCEPT ![r] = m] /\ loaded[r] = Nothing /\ poStatus[o] # "NONE"
  BY DEF loadPo
<1>3. UNCHANGED <<stockVars, orderVars, receiptVars, cost, receipt, raced>>
  BY DEF loadPo
<1>4. receipt[r] = Nothing
  BY <1>2 DEF PurchasingInv, DeskOK, ReceiptOK
<1>5. ReadingOK(r)'
  <2>1. loaded'[r] = m
    BY <1>2 DEF PurchasingInv, DeskTypeOK
  <2>2. \A p \in Products : receivedQty[o][p] <= accepted[o][p]
    BY DEF PurchasingInv, OrdersOK, RowsOK
  <2>3. UNCHANGED <<poStatus, orderedQty, receivedQty, shortClosed, accepted>>
    BY <1>3 DEF orderVars, receiptVars
  <2> QED
    BY <1>2, <2>1, <2>2, <2>3 DEF ReadingOK
<1> HIDE DEF m
<1> QED
  BY <1>1, <1>2, <1>3, <1>4, <1>5, ReadingKeeps

\* An answer ends the request and forgets what it read.
LEMMA RespondKeeps ==
  ASSUME PurchasingInv, NEW r \in Requests, Respond(r)
  PROVE  PurchasingInv'
<1>1. ReadingOK(r)'
  BY DEF Respond, ReadingOK, PurchasingInv, DeskTypeOK
<1> QED
  BY <1>1, ReadingKeeps DEF Respond

\* Checking the lines and deriving the status: the products are locked, so two
\* receipts have no line and no new lot in common.
LEMMA receiveLinesKeeps ==
  ASSUME PurchasingInv, NEW r \in Requests, NEW lines \in SUBSET Products,
         NEW rec \in ReceiptOf(lines), receiveLines(r, rec)
  PROVE  PurchasingInv'
<1> DEFINE o == loaded[r].order
           m == loaded[r]
           next == derivePoStatus(orderedQty[o], RefreshedReceived(r, rec),
                                  RefreshedShort(r, rec), m.status)
           row == [lines |-> rec.lines, new |-> rec.new, closing |-> rec.closing,
                   acknowledged |-> rec.acknowledged, unitCostActual |-> rec.unitCostActual,
                   nextStatus |-> next]
<1>1. /\ rec.lines \in SUBSET Products /\ rec.new \in [Lots -> 0 .. MaxUnits]
      /\ rec.closing \in SUBSET Products /\ rec.acknowledged \in SUBSET Products
      /\ rec.unitCostActual \in UnitCosts
      /\ \A l \in Lots : rec.new[l] > 0 => lotStatus[l] = "ABSENT"
  BY DEF ReceiptOf, FreshLots
<1>2. /\ m # Nothing /\ receipt[r] = Nothing /\ ~m.replaced /\ ReceiptAllowed(r, rec)
      /\ m.status \in {"SUBMITTED", "PARTIALLY_RECEIVED"}
      /\ rec.lines \cap LockedProducts = {} /\ receipt' = [receipt EXCEPT ![r] = row]
      /\ UNCHANGED <<stockVars, orderVars, receiptVars, cost, loaded, raced>>
  BY DEF receiveLines
<1>3. /\ m \in Reading /\ o \in Orders /\ ReadingOK(r) /\ RowsOK(o)
      /\ m.receivedQty \in [Products -> Nat] /\ m.orderedQty = orderedQty[o]
      /\ orderedQty[o] \in PoLines
  <2>1. m \in Reading /\ o \in Orders /\ ReadingOK(r) /\ m.receivedQty \in [Products -> Nat]
    BY <1>2 DEF PurchasingInv, DeskTypeOK, DeskOK, Reading
  <2>2. RowsOK(o) /\ poStatus[o] # "NONE" /\ m.orderedQty = orderedQty[o]
    BY <1>2, <2>1 DEF PurchasingInv, OrdersOK, ReadingOK
  <2> QED
    BY <2>1, <2>2 DEF RowsOK
<1>4. /\ \A p \in Products : LineQty(rec.new, p) \in Nat
      /\ \A l \in Lots : rec.new[l] > 0 => ProductOf[l] \in rec.lines
  <2>1. \A p \in Products \ rec.lines : LineQty(rec.new, p) = 0
    BY <1>2 DEF ReceiptAllowed
  <2>2. \A l \in Lots : ProductOf[l] \in Products
    BY LotsAssumption
  <2> QED
    BY <1>1, <2>1, <2>2, ReceiptLines
<1>5. /\ rec.lines \subseteq LinesIn(m.orderedQty) /\ rec.closing \subseteq rec.lines
      /\ rec.acknowledged = {p \in rec.lines : LineQty(rec.new, p) > Outstanding(r, p)}
  BY <1>2 DEF ReceiptAllowed
<1>6. next \in Received /\ next = derivePoStatus(orderedQty[o], RefreshedReceived(r, rec),
                                                RefreshedShort(r, rec), "SUBMITTED")
  <2> DEFINE got == RefreshedReceived(r, rec)
             short == RefreshedShort(r, rec)
  <2>1. got \in [Products -> Nat]
    <3>1. receivedQty[o] \in [Products -> Nat]
      BY <1>3 DEF PurchasingInv, RowTypeOK
    <3> QED
      BY <1>3, <1>4, <3>1 DEF RefreshedReceived, NextReceived
  <2>2. short \in SUBSET LinesIn(orderedQty[o])
    BY <1>3, <1>5 DEF RefreshedShort, RowsOK
  <2>3. \A p \in Products : got[p] > 0 => p \in LinesIn(orderedQty[o])
    <3>1. ASSUME NEW p \in Products, p \notin rec.lines, got[p] > 0
          PROVE  p \in LinesIn(orderedQty[o])
      <4>1. receivedQty[o][p] > 0 /\ receivedQty[o][p] \in Nat /\ accepted[o][p] \in Nat
        BY <1>3, <3>1 DEF RefreshedReceived, PurchasingInv, RowTypeOK
      <4> QED
        BY <1>3, <4>1 DEF RowsOK
    <3> QED
      BY <1>3, <1>5, <3>1
  <2> HIDE DEF got, short
  <2>4. next = derivePoStatus(orderedQty[o], got, short, m.status)
    BY DEF got, short
  <2>5. next \in Received /\ next = derivePoStatus(orderedQty[o], got, short, "SUBMITTED")
    BY <1>2, <1>3, <2>1, <2>2, <2>3, <2>4, DerivedStatus
  <2> QED
    BY <2>5 DEF got, short
<1> HIDE DEF next
<1>7. row \in ReceiptRow
  BY <1>1, <1>6 DEF ReceiptRow
<1>8. RowTypeOK' /\ OrdersOK' /\ LotsOK' /\ PricesOK'
  BY <1>2, RowsKept
<1>9. UNCHANGED <<lotStatus, poStatus, orderedQty, receivedQty, shortClosed, accepted, loaded>>
  BY <1>2 DEF stockVars, lotVars, orderVars, receiptVars
<1>10. DeskTypeOK' /\ receipt'[r] = row /\ \A q \in Requests \ {r} : receipt'[q] = receipt[q]
  BY <1>2, <1>7, <1>9 DEF PurchasingInv, DeskTypeOK
<1>11. \A q \in Requests : ReadingOK(q)'
  BY <1>9 DEF PurchasingInv, DeskOK, ReadingOK
<1>12. ASSUME NEW q \in Requests PROVE ReceiptOK(q)'
  <2>1. CASE q = r
    <3>1. /\ receipt'[r].lines = rec.lines /\ receipt'[r].new = rec.new
          /\ receipt'[r].closing = rec.closing
          /\ receipt'[r].acknowledged = rec.acknowledged /\ receipt'[r].nextStatus = next
      BY <1>10
    <3> HIDE DEF row
    <3>2. /\ RefreshedReceived(r, receipt[r])' = RefreshedReceived(r, rec)
          /\ RefreshedShort(r, receipt[r])' = RefreshedShort(r, rec)
          /\ \A p : Outstanding(r, p)' = Outstanding(r, p)
      BY <1>9, <3>1 DEF RefreshedReceived, RefreshedShort, NextReceived, Outstanding
    <3>3. derivePoStatus(orderedQty[loaded[r].order], RefreshedReceived(r, receipt[r]),
                         RefreshedShort(r, receipt[r]), "SUBMITTED")' = next
      BY <1>6, <1>9, <3>2 DEF derivePoStatus, lineIsComplete, LinesIn
    <3> QED
      BY <1>1, <1>2, <1>4, <1>5, <1>9, <2>1, <3>1, <3>2, <3>3 DEF ReceiptOK
  <2>2. CASE q # r
    BY <1>9, <1>10, <2>2
      DEF PurchasingInv, DeskOK, ReceiptOK, RefreshedReceived, RefreshedShort, NextReceived,
          Outstanding, derivePoStatus, lineIsComplete, LinesIn
  <2> QED
    BY <2>1, <2>2
<1>13. LocksApart'
  <2>1. \A q \in Requests \ {r} : receipt[q] # Nothing => receipt[q].lines \cap rec.lines = {}
    BY <1>2 DEF LockedProducts
  <2>2. row.lines = rec.lines
    OBVIOUS
  <2> HIDE DEF row
  <2> QED
    BY <1>10, <2>1, <2>2 DEF PurchasingInv, DeskOK, LocksApart
<1> QED
  BY <1>8, <1>10, <1>11, <1>12, <1>13 DEF PurchasingInv, DeskOK

\* A sale, of products nobody is receiving.
LEMMA SellKeeps ==
  ASSUME PurchasingInv, NEW p \in Products, SellUnit(p)
  PROVE  PurchasingInv'
<1>1. LotsOK' /\ \A l \in Lots : lotStatus[l] = "ABSENT" => lotStatus'[l] = "ABSENT"
  BY SellUnitKeeps DEF PurchasingInv
<1>2. UNCHANGED <<poStatus, orderedQty, receivedQty, shortClosed, receipted, accepted,
                  overReceipt, cost, loaded, receipt, raced>>
  BY DEF SellUnit, orderVars, receiptVars
<1>3. RowTypeOK' /\ DeskTypeOK' /\ OrdersOK' /\ PricesOK'
  BY <1>2 DEF PurchasingInv, RowTypeOK, DeskTypeOK, OrdersOK, RowsOK, OrderlyOK, PricesOK,
              CostWithinPrices
<1>4. ASSUME NEW q \in Requests PROVE ReadingOK(q)' /\ ReceiptOK(q)'
  <2>1. ReadingOK(q)'
    BY <1>2 DEF PurchasingInv, DeskOK, ReadingOK
  <2>2. ReceiptOK(q)'
    BY <1>1, <1>2 DEF PurchasingInv, DeskOK, ReceiptOK, RefreshedReceived, RefreshedShort,
                      NextReceived, Outstanding, derivePoStatus, lineIsComplete, LinesIn
  <2> QED
    BY <2>1, <2>2
<1> QED
  BY <1>1, <1>2, <1>3, <1>4 DEF PurchasingInv, DeskOK, LocksApart

\* What a request that acts on its reading knows.
LEMMA ActingReading ==
  ASSUME PurchasingInv, NEW r \in Requests, loaded[r] # Nothing
  PROVE  /\ loaded[r] \in Reading /\ loaded[r].order \in Orders
         /\ ReadingOK(r) /\ RowsOK(loaded[r].order)
         /\ poStatus[loaded[r].order] # "NONE" /\ orderedQty[loaded[r].order] \in PoLines
         /\ loaded[r].order \notin raced => OrderlyOK(loaded[r].order)
<1>1. loaded[r] \in Reading /\ loaded[r].order \in Orders /\ ReadingOK(r)
  BY DEF PurchasingInv, DeskTypeOK, DeskOK, Reading
<1> QED
  BY <1>1 DEF PurchasingInv, OrdersOK, ReadingOK, RowsOK

\* A commit that changes the status of an order, or its lines while nothing has
\* been received, and no lot and no cost.
LEMMA StatusCommitKeeps ==
  ASSUME PurchasingInv, NEW r \in Requests, loaded[r] # Nothing, NEW o, o = loaded[r].order,
         NEW rep \in BOOLEAN,
         Commits(r, o, rep), RowTypeOK', RowsElsewhere(o),
         UNCHANGED <<stockVars, receiptVars, cost>>,
         RowsOK(o)', poStatus'[o] # "NONE",
         ~loaded[r].outdated /\ o \notin raced => OrderlyOK(o)',
         ~rep => orderedQty'[o] = orderedQty[o],
         rep => \A q \in Requests : receipt[q] # Nothing => loaded[q].order # o
  PROVE  PurchasingInv'
<1>1. o \in Orders /\ raced' = IF loaded[r].outdated THEN raced \cup {o} ELSE raced
  BY CommitReadings DEF PurchasingInv
<1>2. OrdersOK'
  <2>1. raced \subseteq raced' /\ (o \notin raced' => ~loaded[r].outdated /\ o \notin raced)
    BY <1>1
  <2> QED
    BY <1>1, <2>1, OtherOrders DEF PurchasingInv
<1>3. DeskTypeOK' /\ DeskOK'
  <2>1. UNCHANGED <<lotStatus, accepted>>
    BY DEF stockVars, lotVars, receiptVars
  <2>2. \A p \in Products : accepted[o][p] <= accepted'[o][p]
    BY <1>1, <2>1 DEF PurchasingInv, RowTypeOK
  <2>3. \A q \in Requests \ {r} : receipt[q] # Nothing =>
          \A l \in Lots : receipt[q].new[l] > 0 => lotStatus'[l] = "ABSENT"
    BY <2>1 DEF PurchasingInv, DeskOK, ReceiptOK
  <2> QED
    BY <2>2, <2>3, CommitDesk DEF PurchasingInv
<1>4. LotsOK' /\ PricesOK'
  BY DEF PurchasingInv, stockVars, lotVars, productVars, LotsOK, StockTypeOK, StockRollup,
         ActiveLots, PricesOK, CostWithinPrices
<1> QED
  BY <1>2, <1>3, <1>4 DEF PurchasingInv

\* New lines for an order, as long as it has no receipt line.
LEMMA updateKeeps ==
  ASSUME PurchasingInv, NEW r \in Requests, NEW lines \in PoLines, updatePurchaseOrder(r, lines)
  PROVE  PurchasingInv'
<1>o. PICK o : o = loaded[r].order
  OBVIOUS
<1>1. /\ loaded[r] # Nothing /\ loaded[r].status = "DRAFT" /\ receipted[o] = {}
      /\ \A q \in Requests : receipt[q] # Nothing => loaded[q].order # o
      /\ Commits(r, o, TRUE) /\ UNCHANGED <<stockVars, poStatus, receiptVars, cost>>
  BY <1>o DEF updatePurchaseOrder
<1>2. /\ loaded[r] \in Reading /\ o \in Orders /\ ReadingOK(r) /\ RowsOK(o)
      /\ poStatus[o] # "NONE"
  BY <1>o, <1>1, ActingReading
<1>3. /\ orderedQty' = [orderedQty EXCEPT ![o] = lines]
      /\ receivedQty' = [receivedQty EXCEPT ![o] = NoUnits]
      /\ shortClosed' = [shortClosed EXCEPT ![o] = {}]
      /\ UNCHANGED <<poStatus, receipted, accepted, overReceipt>>
  BY <1>o, <1>1 DEF updatePurchaseOrder, receiptVars
<1>4. RowTypeOK' /\ RowsElsewhere(o)
  <2>1. raced' \subseteq Orders
    BY <1>o, <1>1, <1>2 DEF Commits, PurchasingInv, RowTypeOK
  <2>2. NoUnits \in [Products -> Nat]
    BY DEF NoUnits
  <2> QED
    BY <1>o, <1>2, <1>3, <2>1, <2>2 DEF PurchasingInv, RowTypeOK, RowsElsewhere
<1>5. accepted[o] = NoUnits
  <2>1. accepted[o] \in [Products -> Nat] /\ \A p \in Products : accepted[o][p] = 0
    BY <1>o, <1>1, <1>2 DEF RowsOK, PurchasingInv, RowTypeOK
  <2> QED
    BY <1>o, <2>1 DEF NoUnits
<1>6. /\ orderedQty'[o] = lines /\ receivedQty'[o] = NoUnits /\ shortClosed'[o] = {}
      /\ poStatus'[o] = poStatus[o] /\ receipted'[o] = {} /\ accepted'[o] = NoUnits
      /\ overReceipt'[o] = {}
  BY <1>o, <1>1, <1>2, <1>3, <1>5 DEF PurchasingInv, RowTypeOK, RowsOK
<1>7. RowsOK(o)'
  BY <1>o, <1>2, <1>6, LinesMissing DEF RowsOK, NoUnits
<1>8. ~loaded[r].outdated => OrderlyOK(o)'
  BY <1>o, <1>1, <1>2, <1>6, LinesMissing DEF OrderlyOK, ReadingOK, Received
<1>9. poStatus'[o] # "NONE"
  BY <1>o, <1>2, <1>6
<1> QED
  BY <1>o, <1>1, <1>4, <1>7, <1>8, <1>9, StatusCommitKeeps

\* Submitting and cancelling write the status on the strength of the reading.
LEMMA submitKeeps ==
  ASSUME PurchasingInv, NEW r \in Requests, NEW next \in {"SUBMITTED", "CANCELLED"},
         loaded[r] # Nothing,
         loaded[r].status = "DRAFT" \/ (next = "CANCELLED" /\ loaded[r].status = "SUBMITTED"),
         poStatus' = [poStatus EXCEPT ![loaded[r].order] = next],
         Commits(r, loaded[r].order, FALSE),
         UNCHANGED <<stockVars, orderedQty, receivedQty, shortClosed, receiptVars, cost>>
  PROVE  PurchasingInv'
<1>o. PICK o : o = loaded[r].order
  OBVIOUS
<1>1. /\ loaded[r] \in Reading /\ o \in Orders /\ ReadingOK(r) /\ RowsOK(o)
      /\ poStatus[o] # "NONE" /\ orderedQty[o] \in PoLines
      /\ o \notin raced => OrderlyOK(o)
  BY <1>o, ActingReading
<1>2. UNCHANGED <<orderedQty, receivedQty, shortClosed, receipted, accepted, overReceipt>>
  BY DEF receiptVars
<1>3. RowTypeOK' /\ RowsElsewhere(o) /\ poStatus'[o] = next
  <2>1. raced' \subseteq Orders
    BY <1>o, <1>1 DEF Commits, PurchasingInv, RowTypeOK
  <2>2. next \in PurchaseOrderStatus
    BY DEF PurchaseOrderStatus
  <2> QED
    BY <1>o, <1>1, <1>2, <2>1, <2>2 DEF PurchasingInv, RowTypeOK, RowsElsewhere
<1>4. RowsOK(o)'
  BY <1>o, <1>1, <1>2, <1>3 DEF RowsOK
<1>5. ASSUME ~loaded[r].outdated, o \notin raced PROVE OrderlyOK(o)'
  <2>1. poStatus[o] = loaded[r].status /\ OrderlyOK(o)
    BY <1>o, <1>1, <1>5 DEF ReadingOK
  <2>2. accepted[o] = NoUnits /\ shortClosed[o] = {} /\ receivedQty[o] = NoUnits
    BY <1>o, <2>1 DEF OrderlyOK, Received
  <2> QED
    BY <1>o, <1>1, <1>2, <1>3, <2>2, LinesMissing DEF OrderlyOK, Received
<1>6. orderedQty'[o] = orderedQty[o] /\ poStatus'[o] # "NONE"
  BY <1>o, <1>2, <1>3
<1> QED
  BY <1>o, <1>3, <1>4, <1>5, <1>6, StatusCommitKeeps

\* Committing a receipt: the order's lines, its status, the lots and the costs.
LEMMA receiveGoodsKeeps ==
  ASSUME PurchasingInv, NEW r \in Requests, receiveGoods(r)
  PROVE  PurchasingInv'
<1>o. PICK o : o = loaded[r].order
  OBVIOUS
<1>r. PICK rec : rec = receipt[r]
  OBVIOUS
<1>1. /\ rec # Nothing /\ addLots(rec.new) /\ Commits(r, o, FALSE)
      /\ receivedQty' = [receivedQty EXCEPT ![o] = [p \in Products |-> LineAfter(r, p)]]
      /\ shortClosed' = [shortClosed EXCEPT ![o] = RefreshedShort(r, rec)]
      /\ receipted' = [receipted EXCEPT ![o] = @ \cup rec.lines]
      /\ accepted' = [accepted EXCEPT ![o] = [p \in Products |-> @[p] + LineQty(rec.new, p)]]
      /\ overReceipt' = [overReceipt EXCEPT ![o] = @ \cup rec.acknowledged]
      /\ poStatus' = [poStatus EXCEPT ![o] = rec.nextStatus]
      /\ orderedQty' = orderedQty
      /\ cost' = [p \in Products |->
           IF LineQty(rec.new, p) > 0
           THEN averageCost(stock[p], cost[p], LineQty(rec.new, p), rec.unitCostActual)
           ELSE cost[p]]
  BY <1>o, <1>r DEF receiveGoods
<1>2. /\ ReceiptOK(r) /\ rec \in ReceiptRow /\ loaded[r] # Nothing /\ ~loaded[r].replaced
  BY <1>1, <1>r DEF PurchasingInv, DeskOK, DeskTypeOK, ReceiptOK
<1>3. /\ loaded[r] \in Reading /\ o \in Orders /\ ReadingOK(r) /\ RowsOK(o)
      /\ poStatus[o] # "NONE" /\ orderedQty[o] \in PoLines
      /\ o \notin raced => OrderlyOK(o)
  BY <1>2, <1>o, ActingReading
<1>4. /\ rec.lines \in SUBSET Products /\ rec.new \in [Lots -> 0 .. MaxUnits]
      /\ rec.closing \in SUBSET Products /\ rec.acknowledged \in SUBSET Products
      /\ rec.unitCostActual \in UnitCosts /\ rec.nextStatus \in Received
  BY <1>2 DEF ReceiptRow
<1>5. /\ rec.lines \subseteq LinesIn(orderedQty[o]) /\ rec.closing \subseteq rec.lines
      /\ rec.acknowledged = {p \in rec.lines : LineQty(rec.new, p) > Outstanding(r, p)}
      /\ \A l \in Lots : rec.new[l] > 0 => lotStatus[l] = "ABSENT" /\ ProductOf[l] \in rec.lines
      /\ loaded[r].orderedQty = orderedQty[o]
  BY <1>1, <1>2, <1>3, <1>o, <1>r DEF ReceiptOK, ReadingOK
<1>6. /\ \A p \in Products : LineQty(rec.new, p) \in Nat
      /\ \A p \in Products \ rec.lines : LineQty(rec.new, p) = 0
  BY <1>4, <1>5, ReceiptLines
<1>7. /\ accepted[o] \in [Products -> Nat] /\ receivedQty[o] \in [Products -> Nat]
      /\ loaded[r].receivedQty \in [Products -> Nat] /\ orderedQty[o] \in [Products -> Nat]
  BY <1>3, LinesMissing DEF PurchasingInv, RowTypeOK, Reading
<1>8. ASSUME NEW p \in Products
      PROVE  /\ accepted'[o][p] = accepted[o][p] + LineQty(rec.new, p)
             /\ receivedQty'[o][p] = IF p \in rec.lines
                                     THEN loaded[r].receivedQty[p] + LineQty(rec.new, p)
                                     ELSE receivedQty[o][p]
  BY <1>1, <1>3, <1>o, <1>r DEF PurchasingInv, RowTypeOK, LineAfter, NextReceived
<1>9. /\ shortClosed'[o] = (shortClosed[o] \ rec.lines) \cup rec.closing
      /\ receipted'[o] = receipted[o] \cup rec.lines
      /\ overReceipt'[o] = overReceipt[o] \cup rec.acknowledged
      /\ poStatus'[o] = rec.nextStatus /\ orderedQty'[o] = orderedQty[o]
  BY <1>1, <1>3, <1>o DEF PurchasingInv, RowTypeOK, RefreshedShort
<1>10. accepted'[o] \in [Products -> Nat] /\ receivedQty'[o] \in [Products -> Nat]
  <2>1. /\ accepted'[o] = [p \in Products |-> accepted[o][p] + LineQty(rec.new, p)]
        /\ receivedQty'[o] = [p \in Products |-> LineAfter(r, p)]
    BY <1>1, <1>3 DEF PurchasingInv, RowTypeOK
  <2>2. \A p \in Products : LineAfter(r, p) \in Nat
    BY <1>6, <1>7, <1>o, <1>r DEF LineAfter, NextReceived
  <2> QED
    BY <1>6, <1>7, <2>1, <2>2
<1>11. RowTypeOK' /\ RowsElsewhere(o)
  <2>1. raced' \subseteq Orders
    BY <1>1, <1>3 DEF Commits, PurchasingInv, RowTypeOK
  <2>2. \A x \in Orders \ {o} : accepted'[x] = accepted[x] /\ receivedQty'[x] = receivedQty[x]
    BY <1>1 DEF PurchasingInv, RowTypeOK
  <2>3. /\ accepted' \in [Orders -> [Products -> Nat]]
        /\ receivedQty' \in [Orders -> [Products -> Nat]]
    <3>1. /\ DOMAIN accepted' = Orders /\ accepted' = [x \in Orders |-> accepted'[x]]
          /\ receivedQty' = [x \in Orders |-> receivedQty'[x]]
      BY <1>1 DEF PurchasingInv, RowTypeOK
    <3>2. \A x \in Orders : accepted'[x] \in [Products -> Nat] /\ receivedQty'[x] \in [Products -> Nat]
      BY <1>10, <2>2 DEF PurchasingInv, RowTypeOK
    <3> QED
      BY <3>1, <3>2
  <2>4. rec.nextStatus \in PurchaseOrderStatus /\ RefreshedShort(r, rec) \in SUBSET Products
    BY <1>3, <1>4, <1>o DEF Received, PurchaseOrderStatus, RefreshedShort, PurchasingInv, RowTypeOK
  <2>5. /\ poStatus' \in [Orders -> PurchaseOrderStatus]
        /\ orderedQty' \in [Orders -> PoLines \cup {NoUnits}]
        /\ shortClosed' \in [Orders -> SUBSET Products]
        /\ receipted' \in [Orders -> SUBSET Products]
        /\ overReceipt' \in [Orders -> SUBSET Products]
    BY <1>1, <1>3, <1>4, <2>4 DEF PurchasingInv, RowTypeOK
  <2>6. \A x \in Orders \ {o} :
          /\ poStatus'[x] = poStatus[x] /\ orderedQty'[x] = orderedQty[x]
          /\ shortClosed'[x] = shortClosed[x] /\ receipted'[x] = receipted[x]
          /\ overReceipt'[x] = overReceipt[x]
    BY <1>1 DEF PurchasingInv, RowTypeOK
  <2> QED
    BY <2>1, <2>2, <2>3, <2>5, <2>6 DEF RowTypeOK, RowsElsewhere
<1>12. \A p \in Products : loaded[r].receivedQty[p] <= accepted[o][p]
  BY <1>2, <1>3, <1>o DEF ReadingOK
<1>13. RowsOK(o)'
  <2>1. \A p \in Products : receivedQty'[o][p] <= accepted'[o][p]
    <3>1. ASSUME NEW p \in Products PROVE receivedQty'[o][p] <= accepted'[o][p]
      <4>1. /\ loaded[r].receivedQty[p] <= accepted[o][p] /\ receivedQty[o][p] <= accepted[o][p]
            /\ loaded[r].receivedQty[p] \in Nat /\ accepted[o][p] \in Nat
            /\ receivedQty[o][p] \in Nat /\ LineQty(rec.new, p) \in Nat
        BY <1>3, <1>6, <1>7, <1>12 DEF RowsOK
      <4> QED
        BY <1>8, <4>1
    <3> QED
      BY <3>1
  <2>2. \A p \in Products : accepted'[o][p] > 0 => p \in receipted'[o]
    <3>1. ASSUME NEW p \in Products, accepted'[o][p] > 0, p \notin rec.lines
          PROVE  p \in receipted[o]
      <4>1. accepted'[o][p] = accepted[o][p] + 0 /\ accepted[o][p] \in Nat
        BY <1>6, <1>7, <1>8, <3>1
      <4> QED
        BY <1>3, <3>1, <4>1 DEF RowsOK
    <3> QED
      BY <1>9, <3>1
  <2>3. /\ overReceipt'[o] \subseteq receipted'[o]
        /\ receipted'[o] \subseteq LinesIn(orderedQty'[o])
        /\ shortClosed'[o] \subseteq LinesIn(orderedQty'[o])
    BY <1>3, <1>5, <1>9 DEF RowsOK
  <2>4. poStatus'[o] # "NONE" /\ orderedQty'[o] \in PoLines
    BY <1>3, <1>4, <1>9 DEF Received
  <2> QED
    BY <2>1, <2>2, <2>3, <2>4 DEF RowsOK
<1>14. ASSUME ~loaded[r].outdated, o \notin raced PROVE OrderlyOK(o)'
  <2>1. /\ loaded[r].receivedQty = receivedQty[o] /\ receivedQty[o] = accepted[o] /\ OrderlyOK(o)
    BY <1>2, <1>3, <1>o, <1>14 DEF ReadingOK, OrderlyOK
  <2>2. receivedQty'[o] = accepted'[o]
    <3>1. ASSUME NEW p \in Products PROVE receivedQty'[o][p] = accepted'[o][p]
      <4>1. accepted[o][p] \in Nat /\ receivedQty[o][p] = accepted[o][p]
            /\ (p \notin rec.lines => LineQty(rec.new, p) = 0)
        BY <1>6, <1>7, <2>1
      <4> QED
        BY <1>8, <2>1, <4>1
    <3> QED
      BY <1>10, <3>1
  <2>3. /\ RefreshedShort(r, rec) = shortClosed'[o]
        /\ RefreshedReceived(r, rec) = accepted'[o]
    <3>1. RefreshedShort(r, rec) = shortClosed'[o]
      BY <1>9, <1>o DEF RefreshedShort
    <3>2. \A p \in Products : RefreshedReceived(r, rec)[p] = receivedQty'[o][p]
      BY <1>8, <1>o DEF RefreshedReceived, NextReceived
    <3>3. RefreshedReceived(r, rec) = [p \in Products |-> RefreshedReceived(r, rec)[p]]
      BY DEF RefreshedReceived
    <3> QED
      BY <1>10, <2>2, <3>1, <3>2, <3>3
  <2>4. rec.nextStatus = derivePoStatus(orderedQty[o], accepted'[o], shortClosed'[o], "SUBMITTED")
    BY <1>1, <1>2, <1>14, <1>o, <1>r, <2>3 DEF ReceiptOK
  <2>5. /\ shortClosed'[o] \in SUBSET LinesIn(orderedQty[o])
        /\ \A p \in Products : accepted'[o][p] > 0 => p \in LinesIn(orderedQty[o])
    BY <1>9, <1>13 DEF RowsOK
  <2>6. /\ rec.nextStatus = "RECEIVED" <=>
             \A p \in Products : accepted'[o][p] >= orderedQty[o][p] \/ p \in shortClosed'[o]
        /\ rec.nextStatus = "SUBMITTED" <=> accepted'[o] = NoUnits /\ shortClosed'[o] = {}
    <3> DEFINE got == accepted'[o]
               short == shortClosed'[o]
    <3>1. /\ got \in [Products -> Nat] /\ short \in SUBSET LinesIn(orderedQty[o])
          /\ \A p \in Products : got[p] > 0 => p \in LinesIn(orderedQty[o])
          /\ rec.nextStatus = derivePoStatus(orderedQty[o], got, short, "SUBMITTED")
      BY <1>10, <2>4, <2>5
    <3> HIDE DEF got, short
    <3>2. /\ rec.nextStatus = "RECEIVED" <=>
               \A p \in Products : got[p] >= orderedQty[o][p] \/ p \in short
          /\ rec.nextStatus = "SUBMITTED" <=> got = NoUnits /\ short = {}
      BY <1>3, <3>1, DerivedStatus
    <3> QED
      BY <3>2 DEF got, short
  <2>7. ASSUME NEW p \in Products, accepted'[o][p] > orderedQty[o][p]
        PROVE  p \in overReceipt'[o]
    <3>1. /\ accepted[o][p] \in Nat /\ orderedQty[o][p] \in Nat /\ LineQty(rec.new, p) \in Nat
          /\ accepted'[o][p] = accepted[o][p] + LineQty(rec.new, p)
      BY <1>6, <1>7, <1>8
    <3>2. Outstanding(r, p) = AtLeastZero(orderedQty[o][p] - accepted[o][p])
      BY <1>5, <2>1 DEF Outstanding
    <3>3. CASE LineQty(rec.new, p) > Outstanding(r, p)
      <4>1. Outstanding(r, p) \in Nat /\ p \in rec.lines
        BY <1>6, <3>1, <3>2, <3>3 DEF AtLeastZero
      <4> QED
        BY <1>5, <1>9, <3>3, <4>1
    <3>4. CASE ~(LineQty(rec.new, p) > Outstanding(r, p))
      <4>1. accepted[o][p] > orderedQty[o][p]
        BY <2>7, <3>1, <3>2, <3>4 DEF AtLeastZero
      <4> QED
        BY <1>9, <2>1, <4>1 DEF OrderlyOK
    <3> QED
      BY <3>3, <3>4
  <2> QED
    BY <1>4, <1>9, <2>2, <2>6, <2>7 DEF OrderlyOK
<1>15. /\ raced' = IF loaded[r].outdated THEN raced \cup {o} ELSE raced
  BY <1>1, <1>2, <1>o, CommitReadings DEF PurchasingInv
<1>16. OrdersOK'
  <2>1. raced \subseteq raced' /\ (o \notin raced' => ~loaded[r].outdated /\ o \notin raced)
    BY <1>15
  <2>2. o \notin raced' => OrderlyOK(o)'
    BY <1>14, <2>1
  <2> QED
    BY <1>3, <1>11, <1>13, <2>1, <2>2, OtherOrders DEF PurchasingInv
<1>17. LotsOK'
  BY <1>1, <1>4, <1>5, addLotsKeeps DEF PurchasingInv
<1>18. DeskTypeOK' /\ DeskOK'
  <2>1. \A p \in Products : accepted[o][p] <= accepted'[o][p]
    BY <1>6, <1>7, <1>8
  <2>2. ASSUME NEW q \in Requests \ {r}, receipt[q] # Nothing, NEW l \in Lots,
               receipt[q].new[l] > 0
        PROVE  lotStatus'[l] = "ABSENT"
    <3>1. ReceiptOK(q) /\ receipt[q].lines \cap rec.lines = {}
      BY <1>1, <1>r, <2>2 DEF PurchasingInv, DeskOK, LocksApart
    <3>2. lotStatus[l] = "ABSENT" /\ ProductOf[l] \notin rec.lines
      BY <2>2, <3>1 DEF ReceiptOK
    <3> QED
      BY <1>1, <1>5, <3>2 DEF addLots
  <2>3. poStatus'[o] # "NONE" /\ orderedQty'[o] = orderedQty[o]
    BY <1>4, <1>9 DEF Received
  <2> QED
    BY <1>1, <1>2, <1>11, <1>o, <2>1, <2>2, <2>3, CommitDesk DEF PurchasingInv
<1>19. PricesOK'
  BY <1>1, <1>4, CostsKept DEF PurchasingInv, LotsOK
<1> QED
  BY <1>11, <1>16, <1>17, <1>18, <1>19 DEF PurchasingInv

-----------------------------------------------------------------------------
(* The theorems *)

\* Before the first receipt.
LEMMA PurchasingInit ==
  ASSUME Init
  PROVE  PurchasingInv
<1>1. NoUnits \in [Products -> Nat] /\ \A p \in Products : NoUnits[p] = 0
  BY DEF NoUnits
<1>2. RowTypeOK /\ DeskTypeOK
  BY <1>1 DEF Init, RowTypeOK, DeskTypeOK, PurchaseOrderStatus
<1>3. OrdersOK
  <2>1. \A o \in Orders : RowsOK(o)
    BY <1>1 DEF Init, RowsOK
  <2>2. \A o \in Orders : OrderlyOK(o)
    BY <1>1 DEF Init, OrderlyOK, Received
  <2> QED
    BY <2>1, <2>2 DEF OrdersOK
<1>4. DeskOK
  BY DEF Init, DeskOK, ReadingOK, ReceiptOK, LocksApart
<1>5. LotsOK
  <2>1. ASSUME NEW p \in Products
        PROVE  /\ stock[p] = Total(quantityRemaining, ActiveLots(p))
               /\ reserved[p] = Total(quantityReserved, ActiveLots(p))
    <3>1. /\ \A l \in ActiveLots(p) : quantityRemaining[l] = 0 /\ quantityReserved[l] = 0
          /\ stock[p] = 0 /\ reserved[p] = 0
      BY DEF Init, ActiveLots, LotsOf
    <3> QED
      BY <3>1, TotalZero
  <2> QED
    BY <2>1 DEF Init, LotsOK, StockTypeOK, LotStatus, StockRollup
<1>6. PricesOK
  <2>1. PICK c \in UnitCosts : cost = [p \in Products |-> c]
    BY PurchasingAssumption DEF Init
  <2>2. c \in Nat /\ \A p \in Products : cost[p] = c
    BY <2>1, PurchasingAssumption
  <2> QED
    BY <2>1, <2>2 DEF PricesOK, CostWithinPrices
<1> QED
  BY <1>2, <1>3, <1>4, <1>5, <1>6 DEF PurchasingInv

\* Every step keeps the invariant.
LEMMA PurchasingStep ==
  ASSUME PurchasingInv, [Next]_vars
  PROVE  PurchasingInv'
<1>1. ASSUME UNCHANGED vars PROVE PurchasingInv'
  <2>1. RowTypeOK' /\ OrdersOK' /\ LotsOK' /\ PricesOK'
    BY <1>1, RowsKept DEF vars
  <2>2. UNCHANGED <<lotStatus, poStatus, orderedQty, receivedQty, shortClosed, accepted, loaded,
                    receipt>>
    BY <1>1 DEF vars, stockVars, lotVars, orderVars, receiptVars
  <2>3. DeskTypeOK' /\ LocksApart'
    BY <2>2 DEF PurchasingInv, DeskTypeOK, DeskOK, LocksApart
  <2>4. ASSUME NEW q \in Requests PROVE ReadingOK(q)' /\ ReceiptOK(q)'
    <3>1. ReadingOK(q)'
      BY <2>2 DEF PurchasingInv, DeskOK, ReadingOK
    <3>2. ReceiptOK(q)'
      BY <2>2 DEF PurchasingInv, DeskOK, ReceiptOK, RefreshedReceived, RefreshedShort,
                  NextReceived, Outstanding, derivePoStatus, lineIsComplete, LinesIn
    <3> QED
      BY <3>1, <3>2
  <2> QED
    BY <2>1, <2>3, <2>4 DEF PurchasingInv, DeskOK
<1>2. ASSUME NEW r \in Requests, submitPurchaseOrder(r) PROVE PurchasingInv'
  BY <1>2, submitKeeps DEF submitPurchaseOrder
<1>3. ASSUME NEW r \in Requests, cancelPurchaseOrder(r) PROVE PurchasingInv'
  BY <1>3, submitKeeps DEF cancelPurchaseOrder
<1>4. ASSUME NEW r \in Requests, loaded[r] # Nothing,
             NEW lines \in SUBSET LinesIn(loaded[r].orderedQty),
             NEW rec \in ReceiptOf(lines), receiveLines(r, rec)
      PROVE  PurchasingInv'
  <2>1. lines \in SUBSET Products
    BY DEF LinesIn
  <2> QED
    BY <1>4, <2>1, receiveLinesKeeps
<1> QED
  BY <1>1, <1>2, <1>3, <1>4, createKeeps, loadPoKeeps, RespondKeeps, updateKeeps,
     receiveGoodsKeeps, SellKeeps DEF Next

\* The inductive invariant of purchasing holds in every reachable state.
LEMMA PurchasingInvariant == Spec => []PurchasingInv
<1>1. Init => PurchasingInv
  BY PurchasingInit
<1>2. PurchasingInv /\ [Next]_vars => PurchasingInv'
  BY PurchasingStep
<1> QED
  BY <1>1, <1>2, PTL DEF Spec

\* Purchase orders of any number, worked on by any number of requests, tell the
\* truth: an order no two requests worked on at once counts the units its
\* receipts accepted, has the status its lines call for, was not cancelled with
\* goods on it and hides no over-receipt (derivePoStatus, receiveGoods,
\* cancelPurchaseOrder); and Product.stock is what the lots of the receipts and
\* the sales have left, whatever requests overlapped.
THEOREM OrdersTellTheTruth == Spec => []OrdersTruthful
<1>1. PurchasingInv => OrdersTruthful
  <2> SUFFICES ASSUME PurchasingInv PROVE OrdersTruthful
    OBVIOUS
  <2>1. TypeOK
    <3>1. \A o \in Orders : /\ receipted[o] \subseteq Products
                            /\ overReceipt[o] \subseteq receipted[o]
                            /\ \A p \in shortClosed[o] : orderedQty[o][p] > 0
      BY DEF PurchasingInv, RowTypeOK, OrdersOK, RowsOK, LinesIn
    <3>2. \A r \in Requests : receipt[r] # Nothing => loaded[r] # Nothing
      BY DEF PurchasingInv, DeskOK, ReceiptOK
    <3> QED
      BY <3>1, <3>2 DEF PurchasingInv, RowTypeOK, DeskTypeOK, LotsOK, PricesOK, TypeOK
  <2>2. StockRollup
    BY DEF PurchasingInv, LotsOK
  <2>3. ASSUME NEW o \in Orderly PROVE o \in Orders /\ OrderlyOK(o)
    BY DEF Orderly, PurchasingInv, OrdersOK
  <2>4. ReceivedIsAccepted /\ OverReceiptAcknowledged
    BY <2>3 DEF ReceivedIsAccepted, OverReceiptAcknowledged, OrderlyOK
  <2>5. StatusFollowsLines /\ CancelledHasNoGoods
    BY <2>3 DEF StatusFollowsLines, CancelledHasNoGoods, OrderlyOK, Received
  <2> QED
    BY <2>1, <2>2, <2>4, <2>5 DEF OrdersTruthful
<1> QED
  BY <1>1, PurchasingInvariant, PTL

\* Receipts that race on outdated readings may lose units from an order line,
\* but never make it claim units nobody accepted (nextReceived in receiveGoods).
THEOREM ReceivedIsABound == Spec => []ReceivedNeverOverstated
<1>1. PurchasingInv => ReceivedNeverOverstated
  BY DEF PurchasingInv, OrdersOK, RowsOK, ReceivedNeverOverstated
<1> QED
  BY <1>1, PurchasingInvariant, PTL

\* The weighted-average cost never leaves the range of the prices paid, however
\* receipts and sales alternate and however often it is rounded (averageCost).
THEOREM CostStaysWithinPrices == Spec => []CostWithinPrices
<1>1. PurchasingInv => CostWithinPrices
  BY DEF PurchasingInv, PricesOK
<1> QED
  BY <1>1, PurchasingInvariant, PTL

-----------------------------------------------------------------------------
(* Reorder suggestions *)

\* What the reorder suggestion reads of a shelf and of the order lines of its
\* product (Product, SupplierProduct, PurchaseOrderLine).
ShelfRow ==
  [stock : Int, reserved : Nat, reorderAt : Nat,
   link : [caseSize : Nat \ {0}, minOrderQty : Nat, active : BOOLEAN]]

OrderRow == [status : STRING, ordered : Nat, received : Nat, shortClosed : BOOLEAN]

\* The orders with a line for the suggested quantity submitted.
WithSubmitted(orders, n, quantity) ==
  [m \in DOMAIN orders \cup {n} |->
     IF m = n THEN [status |-> "SUBMITTED", ordered |-> quantity, received |-> 0, shortClosed |-> FALSE]
              ELSE orders[m]]

\* A suggestion that is submitted is in whole cases, is followed by no other,
\* and has no case to spare.
OrderedOnce(shelf, orders, n) ==
  LET q == suggestedQty(shelf, orders)
      submitted == WithSubmitted(orders, n, q)
  IN  /\ q \in Nat /\ q % shelf.link.caseSize = 0
      /\ suggestedQty(shelf, submitted) = 0
      /\ q > 0 => \/ q - shelf.link.caseSize < shelf.link.minOrderQty
                  \/ position(shelf, submitted) - shelf.link.caseSize <= shelf.reorderAt

\* A quantity rounded to cases is the least number of whole cases that holds it.
LEMMA CasesHold ==
  ASSUME NEW x \in Nat \ {0}, NEW c \in Nat \ {0}
  PROVE  /\ RoundedToCases(x, c) \in Nat /\ x <= RoundedToCases(x, c) /\ RoundedToCases(x, c) - c < x
         /\ RoundedToCases(x, c) % c = 0
<1> DEFINE a == x + c - 1
           k == a \div c
<1>1. a \in Nat /\ k \in Int
  OBVIOUS
<1>2. c * k <= a /\ a < c * (k + 1)
  <2> HIDE DEF a
  <2> QED BY <1>1 DEF k
<1>3. RoundedToCases(x, c) = k * c
  BY DEF RoundedToCases
<1> HIDE DEF k
<1>4. k \in Nat
  <2>1. 0 < c * (k + 1)
    BY <1>1, <1>2
  <2> QED BY <1>1, <2>1
<1>5. k * c \in Nat /\ k * c = c * k /\ c * (k + 1) = c * k + c
  BY <1>1, <1>4
<1>6. (k * c) % c = 0
  BY <1>4
<1> QED BY <1>1, <1>2, <1>3, <1>5, <1>6

\* A line submitted adds its quantity to what is on order.
LEMMA SubmittedOnOrder ==
  ASSUME NEW orders, IsFiniteSet(DOMAIN orders), orders \in [DOMAIN orders -> OrderRow],
         NEW n, n \notin DOMAIN orders, NEW q \in Nat
  PROVE  /\ onOrder(orders) \in Nat
         /\ onOrder(WithSubmitted(orders, n, q)) = onOrder(orders) + q
<1> DEFINE states == {"SUBMITTED", "PARTIALLY_RECEIVED"}
           submitted == WithSubmitted(orders, n, q)
           awaited == {m \in DOMAIN orders : orders[m].status \in states /\ ~orders[m].shortClosed}
           now == {m \in DOMAIN submitted : submitted[m].status \in states /\ ~submitted[m].shortClosed}
           f == [m \in awaited |-> outstanding(orders[m])]
           g == [m \in now |-> outstanding(submitted[m])]
<1>1. onOrder(orders) = Total(f, awaited) /\ onOrder(submitted) = Total(g, now)
  BY DEF onOrder, PipelineOf
<1>2. /\ DOMAIN submitted = DOMAIN orders \cup {n}
      /\ \A m \in DOMAIN orders : submitted[m] = orders[m]
      /\ submitted[n].status = "SUBMITTED" /\ submitted[n].ordered = q /\ submitted[n].received = 0
      /\ submitted[n].shortClosed = FALSE
  BY DEF WithSubmitted
<1> HIDE DEF submitted
<1>3. now = awaited \cup {n} /\ n \notin awaited
  BY <1>2
<1>4. IsFiniteSet(awaited) /\ IsFiniteSet(now)
  <2>1. awaited \subseteq DOMAIN orders
    OBVIOUS
  <2>2. IsFiniteSet(awaited)
    BY <2>1, FS_Subset
  <2> QED BY <1>3, <2>2, FS_AddElement
<1>5. \A m \in DOMAIN orders : outstanding(orders[m]) \in Nat
  BY DEF outstanding, AtLeastZero, OrderRow
<1>6. NaturalOn(f, awaited) /\ IntegerOn(f, awaited)
  BY <1>5 DEF NaturalOn, IntegerOn
<1>7. outstanding(submitted[n]) = q
  BY <1>2 DEF outstanding, AtLeastZero
<1>8. g[n] = q /\ \A m \in awaited : g[m] = f[m]
  BY <1>2, <1>3, <1>7
<1>9. IntegerOn(g, now)
  <2> HIDE DEF awaited, now, f, g
  <2> QED BY <1>3, <1>6, <1>8 DEF IntegerOn
<1> HIDE DEF awaited, now, f, g
<1>10. Total(g, now) = Total(g, now \ {n}) + g[n]
  BY <1>3, <1>4, <1>9, TotalWithout
<1>11. now \ {n} = awaited
  BY <1>3
<1>12. Total(g, awaited) = Total(f, awaited) /\ Total(f, awaited) \in Nat
  BY <1>4, <1>6, <1>8, TotalExtensional, TotalNatural
<1> QED BY <1>1, <1>8, <1>10, <1>11, <1>12 DEF submitted

\* What suggestReorderDrafts proposes is enough, in whole cases and no more than
\* it must be, and once it is submitted nothing is proposed again, for any shelf,
\* supplier terms and open orders (purchasing.service.ts).
THEOREM ReorderIsOnce ==
  ASSUME NEW shelf \in ShelfRow,
         NEW orders, IsFiniteSet(DOMAIN orders), orders \in [DOMAIN orders -> OrderRow],
         NEW n, n \notin DOMAIN orders
  PROVE  OrderedOnce(shelf, orders, n)
<1> DEFINE q == suggestedQty(shelf, orders)
           here == position(shelf, orders)
           c == shelf.link.caseSize
           least == shelf.link.minOrderQty
           submitted == WithSubmitted(orders, n, q)
<1>1. /\ shelf.stock \in Int /\ shelf.reserved \in Nat /\ shelf.reorderAt \in Nat
      /\ c \in Nat \ {0} /\ least \in Nat /\ shelf.link.active \in BOOLEAN
  BY DEF ShelfRow
<1>2. PICK r \in Nat, t \in Int : r = shelf.reorderAt /\ t = shelf.stock - shelf.reserved
  BY <1>1
<1>3. onOrder(orders) \in Nat
  <2>1. 0 \in Nat
    OBVIOUS
  <2> QED BY <2>1, SubmittedOnOrder
<1>4. here \in Int /\ here = t + onOrder(orders)
  BY <1>1, <1>2, <1>3 DEF position
<1>5. CASE here > r \/ ~shelf.link.active
  <2>1. q = 0
    BY <1>2, <1>5 DEF suggestedQty
  <2>2. onOrder(submitted) = onOrder(orders) + 0
    BY <2>1, SubmittedOnOrder
  <2>3. position(shelf, submitted) = here
    BY <1>1, <1>2, <1>3, <1>4, <2>2 DEF position
  <2>4. suggestedQty(shelf, submitted) = 0
    BY <1>2, <1>5, <2>3 DEF suggestedQty
  <2>5. 0 % c = 0
    BY <1>1
  <2> QED BY <2>1, <2>4, <2>5 DEF OrderedOnce
<1>6. CASE here <= r /\ shelf.link.active
  <2> DEFINE x == Larger(r - here + 1, least)
  <2>1. /\ x \in Nat \ {0} /\ r - here + 1 <= x
        /\ x = r - here + 1 \/ x = least
    BY <1>1, <1>2, <1>4, <1>6 DEF Larger
  <2>2. q = RoundedToCases(x, c)
    <3>1. ~(here > r)
      BY <1>2, <1>4, <1>6
    <3> QED BY <1>2, <1>6, <3>1 DEF suggestedQty
  <2> HIDE DEF x, here, q, c, least
  <2>3. q \in Nat /\ x <= q /\ q - c < x /\ q % c = 0
    BY <1>1, <2>1, <2>2, CasesHold
  <2>4. onOrder(submitted) = onOrder(orders) + q
    BY <2>3, SubmittedOnOrder DEF q
  <2>5. position(shelf, submitted) = here + q
    BY <1>1, <1>2, <1>3, <1>4, <2>3, <2>4 DEF position
  <2>6. here + q > r
    BY <1>2, <1>4, <2>1, <2>3
  <2>7. suggestedQty(shelf, submitted) = 0
    BY <1>2, <2>5, <2>6 DEF suggestedQty
  <2>8. q - c < least \/ here + q - c <= r
    BY <1>1, <1>2, <1>4, <2>1, <2>3
  <2>9. q > 0 => q - c < least \/ position(shelf, submitted) - c <= shelf.reorderAt
    BY <1>1, <1>2, <1>4, <2>3, <2>5, <2>8
  <2> QED BY <2>3, <2>7, <2>9, Zenon DEF OrderedOnce, q, c, least
<1> QED BY <1>1, <1>2, <1>4, <1>5, <1>6

-----------------------------------------------------------------------------
(* Cycle counts *)

\* Once a cycle's count was drafted, what is not on it is within its interval,
\* if all that is due fits.
DraftCoversDue ==
  recent /\ Size >= Cardinality(Counted) => \A p \in Counted \ open : age[p] < interval(p)

CycleInv == CycleTypeOK /\ DraftCoversDue

\* An interval is one, two or four cycles.
LEMMA IntervalRange == \A p \in Counted : interval(p) \in {1, 2, 4}
<1>1. \A p \in Counted : valueInterval(p) \in {1, 2, 4}
  BY DEF valueInterval
<1>2. \A p \in Counted : velocityInterval(p) \in {1, 2, 4}
  BY DEF velocityInterval
<1> QED BY <1>1, <1>2 DEF interval, Smaller

\* Where all products fit, all that is due or flagged is drafted.
LEMMA AllRankedDrafted ==
  ASSUME Size >= Cardinality(Counted), NEW late \in BOOLEAN, NEW S \in generateCycleCountSchedule(late)
  PROVE  S = ranked(late)
<1>1. /\ S \subseteq ranked(late) /\ ranked(late) \subseteq Counted
      /\ Cardinality(S) = Smaller(Size, Cardinality(ranked(late)))
  BY DEF generateCycleCountSchedule, ranked
<1>2. /\ IsFiniteSet(ranked(late)) /\ Cardinality(ranked(late)) \in Nat /\ Cardinality(Counted) \in Nat
      /\ Cardinality(ranked(late)) <= Cardinality(Counted)
  BY <1>1, CycleCountAssumption, FS_Subset, FS_CardinalityType
<1>3. Cardinality(S) = Cardinality(ranked(late))
  BY <1>1, <1>2, CycleCountAssumption DEF Smaller
<1> QED BY <1>1, <1>2, <1>3, FS_Subset

\* At first no count was drafted.
LEMMA CycleStart == CycleInit => CycleInv
<1> SUFFICES ASSUME CycleInit PROVE CycleInv
  OBVIOUS
<1>1. recent = FALSE /\ recent \in BOOLEAN
  BY DEF CycleInit
<1>2. age \in [Counted -> 0 .. Never] /\ variance \subseteq Counted /\ nearExpiry \subseteq Counted /\ open \subseteq Counted
  BY DEF CycleInit, Never, MaxAge
<1>3. ~recent
  BY <1>1
<1> QED BY <1>1, <1>2, <1>3 DEF CycleInv, CycleTypeOK, DraftCoversDue

\* Every step keeps what a draft covers.
LEMMA CycleSteps == CycleInv /\ [CycleNext]_cycleVars => CycleInv'
<1> SUFFICES ASSUME CycleInv, [CycleNext]_cycleVars PROVE CycleInv'
  OBVIOUS
<1> USE DEF CycleInv
<1>i. \A p \in Counted : interval(p) \in {1, 2, 4}
  BY IntervalRange
<1>1. CASE scheduleCycleCounts
  <2>1. PICK late \in BOOLEAN : open' \in generateCycleCountSchedule(late)
    BY <1>1 DEF scheduleCycleCounts
  <2>2. UNCHANGED <<age, variance, nearExpiry>> /\ recent' = TRUE
    BY <1>1 DEF scheduleCycleCounts
  <2>3. open' \subseteq Counted
    BY <2>1 DEF generateCycleCountSchedule, ranked
  <2>4. CycleTypeOK'
    BY <2>2, <2>3 DEF CycleTypeOK
  <2>5. ASSUME Size >= Cardinality(Counted), NEW p \in Counted \ open' PROVE age'[p] < interval(p)
    <3>1. open' = ranked(late)
      BY <2>1, <2>5, AllRankedDrafted
    <3>2. open = {}
      BY <1>1 DEF scheduleCycleCounts
    <3>3. ~due(p, late)
      BY <3>1, <3>2 DEF ranked
    <3>4. age[p] \in 0 .. Never /\ Never = 5
      BY DEF CycleTypeOK, Never, MaxAge
    <3>5. age[p] < interval(p)
      BY <3>3, <3>4, <1>i DEF due
    <3> QED BY <3>5, <2>2
  <2> QED BY <2>4, <2>5 DEF DraftCoversDue
<1>2. ASSUME NEW found \in SUBSET Counted, approveCount(found) PROVE CycleInv'
  <2>1. /\ age' = [p \in Counted |-> IF p \in open THEN 0 ELSE age[p]] /\ open' = {}
        /\ variance' = (variance \ open) \cup found /\ UNCHANGED <<nearExpiry, recent>>
    BY <1>2 DEF approveCount
  <2>2. CycleTypeOK'
    BY <2>1 DEF CycleTypeOK, Never, MaxAge
  <2>3. DraftCoversDue'
    BY <2>1, <1>i DEF DraftCoversDue, CycleTypeOK
  <2> QED BY <2>2, <2>3
<1>3. CASE cancelCount
  <2>1. recent' = FALSE /\ recent' \in BOOLEAN
    BY <1>3 DEF cancelCount
  <2>2. ~recent' /\ open' = {} /\ UNCHANGED <<age, variance, nearExpiry>>
    BY <1>3, <2>1 DEF cancelCount
  <2> QED BY <2>1, <2>2 DEF CycleTypeOK, DraftCoversDue
<1>4. CASE NextCycle
  <2>1. recent' = FALSE /\ recent' \in BOOLEAN
    BY <1>4 DEF NextCycle
  <2>2. ~recent'
    BY <2>1
  <2>3. /\ age' \in [Counted -> 0 .. Never] /\ variance' \subseteq Counted /\ nearExpiry' \subseteq Counted
        /\ open' \subseteq Counted
    BY <1>4 DEF NextCycle, CycleTypeOK, Never, MaxAge
  <2> QED BY <2>1, <2>2, <2>3 DEF CycleTypeOK, DraftCoversDue
<1>5. CASE UNCHANGED cycleVars
  BY <1>5 DEF cycleVars, CycleTypeOK, DraftCoversDue
<1> QED BY <1>1, <1>2, <1>3, <1>4, <1>5 DEF CycleNext

\* Cycle counts keep their intervals where all products fit on a count, whatever
\* is cancelled, found or near its expiry (jobs/scheduleCycleCounts.ts,
\* generateCycleCountSchedule).
THEOREM CycleCountsOnTime == CycleSpec => []CyclesKept
<1>1. CycleInv => CyclesKept
  BY DEF CycleInv, CyclesKept, CountedOnTime, DraftCoversDue
<1> QED BY <1>1, CycleStart, CycleSteps, PTL DEF CycleSpec

=============================================================================
