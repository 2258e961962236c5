---------------------------- MODULE CountProofs -----------------------------
(***************************************************************************)
(* Counting, for any number of counts, lots, keys and people (StockCount), *)
(* and the barcode registry for any number of clerks and codes (Barcodes). *)
(***************************************************************************)
EXTENDS StockCount, Barcodes, StockProofs

-----------------------------------------------------------------------------
(* The invariant of the counts *)

CountStatus == {"ABSENT", "DRAFT", "IN_PROGRESS", "COMPLETED", "CANCELLED"}

LineStatus == {"NONE", "PENDING", "COUNTED", "RECOUNT_REQUIRED", "RESOLVED"}

CountTypeOK ==
  /\ countStatus \in [Counts -> CountStatus]
  /\ approved \subseteq {c \in Counts : countStatus[c] = "COMPLETED"}

LineTypeOK ==
  /\ lineStatus \in [Counts -> [Lots -> LineStatus]]
  /\ variance \in [Counts -> [Lots -> Int]]
  /\ countedBy \in [Counts -> [Lots -> SUBSET Staff]]
  /\ recountedBy \in [Counts -> [Lots -> SUBSET Staff]]
  /\ countKey \in [Counts -> [Lots -> Keys \cup {NoKey}]]
  /\ recountKey \in [Counts -> [Lots -> Keys \cup {NoKey}]]

DeviceTypeOK ==
  /\ look \in [Keys -> SUBSET Looks]
  /\ \A k \in Keys : \A d, e \in look[k] : d = e
  /\ queued \subseteq {k \in Keys : look[k] # {}}
  /\ paidAfter \in [Keys -> Nat]
  /\ reading \in [Keys -> SUBSET Readings]
  /\ shelf \in [Lots -> Nat]
  /\ drift \in [Keys -> Int]
  /\ losses \in 0 .. MaxLosses

\* Held units are on the shelf of a lot on sale.
LotsHold ==
  \A l \in Lots : /\ 0 <= quantityReserved[l] /\ quantityReserved[l] <= quantityRemaining[l]
                  /\ lotStatus[l] # "ACTIVE" => quantityReserved[l] = 0

BooksOK == InventoryTypeOK /\ StockRollup /\ LotsHold

\* A figure on a line is that of a look at this line, and a line that needs no
\* more than one look has only one.
LineOK(c, l) ==
  /\ lineStatus[c][l] \in {"NONE", "PENDING"} =>
       countKey[c][l] = NoKey /\ recountKey[c][l] = NoKey /\ variance[c][l] = 0
  /\ lineStatus[c][l] \in {"COUNTED", "RECOUNT_REQUIRED"} =>
       countKey[c][l] \in Keys /\ recountKey[c][l] = NoKey
  /\ lineStatus[c][l] = "RESOLVED" =>
       /\ countKey[c][l] \in Keys /\ recountKey[c][l] \in Keys
       /\ countKey[c][l] # recountKey[c][l]
       /\ countedBy[c][l] # recountedBy[c][l] \/ Cardinality(Staff) = 1
  /\ \A k \in Keys : k \in {countKey[c][l], recountKey[c][l]} =>
       \E e \in look[k] : e.count = c /\ e.lot = l

\* A look is at a line of a count that was started.
LookOK(k) ==
  \A e \in look[k] : countStatus[e.count] \notin {"ABSENT", "DRAFT"} /\ e.lot \in Lines(e.count)

\* A submission that found the line waiting for a recount is a second look, by
\* another person if there is one, for as long as it is under way.
ReadOK(k) ==
  \A r \in reading[k] :
    /\ look[k] # {}
    /\ r.status = "RECOUNT_REQUIRED" => \A e \in look[k] :
         /\ lineStatus[e.count][e.lot] \in {"RECOUNT_REQUIRED", "RESOLVED"}
         /\ countKey[e.count][e.lot] # k
         /\ r.actor \in countedBy[e.count][e.lot] => Staff \ {r.actor} = {}

\* Open counts share no product, and a completed one has all its figures.
CountsOK ==
  /\ \A c \in Counts : countStatus[c] = "ABSENT" => Lines(c) = {}
  /\ \A c \in Counts : countStatus[c] = "COMPLETED" =>
       \A l \in Lines(c) : lineStatus[c][l] \in {"COUNTED", "RESOLVED"}
  /\ \A c, d \in OpenCounts : c # d =>
       CountedProducts(Lines(c)) \cap CountedProducts(Lines(d)) = {}

SheetsOK ==
  /\ CountTypeOK /\ LineTypeOK /\ CountsOK
  /\ \A c \in Counts, l \in Lots : LineOK(c, l)

DevicesOK == DeviceTypeOK /\ \A k \in Keys : LookOK(k) /\ ReadOK(k)

CountInv == SheetsOK /\ DevicesOK /\ BooksOK

\* A look at a lot still says what is there: less the units paid since, it is
\* the shelf and what the books and the shelf have moved apart.
ShelfOK ==
  \A k \in Keys : /\ look[k] = {} => drift[k] = 0 /\ paidAfter[k] = 0
                  /\ \A e \in look[k] : shelf[e.lot] + drift[k] = e.quantity - paidAfter[k]

\* While its count is open, what a submission has read, and the variance a line
\* stands at, are relative to the books of now less the units paid since.
VarianceOK ==
  adjustments = 0 =>
    /\ \A k \in Keys : \A e \in look[k], r \in reading[k] : e.count \in OpenCounts =>
         r.seen + r.paid = quantityRemaining[e.lot] + paidAfter[k]
    /\ \A c \in OpenCounts : \A l \in Lines(c) : lineStatus[c][l] # "PENDING" =>
         \A e \in look[StandingKey(c, l)] :
           variance[c][l] = e.quantity - (quantityRemaining[l] + paidAfter[StandingKey(c, l)])

ShelfInv == CountInv /\ ShelfOK /\ VarianceOK

-----------------------------------------------------------------------------
(* The books *)

\* An allocation of one unit takes free units of lots on sale.
LEMMA OneUnitAllocation ==
  ASSUME BooksOK, NEW p \in Products
  PROVE  LET a == allocateFefo(OneUnitOf(p), FALSE)
         IN  /\ a \in Allocation
             /\ \A l \in Lots : a[l] > 0 => /\ lotStatus[l] = "ACTIVE"
                                            /\ a[l] <= quantityRemaining[l] - quantityReserved[l]
<1>1. OneUnitOf(p) \in [Products -> Nat]
  BY DEF OneUnitOf
<1> QED
  BY <1>1, AllocateFefo DEF BooksOK, InventoryTypeOK

\* Taking free units of lots on sale keeps the books.
LEMMA SoldBooks ==
  ASSUME BooksOK, NEW a \in Allocation, consumeDirect(a), UNCHANGED <<ledger, adjustments>>,
         \A l \in Lots : a[l] > 0 => /\ lotStatus[l] = "ACTIVE"
                                     /\ a[l] <= quantityRemaining[l] - quantityReserved[l]
  PROVE  BooksOK'
<1>1. \A l \in Lots : /\ a[l] \in Nat /\ quantityReserved[l] \in Int
                      /\ quantityRemaining[l] \in Int /\ 0 <= quantityReserved[l]
  BY DEF BooksOK, InventoryTypeOK, StockTypeOK, Allocation, LotsHold
<1>2. StockTypeOK'
  BY consumeDirectType DEF BooksOK, InventoryTypeOK
<1>3. StockRollup'
  BY <1>1, consumeDirectRollup DEF BooksOK, InventoryTypeOK
<1>4. LotsHold'
  BY <1>1 DEF BooksOK, LotsHold, consumeDirect, DepletedAtZero
<1> QED
  BY <1>2, <1>3, <1>4 DEF BooksOK, InventoryTypeOK

\* Holding a free unit keeps the books.
LEMMA HeldBooks ==
  ASSUME BooksOK, NEW p \in Products, HoldUnit(p)
  PROVE  BooksOK'
<1> DEFINE a == allocateFefo(OneUnitOf(p), FALSE)
<1>1. /\ a \in Allocation /\ reserve(a) /\ UNCHANGED <<ledger, adjustments>>
      /\ \A l \in Lots : a[l] > 0 => /\ lotStatus[l] = "ACTIVE"
                                     /\ a[l] <= quantityRemaining[l] - quantityReserved[l]
  BY OneUnitAllocation DEF HoldUnit
<1> HIDE DEF a
<1>2. StockTypeOK' /\ StockRollup'
  BY <1>1, reserveType, reserveRollup DEF BooksOK, InventoryTypeOK
<1>3. \A l \in Lots : /\ a[l] \in Nat /\ quantityReserved[l] \in Int
                      /\ quantityRemaining[l] \in Int
  BY <1>1 DEF BooksOK, InventoryTypeOK, StockTypeOK, Allocation
<1>4. LotsHold'
  BY <1>1, <1>3 DEF BooksOK, LotsHold, reserve
<1> QED
  BY <1>1, <1>2, <1>4 DEF BooksOK, InventoryTypeOK

\* Finalising a held unit keeps the books.
LEMMA FinalizedBooks ==
  ASSUME BooksOK, NEW l \in Lots, NEW m \in Lots, NEW raced \in BOOLEAN, FinalizeHold(l, m, raced)
  PROVE  /\ BooksOK'
         /\ \A k \in Lots : quantityRemaining'[k] =
              quantityRemaining[k] - (IF k = l THEN 1 ELSE 0)
<1> DEFINE a == [k \in Lots |-> IF k = l THEN 1 ELSE 0]
<1>1. /\ quantityReserved[l] > 0 /\ consume(a, NoAllocation) /\ UNCHANGED <<ledger, adjustments>>
  BY DEF FinalizeHold, Pay
<1>2. a \in Allocation /\ NoAllocation \in Allocation
  BY DEF Allocation, NoAllocation
<1>3. \A k \in Lots : a[k] = (IF k = l THEN 1 ELSE 0) /\ NoAllocation[k] = 0
  BY DEF NoAllocation
<1> HIDE DEF a
<1>4. \A k \in Lots : /\ quantityReserved[k] \in Int /\ quantityRemaining[k] \in Int
                      /\ 0 <= quantityReserved[k] /\ quantityReserved[k] <= quantityRemaining[k]
                      /\ lotStatus[k] # "ACTIVE" => quantityReserved[k] = 0
  BY DEF BooksOK, InventoryTypeOK, StockTypeOK, LotsHold
<1>5. \A k \in Lots : a[k] > 0 => /\ lotStatus[k] = "ACTIVE"
                                  /\ a[k] <= quantityReserved[k]
                                  /\ quantityReserved[k] <= quantityRemaining[k]
  BY <1>1, <1>3, <1>4
<1>6. StockTypeOK' /\ StockRollup'
  BY <1>1, <1>2, <1>5, consumeType, consumeRollup DEF BooksOK, InventoryTypeOK
<1>7. \A k \in Lots : /\ quantityRemaining'[k] = quantityRemaining[k] - a[k]
                      /\ quantityReserved'[k] = quantityReserved[k] - a[k]
                      /\ lotStatus'[k] = IF a[k] > 0 /\ quantityRemaining[k] = a[k]
                                         THEN "DEPLETED" ELSE lotStatus[k]
  BY <1>1, <1>3, <1>4 DEF consume, DepletedAtZero
<1>8. LotsHold'
  BY <1>3, <1>4, <1>5, <1>7 DEF LotsHold
<1> QED
  BY <1>1, <1>3, <1>6, <1>7, <1>8 DEF BooksOK, InventoryTypeOK

\* So does a correction of a lot to what is there, and a lot that leaves sale.
LEMMA CorrectedBooks ==
  ASSUME BooksOK, shelf \in [Lots -> Nat], NEW l \in Lots, CorrectLot(l)
  PROVE  BooksOK' /\ adjustments' # 0
<1>1. /\ setLotRemaining(l, shelf[l]) /\ adjustments < MaxAdjustments
      /\ ledger' = [ledger EXCEPT ![l] = @ + AdjustmentEntry(l, shelf[l])]
      /\ adjustments' = adjustments + 1 /\ shelf[l] \in Nat
  BY DEF CorrectLot, adjustLot
<1>2. quantityReserved[l] >= 0 /\ (lotStatus[l] # "ACTIVE" => quantityReserved[l] = 0)
  BY DEF BooksOK, LotsHold, InventoryTypeOK, StockTypeOK
<1>3. StockTypeOK' /\ StockRollup'
  BY <1>1, <1>2, setLotRemainingType, setLotRemainingRollup DEF BooksOK, InventoryTypeOK
<1>4. LotsHold'
  BY <1>1, <1>2 DEF BooksOK, InventoryTypeOK, StockTypeOK, LotsHold, setLotRemaining, StatusAtTarget
<1>5. adjustments' \in 0 .. MaxAdjustments /\ adjustments' # 0
  BY <1>1, InventoryAssumption DEF BooksOK, InventoryTypeOK
<1>6. ledger' \in [Lots -> Int]
  <2>1. AdjustmentEntry(l, shelf[l]) \in Int
    BY <1>1 DEF BooksOK, InventoryTypeOK, StockTypeOK, AdjustmentEntry, RollupDelta
  <2> QED
    BY <1>1, <2>1 DEF BooksOK, InventoryTypeOK
<1> QED
  BY <1>3, <1>4, <1>5, <1>6 DEF BooksOK, InventoryTypeOK

\* A lot that expires or is quarantined keeps its units and leaves the rollup.
LEMMA LeavingBooks ==
  ASSUME BooksOK, NEW l \in Lots, LotLeavesSale(l)
  PROVE  /\ BooksOK' /\ UNCHANGED <<quantityRemaining, adjustments>>
         /\ \A k \in Lots : lotStatus'[k] \in {"ACTIVE", "DEPLETED"} => lotStatus'[k] = lotStatus[k]
<1>1. PICK next \in {"QUARANTINED", "EXPIRED"} :
        /\ leaveSellableRollup({l}, next) /\ lotStatus[l] = "ACTIVE" /\ quantityReserved[l] <= 0
        /\ UNCHANGED adjustments
        /\ ledger' = ledger \/ ledger' = [ledger EXCEPT ![l] = @ - AtLeastZero(quantityRemaining[l])]
  BY DEF LotLeavesSale, quarantineLot, runExpireLotsOnce
<1>2. next \in LotStatus \ {"ACTIVE"} /\ {l} \in SUBSET Lots
  BY DEF LotStatus
<1>3. /\ quantityReserved[l] = 0 /\ quantityRemaining[l] >= 0
      /\ quantityRemaining[l] \in Int /\ quantityReserved[l] \in Int
  BY <1>1 DEF BooksOK, LotsHold, InventoryTypeOK, StockTypeOK
<1>4. StockTypeOK' /\ StockRollup'
  BY <1>1, <1>2, <1>3, leaveSellableRollupType, leaveSellableRollupRollup
    DEF BooksOK, InventoryTypeOK
<1>5. LotsHold' /\ UNCHANGED <<quantityRemaining, quantityReserved>>
  BY <1>1, <1>3 DEF BooksOK, LotsHold, leaveSellableRollup
<1>6. ledger' \in [Lots -> Int]
  BY <1>1, <1>3 DEF BooksOK, InventoryTypeOK, AtLeastZero
<1>7. \A k \in Lots : lotStatus'[k] \in {"ACTIVE", "DEPLETED"} => lotStatus'[k] = lotStatus[k]
  BY <1>1 DEF leaveSellableRollup
<1> QED
  BY <1>1, <1>4, <1>5, <1>6, <1>7 DEF BooksOK, InventoryTypeOK

\* Approving a count keeps the books: every line goes through setLotRemaining.
LEMMA ApprovedBooks ==
  ASSUME BooksOK, variance \in [Counts -> [Lots -> Int]], NEW c \in Counts,
         NEW overrideBlockedLots \in BOOLEAN, approveCount(c, overrideBlockedLots)
  PROVE  BooksOK'
<1> DEFINE V == VarianceLines(c)
           t == [l \in Lots |-> CountTarget(c, l)]
           delta == [l \in Lots |-> RollupDelta(l, CountTarget(c, l))]
           d == [l \in Lots |-> IF l \in V THEN delta[l] ELSE 0]
<1>1. ASSUME NEW l \in Lots
      PROVE  /\ quantityRemaining[l] \in Int /\ quantityReserved[l] \in Int
             /\ lotStatus[l] \in LotStatus
             /\ 0 <= quantityReserved[l] /\ quantityReserved[l] <= quantityRemaining[l]
             /\ lotStatus[l] # "ACTIVE" => quantityReserved[l] = 0
             /\ t[l] \in Nat /\ t[l] = CountTarget(c, l) /\ delta[l] \in Int
  <2>1. variance[c][l] \in Int /\ quantityRemaining[l] \in Int
    BY DEF BooksOK, InventoryTypeOK, StockTypeOK
  <2>2. CountTarget(c, l) \in Nat
    BY <2>1 DEF CountTarget, AtLeastZero
  <2>3. RollupDelta(l, CountTarget(c, l)) \in Int
    BY <2>1, <2>2 DEF RollupDelta
  <2> QED
    BY <2>1, <2>2, <2>3 DEF BooksOK, InventoryTypeOK, StockTypeOK, LotsHold
<1>2. V \subseteq Lots
  BY DEF VarianceLines
<1>3. ASSUME NEW l \in Lots
      PROVE  /\ quantityRemaining'[l] = IF l \in V THEN t[l] ELSE quantityRemaining[l]
             /\ lotStatus'[l] = IF l \in V THEN StatusAtTarget(l, t[l]) ELSE lotStatus[l]
             /\ quantityReserved'[l] = quantityReserved[l]
             /\ l \in V /\ lotStatus[l] = "ACTIVE" => t[l] >= quantityReserved[l]
  BY DEF approveCount
<1>4. \A l \in Lots : /\ StatusAtTarget(l, t[l]) \in LotStatus
                      /\ StatusAtTarget(l, t[l]) # "ACTIVE" /\ lotStatus[l] = "ACTIVE" => t[l] = 0
  BY <1>1 DEF StatusAtTarget, LotStatus
<1>5. LotsHold'
  BY <1>1, <1>3, <1>4 DEF LotsHold
<1>6. d \in [Lots -> Int] /\ NoAllocation \in [Lots -> Int]
  BY <1>1 DEF NoAllocation
<1>7. ASSUME NEW p \in Products
      PROVE  /\ Total(delta, V \cap LotsOf(p)) = Total(d, LotsOf(p))
             /\ Total(d, LotsOf(p)) \in Int
             /\ stock'[p] = stock[p] + Total(d, LotsOf(p))
             /\ reserved'[p] = reserved[p] + Total(NoAllocation, LotsOf(p))
  <2>1. stock'[p] = stock[p] + Total(delta, V \cap LotsOf(p)) /\ reserved'[p] = reserved[p]
    BY DEF approveCount
  <2>2. IntegerOn(d, LotsOf(p)) /\ V \cap LotsOf(p) \in SUBSET LotsOf(p)
    BY <1>6, LotsOfFinite DEF IntegerOn
  <2>3. /\ \A l \in V \cap LotsOf(p) : d[l] = delta[l]
        /\ \A l \in LotsOf(p) \ (V \cap LotsOf(p)) : d[l] = 0
    BY <1>2, LotsOfFinite
  <2> HIDE DEF d, delta, V
  <2>4. Total(delta, V \cap LotsOf(p)) = Total(d, LotsOf(p)) /\ Total(d, LotsOf(p)) \in Int
    BY <2>2, <2>3, LotsOfFinite, TotalFiltered, TotalType
  <2> QED
    BY <2>1, <2>4, LineChange DEF BooksOK, InventoryTypeOK, StockTypeOK
<1>8. ASSUME NEW l \in Lots
      PROVE  /\ Sellable(lotStatus', quantityRemaining')[l] =
                  Sellable(lotStatus, quantityRemaining)[l] + d[l]
             /\ Sellable(lotStatus', quantityReserved')[l] =
                  Sellable(lotStatus, quantityReserved)[l] + NoAllocation[l]
  <2>1. d[l] = IF l \in V THEN (IF StatusAtTarget(l, t[l]) = "ACTIVE" THEN t[l] ELSE 0) -
                               (IF lotStatus[l] = "ACTIVE" THEN quantityRemaining[l] ELSE 0)
               ELSE 0
    BY <1>1 DEF RollupDelta
  <2>2. StatusAtTarget(l, t[l]) = "ACTIVE" =>
          lotStatus[l] = "ACTIVE" \/ quantityReserved[l] = 0
    BY <1>1
  <2>3. NoAllocation[l] = 0
    BY DEF NoAllocation
  <2> HIDE DEF d, t, V
  <2> QED
    BY <1>1, <1>3, <1>4, <2>1, <2>2, <2>3 DEF Sellable
<1>9. StockTypeOK'
  <2>1. lotStatus' \in [Lots -> LotStatus] /\ quantityRemaining' \in [Lots -> Int]
    <3>1. /\ lotStatus' = [l \in Lots |-> lotStatus'[l]]
          /\ quantityRemaining' = [l \in Lots |-> quantityRemaining'[l]]
      BY DEF approveCount
    <3>2. \A l \in Lots : lotStatus'[l] \in LotStatus /\ quantityRemaining'[l] \in Int
      BY <1>1, <1>3, <1>4
    <3> QED
      BY <3>1, <3>2
  <2>2. stock' \in [Products -> Int]
    <3>1. stock' = [p \in Products |-> stock'[p]]
      BY DEF approveCount
    <3>2. ASSUME NEW p \in Products PROVE stock'[p] \in Int
      <4>1. stock[p] \in Int
        BY DEF BooksOK, InventoryTypeOK, StockTypeOK
      <4>2. PICK n \in Int : n = Total(d, LotsOf(p))
        BY <1>7
      <4>3. stock'[p] = stock[p] + n
        BY <1>7, <4>2
      <4> QED
        BY <4>1, <4>3
    <3> QED
      BY <3>1, <3>2
  <2> QED
    BY <2>1, <2>2 DEF approveCount, BooksOK, InventoryTypeOK, StockTypeOK
<1>10. StockRollup'
  <2> HIDE DEF d
  <2> QED
    BY <1>6, <1>7, <1>8, <1>9, RollupStep DEF BooksOK, InventoryTypeOK
<1>11. ledger' \in [Lots -> Int] /\ UNCHANGED adjustments
  <2>1. \A l \in Lots : CountEntry(c, l) \in Int
    BY <1>1 DEF CountEntry
  <2> QED
    BY <2>1 DEF approveCount, BooksOK, InventoryTypeOK
<1> QED
  BY <1>5, <1>9, <1>10, <1>11 DEF BooksOK, InventoryTypeOK

-----------------------------------------------------------------------------
(* The sheets and the devices *)

\* A key that was used names its one look.
LEMMA TheLook ==
  ASSUME DeviceTypeOK, NEW k \in Keys, look[k] # {}
  PROVE  /\ LookOf(k) \in look[k] /\ look[k] = {LookOf(k)}
         /\ LookOf(k).count \in Counts /\ LookOf(k).lot \in Lots
         /\ LookOf(k).by \in Staff /\ LookOf(k).quantity \in Nat
<1>1. LookOf(k) \in look[k]
  BY DEF LookOf
<1>2. LookOf(k) \in Looks /\ look[k] = {LookOf(k)}
  BY <1>1 DEF DeviceTypeOK
<1> QED
  BY <1>1, <1>2 DEF Looks

\* Steps of the shop leave sheets and looks alone; a payment may add to what a
\* running submission has summed, nothing else.
LEMMA ShopKeepsDesk ==
  ASSUME SheetsOK, DevicesOK, DeviceTypeOK',
         UNCHANGED <<countStatus, approved, lineVars, look, queued>>,
         \A k \in Keys : \A r \in reading'[k] :
           \E s \in reading[k] : r.status = s.status /\ r.actor = s.actor
  PROVE  SheetsOK' /\ DevicesOK'
<1>1. UNCHANGED <<countStatus, approved, lineStatus, variance, countedBy, recountedBy, countKey,
                  recountKey, look>>
  BY DEF lineVars
<1>2. CountTypeOK' /\ LineTypeOK'
  BY <1>1 DEF SheetsOK, CountTypeOK, LineTypeOK
<1>3. CountsOK'
  BY <1>1 DEF SheetsOK, CountsOK, OpenCounts, Lines, CountedProducts
<1>4. \A c \in Counts, l \in Lots : LineOK(c, l)'
  BY <1>1 DEF SheetsOK, LineOK
<1>5. \A k \in Keys : LookOK(k)'
  BY <1>1 DEF DevicesOK, LookOK, Lines
<1>6. ASSUME NEW k \in Keys PROVE ReadOK(k)'
  BY <1>1 DEF DevicesOK, ReadOK
<1> QED
  BY <1>2, <1>3, <1>4, <1>5, <1>6 DEF SheetsOK, DevicesOK

\* A step in the life of one count: its status moves on, its lines stay.
LEMMA StatusKeepsDesk ==
  ASSUME SheetsOK, DevicesOK, NEW c \in Counts, NEW next \in CountStatus \ {"ABSENT"},
         countStatus[c] # "ABSENT", countStatus' = [countStatus EXCEPT ![c] = next],
         c \notin approved, UNCHANGED <<approved, lineVars, deviceVars, shelfVars>>,
         next = "DRAFT" => countStatus[c] = "DRAFT",
         next = "COMPLETED" => \A l \in Lines(c) : lineStatus[c][l] \in {"COUNTED", "RESOLVED"},
         next # "CANCELLED" => c \in OpenCounts
  PROVE  SheetsOK' /\ DevicesOK' /\ OpenCounts' \subseteq OpenCounts
<1>1. UNCHANGED <<approved, lineStatus, variance, countedBy, recountedBy, countKey, recountKey,
                  look, queued, paidAfter, reading, shelf, drift, losses>>
  BY DEF lineVars, deviceVars, shelfVars
<1>2. CountTypeOK' /\ LineTypeOK'
  BY <1>1 DEF SheetsOK, CountTypeOK, LineTypeOK
<1>3. /\ countStatus'[c] = next /\ \A d \in Counts \ {c} : countStatus'[d] = countStatus[d]
      /\ \A d : Lines(d)' = Lines(d)
  BY <1>1 DEF SheetsOK, CountTypeOK, Lines
<1>4. OpenCounts' \subseteq OpenCounts
  BY <1>1, <1>3 DEF OpenCounts
<1>5. CountsOK'
  BY <1>1, <1>3, <1>4 DEF SheetsOK, CountsOK, CountedProducts
<1>6. \A d \in Counts, l \in Lots : LineOK(d, l)'
  BY <1>1 DEF SheetsOK, LineOK
<1>7. DeviceTypeOK'
  BY <1>1 DEF DevicesOK, DeviceTypeOK
<1>8. ASSUME NEW k \in Keys PROVE LookOK(k)' /\ ReadOK(k)'
  <2>1. \A e \in look[k] : e.count \in Counts
    BY DEF DevicesOK, DeviceTypeOK, Looks
  <2>2. LookOK(k)'
    BY <1>1, <1>3, <2>1 DEF DevicesOK, LookOK
  <2>3. ReadOK(k)'
    BY <1>1 DEF DevicesOK, ReadOK
  <2> QED
    BY <2>2, <2>3
<1> QED
  BY <1>2, <1>4, <1>5, <1>6, <1>7, <1>8 DEF SheetsOK, DevicesOK

\* A new count: nobody has looked at its lines, and it shares no product with
\* an open one.
LEMMA createKeepsDesk ==
  ASSUME SheetsOK, DevicesOK, NEW c \in Counts, NEW scope \in SUBSET Lots, createCount(c, scope)
  PROVE  SheetsOK' /\ DevicesOK'
<1>1. UNCHANGED <<approved, variance, countedBy, recountedBy, countKey, recountKey,
                  look, queued, paidAfter, reading, shelf, drift, losses>>
  BY DEF createCount, deviceVars, shelfVars
<1>2. /\ countStatus[c] = "ABSENT" /\ countStatus'[c] = "DRAFT"
      /\ \A d \in Counts \ {c} : /\ countStatus'[d] = countStatus[d]
                                 /\ lineStatus'[d] = lineStatus[d]
      /\ \A l \in Lots : lineStatus'[c][l] = IF l \in scope THEN "PENDING" ELSE "NONE"
  BY DEF createCount, SheetsOK, CountTypeOK, LineTypeOK
<1>3. CountTypeOK' /\ LineTypeOK'
  <2>1. countStatus' \in [Counts -> CountStatus]
    BY DEF createCount, SheetsOK, CountTypeOK, CountStatus
  <2>2. lineStatus' \in [Counts -> [Lots -> LineStatus]]
    BY DEF createCount, SheetsOK, LineTypeOK, LineStatus
  <2>3. approved' \subseteq {d \in Counts : countStatus'[d] = "COMPLETED"}
    BY <1>1, <1>2 DEF SheetsOK, CountTypeOK
  <2> QED
    BY <1>1, <2>1, <2>2, <2>3 DEF SheetsOK, CountTypeOK, LineTypeOK
<1>4. Lines(c)' = scope /\ \A d \in Counts \ {c} : Lines(d)' = Lines(d)
  BY <1>2 DEF Lines
<1>5. OpenCounts' = OpenCounts \cup {c}
  BY <1>1, <1>2 DEF OpenCounts
<1>6. \A d \in OpenCounts : CountedProducts(Lines(d)) \cap CountedProducts(scope) = {}
  BY DEF createCount, NoClash
<1>7. CountsOK'
  <2>1. c \notin OpenCounts /\ OpenCounts \subseteq Counts
    BY <1>1, <1>2 DEF OpenCounts, SheetsOK, CountTypeOK
  <2>2. \A d, e \in OpenCounts' : d # e =>
          CountedProducts(Lines(d)') \cap CountedProducts(Lines(e)') = {}
    BY <1>4, <1>5, <1>6, <2>1 DEF SheetsOK, CountsOK
  <2>3. \A d \in Counts : countStatus'[d] = "ABSENT" => Lines(d)' = {}
    BY <1>2, <1>4 DEF SheetsOK, CountsOK
  <2>4. \A d \in Counts : countStatus'[d] = "COMPLETED" =>
          \A l \in Lines(d)' : lineStatus'[d][l] \in {"COUNTED", "RESOLVED"}
    BY <1>2, <1>4 DEF SheetsOK, CountsOK
  <2> QED
    BY <2>2, <2>3, <2>4 DEF CountsOK, CountedProducts
<1>8. ASSUME NEW d \in Counts, NEW l \in Lots PROVE LineOK(d, l)'
  <2>1. CASE d = c
    <3>1. lineStatus[c][l] = "NONE" /\ LineOK(c, l)
      BY <1>2 DEF SheetsOK, CountsOK, Lines
    <3>2. /\ countKey[c][l] = NoKey /\ recountKey[c][l] = NoKey /\ variance[c][l] = 0
          /\ lineStatus'[c][l] \in {"NONE", "PENDING"}
      BY <1>2, <3>1 DEF LineOK
    <3> QED
      BY <1>1, <2>1, <3>2, CountAssumption DEF LineOK
  <2>2. CASE d # c
    BY <1>1, <1>2, <2>2 DEF SheetsOK, LineOK
  <2> QED
    BY <2>1, <2>2
<1>9. DeviceTypeOK'
  BY <1>1 DEF DevicesOK, DeviceTypeOK
<1>10. ASSUME NEW k \in Keys PROVE LookOK(k)' /\ ReadOK(k)'
  <2>1. \A e \in look[k] : e.count \in Counts \ {c} /\ e.lot \in Lots
    BY <1>2 DEF DevicesOK, DeviceTypeOK, Looks, LookOK
  <2>2. LookOK(k)'
    BY <1>1, <1>2, <1>4, <2>1 DEF DevicesOK, LookOK
  <2>3. ReadOK(k)'
    BY <1>1, <1>2, <2>1 DEF DevicesOK, ReadOK
  <2> QED
    BY <2>2, <2>3
<1> QED
  BY <1>3, <1>7, <1>8, <1>9, <1>10 DEF SheetsOK, DevicesOK

\* Approval changes the books, not the sheets.
LEMMA approveKeepsDesk ==
  ASSUME SheetsOK, DevicesOK, NEW c \in Counts, NEW overrideBlockedLots \in BOOLEAN,
         approveCount(c, overrideBlockedLots)
  PROVE  SheetsOK' /\ DevicesOK' /\ OpenCounts' = OpenCounts \ {c} /\ c \in OpenCounts
<1>1. UNCHANGED <<countStatus, lineStatus, variance, countedBy, recountedBy, countKey, recountKey,
                  look, queued, paidAfter, reading, shelf, drift, losses>>
  BY DEF approveCount, lineVars, deviceVars, shelfVars
<1>2. approved' = approved \cup {c} /\ countStatus[c] = "COMPLETED" /\ c \notin approved
  BY DEF approveCount
<1>3. CountTypeOK' /\ LineTypeOK'
  BY <1>1, <1>2 DEF SheetsOK, CountTypeOK, LineTypeOK
<1>4. OpenCounts' = OpenCounts \ {c} /\ c \in OpenCounts
  BY <1>1, <1>2 DEF OpenCounts
<1>5. CountsOK'
  BY <1>1, <1>4 DEF SheetsOK, CountsOK, Lines, CountedProducts
<1>6. \A d \in Counts, l \in Lots : LineOK(d, l)'
  BY <1>1 DEF SheetsOK, LineOK
<1>7. DeviceTypeOK' /\ \A k \in Keys : LookOK(k)' /\ ReadOK(k)'
  BY <1>1 DEF DevicesOK, DeviceTypeOK, LookOK, ReadOK, Lines
<1> QED
  BY <1>3, <1>4, <1>5, <1>6, <1>7 DEF SheetsOK, DevicesOK
\* A new look is at a line of a count that was started, under a fresh key.
LEMMA SaveKeepsDesk ==
  ASSUME SheetsOK, DevicesOK, NEW k \in Keys, NEW c \in Counts, NEW l \in Lots, NEW u \in Staff,
         SaveEntry(k, c, l, u)
  PROVE  SheetsOK' /\ DevicesOK'
<1>1. UNCHANGED <<countStatus, approved, lineStatus, variance, countedBy, recountedBy, countKey,
                  recountKey, paidAfter, reading, shelf, drift, losses>>
  BY DEF SaveEntry, lineVars, shelfVars
<1> DEFINE e0 == [count |-> c, lot |-> l, by |-> u, quantity |-> shelf[l]]
<1>2. /\ look[k] = {} /\ countStatus[c] \notin {"ABSENT", "DRAFT"} /\ l \in Lines(c)
      /\ look'[k] = {e0} /\ \A j \in Keys \ {k} : look'[j] = look[j]
      /\ queued' = queued \cup {k}
  BY DEF SaveEntry, DevicesOK, DeviceTypeOK
<1>3. e0 \in Looks
  BY DEF DevicesOK, DeviceTypeOK, Looks
<1>4. CountTypeOK' /\ LineTypeOK' /\ CountsOK'
  <2>1. CountTypeOK' /\ LineTypeOK'
    BY <1>1 DEF SheetsOK, CountTypeOK, LineTypeOK
  <2>2. CountsOK'
    BY <1>1 DEF SheetsOK, CountsOK, OpenCounts, Lines, CountedProducts
  <2> QED
    BY <2>1, <2>2
<1>5. ASSUME NEW d \in Counts, NEW m \in Lots PROVE LineOK(d, m)'
  <2>1. LineOK(d, m)
    BY DEF SheetsOK
  <2>2. k \notin {countKey[d][m], recountKey[d][m]}
    BY <1>2, <2>1 DEF LineOK
  <2>3. \A j \in Keys : j \in {countKey[d][m], recountKey[d][m]} =>
          \E e \in look'[j] : e.count = d /\ e.lot = m
    BY <1>2, <2>1, <2>2 DEF LineOK
  <2> QED
    BY <1>1, <2>1, <2>3 DEF LineOK
<1>6. DeviceTypeOK'
  <2>1. look' \in [Keys -> SUBSET Looks]
    BY <1>3 DEF SaveEntry, DevicesOK, DeviceTypeOK
  <2>2. \A j \in Keys : \A d, e \in look'[j] : d = e
    BY <1>2 DEF DevicesOK, DeviceTypeOK
  <2>3. queued' \subseteq {j \in Keys : look'[j] # {}}
    BY <1>2 DEF DevicesOK, DeviceTypeOK
  <2> QED
    BY <1>1, <2>1, <2>2, <2>3 DEF DevicesOK, DeviceTypeOK
<1>7. ASSUME NEW j \in Keys PROVE LookOK(j)' /\ ReadOK(j)'
  <2>1. CASE j = k
    <3>1. LookOK(k)'
      BY <1>1, <1>2 DEF LookOK, Lines
    <3>2. reading'[k] = {}
      BY <1>1, <1>2 DEF DevicesOK, ReadOK
    <3> QED
      BY <2>1, <3>1, <3>2 DEF ReadOK
  <2>2. CASE j # k
    BY <1>1, <1>2, <2>2 DEF DevicesOK, LookOK, ReadOK, Lines
  <2> QED
    BY <2>1, <2>2
<1> QED
  BY <1>4, <1>5, <1>6, <1>7 DEF SheetsOK, DevicesOK

\* The reads of a submission: a line that waits for a recount was counted under
\* another key, and by another person if there is one.
LEMMA BeginKeepsDesk ==
  ASSUME SheetsOK, DevicesOK, BooksOK, NEW k \in Keys, BeginSubmit(k)
  PROVE  SheetsOK' /\ DevicesOK'
<1>1. UNCHANGED <<countStatus, approved, lineStatus, variance, countedBy, recountedBy, countKey,
                  recountKey, look, paidAfter, shelf, drift, losses>>
  BY DEF BeginSubmit, lineVars, shelfVars
<1> DEFINE c == LookOf(k).count
           l == LookOf(k).lot
           r0 == [status |-> lineStatus[c][l], actor |-> LookOf(k).by,
                  seen |-> quantityRemaining[l], paid |-> paidAfter[k]]
<1>2. look[k] # {} /\ queued' \subseteq queued
  BY DEF BeginSubmit, DevicesOK, DeviceTypeOK, Answered
<1>3. /\ look[k] = {LookOf(k)} /\ c \in Counts /\ l \in Lots
      /\ LookOf(k).by \in Staff
  BY <1>2, TheLook DEF DevicesOK
<1>4. \/ reading' = reading
      \/ /\ reading' = [reading EXCEPT ![k] = @ \cup {r0}] /\ ~Recorded(k)
         /\ \/ lineStatus[c][l] = "PENDING"
            \/ lineStatus[c][l] = "RECOUNT_REQUIRED" /\ MayRecount(c, l, LookOf(k).by)
  BY DEF BeginSubmit
<1>5. SheetsOK'
  <2>1. CountTypeOK' /\ LineTypeOK'
    BY <1>1 DEF SheetsOK, CountTypeOK, LineTypeOK
  <2>2. CountsOK'
    BY <1>1 DEF SheetsOK, CountsOK, OpenCounts, Lines, CountedProducts
  <2>3. \A d \in Counts, m \in Lots : LineOK(d, m)'
    BY <1>1 DEF SheetsOK, LineOK
  <2> QED
    BY <2>1, <2>2, <2>3 DEF SheetsOK
<1>6. reading' \in [Keys -> SUBSET Readings]
  <2>1. reading \in [Keys -> SUBSET Readings]
    BY DEF DevicesOK, DeviceTypeOK
  <2>2. quantityRemaining[l] \in Int /\ paidAfter[k] \in Nat
    BY <1>3 DEF BooksOK, InventoryTypeOK, StockTypeOK, DevicesOK, DeviceTypeOK
  <2>3. lineStatus[c][l] \in {"PENDING", "RECOUNT_REQUIRED"} => r0 \in Readings
    BY <1>3, <2>2 DEF Readings
  <2> HIDE DEF r0
  <2> QED
    BY <1>4, <2>1, <2>3
<1>7. DeviceTypeOK'
  BY <1>1, <1>2, <1>6 DEF DevicesOK, DeviceTypeOK
<1>8. \A j \in Keys : LookOK(j)'
  BY <1>1 DEF DevicesOK, LookOK, Lines
<1>9. ASSUME NEW j \in Keys PROVE ReadOK(j)'
  <2>1. CASE reading'[j] = reading[j]
    BY <1>1, <2>1 DEF DevicesOK, ReadOK
  <2>2. CASE reading'[j] # reading[j]
    <3>1. /\ j = k /\ reading'[k] = reading[k] \cup {r0} /\ ~Recorded(k)
          /\ \/ lineStatus[c][l] = "PENDING"
             \/ lineStatus[c][l] = "RECOUNT_REQUIRED" /\ MayRecount(c, l, LookOf(k).by)
      BY <1>4, <2>2 DEF DevicesOK, DeviceTypeOK
    <3>2. r0.status = "RECOUNT_REQUIRED" =>
            /\ lineStatus[c][l] = "RECOUNT_REQUIRED" /\ countKey[c][l] # k
            /\ r0.actor \in countedBy[c][l] => Staff \ {r0.actor} = {}
      BY <1>3, <3>1 DEF Recorded, MayRecount
    <3> HIDE DEF r0, c, l
    <3>3. \A e \in look[k] : e = LookOf(k)
      BY <1>3
    <3>4. \A e \in look[k] : e.count = c /\ e.lot = l
      BY <3>3 DEF c, l
    <3> QED
      BY <1>1, <1>2, <3>1, <3>2, <3>4 DEF DevicesOK, ReadOK
  <2> QED
    BY <2>1, <2>2
<1> QED
  BY <1>5, <1>7, <1>8, <1>9 DEF DevicesOK
\* A submission that lost the line only ends.
LEMMA LoseKeepsDesk ==
  ASSUME SheetsOK, DevicesOK, NEW k \in Keys, NEW r \in reading[k], LoseLine(k, r)
  PROVE  SheetsOK' /\ DevicesOK'
<1>1. UNCHANGED <<countStatus, approved, lineStatus, variance, countedBy, recountedBy, countKey,
                  recountKey, look, paidAfter, shelf, drift, losses>>
  BY DEF LoseLine, lineVars, shelfVars
<1>2. queued' \subseteq queued /\ reading' = [reading EXCEPT ![k] = @ \ {r}]
  BY DEF LoseLine, Answered
<1>3. DeviceTypeOK' /\ \A j \in Keys : reading'[j] \subseteq reading[j]
  <2>1. reading \in [Keys -> SUBSET Readings]
    BY DEF DevicesOK, DeviceTypeOK
  <2>2. reading' \in [Keys -> SUBSET Readings] /\ \A j \in Keys : reading'[j] \subseteq reading[j]
    BY <1>2, <2>1
  <2> QED
    BY <1>1, <1>2, <2>2 DEF DevicesOK, DeviceTypeOK
<1>4. CountTypeOK' /\ LineTypeOK'
  BY <1>1 DEF SheetsOK, CountTypeOK, LineTypeOK
<1>5. CountsOK'
  BY <1>1 DEF SheetsOK, CountsOK, OpenCounts, Lines, CountedProducts
<1>6. \A d \in Counts, m \in Lots : LineOK(d, m)'
  BY <1>1 DEF SheetsOK, LineOK
<1>7. \A j \in Keys : LookOK(j)'
  BY <1>1 DEF DevicesOK, LookOK, Lines
<1>8. \A j \in Keys : ReadOK(j)'
  BY <1>1, <1>3 DEF DevicesOK, ReadOK
<1> QED
  BY <1>3, <1>4, <1>5, <1>6, <1>7, <1>8 DEF SheetsOK, DevicesOK

\* Writing one cell of a table of counts and lots.
LEMMA OneCell ==
  ASSUME NEW S, NEW f \in [Counts -> [Lots -> S]], NEW c \in Counts, NEW l \in Lots, NEW v \in S
  PROVE  [f EXCEPT ![c][l] = v] \in [Counts -> [Lots -> S]]
<1>1. [f[c] EXCEPT ![l] = v] \in [Lots -> S]
  OBVIOUS
<1>2. [f EXCEPT ![c][l] = v] = [f EXCEPT ![c] = [f[c] EXCEPT ![l] = v]]
  OBVIOUS
<1> QED
  BY <1>1, <1>2

\* What the write of a submission does to the sheets: only the line it was read
\* from changes, and the count is still one that is being counted.
ClaimedLine(k, r, c, l) ==
  /\ lineStatus[c][l] = r.status
  /\ countStatus[c] \notin {"ABSENT", "DRAFT", "COMPLETED"}
  /\ \A d \in Counts, m \in Lots : d # c \/ m # l =>
       /\ lineStatus'[d][m] = lineStatus[d][m] /\ variance'[d][m] = variance[d][m]
       /\ countedBy'[d][m] = countedBy[d][m] /\ recountedBy'[d][m] = recountedBy[d][m]
       /\ countKey'[d][m] = countKey[d][m] /\ recountKey'[d][m] = recountKey[d][m]
  /\ r.status = "PENDING" =>
       /\ lineStatus'[c][l] \in {"COUNTED", "RECOUNT_REQUIRED"}
       /\ countKey'[c][l] = k /\ recountKey'[c][l] = NoKey
  /\ r.status = "RECOUNT_REQUIRED" =>
       /\ lineStatus'[c][l] = "RESOLVED"
       /\ recountKey'[c][l] = k /\ countKey'[c][l] = countKey[c][l]
       /\ recountedBy'[c][l] = {r.actor} /\ countedBy'[c][l] = countedBy[c][l]

\* What an answered entry writes: the variance of its line against what was read.
LEMMA ClaimEffect ==
  ASSUME SheetsOK, DevicesOK, NEW k \in Keys, NEW r \in reading[k], ClaimLine(k, r)
  PROVE  /\ look[k] = {LookOf(k)} /\ LookOf(k).count \in Counts /\ LookOf(k).lot \in Lots
         /\ r \in Readings
         /\ variance'[LookOf(k).count][LookOf(k).lot] = LookOf(k).quantity - (r.seen + r.paid)
         /\ LineTypeOK'
         /\ ClaimedLine(k, r, LookOf(k).count, LookOf(k).lot)
<1>1. look[k] # {} /\ r \in Readings
  BY DEF DevicesOK, ReadOK, DeviceTypeOK
<1>2. PICK c \in Counts, l \in Lots, q \in Nat :
         /\ c = LookOf(k).count /\ l = LookOf(k).lot /\ q = LookOf(k).quantity
         /\ look[k] = {LookOf(k)}
  BY <1>1, TheLook DEF DevicesOK
<1>3. PICK v \in Int : v = q - (r.seen + r.paid)
  BY <1>1 DEF Readings
<1>4. /\ lineStatus[c][l] = r.status
      /\ variance' = [variance EXCEPT ![c][l] = v]
      /\ \/ /\ r.status = "RECOUNT_REQUIRED"
            /\ lineStatus' = [lineStatus EXCEPT ![c][l] = "RESOLVED"]
            /\ recountedBy' = [recountedBy EXCEPT ![c][l] = {r.actor}]
            /\ recountKey' = [recountKey EXCEPT ![c][l] = k]
            /\ UNCHANGED <<countedBy, countKey>>
         \/ /\ r.status # "RECOUNT_REQUIRED"
            /\ \E s \in {"COUNTED", "RECOUNT_REQUIRED"} :
                 lineStatus' = [lineStatus EXCEPT ![c][l] = s]
            /\ countedBy' = [countedBy EXCEPT ![c][l] = {r.actor}]
            /\ countKey' = [countKey EXCEPT ![c][l] = k]
            /\ UNCHANGED <<recountedBy, recountKey>>
  BY <1>2, <1>3 DEF ClaimLine, LineUnclaimed, QuantityAtCount
<1>5. r.actor \in Staff /\ r.status \in {"PENDING", "RECOUNT_REQUIRED"}
  BY <1>1 DEF Readings
<1>6. LineTypeOK
  BY DEF SheetsOK
<1>7. LineTypeOK'
  <2>1. variance' \in [Counts -> [Lots -> Int]]
    BY <1>4, <1>6, OneCell DEF LineTypeOK
  <2>2. lineStatus' \in [Counts -> [Lots -> LineStatus]]
    <3>1. PICK s \in LineStatus : lineStatus' = [lineStatus EXCEPT ![c][l] = s]
      BY <1>4 DEF LineStatus
    <3> QED
      BY <1>6, <3>1, OneCell DEF LineTypeOK
  <2>3. {r.actor} \in SUBSET Staff /\ k \in Keys \cup {NoKey}
    BY <1>5
  <2>4. countedBy' \in [Counts -> [Lots -> SUBSET Staff]]
    <3>1. countedBy \in [Counts -> [Lots -> SUBSET Staff]]
      BY <1>6 DEF LineTypeOK
    <3>2. [countedBy EXCEPT ![c][l] = {r.actor}] \in [Counts -> [Lots -> SUBSET Staff]]
      BY <2>3, <3>1, OneCell
    <3> QED
      BY <1>4, <3>1, <3>2
  <2>5. recountedBy' \in [Counts -> [Lots -> SUBSET Staff]]
    <3>1. recountedBy \in [Counts -> [Lots -> SUBSET Staff]]
      BY <1>6 DEF LineTypeOK
    <3>2. [recountedBy EXCEPT ![c][l] = {r.actor}] \in [Counts -> [Lots -> SUBSET Staff]]
      BY <2>3, <3>1, OneCell
    <3> QED
      BY <1>4, <3>1, <3>2
  <2>6. countKey' \in [Counts -> [Lots -> Keys \cup {NoKey}]]
    <3>1. countKey \in [Counts -> [Lots -> Keys \cup {NoKey}]]
      BY <1>6 DEF LineTypeOK
    <3>2. [countKey EXCEPT ![c][l] = k] \in [Counts -> [Lots -> Keys \cup {NoKey}]]
      BY <2>3, <3>1, OneCell
    <3> QED
      BY <1>4, <3>1, <3>2
  <2>7. recountKey' \in [Counts -> [Lots -> Keys \cup {NoKey}]]
    <3>1. recountKey \in [Counts -> [Lots -> Keys \cup {NoKey}]]
      BY <1>6 DEF LineTypeOK
    <3>2. [recountKey EXCEPT ![c][l] = k] \in [Counts -> [Lots -> Keys \cup {NoKey}]]
      BY <2>3, <3>1, OneCell
    <3> QED
      BY <1>4, <3>1, <3>2
  <2> QED
    BY <2>1, <2>2, <2>4, <2>5, <2>6, <2>7 DEF LineTypeOK
<1>8. countStatus[c] \notin {"ABSENT", "DRAFT", "COMPLETED"}
  <2>1. countStatus[c] \notin {"ABSENT", "DRAFT"} /\ l \in Lines(c)
    BY <1>2 DEF DevicesOK, LookOK
  <2> QED
    BY <1>4, <1>5, <2>1 DEF SheetsOK, CountsOK
<1>9. variance'[c][l] = v
  BY <1>4, <1>6 DEF LineTypeOK
<1>10. lineStatus[c][l] = "PENDING" => recountKey[c][l] = NoKey
  BY DEF SheetsOK, LineOK
<1>11. ASSUME NEW d \in Counts, NEW m \in Lots, d # c \/ m # l
       PROVE  /\ lineStatus'[d][m] = lineStatus[d][m] /\ variance'[d][m] = variance[d][m]
              /\ countedBy'[d][m] = countedBy[d][m] /\ recountedBy'[d][m] = recountedBy[d][m]
              /\ countKey'[d][m] = countKey[d][m] /\ recountKey'[d][m] = recountKey[d][m]
  <2>1. lineStatus'[d][m] = lineStatus[d][m] /\ variance'[d][m] = variance[d][m]
    BY <1>4, <1>6, <1>11 DEF LineTypeOK
  <2>2. countedBy'[d][m] = countedBy[d][m] /\ recountedBy'[d][m] = recountedBy[d][m]
    BY <1>4, <1>6, <1>11 DEF LineTypeOK
  <2>3. countKey'[d][m] = countKey[d][m] /\ recountKey'[d][m] = recountKey[d][m]
    BY <1>4, <1>6, <1>11 DEF LineTypeOK
  <2> QED
    BY <2>1, <2>2, <2>3
<1>12. r.status = "PENDING" =>
       /\ lineStatus'[c][l] \in {"COUNTED", "RECOUNT_REQUIRED"}
       /\ countKey'[c][l] = k /\ recountKey'[c][l] = NoKey
  BY <1>4, <1>6, <1>10 DEF LineTypeOK
<1>13. r.status = "RECOUNT_REQUIRED" =>
       /\ lineStatus'[c][l] = "RESOLVED"
       /\ recountKey'[c][l] = k /\ countKey'[c][l] = countKey[c][l]
       /\ recountedBy'[c][l] = {r.actor} /\ countedBy'[c][l] = countedBy[c][l]
  BY <1>4, <1>6 DEF LineTypeOK
<1>14. ClaimedLine(k, r, c, l)
  BY <1>4, <1>8, <1>11, <1>12, <1>13 DEF ClaimedLine
<1> QED
  BY <1>1, <1>2, <1>3, <1>7, <1>9, <1>14

\* A recount is written by a second look at the line.
LEMMA ClaimKeepsDesk ==
  ASSUME SheetsOK, DevicesOK, NEW k \in Keys, NEW r \in reading[k], ClaimLine(k, r)
  PROVE  SheetsOK' /\ DevicesOK' /\ OpenCounts' = OpenCounts /\ \A d \in Counts : Lines(d)' = Lines(d)
<1>1. UNCHANGED <<countStatus, approved, look, paidAfter, shelf, drift, losses>>
  BY DEF ClaimLine, shelfVars
<1>2. PICK c \in Counts, l \in Lots :
         /\ c = LookOf(k).count /\ l = LookOf(k).lot /\ look[k] = {LookOf(k)}
         /\ r \in Readings /\ LineTypeOK' /\ ClaimedLine(k, r, c, l)
  BY ClaimEffect
<1>3. r.status \in {"PENDING", "RECOUNT_REQUIRED"} /\ r.actor \in Staff
  BY <1>2 DEF Readings
<1>4. queued' \subseteq queued /\ reading' = [reading EXCEPT ![k] = @ \ {r}]
  BY DEF ClaimLine, Answered
<1>5. DeviceTypeOK' /\ \A j \in Keys : reading'[j] \subseteq reading[j]
  <2>1. reading \in [Keys -> SUBSET Readings]
    BY DEF DevicesOK, DeviceTypeOK
  <2>2. reading' \in [Keys -> SUBSET Readings] /\ \A j \in Keys : reading'[j] \subseteq reading[j]
    BY <1>4, <2>1
  <2> QED
    BY <1>1, <1>4, <2>2 DEF DevicesOK, DeviceTypeOK
<1>6. l \in Lines(c) /\ \A d \in Counts : Lines(d)' = Lines(d)
  BY <1>2, <1>3 DEF ClaimedLine, Lines
<1>7. OpenCounts' = OpenCounts /\ OpenCounts \subseteq Counts
  BY <1>1 DEF OpenCounts
<1>8. CountTypeOK'
  BY <1>1 DEF SheetsOK, CountTypeOK
<1>9. CountsOK'
  <2>1. \A d \in Counts : countStatus'[d] = "ABSENT" => Lines(d)' = {}
    BY <1>1, <1>6 DEF SheetsOK, CountsOK
  <2>2. ASSUME NEW d \in Counts, countStatus'[d] = "COMPLETED", NEW m \in Lines(d)'
        PROVE  lineStatus'[d][m] \in {"COUNTED", "RESOLVED"}
    <3>1. d # c /\ m \in Lots /\ m \in Lines(d)
      BY <1>1, <1>2, <1>6, <2>2 DEF ClaimedLine, Lines
    <3> QED
      BY <1>1, <1>2, <2>2, <3>1 DEF ClaimedLine, SheetsOK, CountsOK
  <2>3. \A d, e \in OpenCounts' : d # e =>
          CountedProducts(Lines(d)') \cap CountedProducts(Lines(e)') = {}
    BY <1>6, <1>7 DEF SheetsOK, CountsOK
  <2> QED
    BY <2>1, <2>2, <2>3 DEF CountsOK, CountedProducts
<1>10. LookOf(k).count = c /\ LookOf(k).lot = l /\ LookOf(k) \in look[k]
  BY <1>2
<1>11. ASSUME NEW d \in Counts, NEW m \in Lots PROVE LineOK(d, m)'
  <2>1. LineOK(d, m)
    BY DEF SheetsOK
  <2>2. CASE d # c \/ m # l
    BY <1>1, <1>2, <2>1, <2>2 DEF ClaimedLine, LineOK
  <2>3. CASE d = c /\ m = l
    <3>1. CASE r.status = "PENDING"
      <4>1. /\ lineStatus'[c][l] \in {"COUNTED", "RECOUNT_REQUIRED"}
            /\ countKey'[c][l] = k /\ recountKey'[c][l] = NoKey
        BY <1>2, <3>1 DEF ClaimedLine
      <4> QED
        BY <1>1, <1>10, <2>3, <4>1, CountAssumption DEF LineOK
    <3>2. CASE r.status = "RECOUNT_REQUIRED"
      <4>1. /\ lineStatus'[c][l] = "RESOLVED"
            /\ recountKey'[c][l] = k /\ countKey'[c][l] = countKey[c][l]
            /\ recountedBy'[c][l] = {r.actor} /\ countedBy'[c][l] = countedBy[c][l]
            /\ lineStatus[c][l] = "RECOUNT_REQUIRED"
        BY <1>2, <3>2 DEF ClaimedLine
      <4>2. countKey[c][l] \in Keys
        BY <2>1, <2>3, <4>1 DEF LineOK
      <4>3. /\ countKey[c][l] # k
            /\ r.actor \in countedBy[c][l] => Staff \ {r.actor} = {}
        BY <1>10, <3>2 DEF DevicesOK, ReadOK
      <4>4. countedBy[c][l] # {r.actor} \/ Cardinality(Staff) = 1
        <5>1. CASE countedBy[c][l] = {r.actor}
          <6>1. Staff = {r.actor}
            BY <1>3, <4>3, <5>1
          <6> QED
            BY <6>1, FS_Singleton
        <5> QED
          BY <5>1
      <4>5. \A j \in Keys : j \in {countKey'[c][l], recountKey'[c][l]} =>
              \E e \in look'[j] : e.count = c /\ e.lot = l
        BY <1>1, <1>10, <2>1, <2>3, <4>1 DEF LineOK
      <4> QED
        BY <2>3, <4>1, <4>2, <4>3, <4>4, <4>5 DEF LineOK
    <3> QED
      BY <1>3, <3>1, <3>2
  <2> QED
    BY <2>2, <2>3
<1>12. ASSUME NEW j \in Keys PROVE LookOK(j)' /\ ReadOK(j)'
  <2>1. \A e \in look[j] : e.count \in Counts /\ e.lot \in Lots
    BY DEF DevicesOK, DeviceTypeOK, Looks
  <2>2. LookOK(j)'
    BY <1>1, <1>6, <2>1 DEF DevicesOK, LookOK
  <2>3. ASSUME NEW s \in reading'[j], s.status = "RECOUNT_REQUIRED", NEW e \in look[j]
        PROVE  /\ lineStatus'[e.count][e.lot] \in {"RECOUNT_REQUIRED", "RESOLVED"}
               /\ countKey'[e.count][e.lot] # j
               /\ s.actor \in countedBy'[e.count][e.lot] => Staff \ {s.actor} = {}
    <3>1. /\ lineStatus[e.count][e.lot] \in {"RECOUNT_REQUIRED", "RESOLVED"}
          /\ countKey[e.count][e.lot] # j
          /\ s.actor \in countedBy[e.count][e.lot] => Staff \ {s.actor} = {}
      BY <1>5, <2>3 DEF DevicesOK, ReadOK
    <3>2. CASE e.count # c \/ e.lot # l
      BY <1>2, <2>1, <3>1, <3>2 DEF ClaimedLine
    <3>3. CASE e.count = c /\ e.lot = l
      BY <1>2, <1>3, <3>1, <3>3 DEF ClaimedLine
    <3> QED
      BY <3>2, <3>3
  <2>4. \A s \in reading'[j] : look'[j] # {}
    BY <1>1, <1>5 DEF DevicesOK, ReadOK
  <2>5. ReadOK(j)'
    BY <1>1, <2>3, <2>4 DEF ReadOK
  <2> QED
    BY <2>2, <2>5
<1> QED
  BY <1>2, <1>5, <1>6, <1>7, <1>8, <1>9, <1>11, <1>12 DEF SheetsOK, DevicesOK
\* A payment: the device's looks stay, the units paid since a look grow.
LEMMA PayKeepsDesk ==
  ASSUME SheetsOK, DevicesOK, NEW a \in Allocation, NEW m \in Lots, NEW raced \in BOOLEAN,
         Pay(a, m, raced)
  PROVE  SheetsOK' /\ DevicesOK'
<1>1. UNCHANGED <<countStatus, approved, lineVars, look, queued, losses>>
  BY DEF Pay
<1>2. DeviceTypeOK
  BY DEF DevicesOK
<1>3. ASSUME NEW k \in Keys, look[k] # {} PROVE LookOf(k).lot \in Lots /\ a[LookOf(k).lot] \in Nat
  BY <1>2, <1>3, TheLook DEF Allocation
<1>4. shelf' \in [Lots -> Nat]
  BY <1>2 DEF Pay, DeviceTypeOK
<1>5. paidAfter' \in [Keys -> Nat]
  <2>1. ASSUME NEW k \in Keys
        PROVE  (IF look[k] = {} THEN 0 ELSE paidAfter[k] + a[LookOf(k).lot]) \in Nat
    BY <1>2, <1>3 DEF DeviceTypeOK
  <2> QED
    BY <2>1 DEF Pay
<1>6. drift' \in [Keys -> Int]
  <2>1. ASSUME NEW k \in Keys
        PROVE  (IF look[k] = {} THEN 0
                ELSE drift[k] - a[LookOf(k).lot] + (IF LookOf(k).lot = m THEN 1 ELSE 0)) \in Int
    BY <1>2, <1>3 DEF DeviceTypeOK
  <2> QED
    BY <2>1 DEF Pay
<1>7. ASSUME NEW k \in Keys, NEW r \in reading'[k]
      PROVE  r \in Readings /\ \E s \in reading[k] : r.status = s.status /\ r.actor = s.actor
  <2>1. PICK s \in reading[k] : r = IF raced THEN [s EXCEPT !.paid = @ + a[LookOf(k).lot]] ELSE s
    BY <1>7 DEF Pay
  <2>2. s \in Readings /\ look[k] # {}
    BY <1>2 DEF DeviceTypeOK, DevicesOK, ReadOK
  <2>3. a[LookOf(k).lot] \in Nat
    BY <1>3, <2>2
  <2>4. PICK n \in Nat : n = a[LookOf(k).lot]
    BY <2>3
  <2> QED
    BY <2>1, <2>2, <2>4 DEF Readings
<1>8. reading' \in [Keys -> SUBSET Readings]
  <2>1. reading' = [k \in Keys |-> reading'[k]]
    BY DEF Pay
  <2> QED
    BY <1>7, <2>1
<1>9. DeviceTypeOK'
  BY <1>1, <1>2, <1>4, <1>5, <1>6, <1>8 DEF DeviceTypeOK
<1> QED
  BY <1>1, <1>7, <1>9, ShopKeepsDesk

\* A lost unit: only the shelf moves.
LEMMA LossKeepsDesk ==
  ASSUME SheetsOK, DevicesOK, NEW l \in Lots, LoseUnit(l)
  PROVE  SheetsOK' /\ DevicesOK'
<1>1. UNCHANGED <<countStatus, approved, lineVars, look, queued, paidAfter, reading>>
  BY DEF LoseUnit, deviceVars
<1>2. DeviceTypeOK
  BY DEF DevicesOK
<1>3. shelf' \in [Lots -> Nat] /\ losses' \in 0 .. MaxLosses
  BY <1>2, CountAssumption DEF LoseUnit, DeviceTypeOK
<1>4. drift' \in [Keys -> Int]
  BY <1>2 DEF LoseUnit, DeviceTypeOK
<1>5. DeviceTypeOK'
  BY <1>1, <1>2, <1>3, <1>4 DEF DeviceTypeOK
<1> QED
  BY <1>1, <1>5, ShopKeepsDesk

\* The sheets and the devices do not depend on the inventory.
LEMMA DeskAlone ==
  ASSUME SheetsOK, DevicesOK, UNCHANGED <<countStatus, approved, lineVars, deviceVars, shelfVars>>
  PROVE  SheetsOK' /\ DevicesOK'
<1>1. UNCHANGED <<countStatus, approved, lineVars, look, queued, paidAfter, reading, shelf, drift,
                  losses>>
  BY DEF deviceVars, shelfVars
<1>2. DeviceTypeOK'
  BY <1>1 DEF DevicesOK, DeviceTypeOK
<1> QED
  BY <1>1, <1>2, ShopKeepsDesk

\* The books do not depend on the sheets and the devices.
LEMMA BooksAlone ==
  ASSUME BooksOK, UNCHANGED inventoryVars
  PROVE  BooksOK'
<1>1. UNCHANGED <<lotStatus, quantityRemaining, quantityReserved, stock, reserved, ledger, adjustments>>
  BY DEF inventoryVars, stockVars, lotVars, productVars
<1>2. InventoryTypeOK'
  BY <1>1 DEF BooksOK, InventoryTypeOK, StockTypeOK
<1>3. StockRollup'
  BY <1>1 DEF BooksOK, StockRollup, ActiveLots
<1>4. LotsHold'
  BY <1>1 DEF BooksOK, LotsHold
<1> QED
  BY <1>2, <1>3, <1>4 DEF BooksOK

\* Nothing is counted yet, and the books are what is on hand.
LEMMA CountInit ==
  ASSUME Init
  PROVE  CountInv
<1>1. OnHand \in [Lots -> Nat] /\ MaxLosses \in Nat
  BY CountAssumption
<1>2. BooksOK
  <2>1. ASSUME NEW p \in Products PROVE Total(OnHand, LotsOf(p)) \in Int
    BY <1>1, LotsOfFinite, TotalType DEF IntegerOn
  <2>2. InventoryTypeOK
    BY <1>1, <2>1, InventoryAssumption DEF Init, InventoryTypeOK, StockTypeOK, LotStatus
  <2>3. ASSUME NEW p \in Products PROVE ActiveLots(p) = LotsOf(p)
    BY LotsOfFinite DEF Init, ActiveLots
  <2>4. ASSUME NEW p \in Products PROVE Total(quantityReserved, LotsOf(p)) = 0
    <3>1. \A l \in LotsOf(p) : quantityReserved[l] = 0
      BY LotsOfFinite DEF Init
    <3> QED
      BY <3>1, TotalZero
  <2>5. StockRollup
    BY <2>3, <2>4 DEF Init, StockRollup
  <2>6. LotsHold
    BY <1>1 DEF Init, LotsHold
  <2> QED
    BY <2>2, <2>5, <2>6 DEF BooksOK
<1>3. CountTypeOK /\ LineTypeOK
  BY DEF Init, CountTypeOK, LineTypeOK, CountStatus, LineStatus
<1>4. CountsOK
  BY DEF Init, CountsOK, Lines, OpenCounts
<1>5. \A c \in Counts, l \in Lots : LineOK(c, l)
  BY CountAssumption DEF Init, LineOK
<1>6. DeviceTypeOK
  BY <1>1 DEF Init, DeviceTypeOK
<1>7. \A k \in Keys : LookOK(k) /\ ReadOK(k)
  BY DEF Init, LookOK, ReadOK
<1> QED
  BY <1>2, <1>3, <1>4, <1>5, <1>6, <1>7 DEF CountInv, SheetsOK, DevicesOK
-----------------------------------------------------------------------------
(* Every step keeps the invariant *)

\* Whichever action is taken, by the server, a device or the network.
LEMMA CountStepKeeps ==
  ASSUME CountInv, NEW c \in Counts, CountStep(c)
  PROVE  CountInv'
<1>1. SheetsOK /\ DevicesOK /\ BooksOK /\ variance \in [Counts -> [Lots -> Int]]
  BY DEF CountInv, SheetsOK, LineTypeOK
<1>2. ASSUME NEW scope \in SUBSET Lots, createCount(c, scope) PROVE CountInv'
  BY <1>1, <1>2, createKeepsDesk, BooksAlone DEF createCount, CountInv
<1>3. ASSUME NEW overrideBlockedLots \in BOOLEAN, approveCount(c, overrideBlockedLots)
      PROVE  CountInv'
  BY <1>1, <1>3, approveKeepsDesk, ApprovedBooks DEF CountInv
<1>4. CASE startCount(c) \/ completeCount(c) \/ cancelCount(c)
  <2>1. BooksOK'
    BY <1>1, <1>4, BooksAlone DEF startCount, completeCount, cancelCount
  <2>2. c \in approved => countStatus[c] = "COMPLETED"
    BY <1>1 DEF SheetsOK, CountTypeOK
  <2>3. UNCHANGED <<approved, lineVars, deviceVars, shelfVars>>
    BY <1>4 DEF startCount, completeCount, cancelCount
  <2>4. CASE startCount(c)
    <3>1. /\ countStatus[c] = "DRAFT" /\ "IN_PROGRESS" \in CountStatus \ {"ABSENT"}
          /\ countStatus' = [countStatus EXCEPT ![c] = "IN_PROGRESS"] /\ c \in OpenCounts
      BY <2>4 DEF startCount, CountStatus, OpenCounts
    <3> QED
      BY <1>1, <2>1, <2>2, <2>3, <3>1, StatusKeepsDesk DEF CountInv
  <2>5. CASE completeCount(c)
    <3>1. /\ countStatus[c] = "IN_PROGRESS" /\ "COMPLETED" \in CountStatus \ {"ABSENT"}
          /\ countStatus' = [countStatus EXCEPT ![c] = "COMPLETED"] /\ c \in OpenCounts
          /\ \A l \in Lines(c) : lineStatus[c][l] \in {"COUNTED", "RESOLVED"}
      BY <2>5 DEF completeCount, CountStatus, OpenCounts
    <3> QED
      BY <1>1, <2>1, <2>2, <2>3, <3>1, StatusKeepsDesk DEF CountInv
  <2>6. CASE cancelCount(c)
    <3>1. /\ countStatus[c] # "ABSENT" /\ "CANCELLED" \in CountStatus \ {"ABSENT"}
          /\ countStatus' = [countStatus EXCEPT ![c] = "CANCELLED"] /\ c \notin approved
      BY <2>6 DEF cancelCount, CountStatus
    <3> QED
      BY <1>1, <2>1, <2>3, <3>1, StatusKeepsDesk DEF CountInv
  <2> QED
    BY <1>4, <2>4, <2>5, <2>6
<1> QED
  BY <1>2, <1>3, <1>4 DEF CountStep

\* The steps of one counter's entry: saved, sent, answered or lost on the way.
LEMMA EntryStepKeeps ==
  ASSUME CountInv, NEW k \in Keys, EntryStep(k)
  PROVE  CountInv'
<1>1. SheetsOK /\ DevicesOK /\ BooksOK
  BY DEF CountInv
<1>2. ASSUME NEW c \in Counts, NEW l \in Lots, NEW u \in Staff, SaveEntry(k, c, l, u)
      PROVE  CountInv'
  <2>1. UNCHANGED inventoryVars
    BY <1>2 DEF SaveEntry
  <2>2. SheetsOK' /\ DevicesOK'
    BY <1>1, <1>2, SaveKeepsDesk
  <2> QED
    BY <1>1, <2>1, <2>2, BooksAlone DEF CountInv
<1>3. CASE BeginSubmit(k)
  <2>1. UNCHANGED inventoryVars
    BY <1>3 DEF BeginSubmit
  <2> QED
    BY <1>1, <1>3, <2>1, BeginKeepsDesk, BooksAlone DEF CountInv
<1>4. ASSUME NEW r \in reading[k], ClaimLine(k, r) PROVE CountInv'
  <2>1. UNCHANGED inventoryVars
    BY <1>4 DEF ClaimLine
  <2> QED
    BY <1>1, <1>4, <2>1, ClaimKeepsDesk, BooksAlone DEF CountInv
<1>5. ASSUME NEW r \in reading[k], LoseLine(k, r) PROVE CountInv'
  BY <1>1, <1>5, LoseKeepsDesk, BooksAlone DEF LoseLine, CountInv
<1> QED
  BY <1>2, <1>3, <1>4, <1>5 DEF EntryStep

\* What goes on in the store meanwhile: sales, holds, expiry, corrections, losses.
LEMMA ShopStepKeeps ==
  ASSUME CountInv, ShopStep
  PROVE  CountInv'
<1>1. SheetsOK /\ DevicesOK /\ BooksOK /\ shelf \in [Lots -> Nat]
  BY DEF CountInv, DevicesOK, DeviceTypeOK
<1>2. ASSUME NEW p \in Products, HoldUnit(p) PROVE CountInv'
  BY <1>1, <1>2, HeldBooks, DeskAlone DEF HoldUnit, CountInv
<1>3. ASSUME NEW m \in Lots, NEW raced \in BOOLEAN, SellUnit(ProductOf[m], m, raced)
      PROVE  CountInv'
  <2>1. ProductOf[m] \in Products
    BY LotsAssumption
  <2>2. PICK a \in Allocation :
          /\ consumeDirect(a) /\ Pay(a, m, raced)
          /\ \A l \in Lots : a[l] > 0 => /\ lotStatus[l] = "ACTIVE"
                                         /\ a[l] <= quantityRemaining[l] - quantityReserved[l]
    BY <1>1, <1>3, <2>1, OneUnitAllocation DEF SellUnit
  <2>3. BooksOK'
    BY <1>1, <2>2, SoldBooks DEF Pay
  <2> QED
    BY <1>1, <2>2, <2>3, PayKeepsDesk DEF CountInv
<1>4. ASSUME NEW m \in Lots, NEW raced \in BOOLEAN, NEW l \in LotsOf(ProductOf[m]),
             FinalizeHold(l, m, raced)
      PROVE  CountInv'
  <2>1. l \in Lots
    BY LotsOfFinite
  <2>2. PICK a \in Allocation : Pay(a, m, raced)
    BY <1>4 DEF FinalizeHold, Allocation
  <2> QED
    BY <1>1, <1>4, <2>1, <2>2, FinalizedBooks, PayKeepsDesk DEF CountInv
<1>5. ASSUME NEW l \in Lots, LoseUnit(l) PROVE CountInv'
  BY <1>1, <1>5, LossKeepsDesk, BooksAlone DEF LoseUnit, CountInv
<1>6. ASSUME NEW l \in Lots, CorrectLot(l) PROVE CountInv'
  BY <1>1, <1>6, CorrectedBooks, DeskAlone DEF CorrectLot, CountInv
<1>7. ASSUME NEW l \in Lots, LotLeavesSale(l) PROVE CountInv'
  BY <1>1, <1>7, LeavingBooks, DeskAlone DEF LotLeavesSale, CountInv
<1>8. FALSE \in BOOLEAN /\ Racing \in BOOLEAN
  BY CountAssumption
<1> QED
  BY <1>2, <1>3, <1>4, <1>5, <1>6, <1>7, <1>8 DEF ShopStep

\* A step of something else keeps the invariant.
LEMMA StutterKeeps ==
  ASSUME CountInv, UNCHANGED vars
  PROVE  CountInv'
<1>1. UNCHANGED <<inventoryVars, countStatus, approved, lineVars, deviceVars, shelfVars>>
  BY DEF vars
<1> QED
  BY <1>1, DeskAlone, BooksAlone DEF CountInv

\* Sheets, devices and books stay consistent whatever sales, retries and lost answers
\* the counts meet.
THEOREM CountInvariant == Spec => []CountInv
<1>1. Init => CountInv
  BY CountInit
<1>2. CountInv /\ [Next]_vars => CountInv'
  BY CountStepKeeps, EntryStepKeeps, ShopStepKeeps, StutterKeeps DEF Next
<1> QED
  BY <1>1, <1>2, PTL DEF Spec

\* Whatever is delivered twice, late or by two people, and whatever the till
\* does meanwhile, stock and reserved are the sums over the lots on sale and a
\* recount is a second look, by another person if there is one.
THEOREM CountsStayConsistent == Spec => []CountsConsistent
<1>1. CountInv => CountsConsistent
  <2> SUFFICES ASSUME CountInv PROVE CountsConsistent
    OBVIOUS
  <2>1. ASSUME NEW k \in Keys
        PROVE  look[k] \subseteq Looks /\ Cardinality(look[k]) <= 1 /\ reading[k] \subseteq Readings
    <3>1. look[k] = {} \/ \E e \in look[k] : look[k] = {e}
      BY DEF CountInv, DevicesOK, DeviceTypeOK
    <3>2. Cardinality(look[k]) = 0 \/ Cardinality(look[k]) = 1
      BY <3>1, FS_EmptySet, FS_Singleton
    <3> QED
      BY <3>2 DEF CountInv, DevicesOK, DeviceTypeOK
  <2>2. TypeOK
    BY <2>1 DEF CountInv, SheetsOK, CountTypeOK, LineTypeOK, CountStatus, LineStatus, DevicesOK,
                DeviceTypeOK, BooksOK, TypeOK
  <2>3. RecountIsSecondEntry
    BY DEF CountInv, SheetsOK, LineOK, RecountIsSecondEntry
  <2> QED
    BY <2>2, <2>3 DEF CountInv, BooksOK, CountsConsistent
<1> QED
  BY <1>1, CountInvariant, PTL
-----------------------------------------------------------------------------
(* The figures and the shelf *)

\* What a counted line stands at.
LEMMA StandingLook ==
  ASSUME SheetsOK, DevicesOK, NEW c \in Counts, NEW l \in Lines(c), lineStatus[c][l] # "PENDING"
  PROVE  /\ l \in Lots /\ StandingKey(c, l) \in Keys
         /\ \E e \in look[StandingKey(c, l)] : e.count = c /\ e.lot = l
<1>1. l \in Lots /\ lineStatus[c][l] \in {"COUNTED", "RECOUNT_REQUIRED", "RESOLVED"} /\ LineOK(c, l)
  BY DEF Lines, SheetsOK, LineTypeOK, LineStatus
<1>2. /\ StandingKey(c, l) \in Keys
      /\ StandingKey(c, l) \in {countKey[c][l], recountKey[c][l]}
  BY <1>1, CountAssumption DEF LineOK, StandingKey
<1> QED
  BY <1>1, <1>2 DEF LineOK

\* Only a line with a figure has a variance.
LEMMA VarianceOnLines ==
  ASSUME SheetsOK, NEW c \in Counts
  PROVE  VarianceLines(c) \subseteq Lines(c)
BY DEF SheetsOK, LineOK, VarianceLines, Lines

\* Where the books, the lines and the looks are left alone, so is the variance.
LEMMA VarianceAlone ==
  ASSUME VarianceOK, \A c \in OpenCounts' : c \in OpenCounts,
         UNCHANGED <<lineVars, look, paidAfter, reading, quantityRemaining, adjustments>>
  PROVE  VarianceOK'
<1>1. UNCHANGED <<lineStatus, variance, countKey, recountKey, look, paidAfter, reading,
                  quantityRemaining, adjustments>>
  BY DEF lineVars
<1>2. \A c, l : StandingKey(c, l)' = StandingKey(c, l) /\ Lines(c)' = Lines(c)
  BY <1>1 DEF StandingKey, Lines
<1>3. adjustments' = 0 =>
        \A k \in Keys : \A e \in look'[k], r \in reading'[k] : e.count \in OpenCounts' =>
          r.seen + r.paid = quantityRemaining'[e.lot] + paidAfter'[k]
  BY <1>1 DEF VarianceOK
<1>4. adjustments' = 0 =>
        \A c \in OpenCounts' : \A l \in Lines(c)' : lineStatus'[c][l] # "PENDING" =>
          \A e \in look'[StandingKey(c, l)'] :
            variance'[c][l] = e.quantity - (quantityRemaining'[l] + paidAfter'[StandingKey(c, l)'])
  BY <1>1, <1>2 DEF VarianceOK
<1> QED
  BY <1>3, <1>4 DEF VarianceOK

\* A payment takes from the books what it adds to the units paid since a look.
LEMMA PaidFigures ==
  ASSUME CountInv, ShelfOK, VarianceOK, NEW a \in Allocation, NEW m \in Lots, Pay(a, m, FALSE),
         \A l \in Lots : quantityRemaining'[l] = quantityRemaining[l] - a[l]
  PROVE  ShelfOK' /\ VarianceOK'
<1>1. UNCHANGED <<adjustments, countStatus, approved, lineVars, look>>
  BY DEF Pay
<1>2. UNCHANGED <<lineStatus, variance, countKey, recountKey, OpenCounts>>
  BY <1>1 DEF lineVars, OpenCounts
<1>3. DeviceTypeOK /\ \A l \in Lots : quantityRemaining[l] \in Int /\ a[l] \in Nat
  BY DEF CountInv, DevicesOK, BooksOK, InventoryTypeOK, StockTypeOK, Allocation
<1>4. ASSUME NEW k \in Keys PROVE reading'[k] = reading[k]
  BY DEF Pay
<1>5. ASSUME NEW k \in Keys, NEW e \in look[k]
      PROVE  /\ e = LookOf(k) /\ e.lot \in Lots /\ e.quantity \in Nat
             /\ paidAfter'[k] = paidAfter[k] + a[e.lot]
             /\ drift'[k] = drift[k] - a[e.lot] + (IF e.lot = m THEN 1 ELSE 0)
             /\ paidAfter[k] \in Nat /\ drift[k] \in Int
  <2>1. e = LookOf(k) /\ look[k] # {} /\ e.lot \in Lots /\ e.quantity \in Nat
    BY <1>3, TheLook
  <2> QED
    BY <1>3, <2>1 DEF Pay, DeviceTypeOK
<1>6. \A l \in Lots : shelf[l] \in Nat /\ shelf'[l] = shelf[l] - (IF l = m THEN 1 ELSE 0)
  BY <1>3 DEF Pay, DeviceTypeOK
<1>7. ShelfOK'
  <2>1. ASSUME NEW k \in Keys, NEW e \in look[k]
        PROVE  shelf'[e.lot] + drift'[k] = e.quantity - paidAfter'[k]
    <3>1. shelf[e.lot] + drift[k] = e.quantity - paidAfter[k]
      BY DEF ShelfOK
    <3>2. PICK n \in Nat : n = a[e.lot]
      BY <1>3, <1>5
    <3>3. PICK j \in {0, 1} : j = IF e.lot = m THEN 1 ELSE 0
      OBVIOUS
    <3>4. /\ paidAfter'[k] = paidAfter[k] + n /\ drift'[k] = drift[k] - n + j
          /\ shelf'[e.lot] = shelf[e.lot] - j
      BY <1>5, <1>6, <3>2, <3>3
    <3>5. shelf[e.lot] \in Int /\ drift[k] \in Int /\ paidAfter[k] \in Int /\ e.quantity \in Int
      BY <1>5, <1>6
    <3> QED
      BY <3>1, <3>2, <3>4, <3>5
  <2>2. \A k \in Keys : look[k] = {} => drift'[k] = 0 /\ paidAfter'[k] = 0
    BY DEF Pay
  <2> QED
    BY <1>1, <2>1, <2>2 DEF ShelfOK
<1>8. ASSUME adjustments = 0, NEW k \in Keys, NEW e \in look[k], NEW r \in reading[k],
             e.count \in OpenCounts
      PROVE  r.seen + r.paid = quantityRemaining'[e.lot] + paidAfter'[k]
  <2>1. r.seen + r.paid = quantityRemaining[e.lot] + paidAfter[k]
    BY <1>8 DEF VarianceOK
  <2> QED
    BY <1>3, <1>5, <2>1
<1>9. ASSUME adjustments = 0, NEW c \in OpenCounts, NEW l \in Lines(c), lineStatus[c][l] # "PENDING",
             NEW e \in look[StandingKey(c, l)]
      PROVE  variance[c][l] = e.quantity - (quantityRemaining'[l] + paidAfter'[StandingKey(c, l)])
  <2>1. variance[c][l] = e.quantity - (quantityRemaining[l] + paidAfter[StandingKey(c, l)])
    BY <1>9 DEF VarianceOK
  <2>2. PICK k \in Keys : k = StandingKey(c, l) /\ l \in Lots
    BY <1>9, StandingLook DEF CountInv, OpenCounts
  <2>3. e.lot = l
    <3>1. \E d \in look[k] : d.count = c /\ d.lot = l
      BY <1>9, <2>2, StandingLook DEF CountInv, OpenCounts
    <3> QED
      BY <1>3, <2>2, <3>1 DEF DeviceTypeOK
  <2> QED
    BY <1>3, <1>5, <2>1, <2>2, <2>3
<1>10. VarianceOK'
  <2>1. \A c, l : StandingKey(c, l)' = StandingKey(c, l) /\ Lines(c)' = Lines(c)
    BY <1>2 DEF StandingKey, Lines
  <2>2. adjustments' = 0 =>
          \A k \in Keys : \A e \in look'[k], r \in reading'[k] : e.count \in OpenCounts' =>
            r.seen + r.paid = quantityRemaining'[e.lot] + paidAfter'[k]
    BY <1>1, <1>2, <1>4, <1>8
  <2>3. adjustments' = 0 =>
          \A c \in OpenCounts' : \A l \in Lines(c)' : lineStatus'[c][l] # "PENDING" =>
            \A e \in look'[StandingKey(c, l)'] :
              variance'[c][l] = e.quantity - (quantityRemaining'[l] + paidAfter'[StandingKey(c, l)'])
    BY <1>1, <1>2, <1>9, <2>1
  <2> QED
    BY <2>2, <2>3 DEF VarianceOK
<1> QED
  BY <1>7, <1>10

\* The drift of a look depends on the look, the shelf and the units paid since.
LEMMA ShelfAlone ==
  ASSUME ShelfOK, UNCHANGED <<look, shelf, drift, paidAfter>>
  PROVE  ShelfOK'
BY DEF ShelfOK

\* A unit that goes missing moves the books and the shelf apart by one.
LEMMA LostFigures ==
  ASSUME CountInv, ShelfOK, VarianceOK, NEW l \in Lots, LoseUnit(l)
  PROVE  ShelfOK' /\ VarianceOK'
<1>1. UNCHANGED <<inventoryVars, countStatus, approved, lineVars, look, paidAfter, reading>>
  BY DEF LoseUnit, deviceVars
<1>2. VarianceOK'
  <2>1. UNCHANGED <<quantityRemaining, adjustments, OpenCounts>>
    BY <1>1 DEF inventoryVars, stockVars, lotVars, OpenCounts
  <2> QED
    BY <1>1, <2>1, VarianceAlone
<1>3. DeviceTypeOK
  BY DEF CountInv, DevicesOK
<1>4. ASSUME NEW k \in Keys, NEW e \in look[k]
      PROVE  shelf'[e.lot] + drift'[k] = e.quantity - paidAfter'[k]
  <2>1. e.lot \in Lots /\ e.quantity \in Int /\ paidAfter[k] \in Int /\ drift[k] \in Int
    BY <1>3 DEF DeviceTypeOK, Looks
  <2>2. k \in LooksAt(l) <=> e.lot = l
    BY <1>3 DEF LooksAt, DeviceTypeOK
  <2>3. shelf[e.lot] + drift[k] = e.quantity - paidAfter[k]
    BY DEF ShelfOK
  <2>4. PICK j \in {0, 1} : j = IF e.lot = l THEN 1 ELSE 0
    OBVIOUS
  <2>5. shelf'[e.lot] = shelf[e.lot] - j /\ drift'[k] = drift[k] + j /\ shelf[e.lot] \in Int
    BY <1>3, <2>1, <2>2, <2>4 DEF LoseUnit, DeviceTypeOK
  <2> QED
    BY <1>1, <2>1, <2>3, <2>5
<1>5. \A k \in Keys : look[k] = {} => drift'[k] = 0 /\ paidAfter'[k] = 0
  BY <1>1 DEF LoseUnit, LooksAt, ShelfOK
<1> QED
  BY <1>1, <1>2, <1>4, <1>5 DEF ShelfOK

\* Nobody has read, or looked at, a line of a new count.
LEMMA createFigures ==
  ASSUME CountInv, ShelfOK, VarianceOK, NEW c \in Counts, NEW scope \in SUBSET Lots,
         createCount(c, scope)
  PROVE  ShelfOK' /\ VarianceOK'
<1>1. UNCHANGED <<quantityRemaining, adjustments, approved, variance, countKey, recountKey,
                  look, paidAfter, reading, shelf, drift>>
  BY DEF createCount, deviceVars, shelfVars, inventoryVars, stockVars, lotVars
<1>2. /\ countStatus[c] = "ABSENT"
      /\ \A d \in Counts \ {c} : /\ countStatus'[d] = countStatus[d]
                                 /\ lineStatus'[d] = lineStatus[d]
      /\ \A l \in Lots : lineStatus'[c][l] \in {"PENDING", "NONE"}
  BY DEF createCount, CountInv, SheetsOK, CountTypeOK, LineTypeOK
<1>3. \A d \in OpenCounts' : d # c => d \in OpenCounts
  BY <1>1, <1>2 DEF OpenCounts
<1>4. ASSUME adjustments = 0, NEW k \in Keys, NEW e \in look[k], NEW r \in reading[k],
             e.count \in OpenCounts'
      PROVE  r.seen + r.paid = quantityRemaining[e.lot] + paidAfter[k]
  <2>1. e.count # c
    BY <1>2 DEF CountInv, DevicesOK, LookOK
  <2> QED
    BY <1>3, <1>4, <2>1 DEF VarianceOK
<1>5. ASSUME adjustments = 0, NEW d \in OpenCounts', NEW l \in Lines(d)', lineStatus'[d][l] # "PENDING",
             NEW e \in look[StandingKey(d, l)]
      PROVE  variance[d][l] = e.quantity - (quantityRemaining[l] + paidAfter[StandingKey(d, l)])
  <2>1. d # c /\ d \in Counts
    BY <1>2, <1>5 DEF Lines, OpenCounts
  <2>2. l \in Lines(d) /\ lineStatus[d][l] # "PENDING"
    BY <1>2, <1>5, <2>1 DEF Lines
  <2> QED
    BY <1>3, <1>5, <2>1, <2>2 DEF VarianceOK
<1>6. \A d, l : StandingKey(d, l)' = StandingKey(d, l)
  BY <1>1 DEF StandingKey
<1>7. VarianceOK'
  <2>1. adjustments' = 0 =>
          \A k \in Keys : \A e \in look'[k], r \in reading'[k] : e.count \in OpenCounts' =>
            r.seen + r.paid = quantityRemaining'[e.lot] + paidAfter'[k]
    BY <1>1, <1>4
  <2>2. adjustments' = 0 =>
          \A d \in OpenCounts' : \A l \in Lines(d)' : lineStatus'[d][l] # "PENDING" =>
            \A e \in look'[StandingKey(d, l)'] :
              variance'[d][l] = e.quantity - (quantityRemaining'[l] + paidAfter'[StandingKey(d, l)'])
    BY <1>1, <1>5, <1>6
  <2> QED
    BY <2>1, <2>2 DEF VarianceOK
<1> QED
  BY <1>1, <1>7, ShelfAlone

\* Approval moves the books of its own lines, which no other open count shares.
LEMMA approveFigures ==
  ASSUME CountInv, ShelfOK, VarianceOK, NEW c \in Counts, NEW overrideBlockedLots \in BOOLEAN,
         approveCount(c, overrideBlockedLots)
  PROVE  ShelfOK' /\ VarianceOK'
<1>1. UNCHANGED <<adjustments, countStatus, lineStatus, variance, countKey, recountKey,
                  look, paidAfter, reading, shelf, drift>>
  BY DEF approveCount, lineVars, deviceVars, shelfVars
<1>2. OpenCounts' = OpenCounts \ {c} /\ c \in OpenCounts
  BY approveKeepsDesk DEF CountInv
<1>3. ASSUME NEW d \in OpenCounts', NEW l \in Lines(d)
      PROVE  quantityRemaining'[l] = quantityRemaining[l]
  <2>1. /\ d \in OpenCounts /\ d # c /\ l \in Lots
        /\ CountedProducts(Lines(d)) \cap CountedProducts(Lines(c)) = {}
    BY <1>2 DEF CountInv, SheetsOK, CountsOK, Lines
  <2>2. l \notin Lines(c)
    BY <2>1 DEF CountedProducts
  <2>3. l \notin VarianceLines(c)
    BY <2>2, VarianceOnLines DEF CountInv
  <2> QED
    BY <2>1, <2>3 DEF approveCount
<1>4. ASSUME adjustments = 0, NEW k \in Keys, NEW e \in look[k], NEW r \in reading[k],
             e.count \in OpenCounts'
      PROVE  r.seen + r.paid = quantityRemaining'[e.lot] + paidAfter[k]
  <2>1. e.lot \in Lines(e.count)
    BY DEF CountInv, DevicesOK, LookOK
  <2> QED
    BY <1>2, <1>3, <1>4, <2>1 DEF VarianceOK
<1>5. ASSUME adjustments = 0, NEW d \in OpenCounts', NEW l \in Lines(d), lineStatus[d][l] # "PENDING",
             NEW e \in look[StandingKey(d, l)]
      PROVE  variance[d][l] = e.quantity - (quantityRemaining'[l] + paidAfter[StandingKey(d, l)])
  BY <1>2, <1>3, <1>5 DEF VarianceOK
<1>6. \A d, l : StandingKey(d, l)' = StandingKey(d, l) /\ Lines(d)' = Lines(d)
  BY <1>1 DEF StandingKey, Lines
<1>7. VarianceOK'
  <2>1. adjustments' = 0 =>
          \A k \in Keys : \A e \in look'[k], r \in reading'[k] : e.count \in OpenCounts' =>
            r.seen + r.paid = quantityRemaining'[e.lot] + paidAfter'[k]
    BY <1>1, <1>4
  <2>2. adjustments' = 0 =>
          \A d \in OpenCounts' : \A l \in Lines(d)' : lineStatus'[d][l] # "PENDING" =>
            \A e \in look'[StandingKey(d, l)'] :
              variance'[d][l] = e.quantity - (quantityRemaining'[l] + paidAfter'[StandingKey(d, l)'])
    BY <1>1, <1>5, <1>6
  <2> QED
    BY <2>1, <2>2 DEF VarianceOK
<1> QED
  BY <1>1, <1>7, ShelfAlone

\* A look finds on the shelf what the shelf holds, and nothing is paid since.
LEMMA SaveFigures ==
  ASSUME CountInv, ShelfOK, VarianceOK, NEW k \in Keys, NEW c \in Counts, NEW l \in Lots,
         NEW u \in Staff, SaveEntry(k, c, l, u)
  PROVE  ShelfOK' /\ VarianceOK'
<1>1. UNCHANGED <<quantityRemaining, adjustments, countStatus, approved, lineStatus, variance,
                  countKey, recountKey, paidAfter, reading, shelf, drift>>
  BY DEF SaveEntry, lineVars, shelfVars, inventoryVars, stockVars, lotVars
<1> DEFINE e0 == [count |-> c, lot |-> l, by |-> u, quantity |-> shelf[l]]
<1>2. /\ look[k] = {} /\ look'[k] = {e0} /\ \A j \in Keys \ {k} : look'[j] = look[j]
      /\ shelf[l] \in Nat /\ DeviceTypeOK
  BY DEF SaveEntry, CountInv, DevicesOK, DeviceTypeOK
<1>3. ShelfOK'
  <2>1. drift[k] = 0 /\ paidAfter[k] = 0
    BY <1>2 DEF ShelfOK
  <2>2. \A e \in look'[k] : shelf'[e.lot] + drift'[k] = e.quantity - paidAfter'[k]
    BY <1>1, <1>2, <2>1
  <2> QED
    BY <1>1, <1>2, <2>1, <2>2 DEF ShelfOK
<1>4. reading[k] = {}
  BY <1>2 DEF CountInv, DevicesOK, ReadOK
<1>5. UNCHANGED OpenCounts /\ \A d, m : StandingKey(d, m)' = StandingKey(d, m) /\ Lines(d)' = Lines(d)
  BY <1>1 DEF OpenCounts, StandingKey, Lines
<1>6. ASSUME NEW d \in OpenCounts, NEW m \in Lines(d), lineStatus[d][m] # "PENDING"
      PROVE  look'[StandingKey(d, m)] = look[StandingKey(d, m)]
  <2>1. StandingKey(d, m) \in Keys /\ look[StandingKey(d, m)] # {}
    BY <1>6, StandingLook DEF CountInv, OpenCounts
  <2> QED
    BY <1>2, <2>1
<1>7. VarianceOK'
  <2>1. adjustments' = 0 =>
          \A j \in Keys : \A e \in look'[j], r \in reading'[j] : e.count \in OpenCounts' =>
            r.seen + r.paid = quantityRemaining'[e.lot] + paidAfter'[j]
    BY <1>1, <1>2, <1>4, <1>5 DEF VarianceOK
  <2>2. adjustments' = 0 =>
          \A d \in OpenCounts' : \A m \in Lines(d)' : lineStatus'[d][m] # "PENDING" =>
            \A e \in look'[StandingKey(d, m)'] :
              variance'[d][m] = e.quantity - (quantityRemaining'[m] + paidAfter'[StandingKey(d, m)'])
    BY <1>1, <1>5, <1>6 DEF VarianceOK
  <2> QED
    BY <2>1, <2>2 DEF VarianceOK
<1> QED
  BY <1>3, <1>7
\* A submission reads the books of now, and the units paid since its look.
LEMMA BeginFigures ==
  ASSUME CountInv, ShelfOK, VarianceOK, NEW k \in Keys, BeginSubmit(k)
  PROVE  ShelfOK' /\ VarianceOK'
<1>1. UNCHANGED <<quantityRemaining, adjustments, countStatus, approved, lineStatus, variance,
                  countKey, recountKey, look, paidAfter, shelf, drift>>
  BY DEF BeginSubmit, lineVars, shelfVars, inventoryVars, stockVars, lotVars
<1>2. DeviceTypeOK /\ k \in queued /\ look[k] # {}
  BY DEF CountInv, DevicesOK, DeviceTypeOK, BeginSubmit
<1>3. ASSUME NEW j \in Keys, NEW e \in look[j], NEW r \in reading'[j], r \notin reading[j]
      PROVE  r.seen = quantityRemaining[e.lot] /\ r.paid = paidAfter[j]
  <2>1. /\ j = k
        /\ r = [status |-> lineStatus[LookOf(k).count][LookOf(k).lot], actor |-> LookOf(k).by,
                seen |-> quantityRemaining[LookOf(k).lot], paid |-> paidAfter[k]]
    BY <1>2, <1>3 DEF BeginSubmit, DeviceTypeOK
  <2>2. e = LookOf(k)
    BY <1>2, <2>1, TheLook
  <2> QED
    BY <2>1, <2>2
<1>4. UNCHANGED OpenCounts /\ \A d, m : StandingKey(d, m)' = StandingKey(d, m) /\ Lines(d)' = Lines(d)
  BY <1>1 DEF OpenCounts, StandingKey, Lines
<1>5. VarianceOK'
  <2>1. ASSUME adjustments = 0, NEW j \in Keys, NEW e \in look[j], NEW r \in reading'[j],
               e.count \in OpenCounts
        PROVE  r.seen + r.paid = quantityRemaining[e.lot] + paidAfter[j]
    <3>1. CASE r \in reading[j]
      BY <2>1, <3>1 DEF VarianceOK
    <3>2. CASE r \notin reading[j]
      BY <1>3, <3>2
    <3> QED
      BY <3>1, <3>2
  <2>2. adjustments' = 0 =>
          \A j \in Keys : \A e \in look'[j], r \in reading'[j] : e.count \in OpenCounts' =>
            r.seen + r.paid = quantityRemaining'[e.lot] + paidAfter'[j]
    BY <1>1, <1>4, <2>1
  <2>3. adjustments' = 0 =>
          \A d \in OpenCounts' : \A m \in Lines(d)' : lineStatus'[d][m] # "PENDING" =>
            \A e \in look'[StandingKey(d, m)'] :
              variance'[d][m] = e.quantity - (quantityRemaining'[m] + paidAfter'[StandingKey(d, m)'])
    BY <1>1, <1>4 DEF VarianceOK
  <2> QED
    BY <2>2, <2>3 DEF VarianceOK
<1> QED
  BY <1>1, <1>5, ShelfAlone

\* The variance a submission writes is relative to the books of now.
LEMMA ClaimFigures ==
  ASSUME CountInv, ShelfOK, VarianceOK, NEW k \in Keys, NEW r \in reading[k], ClaimLine(k, r)
  PROVE  ShelfOK' /\ VarianceOK'
<1>1. /\ UNCHANGED <<quantityRemaining, adjustments, look, paidAfter, shelf, drift>>
      /\ reading' = [reading EXCEPT ![k] = @ \ {r}]
  BY DEF ClaimLine, shelfVars, inventoryVars, stockVars, lotVars
<1>2. SheetsOK /\ DevicesOK /\ DeviceTypeOK
  BY DEF CountInv, DevicesOK
<1>3. PICK c \in Counts, l \in Lots :
         /\ c = LookOf(k).count /\ l = LookOf(k).lot /\ look[k] = {LookOf(k)} /\ r \in Readings
         /\ variance'[c][l] = LookOf(k).quantity - (r.seen + r.paid)
         /\ ClaimedLine(k, r, c, l)
  BY <1>2, ClaimEffect
<1>4. OpenCounts' = OpenCounts /\ \A d \in Counts : Lines(d)' = Lines(d)
  BY <1>2, ClaimKeepsDesk
<1>5. StandingKey(c, l)' = k
  <2>1. r.status \in {"PENDING", "RECOUNT_REQUIRED"}
    BY <1>3 DEF Readings
  <2> QED
    BY <1>3, <2>1, CountAssumption DEF ClaimedLine, StandingKey
<1>6. \A d \in Counts, m \in Lots : d # c \/ m # l => StandingKey(d, m)' = StandingKey(d, m)
  BY <1>3 DEF ClaimedLine, StandingKey
<1>7. ASSUME adjustments = 0, c \in OpenCounts, NEW e \in look[k]
      PROVE  variance'[c][l] = e.quantity - (quantityRemaining[l] + paidAfter[k])
  <2>1. e = LookOf(k) /\ e.count = c /\ e.lot = l
    BY <1>3
  <2>2. r.seen + r.paid = quantityRemaining[l] + paidAfter[k]
    BY <1>7, <2>1 DEF VarianceOK
  <2> QED
    BY <1>3, <2>1, <2>2
<1>8. ASSUME adjustments = 0, NEW d \in OpenCounts, NEW m \in Lines(d),
             lineStatus'[d][m] # "PENDING", NEW e \in look[StandingKey(d, m)']
      PROVE  variance'[d][m] = e.quantity - (quantityRemaining[m] + paidAfter[StandingKey(d, m)'])
  <2>1. d \in Counts /\ m \in Lots
    BY DEF OpenCounts, Lines
  <2>2. CASE d = c /\ m = l
    BY <1>5, <1>7, <1>8, <2>2
  <2>3. CASE d # c \/ m # l
    <3>1. /\ StandingKey(d, m)' = StandingKey(d, m) /\ variance'[d][m] = variance[d][m]
          /\ lineStatus'[d][m] = lineStatus[d][m]
      BY <1>3, <1>6, <2>1, <2>3 DEF ClaimedLine
    <3> QED
      BY <1>8, <3>1 DEF VarianceOK
  <2> QED
    BY <2>2, <2>3
<1>9. VarianceOK'
  <2>1. \A j \in Keys : reading'[j] \subseteq reading[j]
    BY <1>1, <1>2 DEF DeviceTypeOK
  <2>2. adjustments' = 0 =>
          \A j \in Keys : \A e \in look'[j], s \in reading'[j] : e.count \in OpenCounts' =>
            s.seen + s.paid = quantityRemaining'[e.lot] + paidAfter'[j]
    BY <1>1, <1>4, <2>1 DEF VarianceOK
  <2>3. OpenCounts \subseteq Counts
    BY DEF OpenCounts
  <2>4. adjustments' = 0 =>
          \A d \in OpenCounts' : \A m \in Lines(d)' : lineStatus'[d][m] # "PENDING" =>
            \A e \in look'[StandingKey(d, m)'] :
              variance'[d][m] = e.quantity - (quantityRemaining'[m] + paidAfter'[StandingKey(d, m)'])
    BY <1>1, <1>4, <1>8, <2>3
  <2> QED
    BY <2>2, <2>4 DEF VarianceOK
<1> QED
  BY <1>1, <1>9, ShelfAlone

\* A lost answer forgets what was read and leaves every figure alone.
LEMMA LoseFigures ==
  ASSUME CountInv, ShelfOK, VarianceOK, NEW k \in Keys, NEW r \in reading[k], LoseLine(k, r)
  PROVE  ShelfOK' /\ VarianceOK'
<1>1. /\ UNCHANGED <<quantityRemaining, adjustments, look, paidAfter, shelf, drift, countStatus,
                     approved, lineStatus, variance, countKey, recountKey>>
      /\ reading' = [reading EXCEPT ![k] = @ \ {r}]
  BY DEF LoseLine, lineVars, shelfVars, inventoryVars, stockVars, lotVars
<1>2. \A j \in Keys : reading'[j] \subseteq reading[j]
  BY <1>1 DEF CountInv, DevicesOK, DeviceTypeOK
<1>3. UNCHANGED OpenCounts /\ \A d, m : StandingKey(d, m)' = StandingKey(d, m) /\ Lines(d)' = Lines(d)
  BY <1>1 DEF OpenCounts, StandingKey, Lines
<1>4. adjustments' = 0 =>
        \A j \in Keys : \A e \in look'[j], s \in reading'[j] : e.count \in OpenCounts' =>
          s.seen + s.paid = quantityRemaining'[e.lot] + paidAfter'[j]
  BY <1>1, <1>2, <1>3 DEF VarianceOK
<1>5. adjustments' = 0 =>
        \A d \in OpenCounts' : \A m \in Lines(d)' : lineStatus'[d][m] # "PENDING" =>
          \A e \in look'[StandingKey(d, m)'] :
            variance'[d][m] = e.quantity - (quantityRemaining'[m] + paidAfter'[StandingKey(d, m)'])
  BY <1>1, <1>3 DEF VarianceOK
<1>6. VarianceOK'
  BY <1>4, <1>5 DEF VarianceOK
<1> QED
  BY <1>1, <1>6, ShelfAlone
\* Steps that touch neither lines nor looks nor what is left of a lot.
LEMMA FiguresAlone ==
  ASSUME ShelfOK, VarianceOK, \A c \in OpenCounts' : c \in OpenCounts,
         UNCHANGED <<quantityRemaining, adjustments, lineVars, deviceVars, shelfVars>>
  PROVE  ShelfOK' /\ VarianceOK'
<1>1. UNCHANGED <<look, paidAfter, reading, shelf, drift>>
  BY DEF deviceVars, shelfVars
<1> QED
  BY <1>1, ShelfAlone, VarianceAlone

\* A unit paid and taken moves books, shelf and the looks on it alike.
LEMMA SaleStepFigures ==
  ASSUME CountInv, ShelfOK, VarianceOK, NEW m \in Lots,
         \/ SellUnit(ProductOf[m], m, FALSE)
         \/ \E l \in LotsOf(ProductOf[m]) : FinalizeHold(l, m, FALSE)
  PROVE  ShelfOK' /\ VarianceOK'
<1>1. CASE SellUnit(ProductOf[m], m, FALSE)
  <2>1. ProductOf[m] \in Products
    BY LotsAssumption
  <2>2. PICK a \in Allocation : consumeDirect(a) /\ Pay(a, m, FALSE)
    BY <1>1, <2>1, OneUnitAllocation DEF CountInv, SellUnit
  <2>3. \A l \in Lots : quantityRemaining'[l] = quantityRemaining[l] - a[l]
    BY <2>2 DEF consumeDirect
  <2> QED
    BY <2>2, <2>3, PaidFigures
<1>2. ASSUME NEW l \in LotsOf(ProductOf[m]), FinalizeHold(l, m, FALSE) PROVE ShelfOK' /\ VarianceOK'
  <2>1. l \in Lots
    BY LotsOfFinite
  <2> DEFINE a == [k \in Lots |-> IF k = l THEN 1 ELSE 0]
  <2>2. a \in Allocation /\ Pay(a, m, FALSE)
    BY <1>2 DEF FinalizeHold, Allocation
  <2>3. \A k \in Lots : quantityRemaining'[k] = quantityRemaining[k] - a[k]
    BY <1>2, <2>1, FinalizedBooks DEF CountInv
  <2> QED
    BY <2>2, <2>3, PaidFigures
<1> QED
  BY <1>1, <1>2

\* Every step keeps the figures, unless a sale falls between the two reads of a submission.
LEMMA FiguresStep ==
  ASSUME Racing = FALSE, CountInv, ShelfOK, VarianceOK, Next
  PROVE  ShelfOK' /\ VarianceOK'
<1>1. BooksOK /\ SheetsOK /\ DevicesOK /\ shelf \in [Lots -> Nat]
  BY DEF CountInv, DevicesOK, DeviceTypeOK
<1>2. ASSUME NEW c \in Counts, CountStep(c) PROVE ShelfOK' /\ VarianceOK'
  <2>1. CASE startCount(c) \/ completeCount(c) \/ cancelCount(c)
    <3>1. UNCHANGED <<inventoryVars, approved, lineVars, deviceVars, shelfVars>>
      BY <2>1 DEF startCount, completeCount, cancelCount
    <3>2. UNCHANGED <<quantityRemaining, adjustments>>
      BY <3>1 DEF inventoryVars, stockVars, lotVars
    <3>3. \A d \in OpenCounts' : d \in OpenCounts
      <4>1. \A d \in Counts \ {c} : countStatus'[d] = countStatus[d]
        BY <2>1 DEF startCount, completeCount, cancelCount, CountInv, SheetsOK, CountTypeOK
      <4>2. c \in OpenCounts' => c \in OpenCounts
        BY <2>1 DEF startCount, completeCount, cancelCount, CountInv, SheetsOK, CountTypeOK,
                    OpenCounts
      <4> QED
        BY <3>1, <4>1, <4>2 DEF OpenCounts
    <3> QED
      BY <3>1, <3>2, <3>3, FiguresAlone
  <2> QED
    BY <1>2, <2>1, createFigures, approveFigures DEF CountStep
<1>3. ASSUME NEW k \in Keys, EntryStep(k) PROVE ShelfOK' /\ VarianceOK'
  BY <1>3, SaveFigures, BeginFigures, ClaimFigures, LoseFigures DEF EntryStep
<1>4. CASE ShopStep
  <2>1. ASSUME NEW p \in Products, HoldUnit(p) PROVE ShelfOK' /\ VarianceOK'
    <3>1. UNCHANGED <<quantityRemaining, adjustments, countStatus, approved, lineVars, deviceVars,
                      shelfVars>>
      BY <2>1 DEF HoldUnit, reserve
    <3> QED
      BY <3>1, FiguresAlone DEF OpenCounts
  <2>2. ASSUME NEW l \in Lots, CorrectLot(l) PROVE ShelfOK' /\ VarianceOK'
    <3>1. adjustments' # 0
      BY <1>1, <2>2, CorrectedBooks
    <3>2. UNCHANGED <<look, paidAfter, shelf, drift>>
      BY <2>2 DEF CorrectLot, deviceVars, shelfVars
    <3>3. VarianceOK'
      BY <3>1 DEF VarianceOK
    <3> QED
      BY <3>2, <3>3, ShelfAlone
  <2>3. ASSUME NEW l \in Lots, LotLeavesSale(l) PROVE ShelfOK' /\ VarianceOK'
    <3>1. UNCHANGED <<quantityRemaining, adjustments>>
      BY <1>1, <2>3, LeavingBooks
    <3>2. UNCHANGED <<countStatus, approved, lineVars, deviceVars, shelfVars>>
      BY <2>3 DEF LotLeavesSale
    <3> QED
      BY <3>1, <3>2, FiguresAlone DEF OpenCounts
  <2>4. \A raced \in {FALSE, Racing} : raced = FALSE
    OBVIOUS
  <2>5. ASSUME NEW m \in Lots, NEW raced \in {FALSE, Racing},
               \/ SellUnit(ProductOf[m], m, raced)
               \/ \E l \in LotsOf(ProductOf[m]) : FinalizeHold(l, m, raced)
        PROVE  ShelfOK' /\ VarianceOK'
    BY <2>4, <2>5, SaleStepFigures
  <2> QED
    BY <1>4, <2>1, <2>2, <2>3, <2>5, LostFigures DEF ShopStep
<1> QED
  BY <1>2, <1>3, <1>4 DEF Next

\* Where no sale falls between the two reads of a submission (stockCount.service.ts:872),
\* every variance written is the difference between shelf and books at the counter's look.
THEOREM ShelfInvariant ==
  ASSUME Racing = FALSE
  PROVE  Spec => []ShelfInv
<1>1. Init => ShelfInv
  <2> SUFFICES ASSUME Init PROVE ShelfInv
    OBVIOUS
  <2>1. CountInv
    BY CountInit
  <2>2. ShelfOK /\ VarianceOK
    BY DEF Init, ShelfOK, VarianceOK, OpenCounts
  <2> QED
    BY <2>1, <2>2 DEF ShelfInv
<1>2. ShelfInv /\ [Next]_vars => ShelfInv'
  <2> SUFFICES ASSUME ShelfInv, [Next]_vars PROVE ShelfInv'
    OBVIOUS
  <2>1. CountInv'
    BY CountStepKeeps, EntryStepKeeps, ShopStepKeeps, StutterKeeps DEF ShelfInv, Next
  <2>2. CASE Next
    BY <2>1, <2>2, FiguresStep DEF ShelfInv
  <2>3. CASE UNCHANGED vars
    <3>1. UNCHANGED <<quantityRemaining, adjustments, countStatus, approved, lineVars, deviceVars,
                      shelfVars>>
      BY <2>3 DEF vars, inventoryVars, stockVars, lotVars
    <3> QED
      BY <2>1, <3>1, FiguresAlone DEF ShelfInv, OpenCounts
  <2> QED
    BY <2>2, <2>3
<1> QED
  BY <1>1, <1>2, PTL DEF Spec
-----------------------------------------------------------------------------
(* What is approved *)

\* A submission that began before the count was completed finds the line taken,
\* so the figures of a COMPLETED count are final, whatever races with it.
THEOREM CompletedFiguresFinal == Spec => CompletedIsFinal
<1>1. ASSUME CountInv, [Next]_vars, NEW c \in Counts, countStatus[c] = "COMPLETED"
      PROVE  variance'[c] = variance[c]
  <2>1. ASSUME NEW k \in Keys, NEW r \in reading[k], ClaimLine(k, r)
        PROVE  variance'[c] = variance[c]
    <3>1. /\ LookOf(k).count \in Counts /\ LookOf(k).count # c
          /\ variance \in [Counts -> [Lots -> Int]]
      BY <1>1, <2>1, ClaimEffect DEF CountInv, ClaimedLine, SheetsOK, LineTypeOK
    <3>2. \E l, v : variance' = [variance EXCEPT ![LookOf(k).count][l] = v]
      BY <2>1 DEF ClaimLine
    <3> QED
      BY <3>1, <3>2
  <2>2. ASSUME NEW d \in Counts, CountStep(d) PROVE UNCHANGED variance
    BY <2>2 DEF CountStep, createCount, startCount, completeCount, cancelCount, approveCount, lineVars
  <2>3. ASSUME NEW k \in Keys, EntryStep(k),
               ~\E r \in reading[k] : ClaimLine(k, r)
        PROVE  UNCHANGED variance
    BY <2>3 DEF EntryStep, SaveEntry, BeginSubmit, LoseLine, lineVars
  <2>4. ASSUME ShopStep PROVE UNCHANGED variance
    BY <2>4 DEF ShopStep, HoldUnit, SellUnit, FinalizeHold, Pay, LoseUnit, CorrectLot, LotLeavesSale,
                lineVars
  <2>5. ASSUME UNCHANGED vars PROVE UNCHANGED variance
    BY <2>5 DEF vars, lineVars
  <2> QED
    BY <1>1, <2>1, <2>2, <2>3, <2>4, <2>5 DEF Next
<1>2. CountInv /\ [Next]_vars =>
        [\A c \in Counts : countStatus[c] = "COMPLETED" => variance'[c] = variance[c]]_vars
  BY <1>1
<1> QED
  BY <1>2, CountInvariant, PTL DEF Spec, CompletedIsFinal

\* What the books of a line become when its count is approved.
LEMMA ApprovedLine ==
  ASSUME ShelfInv, NEW c \in Counts, NEW overrideBlockedLots \in BOOLEAN,
         approveCount(c, overrideBlockedLots), NEW l \in Lines(c), adjustments = 0
  PROVE  /\ StandingKey(c, l) \in Keys
         /\ quantityRemaining'[l] = AtLeastZero(shelf[l] + drift[StandingKey(c, l)])
<1>1. SheetsOK /\ DevicesOK /\ BooksOK /\ ShelfOK /\ VarianceOK
  BY DEF ShelfInv, CountInv
<1>2. countStatus[c] = "COMPLETED" /\ c \notin approved
  BY DEF approveCount
<1>3. c \in OpenCounts /\ lineStatus[c][l] \in {"COUNTED", "RESOLVED"}
  BY <1>1, <1>2 DEF SheetsOK, CountsOK, OpenCounts
<1>4. PICK k \in Keys : k = StandingKey(c, l) /\ l \in Lots
  BY <1>1, <1>3, StandingLook
<1>5. PICK e \in look[k] : e.count = c /\ e.lot = l
  BY <1>1, <1>3, <1>4, StandingLook
<1>6. variance[c][l] = e.quantity - (quantityRemaining[l] + paidAfter[k])
  BY <1>1, <1>3, <1>4 DEF VarianceOK
<1>7. shelf[l] + drift[k] = e.quantity - paidAfter[k]
  BY <1>1, <1>5 DEF ShelfOK
<1>8. /\ quantityRemaining[l] \in Int /\ e.quantity \in Int /\ paidAfter[k] \in Int
      /\ quantityRemaining[l] >= 0
  <2>1. quantityRemaining[l] \in Int /\ quantityRemaining[l] >= 0
    BY <1>1, <1>4 DEF BooksOK, InventoryTypeOK, StockTypeOK, LotsHold
  <2>2. e.quantity \in Int /\ paidAfter[k] \in Int
    BY <1>1 DEF DevicesOK, DeviceTypeOK, Looks
  <2> QED
    BY <2>1, <2>2
<1>9. quantityRemaining[l] + variance[c][l] = shelf[l] + drift[k]
  BY <1>6, <1>7, <1>8
<1>10. CASE variance[c][l] # 0
  BY <1>4, <1>9, <1>10 DEF approveCount, VarianceLines, CountTarget
<1>11. CASE variance[c][l] = 0
  BY <1>4, <1>8, <1>9, <1>11 DEF approveCount, VarianceLines, AtLeastZero
<1> QED
  BY <1>4, <1>10, <1>11

\* Where a submission's reads are not split by a sale, approval brings the books
\* of every line to the shelf, up to what happened after the look.
THEOREM ApprovalsFaithful ==
  ASSUME Racing = FALSE
  PROVE  Spec => ApprovalFaithful
<1>1. ASSUME ShelfInv, [Next]_vars, NEW c \in approved' \ approved, NEW l \in Lines(c), adjustments = 0
      PROVE  quantityRemaining'[l] = AtLeastZero(shelf[l] + drift[StandingKey(c, l)])
  <2>1. \E overrideBlockedLots \in BOOLEAN : c \in Counts /\ approveCount(c, overrideBlockedLots)
    <3>1. ASSUME NEW d \in Counts, CountStep(d), ~\E o \in BOOLEAN : approveCount(d, o)
          PROVE  UNCHANGED approved
      BY <3>1 DEF CountStep, createCount, startCount, completeCount, cancelCount
    <3>2. ASSUME NEW d \in Counts, NEW o \in BOOLEAN, approveCount(d, o) PROVE c = d
      BY <3>2 DEF approveCount
    <3>3. ASSUME NEW k \in Keys, EntryStep(k) PROVE UNCHANGED approved
      BY <3>3 DEF EntryStep, SaveEntry, BeginSubmit, ClaimLine, LoseLine
    <3>4. ASSUME ShopStep PROVE UNCHANGED approved
      BY <3>4 DEF ShopStep, HoldUnit, SellUnit, FinalizeHold, Pay, LoseUnit, CorrectLot, LotLeavesSale
    <3>5. ASSUME UNCHANGED vars PROVE UNCHANGED approved
      BY <3>5 DEF vars
    <3> QED
      BY <1>1, <3>1, <3>2, <3>3, <3>4, <3>5 DEF Next
  <2> QED
    BY <1>1, <2>1, ApprovedLine
<1>2. ShelfInv /\ [Next]_vars =>
        [\A c \in approved' \ approved : \A l \in Lines(c) :
           lotStatus[l] \in {"ACTIVE", "DEPLETED"} /\ adjustments = 0 =>
             quantityRemaining'[l] = AtLeastZero(shelf[l] + drift[StandingKey(c, l)])]_vars
  BY <1>1
<1>3. Spec => ApprovalMatchesShelf
  BY <1>2, ShelfInvariant, PTL DEF Spec, ApprovalMatchesShelf
<1> QED
  BY <1>3, CompletedFiguresFinal, PTL DEF ApprovalFaithful

-----------------------------------------------------------------------------
(* Nothing on the shelf is written off *)

OneLotPerProduct == \A k, l \in Lots : ProductOf[k] = ProductOf[l] => k = l

\* A sale of one unit is booked on the lot it is taken from.
LEMMA OneLotSale ==
  ASSUME OneLotPerProduct, BooksOK, NEW m \in Lots, CanAllocate(OneUnitOf(ProductOf[m]), FALSE)
  PROVE  LET a == allocateFefo(OneUnitOf(ProductOf[m]), FALSE)
         IN  a[m] <= 1 /\ \A l \in Lots : l # m => a[l] = 0
<1> DEFINE p == ProductOf[m]
           cart == OneUnitOf(p)
           a == allocateFefo(cart, FALSE)
<1>1. p \in Products /\ cart \in [Products -> Nat] /\ cart[p] = 1 /\ m \in LotsOf(p)
  BY LotsAssumption DEF OneUnitOf, LotsOf
<1>2. a \in Allocation /\ LineQty(a, p) = 1
  BY <1>1, AllocateFefo, AllocationSupplies DEF BooksOK, InventoryTypeOK
<1>3. NaturalOn(a, LotsOf(p))
  BY <1>2, LotsOfFinite DEF NaturalOn, Allocation
<1>4. ASSUME NEW l \in Lots, l # m PROVE a[l] = 0
  <2>1. cart[ProductOf[l]] = 0
    BY <1>4, LotsAssumption DEF OneLotPerProduct, OneUnitOf
  <2> QED
    BY <2>1 DEF allocateFefo
<1>5. a[m] <= 1
  <2> HIDE DEF a, cart, p
  <2> QED
    BY <1>1, <1>2, <1>3, LotsOfFinite, TotalMember DEF LineQty
<1> QED
  BY <1>4, <1>5
\* The books of a lot on sale cover its shelf, and no look is ahead of it.
Covered == BooksCoverShelf /\ \A k \in Keys : drift[k] >= 0

\* A step that moves no unit keeps the shelf covered.
LEMMA CoveredAlone ==
  ASSUME Covered, UNCHANGED <<quantityRemaining, adjustments, shelf, drift>>,
         \A l \in Lots : lotStatus'[l] \in {"ACTIVE", "DEPLETED"} => lotStatus'[l] = lotStatus[l]
  PROVE  Covered'
BY DEF Covered, BooksCoverShelf

\* A unit paid for covers the one taken when both are of the same lot.
LEMMA PaidCovered ==
  ASSUME CountInv, Covered, NEW a \in Allocation, NEW m \in Lots, NEW raced \in BOOLEAN,
         Pay(a, m, raced), a[m] <= 1, \A l \in Lots : l # m => a[l] = 0,
         \A l \in Lots : quantityRemaining'[l] = quantityRemaining[l] - a[l],
         \A l \in Lots : lotStatus'[l] \in {"ACTIVE", "DEPLETED"} =>
                           lotStatus[l] \in {"ACTIVE", "DEPLETED"}
  PROVE  Covered'
<1>1. DeviceTypeOK /\ UNCHANGED adjustments
  BY DEF CountInv, DevicesOK, Pay
<1>2. ASSUME NEW k \in Keys PROVE drift'[k] >= 0
  <2>1. CASE look[k] = {}
    BY <2>1 DEF Pay
  <2>2. CASE look[k] # {}
    <3>1. PICK n \in Nat, i \in {0, 1} :
            n = a[LookOf(k).lot] /\ i = (IF LookOf(k).lot = m THEN 1 ELSE 0) /\ n <= i
      BY <1>1, <2>2, TheLook DEF Allocation
    <3>2. drift'[k] = drift[k] - n + i
      BY <2>2, <3>1 DEF Pay
    <3>3. drift[k] \in Int /\ drift[k] >= 0
      BY <1>1 DEF Covered, DeviceTypeOK
    <3> QED
      BY <3>1, <3>2, <3>3
  <2> QED
    BY <2>1, <2>2
<1>3. BooksCoverShelf'
  <2> SUFFICES ASSUME adjustments = 0, NEW l \in Lots, lotStatus'[l] \in {"ACTIVE", "DEPLETED"}
               PROVE  quantityRemaining'[l] >= shelf'[l]
    BY <1>1 DEF BooksCoverShelf
  <2>1. quantityRemaining[l] >= shelf[l]
    BY DEF Covered, BooksCoverShelf
  <2>2. /\ shelf'[l] = shelf[l] - (IF l = m THEN 1 ELSE 0) /\ shelf[l] \in Nat
        /\ quantityRemaining[l] \in Int /\ a[l] \in Nat /\ a[l] <= (IF l = m THEN 1 ELSE 0)
    BY <1>1 DEF Pay, DeviceTypeOK, CountInv, BooksOK, InventoryTypeOK, StockTypeOK, Allocation
  <2> QED
    BY <2>1, <2>2
<1> QED
  BY <1>2, <1>3 DEF Covered

\* With one lot per product, the unit that is booked is the one that is taken.
LEMMA SaleStepCovered ==
  ASSUME OneLotPerProduct, CountInv, Covered, NEW m \in Lots, NEW raced \in BOOLEAN,
         \/ SellUnit(ProductOf[m], m, raced)
         \/ \E l \in LotsOf(ProductOf[m]) : FinalizeHold(l, m, raced)
  PROVE  Covered'
<1>1. BooksOK /\ ProductOf[m] \in Products
  BY LotsAssumption DEF CountInv
<1>2. CASE SellUnit(ProductOf[m], m, raced)
  <2>1. PICK a \in Allocation :
          /\ consumeDirect(a) /\ Pay(a, m, raced) /\ a[m] <= 1 /\ \A l \in Lots : l # m => a[l] = 0
          /\ \A l \in Lots : a[l] > 0 => lotStatus[l] = "ACTIVE"
    BY <1>1, <1>2, OneUnitAllocation, OneLotSale DEF SellUnit
  <2>2. \A l \in Lots :
          /\ quantityRemaining'[l] = quantityRemaining[l] - a[l]
          /\ lotStatus'[l] \in {"ACTIVE", "DEPLETED"} => lotStatus[l] \in {"ACTIVE", "DEPLETED"}
    BY <2>1 DEF consumeDirect, DepletedAtZero
  <2> QED
    BY <2>1, <2>2, PaidCovered
<1>3. ASSUME NEW l \in LotsOf(ProductOf[m]), FinalizeHold(l, m, raced) PROVE Covered'
  <2>1. l = m
    BY LotsAssumption DEF LotsOf, OneLotPerProduct
  <2> DEFINE a == [k \in Lots |-> IF k = l THEN 1 ELSE 0]
  <2>2. /\ a \in Allocation /\ Pay(a, m, raced) /\ a[m] <= 1 /\ \A k \in Lots : k # m => a[k] = 0
        /\ consume(a, NoAllocation) /\ quantityReserved[l] > 0
    BY <1>3, <2>1 DEF FinalizeHold, Allocation
  <2>3. \A k \in Lots : quantityRemaining'[k] = quantityRemaining[k] - a[k]
    BY <1>1, <1>3, <2>1, FinalizedBooks
  <2>4. lotStatus[l] = "ACTIVE"
    BY <1>1, <2>1, <2>2 DEF BooksOK, LotsHold
  <2>5. \A k \in Lots : lotStatus'[k] \in {"ACTIVE", "DEPLETED"} =>
                          lotStatus[k] \in {"ACTIVE", "DEPLETED"}
    <3>1. \A k \in Lots : a[k] # 0 => k = l
      OBVIOUS
    <3>2. \A k \in Lots : NoAllocation[k] = 0
      BY DEF NoAllocation
    <3>3. \A k \in Lots : a[k] \in Nat
      OBVIOUS
    <3> HIDE DEF a
    <3> QED
      BY <2>1, <2>2, <2>4, <3>1, <3>2, <3>3 DEF consume, DepletedAtZero
  <2> HIDE DEF a
  <2> QED
    BY <2>2, <2>3, <2>5, PaidCovered
<1> QED
  BY <1>2, <1>3

\* Every step keeps the shelf covered by the books.
LEMMA CoveredStep ==
  ASSUME OneLotPerProduct, ShelfInv, Covered, Next
  PROVE  Covered'
<1>1. CountInv /\ BooksOK /\ SheetsOK /\ DeviceTypeOK /\ shelf \in [Lots -> Nat]
  BY DEF ShelfInv, CountInv, DevicesOK, DeviceTypeOK
<1>2. ASSUME UNCHANGED <<inventoryVars, shelf, drift>> PROVE Covered'
  <2>1. UNCHANGED <<quantityRemaining, adjustments, lotStatus, shelf, drift>>
    BY <1>2 DEF inventoryVars, stockVars, lotVars
  <2> QED
    BY <2>1, CoveredAlone
<1>3. ASSUME NEW c \in Counts, CountStep(c) PROVE Covered'
  <2>1. ASSUME NEW o \in BOOLEAN, approveCount(c, o) PROVE Covered'
    <3>1. UNCHANGED <<adjustments, shelf, drift>>
      BY <2>1 DEF approveCount, shelfVars
    <3>2. ASSUME adjustments = 0, NEW l \in VarianceLines(c)
          PROVE  quantityRemaining'[l] >= shelf[l]
      <4>1. l \in Lines(c) /\ l \in Lots
        BY <1>1, VarianceOnLines DEF VarianceLines
      <4>2. PICK k \in Keys : quantityRemaining'[l] = AtLeastZero(shelf[l] + drift[k])
        BY <2>1, <3>2, <4>1, ApprovedLine
      <4>3. shelf[l] \in Nat /\ drift[k] \in Int /\ drift[k] >= 0
        BY <1>1, <4>1 DEF Covered, DeviceTypeOK
      <4> QED
        BY <4>2, <4>3 DEF AtLeastZero
    <3>3. \A l \in Lots \ VarianceLines(c) :
            quantityRemaining'[l] = quantityRemaining[l] /\ lotStatus'[l] = lotStatus[l]
      BY <2>1 DEF approveCount
    <3>4. BooksCoverShelf'
      BY <3>1, <3>2, <3>3 DEF Covered, BooksCoverShelf
    <3> QED
      BY <3>1, <3>4 DEF Covered
  <2>2. ASSUME ~\E o \in BOOLEAN : approveCount(c, o) PROVE UNCHANGED <<inventoryVars, shelf, drift>>
    BY <1>3, <2>2 DEF CountStep, createCount, startCount, completeCount, cancelCount, shelfVars
  <2> QED
    BY <1>2, <2>1, <2>2
<1>4. ASSUME NEW k \in Keys, EntryStep(k) PROVE Covered'
  <2>1. UNCHANGED <<inventoryVars, shelf, drift>>
    <3>1. CASE BeginSubmit(k)
      BY <3>1 DEF BeginSubmit, shelfVars
    <3>2. ASSUME NEW r \in reading[k], ClaimLine(k, r) PROVE UNCHANGED <<inventoryVars, shelf, drift>>
      BY <3>2 DEF ClaimLine, shelfVars
    <3> QED
      BY <1>4, <3>1, <3>2 DEF EntryStep, SaveEntry, LoseLine, shelfVars
  <2> QED
    BY <1>2, <2>1
<1>5. CASE ShopStep
  <2>1. ASSUME NEW p \in Products, HoldUnit(p) PROVE Covered'
    <3>1. UNCHANGED <<quantityRemaining, lotStatus, adjustments, shelf, drift>>
      BY <2>1 DEF HoldUnit, reserve, shelfVars
    <3> QED
      BY <3>1, CoveredAlone
  <2>2. ASSUME NEW l \in Lots, CorrectLot(l) PROVE Covered'
    BY <1>1, <2>2, CorrectedBooks DEF CorrectLot, shelfVars, Covered, BooksCoverShelf
  <2>3. ASSUME NEW l \in Lots, LotLeavesSale(l) PROVE Covered'
    BY <1>1, <2>3, LeavingBooks, CoveredAlone DEF LotLeavesSale, shelfVars
  <2>4. ASSUME NEW l \in Lots, LoseUnit(l) PROVE Covered'
    <3>1. UNCHANGED <<quantityRemaining, lotStatus, adjustments>>
      BY <2>4 DEF LoseUnit, inventoryVars, stockVars, lotVars
    <3>2. \A k \in Keys : drift[k] \in Int /\ drift[k] >= 0 /\ drift'[k] >= 0
      BY <1>1, <2>4 DEF LoseUnit, DeviceTypeOK, Covered
    <3>3. \A j \in Lots : shelf[j] \in Nat /\ shelf'[j] <= shelf[j] /\ shelf'[j] \in Int
      BY <1>1, <2>4 DEF LoseUnit
    <3>4. \A j \in Lots : quantityRemaining[j] \in Int
      BY <1>1 DEF BooksOK, InventoryTypeOK, StockTypeOK
    <3>5. BooksCoverShelf'
      BY <3>1, <3>3, <3>4 DEF Covered, BooksCoverShelf
    <3> QED
      BY <3>2, <3>5 DEF Covered
  <2>5. {FALSE, Racing} \subseteq BOOLEAN
    BY CountAssumption
  <2> QED
    BY <1>1, <1>5, <2>1, <2>2, <2>3, <2>4, <2>5, SaleStepCovered DEF ShopStep
<1> QED
  BY <1>3, <1>4, <1>5 DEF Next

\* Where a sale is booked on the lot it is taken from, and does not split the
\* reads of a submission, a unit on the shelf is never written off, however many
\* counts see a shortfall and however late their entries arrive.
THEOREM ShelfNeverWrittenOff ==
  ASSUME Racing = FALSE, OneLotPerProduct
  PROVE  Spec => []BooksCoverShelf
<1>1. Init => Covered
  BY CountAssumption DEF Init, Covered, BooksCoverShelf
<1>2. Covered /\ ShelfInv /\ [Next]_vars => Covered'
  <2> SUFFICES ASSUME Covered, ShelfInv, [Next]_vars PROVE Covered'
    OBVIOUS
  <2>1. CASE UNCHANGED vars
    <3>1. UNCHANGED <<quantityRemaining, adjustments, lotStatus, shelf, drift>>
      BY <2>1 DEF vars, inventoryVars, stockVars, lotVars, shelfVars
    <3> QED
      BY <3>1, CoveredAlone
  <2> QED
    BY <2>1, CoveredStep
<1>3. Covered => BooksCoverShelf
  BY DEF Covered
<1> QED
  BY <1>1, <1>2, <1>3, ShelfInvariant, PTL DEF Spec
-----------------------------------------------------------------------------
(* The barcode registry *)

\* What a request has fixed when it was made, and the locks it holds.
RequestOK(k) ==
  clerk[k] # Nobody =>
    /\ clerk[k].op = "add" => /\ clerk[k].lot = {} /\ clerk[k].code \in Codes
                              /\ clerk[k].step # "lockProduct"
    /\ clerk[k].op = "label" => \E l \in LabelLots : clerk[k].lot = {l}
    /\ clerk[k].step \in {"lockStore", "check"} => clerk[k].code \in Codes
    /\ clerk[k].step = "check" => storeLock = k
    /\ clerk[k].step = "write" /\ clerk[k].code # Nobody => storeLock = k

\* Between its check and its write a code stays free, but for the SKUs.
StillFree(k) ==
  (clerk[k] # Nobody /\ clerk[k].step = "write" /\ clerk[k].code # Nobody) =>
    /\ barcodeOf[clerk[k].code] = Nobody
    /\ Labelled(clerk[k].code) \subseteq clerk[k].lot
    /\ \A p \in Goods : sku[p] = clerk[k].code =>
         \/ clerk[k].code \in renamed
         \/ clerk[k].op = "add" /\ p = clerk[k].product

\* A code is registered once, and is the SKU of no other product unless a SKU was
\* set to a code in use.
CodeOK(c) ==
  /\ \A l, m \in Labelled(c) : l = m
  /\ Labelled(c) # {} => barcodeOf[c] = Nobody
  /\ c \notin renamed => \A p \in Goods : sku[p] = c =>
       Labelled(c) = {} /\ barcodeOf[c] \in {Nobody, p}

RegistryInv ==
  /\ BarcodeTypeOK
  /\ \A p, q \in Goods : sku[p] = sku[q] /\ sku[p] # Nobody => p = q
  /\ \A k \in Clerks : RequestOK(k) /\ StillFree(k)
  /\ \A c \in Codes : CodeOK(c)

\* An empty registry satisfies the invariant.
LEMMA RegistryInit ==
  ASSUME BarcodeInit
  PROVE  RegistryInv
<1>1. BarcodeTypeOK
  BY BarcodesAssumption DEF BarcodeInit, BarcodeTypeOK
<1>2. \A k \in Clerks : RequestOK(k) /\ StillFree(k)
  BY DEF BarcodeInit, RequestOK, StillFree
<1>3. \A c \in Codes : CodeOK(c)
  BY BarcodesAssumption DEF BarcodeInit, CodeOK, Labelled
<1>4. \A p \in Goods : sku[p] = Nobody
  BY DEF BarcodeInit
<1> QED
  BY <1>1, <1>2, <1>3, <1>4 DEF RegistryInv

\* A request under way is a request.
LEMMA TheRequest ==
  ASSUME RegistryInv, NEW k \in Clerks, clerk[k] # Nobody
  PROVE  /\ clerk[k] \in Requests /\ RequestOK(k) /\ StillFree(k)
         /\ clerk[k].op \in {"add", "label"} /\ clerk[k].product \in Goods
         /\ clerk[k].lot \in SUBSET LabelLots /\ clerk[k].code \in Codes \cup {Nobody}
         /\ clerk[k].step \in Steps
<1>1. clerk[k] \in Requests
  BY DEF RegistryInv, BarcodeTypeOK
<1> QED
  BY <1>1 DEF RegistryInv, Requests

\* The tables say nothing new: what was free is free.
LEMMA TablesAlone ==
  ASSUME RegistryInv, UNCHANGED <<tables, renamed>>
  PROVE  /\ \A c \in Codes : CodeOK(c)'
         /\ \A p, q \in Goods : sku'[p] = sku'[q] /\ sku'[p] # Nobody => p = q
         /\ \A k \in Clerks : clerk'[k] = clerk[k] => StillFree(k)'
<1>1. UNCHANGED <<sku, barcodeOf, label, renamed>> /\ \A c : Labelled(c)' = Labelled(c)
  BY DEF tables, Labelled
<1>2. \A c \in Codes : CodeOK(c)'
  BY <1>1 DEF RegistryInv, CodeOK
<1>3. \A k \in Clerks : clerk'[k] = clerk[k] => StillFree(k)'
  BY <1>1 DEF RegistryInv, StillFree
<1> QED
  BY <1>1, <1>2, <1>3 DEF RegistryInv

\* A new request holds no lock.
LEMMA StartKeepsRegistry ==
  ASSUME RegistryInv, NEW k \in Clerks, NEW request \in Requests, Start(k, request),
         UNCHANGED <<tables, storeLock, productLock, renamed>>,
         request.op = "add" => request.lot = {} /\ request.code \in Codes /\ request.step = "lockStore",
         request.op = "label" => /\ \E l \in LabelLots : request.lot = {l}
                                 /\ request.step = "lockProduct"
  PROVE  RegistryInv'
<1>1. /\ clerk'[k] = request /\ \A j \in Clerks \ {k} : clerk'[j] = clerk[j]
      /\ clerk' \in [Clerks -> Requests \cup {Nobody}] /\ request # Nobody
      /\ request.op \in {"add", "label"} /\ clerk[k] = Nobody
      /\ UNCHANGED <<sku, barcodeOf, label>>
  BY BarcodesAssumption DEF Start, RegistryInv, BarcodeTypeOK, Requests, tables
<1>2. BarcodeTypeOK'
  BY <1>1, BarcodesAssumption DEF RegistryInv, BarcodeTypeOK
<1>3. ASSUME NEW j \in Clerks PROVE RequestOK(j)' /\ StillFree(j)'
  <2>1. CASE j = k
    BY <1>1, <2>1 DEF RequestOK, StillFree
  <2>2. CASE j # k
    BY <1>1, <2>2, TablesAlone DEF RegistryInv, RequestOK
  <2> QED
    BY <2>1, <2>2
<1> QED
  BY <1>2, <1>3, TablesAlone DEF RegistryInv

\* A request that moves on keeps its arguments; whoever is to write has checked.
LEMMA GotoKeepsRegistry ==
  ASSUME RegistryInv, NEW k \in Clerks, clerk[k] # Nobody, NEW step \in Steps, Goto(k, step),
         UNCHANGED <<tables, renamed>>,
         storeLock' = storeLock \/ (storeLock = Nobody /\ storeLock' = k),
         productLock' \in [Goods -> Clerks \cup {Nobody}],
         \A p \in Goods : productLock'[p] \in {productLock[p], k},
         clerk[k].op = "add" => step # "lockProduct",
         step \in {"lockStore", "check"} => clerk[k].code \in Codes,
         step = "check" => storeLock' = k,
         (step = "write" /\ clerk[k].code # Nobody) =>
           /\ storeLock' = k
           /\ barcodeOf[clerk[k].code] = Nobody
           /\ Labelled(clerk[k].code) \subseteq clerk[k].lot
           /\ \A p \in Goods : sku[p] = clerk[k].code =>
                clerk[k].code \in renamed \/ (clerk[k].op = "add" /\ p = clerk[k].product)
  PROVE  RegistryInv'
<1>1. /\ clerk' = [clerk EXCEPT ![k].step = step] /\ clerk[k] \in Requests
      /\ clerk \in [Clerks -> Requests \cup {Nobody}]
  BY TheRequest DEF Goto, RegistryInv, BarcodeTypeOK
<1>2. /\ clerk'[k] \in Requests /\ clerk'[k].step = step
      /\ clerk'[k].op = clerk[k].op /\ clerk'[k].product = clerk[k].product
      /\ clerk'[k].lot = clerk[k].lot /\ clerk'[k].code = clerk[k].code
  BY <1>1 DEF Requests
<1>3. \A j \in Clerks \ {k} : clerk'[j] = clerk[j]
  BY <1>1
<1>4. clerk' \in [Clerks -> Requests \cup {Nobody}] /\ clerk'[k] # Nobody
  BY <1>1, <1>2, BarcodesAssumption
<1>5. UNCHANGED <<sku, barcodeOf, label, renamed>> /\ \A c : Labelled(c)' = Labelled(c)
  BY DEF tables, Labelled
<1>6. BarcodeTypeOK'
  <2>1. storeLock' \in Clerks \cup {Nobody} /\ (storeLock' # Nobody => clerk'[storeLock'] # Nobody)
    BY <1>3, <1>4 DEF RegistryInv, BarcodeTypeOK
  <2>2. \A p \in Goods : productLock'[p] # Nobody => clerk'[productLock'[p]] # Nobody
    BY <1>3, <1>4 DEF RegistryInv, BarcodeTypeOK
  <2> QED
    BY <1>4, <1>5, <2>1, <2>2 DEF RegistryInv, BarcodeTypeOK
<1>7. ASSUME NEW j \in Clerks PROVE RequestOK(j)' /\ StillFree(j)'
  <2>1. CASE j = k
    <3>1. RequestOK(k)'
      BY <1>2, <1>4, TheRequest DEF RequestOK
    <3>2. StillFree(k)'
      BY <1>2, <1>5 DEF StillFree
    <3> QED
      BY <2>1, <3>1, <3>2
  <2>2. CASE j # k
    <3>1. clerk'[j] = clerk[j]
      BY <1>3, <2>2
    <3>2. RequestOK(j)'
      BY <3>1, BarcodesAssumption DEF RegistryInv, RequestOK
    <3> QED
      BY <3>1, <3>2, TablesAlone
  <2> QED
    BY <2>1, <2>2
<1> QED
  BY <1>6, <1>7, TablesAlone DEF RegistryInv

\* Commit and rollback give back every lock.
LEMMA ReleaseKeepsLocks ==
  ASSUME RegistryInv, NEW k \in Clerks, clerk[k] # Nobody, Release(k)
  PROVE  /\ clerk'[k] = Nobody /\ \A j \in Clerks \ {k} : clerk'[j] = clerk[j]
         /\ clerk' \in [Clerks -> Requests \cup {Nobody}]
         /\ storeLock' \in Clerks \cup {Nobody}
         /\ productLock' \in [Goods -> Clerks \cup {Nobody}]
         /\ storeLock' # Nobody => clerk'[storeLock'] # Nobody
         /\ \A p \in Goods : productLock'[p] # Nobody => clerk'[productLock'[p]] # Nobody
         /\ \A j \in Clerks : RequestOK(j)'
<1>1. /\ clerk'[k] = Nobody /\ \A j \in Clerks \ {k} : clerk'[j] = clerk[j]
      /\ clerk' \in [Clerks -> Requests \cup {Nobody}]
  BY DEF Release, RegistryInv, BarcodeTypeOK
<1>2. storeLock' \in Clerks \cup {Nobody} /\ (storeLock' # Nobody => clerk'[storeLock'] # Nobody)
  BY <1>1 DEF Release, RegistryInv, BarcodeTypeOK
<1>3. /\ productLock' \in [Goods -> Clerks \cup {Nobody}]
      /\ \A p \in Goods : productLock'[p] # Nobody => clerk'[productLock'[p]] # Nobody
  BY <1>1 DEF Release, RegistryInv, BarcodeTypeOK
<1>4. ASSUME NEW j \in Clerks PROVE RequestOK(j)'
  <2>1. CASE j = k
    BY <1>1, <2>1 DEF RequestOK
  <2>2. CASE j # k
    BY <1>1, <2>2 DEF Release, RegistryInv, RequestOK
  <2> QED
    BY <2>1, <2>2
<1> QED
  BY <1>1, <1>2, <1>3, <1>4

\* The end of a transaction that wrote nothing.
LEMMA ReleaseKeepsRegistry ==
  ASSUME RegistryInv, NEW k \in Clerks, clerk[k] # Nobody, Release(k), UNCHANGED <<tables, renamed>>
  PROVE  RegistryInv'
<1>1. UNCHANGED <<sku, barcodeOf, label>>
  BY DEF tables
<1>2. BarcodeTypeOK'
  BY <1>1, ReleaseKeepsLocks DEF RegistryInv, BarcodeTypeOK
<1>3. \A j \in Clerks : StillFree(j)'
  BY ReleaseKeepsLocks, TablesAlone DEF StillFree
<1> QED
  BY <1>2, <1>3, ReleaseKeepsLocks, TablesAlone DEF RegistryInv
\* Whoever is between check and write holds the store's lock, so is alone.
LEMMA OneWriter ==
  ASSUME RegistryInv, NEW k \in Clerks, storeLock = k, Release(k), clerk[k] # Nobody,
         NEW j \in Clerks
  PROVE  StillFree(j)'
<1>1. /\ clerk'[k] = Nobody
      /\ j # k => clerk'[j] = clerk[j]
  BY ReleaseKeepsLocks
<1>2. j # k => (clerk[j] # Nobody /\ clerk[j].step = "write" => clerk[j].code = Nobody)
  BY DEF RegistryInv, RequestOK
<1> QED
  BY <1>1, <1>2 DEF StillFree

\* addProductBarcode inserts a code that is still free under the store's lock.
LEMMA InsertKeepsRegistry ==
  ASSUME RegistryInv, NEW k \in Clerks, InsertBarcode(k)
  PROVE  RegistryInv'
<1>1. clerk[k] # Nobody /\ clerk[k].op = "add" /\ clerk[k].step = "write" /\ Release(k)
  BY DEF InsertBarcode
<1>2. PICK c \in Codes, q \in Goods :
        /\ c = clerk[k].code /\ q = clerk[k].product /\ c # Nobody /\ storeLock = k
        /\ barcodeOf[c] = Nobody /\ Labelled(c) = {}
        /\ \A p \in Goods : sku[p] = c => c \in renamed \/ p = q
  BY <1>1, TheRequest, BarcodesAssumption DEF RequestOK, StillFree
<1>3. /\ UNCHANGED <<sku, label, renamed>> /\ \A d : Labelled(d)' = Labelled(d)
      /\ barcodeOf' = barcodeOf \/ barcodeOf' = [barcodeOf EXCEPT ![c] = q]
  BY <1>2 DEF InsertBarcode, Labelled
<1>4. barcodeOf \in [Codes -> Goods \cup {Nobody}]
  BY DEF RegistryInv, BarcodeTypeOK
<1>5. /\ barcodeOf' \in [Codes -> Goods \cup {Nobody}] /\ barcodeOf'[c] \in {Nobody, q}
      /\ \A d \in Codes \ {c} : barcodeOf'[d] = barcodeOf[d]
  BY <1>2, <1>3, <1>4
<1>6. ASSUME NEW d \in Codes PROVE CodeOK(d)'
  BY <1>2, <1>3, <1>5 DEF RegistryInv, CodeOK
<1>7. BarcodeTypeOK'
  BY <1>1, <1>3, <1>5, ReleaseKeepsLocks DEF RegistryInv, BarcodeTypeOK
<1>8. \A j \in Clerks : RequestOK(j)' /\ StillFree(j)'
  BY <1>1, <1>2, ReleaseKeepsLocks, OneWriter
<1> QED
  BY <1>3, <1>6, <1>7, <1>8 DEF RegistryInv

\* setLotBarcode writes a label that is still free, or clears one.
LEMMA LabelKeepsRegistry ==
  ASSUME RegistryInv, NEW k \in Clerks, WriteLabel(k)
  PROVE  RegistryInv'
<1>1. /\ clerk[k] # Nobody /\ clerk[k].op = "label" /\ clerk[k].step = "write" /\ Release(k)
      /\ UNCHANGED <<sku, barcodeOf, renamed>>
  BY DEF WriteLabel
<1>2. PICK l \in LabelLots : clerk[k].lot = {l}
  BY <1>1, TheRequest DEF RequestOK
<1>3. PICK c \in Codes \cup {Nobody} : c = clerk[k].code
  BY <1>1, TheRequest
<1>4. /\ label'[l] = c /\ \A m \in LabelLots \ {l} : label'[m] = label[m]
      /\ label' \in [LabelLots -> Codes \cup {Nobody}]
  BY <1>2, <1>3 DEF WriteLabel, RegistryInv, BarcodeTypeOK
<1>5. \A d \in Codes \ {c} : Labelled(d)' \subseteq Labelled(d)
  BY <1>4 DEF Labelled
<1>6. BarcodeTypeOK'
  BY <1>1, <1>4, ReleaseKeepsLocks DEF RegistryInv, BarcodeTypeOK
<1>7. \A j \in Clerks : RequestOK(j)'
  BY <1>1, ReleaseKeepsLocks
<1>8. \A d \in Codes \ {c} : CodeOK(d)'
  BY <1>1, <1>5 DEF RegistryInv, CodeOK
<1>9. CASE c = Nobody
  <2>1. ASSUME NEW j \in Clerks PROVE StillFree(j)'
    <3>1. CASE j = k
      BY <1>1, <3>1, ReleaseKeepsLocks DEF StillFree
    <3>2. CASE j # k
      <4>1. clerk'[j] = clerk[j] /\ StillFree(j)
        BY <1>1, <3>2, ReleaseKeepsLocks DEF RegistryInv
      <4>2. ASSUME clerk[j] # Nobody, clerk[j].code # Nobody
            PROVE  Labelled(clerk[j].code)' \subseteq Labelled(clerk[j].code)
        <5>1. clerk[j].code \in Codes \ {c}
          BY <1>9, <4>2, TheRequest
        <5> QED
          BY <1>5, <4>1, <5>1 DEF Labelled
      <4> QED
        BY <1>1, <4>1, <4>2 DEF StillFree
    <3> QED
      BY <3>1, <3>2
  <2>2. Codes \ {c} = Codes
    BY <1>9, BarcodesAssumption
  <2> QED
    BY <1>1, <1>6, <1>7, <1>8, <2>1, <2>2 DEF RegistryInv
<1>10. CASE c \in Codes
  <2>1. /\ storeLock = k /\ barcodeOf[c] = Nobody /\ Labelled(c) \subseteq {l}
        /\ \A p \in Goods : sku[p] = c => c \in renamed
    BY <1>1, <1>2, <1>3, <1>10, TheRequest, BarcodesAssumption DEF RequestOK, StillFree
  <2>2. Labelled(c)' = {l}
    BY <1>4, <2>1 DEF Labelled
  <2>3. CodeOK(c)'
    BY <1>1, <2>1, <2>2 DEF CodeOK
  <2>4. \A j \in Clerks : StillFree(j)'
    BY <1>1, <2>1, OneWriter
  <2> QED
    BY <1>1, <1>6, <1>7, <1>8, <2>3, <2>4 DEF RegistryInv
<1> QED
  BY <1>9, <1>10

\* A barcode is removed without the lock: that frees a code, and takes none.
LEMMA removeKeepsRegistry ==
  ASSUME RegistryInv, NEW c \in Codes, removeProductBarcode(c)
  PROVE  RegistryInv'
<1>1. /\ UNCHANGED <<sku, label, storeLock, productLock, clerk, renamed>>
      /\ \A d : Labelled(d)' = Labelled(d)
      /\ barcodeOf' = [barcodeOf EXCEPT ![c] = Nobody]
  BY DEF removeProductBarcode, Labelled
<1>2. barcodeOf' \in [Codes -> Goods \cup {Nobody}] /\ barcodeOf'[c] = Nobody
  BY <1>1 DEF RegistryInv, BarcodeTypeOK
<1>3. \A d \in Codes : barcodeOf'[d] = barcodeOf[d] \/ barcodeOf'[d] = Nobody
  BY <1>1, <1>2 DEF RegistryInv, BarcodeTypeOK
<1>4. BarcodeTypeOK'
  BY <1>1, <1>2 DEF RegistryInv, BarcodeTypeOK
<1>5. \A d \in Codes : CodeOK(d)'
  BY <1>1, <1>3 DEF RegistryInv, CodeOK
<1>6. ASSUME NEW j \in Clerks PROVE RequestOK(j)' /\ StillFree(j)'
  <2>1. clerk[j] # Nobody => clerk[j].code \in Codes \cup {Nobody}
    BY TheRequest
  <2>2. RequestOK(j)'
    BY <1>1 DEF RegistryInv, RequestOK
  <2>3. StillFree(j)'
    BY <1>1, <1>3, <2>1 DEF RegistryInv, StillFree
  <2> QED
    BY <2>2, <2>3
<1> QED
  BY <1>1, <1>4, <1>5, <1>6 DEF RegistryInv

\* A SKU is set without a look at the codes: if it takes one in use, between check
\* and write included, that code is among the renamed.
LEMMA SetSkuKeepsRegistry ==
  ASSUME RegistryInv, NEW p \in Goods, NEW c \in SkuCodes, SetSku(p, c)
  PROVE  RegistryInv'
<1>1. /\ UNCHANGED <<barcodeOf, label, storeLock, productLock, clerk>>
      /\ \A d : Labelled(d)' = Labelled(d)
      /\ \A q \in Goods : sku[q] # c
      /\ sku' = [sku EXCEPT ![p] = c]
      /\ renamed' = IF InUse(c) THEN renamed \cup {c} ELSE renamed
  BY DEF SetSku, Labelled
<1>2. c \in Codes /\ c # Nobody
  BY BarcodesAssumption
<1>3. /\ sku' \in [Goods -> Codes \cup {Nobody}] /\ sku'[p] = c
      /\ \A q \in Goods \ {p} : sku'[q] = sku[q]
  BY <1>1, <1>2 DEF RegistryInv, BarcodeTypeOK
<1>4. BarcodeTypeOK'
  BY <1>1, <1>3 DEF RegistryInv, BarcodeTypeOK
<1>5. \A q, r \in Goods : sku'[q] = sku'[r] /\ sku'[q] # Nobody => q = r
  BY <1>1, <1>3 DEF RegistryInv
<1>6. \A d \in Codes : CodeOK(d)'
  BY <1>1, <1>3 DEF RegistryInv, CodeOK, InUse
<1>7. ASSUME NEW j \in Clerks PROVE RequestOK(j)' /\ StillFree(j)'
  <2>1. RequestOK(j)'
    BY <1>1 DEF RegistryInv, RequestOK
  <2>2. StillFree(j)'
    BY <1>1, <1>3 DEF RegistryInv, StillFree, InUse
  <2> QED
    BY <2>1, <2>2
<1> QED
  BY <1>4, <1>5, <1>6, <1>7 DEF RegistryInv

\* Each step of a clerk's transaction, the deadlock victim's rollback included.
LEMMA ServeKeepsRegistry ==
  ASSUME RegistryInv, NEW k \in Clerks, Serve(k)
  PROVE  RegistryInv'
<1>1. clerk[k] # Nobody
  BY DEF Serve, lockProducts, lockStoreBarcodes, CheckFree, InsertBarcode, WriteLabel,
         AbortDeadlocked, InCycle, WaitsFor
<1>2. /\ RequestOK(k) /\ clerk[k].product \in Goods /\ clerk[k].code \in Codes \cup {Nobody}
      /\ clerk[k].op \in {"add", "label"}
  BY <1>1, TheRequest
<1>3. /\ storeLock \in Clerks \cup {Nobody} /\ productLock \in [Goods -> Clerks \cup {Nobody}]
      /\ {"lockStore", "check", "write"} \subseteq Steps
  BY DEF RegistryInv, BarcodeTypeOK, Steps
<1>4. CASE lockProducts(k)
  <2>1. PICK step \in {"lockStore", "write"} :
          /\ Goto(k, step) /\ (step = "lockStore" => clerk[k].code # Nobody)
          /\ (step = "write" => clerk[k].code = Nobody)
    BY <1>4 DEF lockProducts
  <2>2. /\ clerk[k].step = "lockProduct" /\ UNCHANGED <<tables, storeLock, renamed>>
        /\ productLock' = [productLock EXCEPT ![clerk[k].product] = k]
    BY <1>4 DEF lockProducts
  <2>3. /\ productLock' \in [Goods -> Clerks \cup {Nobody}]
        /\ \A p \in Goods : productLock'[p] \in {productLock[p], k}
    BY <1>2, <1>3, <2>2
  <2> QED
    BY <1>1, <1>2, <1>3, <2>1, <2>2, <2>3, GotoKeepsRegistry
<1>5. CASE lockStoreBarcodes(k)
  <2>1. /\ clerk[k].step = "lockStore" /\ storeLock = Nobody /\ storeLock' = k /\ Goto(k, "check")
        /\ UNCHANGED <<tables, productLock, renamed>>
    BY <1>5 DEF lockStoreBarcodes
  <2>2. clerk[k].code \in Codes
    BY <1>1, <1>2, <2>1 DEF RequestOK
  <2> QED
    BY <1>1, <1>3, <2>1, <2>2, GotoKeepsRegistry
<1>6. CASE CheckFree(k)
  <2>1. clerk[k].step = "check" /\ UNCHANGED <<tables, renamed>>
    BY <1>6 DEF CheckFree
  <2>2. storeLock = k /\ clerk[k].code \in Codes
    BY <1>1, <1>2, <2>1 DEF RequestOK
  <2>3. \/ Release(k)
        \/ /\ Goto(k, "write") /\ UNCHANGED <<storeLock, productLock>>
           /\ barcodeOf[clerk[k].code] = Nobody
           /\ Labelled(clerk[k].code) \subseteq clerk[k].lot
           /\ \A p \in Goods : sku[p] = clerk[k].code => clerk[k].op = "add" /\ p = clerk[k].product
    BY <1>6 DEF CheckFree, assertBarcodeFree
  <2> QED
    BY <1>1, <1>3, <2>1, <2>2, <2>3, GotoKeepsRegistry, ReleaseKeepsRegistry
<1>7. CASE InsertBarcode(k)
  BY <1>7, InsertKeepsRegistry
<1>8. CASE WriteLabel(k)
  BY <1>8, LabelKeepsRegistry
<1>9. CASE AbortDeadlocked(k)
  BY <1>1, <1>9, ReleaseKeepsRegistry DEF AbortDeadlocked
<1> QED
  BY <1>4, <1>5, <1>6, <1>7, <1>8, <1>9 DEF Serve

\* Every request, step and administrative edit keeps the registry.
LEMMA RegistryStep ==
  ASSUME RegistryInv, BarcodeNext
  PROVE  RegistryInv'
<1>1. ASSUME NEW k \in Clerks, NEW p \in Goods, NEW c \in Codes, NEW kind \in {"GTIN", "INTERNAL"},
             addProductBarcode(k, p, c, kind)
      PROVE  RegistryInv'
  <2>1. Stored(c, kind) \in Codes
    BY BarcodesAssumption DEF Stored
  <2> DEFINE request == [op |-> "add", product |-> p, lot |-> {}, code |-> Stored(c, kind),
                         step |-> "lockStore"]
  <2>2. request \in Requests
    BY <2>1 DEF Requests, Steps
  <2>3. Start(k, request) /\ UNCHANGED <<tables, storeLock, productLock, renamed>>
    BY <1>1 DEF addProductBarcode
  <2>4. request.op = "add" /\ request.lot = {} /\ request.code \in Codes /\ request.step = "lockStore"
    BY <2>1
  <2> HIDE DEF request
  <2> QED
    BY <2>2, <2>3, <2>4, StartKeepsRegistry
<1>2. ASSUME NEW k \in Clerks, NEW l \in LabelLots, NEW code \in Codes \cup {Nobody},
             setLotBarcode(k, l, code)
      PROVE  RegistryInv'
  <2> DEFINE request == [op |-> "label", product |-> GoodsOf[l], lot |-> {l}, code |-> code,
                         step |-> "lockProduct"]
  <2>1. request \in Requests
    BY BarcodesAssumption DEF Requests, Steps
  <2>2. Start(k, request) /\ UNCHANGED <<tables, storeLock, productLock, renamed>>
    BY <1>2 DEF setLotBarcode
  <2>3. request.op = "label" /\ request.lot = {l} /\ request.step = "lockProduct"
    OBVIOUS
  <2> HIDE DEF request
  <2> QED
    BY <2>1, <2>2, <2>3, StartKeepsRegistry
<1> QED
  BY <1>1, <1>2, ServeKeepsRegistry, removeKeepsRegistry, SetSkuKeepsRegistry DEF BarcodeNext

\* At most one member, counted.
LEMMA AtMostOne ==
  ASSUME NEW S, \A x, y \in S : x = y
  PROVE  IsFiniteSet(S) /\ Cardinality(S) <= 1
<1>1. S = {} \/ \E x \in S : S = {x}
  OBVIOUS
<1>2. CASE S = {}
  BY <1>2, FS_EmptySet
<1>3. ASSUME NEW x, S = {x} PROVE IsFiniteSet(S) /\ Cardinality(S) = 1
  BY <1>3, FS_Singleton
<1> QED
  BY <1>1, <1>2, <1>3

\* What the scans resolve to, when codes are registered once.
LEMMA ScansResolve ==
  ASSUME RegistryInv
  PROVE  ScanMeansOneProduct /\ DeviceAgrees
<1>1. ASSUME NEW c \in Codes \ (DOMAIN Expansion \cup renamed)
      PROVE  Cardinality(lookupBarcode(c)) <= 1
  <2>1. CodeOK(c) /\ c # Nobody
    BY BarcodesAssumption DEF RegistryInv
  <2>2. lookupCandidates(c) = {c}
    BY DEF lookupCandidates
  <2>3. lookupBarcode(c) = {GoodsOf[l] : l \in Labelled(c)} \cup ({barcodeOf[c]} \ {Nobody})
                             \cup {p \in Goods : sku[p] = c}
    BY <2>2 DEF lookupBarcode
  <2>4. \A p, q \in Goods : sku[p] = c /\ sku[q] = c => p = q
    BY <2>1 DEF RegistryInv
  <2>5. \A x, y \in lookupBarcode(c) : x = y
    BY <2>1, <2>3, <2>4 DEF CodeOK
  <2> QED
    BY <2>5, AtMostOne
<1>2. ASSUME NEW c \in Codes, Cardinality(lookupBarcode(c)) = 1,
             \A d \in lookupCandidates(c) \ {c} : Labelled(d) = {}
      PROVE  resolveCountScan(c) = lookupBarcode(c)
  <2> DEFINE byLotLabel == {GoodsOf[l] : l \in Labelled(c)}
             byProductCode == {barcodeOf[d] : d \in {d \in lookupCandidates(c) : barcodeOf[d] # Nobody}}
             bySku == {p \in Goods : sku[p] = c}
  <2>1. lookupBarcode(c) = byLotLabel \cup byProductCode \cup bySku
    BY DEF lookupBarcode
  <2>2. lookupBarcode(c) \subseteq Goods
    <3>1. byLotLabel \subseteq Goods
      BY BarcodesAssumption DEF Labelled
    <3>2. lookupCandidates(c) \subseteq Codes
      BY BarcodesAssumption DEF lookupCandidates
    <3>3. byProductCode \subseteq Goods
      BY <3>2 DEF RegistryInv, BarcodeTypeOK
    <3> QED
      BY <2>1, <3>1, <3>3
  <2>3. PICK x : lookupBarcode(c) = {x}
    <3>1. IsFiniteSet(lookupBarcode(c))
      BY <2>2, BarcodesAssumption, FS_Subset
    <3> QED
      BY <1>2, <3>1, FS_Singleton
  <2>4. {l \in LabelLots : label[l] \in lookupCandidates(c)} = Labelled(c)
    BY <1>2 DEF Labelled, lookupCandidates
  <2>5. resolveCountScan(c) = CASE byLotLabel # {} -> byLotLabel
                                [] byLotLabel = {} /\ byProductCode # {} -> byProductCode
                                [] OTHER -> bySku
    BY <2>4 DEF resolveCountScan
  <2> HIDE DEF byLotLabel, byProductCode, bySku
  <2>6. CASE byLotLabel # {}
    BY <2>1, <2>3, <2>5, <2>6
  <2>7. CASE byLotLabel = {} /\ byProductCode # {}
    BY <2>1, <2>3, <2>5, <2>7
  <2>8. CASE byLotLabel = {} /\ byProductCode = {}
    BY <2>1, <2>5, <2>8
  <2> QED
    BY <2>6, <2>7, <2>8
<1>3. ScanMeansOneProduct
  BY <1>1 DEF ScanMeansOneProduct
<1>4. DeviceAgrees
  BY <1>2 DEF DeviceAgrees
<1> QED
  BY <1>3, <1>4

\* Whichever registrations, labellings and renamings overlap, and whichever of
\* them Postgres aborts, a code is registered once and a scan finds one product,
\* the same on the server and on the counting screen.
THEOREM RegistryStaysSound == BarcodeSpec => []RegistrySound
<1>1. BarcodeInit => RegistryInv
  BY RegistryInit
<1>2. RegistryInv /\ [BarcodeNext]_barcodeVars => RegistryInv'
  <2> SUFFICES ASSUME RegistryInv, UNCHANGED barcodeVars PROVE RegistryInv'
    BY RegistryStep
  <2>1. UNCHANGED <<sku, barcodeOf, label, storeLock, productLock, clerk, renamed, tables>>
    BY DEF barcodeVars, tables
  <2>2. BarcodeTypeOK'
    BY <2>1 DEF RegistryInv, BarcodeTypeOK
  <2>3. \A k \in Clerks : RequestOK(k)'
    BY <2>1 DEF RegistryInv, RequestOK
  <2>4. \A k \in Clerks : StillFree(k)'
    BY <2>1, TablesAlone
  <2> QED
    BY <2>1, <2>2, <2>3, <2>4, TablesAlone DEF RegistryInv
<1>3. RegistryInv => RegistrySound
  <2> SUFFICES ASSUME RegistryInv PROVE RegistrySound
    OBVIOUS
  <2>1. RegisteredOnce
    BY AtMostOne DEF RegistryInv, CodeOK, RegisteredOnce
  <2> QED
    BY <2>1, ScansResolve DEF RegistryInv, RegistrySound
<1> QED
  BY <1>1, <1>2, <1>3, PTL DEF BarcodeSpec

=============================================================================
