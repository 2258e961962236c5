---------------------------- MODULE StockProofs ----------------------------
(***************************************************************************)
(* What every mutation of the stock engine does to the types and to the    *)
(* rollup, for any number of products and lots.                            *)
(*                                                                         *)
(* A rollup over the ACTIVE lots is the total, over all lots of the        *)
(* product, of what each lot contributes (Sellable): a mutation keeps the  *)
(* rollup when its change of Product.stock is the total of its changes of  *)
(* the contributions, lot by lot.                                          *)
(***************************************************************************)
EXTENDS StockEngine, TotalsProofs

\* The lots of a product are finitely many.
LEMMA LotsOfFinite ==
  ASSUME NEW p
  PROVE  IsFiniteSet(LotsOf(p)) /\ LotsOf(p) \subseteq Lots
BY LotsAssumption, FS_Subset DEF LotsOf

\* A line's quantity is an integer; that of an allocation is a natural number.
LEMMA LineQtyType ==
  ASSUME NEW p
  PROVE  /\ \A a \in [Lots -> Int] : LineQty(a, p) \in Int
         /\ \A a \in Allocation : LineQty(a, p) \in Nat
<1>1. ASSUME NEW a \in [Lots -> Int] PROVE LineQty(a, p) \in Int
  <2>1. IntegerOn(a, LotsOf(p))
    BY LotsOfFinite DEF IntegerOn
  <2> QED
    BY <2>1, LotsOfFinite, TotalType DEF LineQty
<1>2. ASSUME NEW a \in Allocation PROVE LineQty(a, p) \in Nat
  <2>1. NaturalOn(a, LotsOf(p))
    BY LotsOfFinite DEF NaturalOn, Allocation
  <2> QED
    BY <2>1, LotsOfFinite, TotalNatural DEF LineQty
<1> QED
  BY <1>1, <1>2

\* A total over lots of an integer column is an integer.
LEMMA LotTotalType ==
  ASSUME NEW S \in SUBSET Lots, NEW f \in [Lots -> Int]
  PROVE  Total(f, S) \in Int
<1>1. IsFiniteSet(S) /\ IntegerOn(f, S)
  BY LotsAssumption, FS_Subset DEF IntegerOn
<1> QED
  BY <1>1, TotalType

-----------------------------------------------------------------------------
(* allocateFefo *)

\* A lot never supplies more than its free units, nor less than none.
LEMMA FefoTakeBounds ==
  ASSUME StockTypeOK, NEW l \in Lots, NEW quantity \in Int
  PROVE  /\ FefoTake(l, quantity) \in Nat
         /\ FefoTake(l, quantity) <= Available(l)
         /\ Available(l) \in Nat
<1>1. AvailableOf \in [Lots -> Int] /\ Available(l) \in Nat
  BY DEF StockTypeOK, AvailableOf, Available, AtLeastZero
<1>2. {k \in ActiveLots(ProductOf[l]) : FefoRank[k] < FefoRank[l]} \in SUBSET Lots
  BY DEF ActiveLots, LotsOf
<1>3. AvailableBefore(l) \in Int
  BY <1>1, <1>2, LotTotalType DEF AvailableBefore
<1> QED
  BY <1>1, <1>3 DEF FefoTake, AtLeastZero, Smaller

\* An allocation takes from ACTIVE lots only and, unless it comes from the
\* offline queue, only free units.
LEMMA AllocateFefo ==
  ASSUME StockTypeOK, NEW cart \in [Products -> Nat], NEW offlineSync \in BOOLEAN
  PROVE  /\ allocateFefo(cart, offlineSync) \in Allocation
         /\ \A l \in Lots : allocateFefo(cart, offlineSync)[l] > 0 =>
              /\ lotStatus[l] = "ACTIVE"
              /\ ~offlineSync =>
                   allocateFefo(cart, offlineSync)[l] <= quantityRemaining[l] - quantityReserved[l]
<1> DEFINE a == allocateFefo(cart, offlineSync)
<1>1. ASSUME NEW l \in Lots
      PROVE  /\ a[l] \in Nat
             /\ a[l] > 0 => lotStatus[l] = "ACTIVE"
             /\ a[l] > 0 /\ ~offlineSync => a[l] <= quantityRemaining[l] - quantityReserved[l]
  <2> DEFINE p == ProductOf[l]
             short == AtLeastZero(cart[p] - TotalAvailable(p))
  <2>1. p \in Products /\ cart[p] \in Nat
    BY LotsAssumption
  <2>2. /\ FefoTake(l, cart[p]) \in Nat
        /\ FefoTake(l, cart[p]) <= Available(l)
        /\ Available(l) \in Nat
    BY <2>1, FefoTakeBounds
  <2>3. TotalAvailable(p) \in Int
    <3>1. AvailableOf \in [Lots -> Int]
      BY DEF StockTypeOK, AvailableOf, Available, AtLeastZero
    <3>2. ActiveLots(p) \in SUBSET Lots
      BY DEF ActiveLots, LotsOf
    <3> QED
      BY <3>1, <3>2, LotTotalType DEF TotalAvailable
  <2>4. short \in Nat
    BY <2>1, <2>3 DEF AtLeastZero
  <2>5. a[l] = IF lotStatus[l] # "ACTIVE" \/ cart[p] = 0 THEN 0
               ELSE FefoTake(l, cart[p]) +
                    (IF offlineSync /\ l = LastLot(p) THEN short ELSE 0)
    BY DEF allocateFefo
  <2> HIDE DEF a, p, short
  <2>6. Available(l) > 0 => Available(l) = quantityRemaining[l] - quantityReserved[l]
    BY DEF Available, AtLeastZero
  <2>7. quantityRemaining[l] \in Int /\ quantityReserved[l] \in Int
    BY DEF StockTypeOK
  <2> QED
    BY <2>2, <2>4, <2>5, <2>6, <2>7
<1>2. a = [l \in Lots |-> a[l]]
  BY DEF allocateFefo
<1> HIDE DEF a
<1>3. a \in Allocation
  BY <1>1, <1>2 DEF Allocation
<1> QED
  BY <1>1, <1>3 DEF a

-----------------------------------------------------------------------------
(* Types *)

\* Each mutation of the engine keeps the columns integers.
LEMMA reserveType ==
  ASSUME StockTypeOK, NEW a \in Allocation, reserve(a)
  PROVE  StockTypeOK'
BY LineQtyType DEF StockTypeOK, Allocation, reserve

\* What release writes keeps the lots and the rollup typed.
LEMMA releaseType ==
  ASSUME StockTypeOK, NEW a \in Allocation, release(a)
  PROVE  StockTypeOK'
BY LineQtyType DEF StockTypeOK, Allocation, release

\* A lot that is sold out becomes DEPLETED, a known status.
LEMMA DepletedType ==
  ASSUME StockTypeOK, NEW taken
  PROVE  DepletedAtZero(taken) \in [Lots -> LotStatus]
BY DEF StockTypeOK, DepletedAtZero, LotStatus

\* What consumeDirect writes keeps the lots and the rollup typed.
LEMMA consumeDirectType ==
  ASSUME StockTypeOK, NEW a \in Allocation, consumeDirect(a)
  PROVE  StockTypeOK'
<1>1. lotStatus' \in [Lots -> LotStatus]
  BY DepletedType DEF consumeDirect
<1> QED
  BY <1>1, LineQtyType DEF StockTypeOK, Allocation, consumeDirect

\* What consume writes keeps the lots and the rollup typed.
LEMMA consumeType ==
  ASSUME StockTypeOK, NEW held \in Allocation, NEW free \in Allocation, consume(held, free)
  PROVE  StockTypeOK'
<1>1. lotStatus' \in [Lots -> LotStatus]
  BY DepletedType DEF consume
<1> QED
  BY <1>1, LineQtyType DEF StockTypeOK, Allocation, consume

\* A new lot is ACTIVE and adds whole units.
LEMMA addLotType ==
  ASSUME StockTypeOK, NEW l \in Lots, NEW qty \in Nat, addLot(l, qty)
  PROVE  StockTypeOK'
<1>1. ProductOf[l] \in Products
  BY LotsAssumption
<1> QED
  BY <1>1 DEF StockTypeOK, LotStatus, addLot

\* A corrected lot takes a known status and moves the rollup by whole units.
LEMMA setLotRemainingType ==
  ASSUME StockTypeOK, NEW l \in Lots, NEW targetQty \in Nat, setLotRemaining(l, targetQty)
  PROVE  StockTypeOK'
<1>1. StatusAtTarget(l, targetQty) \in LotStatus
  BY DEF StockTypeOK, StatusAtTarget, LotStatus
<1>2. RollupDelta(l, targetQty) \in Int
  BY DEF StockTypeOK, RollupDelta
<1>3. ProductOf[l] \in Products
  BY LotsAssumption
<1> QED
  BY <1>1, <1>2, <1>3 DEF StockTypeOK, setLotRemaining

\* Lots that leave the sale take their units out of the rollup.
LEMMA leaveSellableRollupType ==
  ASSUME StockTypeOK, NEW leaving \in SUBSET Lots, NEW nextStatus \in LotStatus,
         leaveSellableRollup(leaving, nextStatus)
  PROVE  StockTypeOK'
<1>1. OnShelf \in [Lots -> Int]
  BY DEF StockTypeOK, OnShelf, AtLeastZero
<1>2. \A p \in Products : Total(OnShelf, leaving \cap ActiveLots(p)) \in Int
  BY <1>1, LotTotalType
<1> QED
  BY <1>2 DEF StockTypeOK, leaveSellableRollup

-----------------------------------------------------------------------------
(* The rollup *)

\* What each lot contributes to a rollup of a column over the ACTIVE lots.
Sellable(status, column) == [l \in Lots |-> IF status[l] = "ACTIVE" THEN column[l] ELSE 0]

ActiveIn(status, p) == {l \in LotsOf(p) : status[l] = "ACTIVE"}

\* A rollup is the total of the contributions of all lots of the product.
LEMMA RollupForm ==
  ASSUME NEW status, NEW column \in [Lots -> Int], NEW p
  PROVE  Total(column, ActiveIn(status, p)) = Total(Sellable(status, column), LotsOf(p))
<1>1. IntegerOn(Sellable(status, column), LotsOf(p))
  BY LotsOfFinite DEF IntegerOn, Sellable
<1>2. ActiveIn(status, p) \in SUBSET LotsOf(p)
  BY DEF ActiveIn
<1>3. /\ \A l \in ActiveIn(status, p) : Sellable(status, column)[l] = column[l]
      /\ \A l \in LotsOf(p) \ ActiveIn(status, p) : Sellable(status, column)[l] = 0
  BY LotsOfFinite DEF ActiveIn, Sellable
<1> QED
  BY <1>1, <1>2, <1>3, LotsOfFinite, TotalFiltered

\* A rollup moves by the total of the changes of the contributions.
LEMMA RollupChange ==
  ASSUME NEW s1, NEW c1 \in [Lots -> Int], NEW s2, NEW c2 \in [Lots -> Int],
         NEW d \in [Lots -> Int], NEW p,
         \A l \in Lots : Sellable(s2, c2)[l] = Sellable(s1, c1)[l] + d[l]
  PROVE  Total(c2, ActiveIn(s2, p)) = Total(c1, ActiveIn(s1, p)) + Total(d, LotsOf(p))
<1> DEFINE f == Sellable(s1, c1)
           g == Sellable(s2, c2)
<1>1. IntegerOn(f, LotsOf(p)) /\ IntegerOn(d, LotsOf(p))
  BY LotsOfFinite DEF IntegerOn, Sellable
<1>2. \A l \in LotsOf(p) : g[l] = f[l] + d[l]
  BY LotsOfFinite
<1> HIDE DEF f, g
<1>3. Total(g, LotsOf(p)) = Total(f, LotsOf(p)) + Total(d, LotsOf(p))
  BY <1>1, <1>2, LotsOfFinite, TotalAdd
<1> QED
  BY <1>3, RollupForm DEF f, g

\* A mutation keeps the rollup when, product by product, it moves stock and
\* reserved by the total of what it does to the lots' contributions.
LEMMA RollupStep ==
  ASSUME StockTypeOK, StockTypeOK', StockRollup,
         NEW d \in [Lots -> Int], NEW e \in [Lots -> Int],
         \A l \in Lots : /\ Sellable(lotStatus', quantityRemaining')[l] =
                              Sellable(lotStatus, quantityRemaining)[l] + d[l]
                         /\ Sellable(lotStatus', quantityReserved')[l] =
                              Sellable(lotStatus, quantityReserved)[l] + e[l],
         \A p \in Products : /\ stock'[p] = stock[p] + Total(d, LotsOf(p))
                             /\ reserved'[p] = reserved[p] + Total(e, LotsOf(p))
  PROVE  StockRollup'
<1>1. /\ quantityRemaining \in [Lots -> Int] /\ quantityRemaining' \in [Lots -> Int]
      /\ quantityReserved \in [Lots -> Int] /\ quantityReserved' \in [Lots -> Int]
  BY DEF StockTypeOK
<1>2. ASSUME NEW p \in Products
      PROVE  /\ Total(quantityRemaining', ActiveIn(lotStatus', p)) =
                  Total(quantityRemaining, ActiveIn(lotStatus, p)) + Total(d, LotsOf(p))
             /\ Total(quantityReserved', ActiveIn(lotStatus', p)) =
                  Total(quantityReserved, ActiveIn(lotStatus, p)) + Total(e, LotsOf(p))
  BY <1>1, RollupChange
<1>3. \A p \in Products : /\ stock[p] = Total(quantityRemaining, ActiveIn(lotStatus, p))
                          /\ reserved[p] = Total(quantityReserved, ActiveIn(lotStatus, p))
  BY DEF StockRollup, ActiveIn, ActiveLots
<1>4. \A p \in Products : /\ stock'[p] = Total(quantityRemaining', ActiveIn(lotStatus', p))
                          /\ reserved'[p] = Total(quantityReserved', ActiveIn(lotStatus', p))
  BY <1>2, <1>3
<1> QED
  BY <1>4 DEF StockRollup, ActiveIn, ActiveLots

\* No change on any lot is no change of a rollup; a change that takes what an
\* allocation names takes the quantities of its lines.
LEMMA LineChange ==
  ASSUME NEW p
  PROVE  /\ Total(NoAllocation, LotsOf(p)) = 0
         /\ \A a \in Allocation : Total([l \in Lots |-> -a[l]], LotsOf(p)) = -LineQty(a, p)
<1>1. Total(NoAllocation, LotsOf(p)) = 0
  BY LotsOfFinite, TotalZero DEF NoAllocation
<1>2. ASSUME NEW a \in Allocation
      PROVE  Total([l \in Lots |-> -a[l]], LotsOf(p)) = -LineQty(a, p)
  <2> DEFINE n == [l \in Lots |-> -a[l]]
  <2>1. IntegerOn(a, LotsOf(p)) /\ \A l \in LotsOf(p) : n[l] = -a[l]
    BY LotsOfFinite DEF IntegerOn, Allocation
  <2> HIDE DEF n
  <2>2. Total(n, LotsOf(p)) = -Total(a, LotsOf(p))
    BY <2>1, LotsOfFinite, TotalNegated
  <2> QED
    BY <2>2 DEF n, LineQty
<1> QED
  BY <1>1, <1>2

\* Holding units of ACTIVE lots keeps the rollup.
LEMMA reserveRollup ==
  ASSUME StockTypeOK, StockRollup, NEW a \in Allocation, reserve(a),
         \A l \in Lots : a[l] > 0 => lotStatus[l] = "ACTIVE"
  PROVE  StockRollup'
<1>1. StockTypeOK'
  BY reserveType
<1>2. a \in [Lots -> Int] /\ NoAllocation \in [Lots -> Int]
  BY DEF Allocation, NoAllocation
<1>3. \A l \in Lots : /\ Sellable(lotStatus', quantityRemaining')[l] =
                           Sellable(lotStatus, quantityRemaining)[l] + NoAllocation[l]
                      /\ Sellable(lotStatus', quantityReserved')[l] =
                           Sellable(lotStatus, quantityReserved)[l] + a[l]
  BY DEF StockTypeOK, Allocation, reserve, Sellable, NoAllocation
<1>4. \A p \in Products : /\ stock'[p] = stock[p] + Total(NoAllocation, LotsOf(p))
                          /\ reserved'[p] = reserved[p] + Total(a, LotsOf(p))
  BY LineChange DEF StockTypeOK, reserve, LineQty
<1> QED
  BY <1>1, <1>2, <1>3, <1>4, RollupStep

\* Releasing units held on ACTIVE lots keeps the rollup.
LEMMA releaseRollup ==
  ASSUME StockTypeOK, StockRollup, NEW a \in Allocation, release(a),
         \A l \in Lots : a[l] > 0 => lotStatus[l] = "ACTIVE"
  PROVE  StockRollup'
<1> DEFINE n == [l \in Lots |-> -a[l]]
<1>1. StockTypeOK'
  BY releaseType
<1>2. n \in [Lots -> Int] /\ NoAllocation \in [Lots -> Int]
  BY DEF Allocation, NoAllocation
<1>3. \A l \in Lots : /\ Sellable(lotStatus', quantityRemaining')[l] =
                           Sellable(lotStatus, quantityRemaining)[l] + NoAllocation[l]
                      /\ Sellable(lotStatus', quantityReserved')[l] =
                           Sellable(lotStatus, quantityReserved)[l] + n[l]
  BY DEF StockTypeOK, Allocation, release, Sellable, NoAllocation
<1>4. \A p \in Products : /\ stock'[p] = stock[p] + Total(NoAllocation, LotsOf(p))
                          /\ reserved'[p] = reserved[p] + Total(n, LotsOf(p))
  BY LineChange, LineQtyType DEF StockTypeOK, release
<1> HIDE DEF n
<1> QED
  BY <1>1, <1>2, <1>3, <1>4, RollupStep

\* A direct sale of free units keeps the rollup; a lot it empties holds none.
LEMMA consumeDirectRollup ==
  ASSUME StockTypeOK, StockRollup, NEW a \in Allocation, consumeDirect(a),
         \A l \in Lots : a[l] > 0 => /\ lotStatus[l] = "ACTIVE"
                                     /\ quantityReserved[l] >= 0
                                     /\ a[l] <= quantityRemaining[l] - quantityReserved[l]
  PROVE  StockRollup'
<1> DEFINE n == [l \in Lots |-> -a[l]]
<1>1. StockTypeOK'
  BY consumeDirectType
<1>2. n \in [Lots -> Int] /\ NoAllocation \in [Lots -> Int]
  BY DEF Allocation, NoAllocation
<1>3. \A l \in Lots : /\ Sellable(lotStatus', quantityRemaining')[l] =
                           Sellable(lotStatus, quantityRemaining)[l] + n[l]
                      /\ Sellable(lotStatus', quantityReserved')[l] =
                           Sellable(lotStatus, quantityReserved)[l] + NoAllocation[l]
  BY DEF StockTypeOK, Allocation, consumeDirect, DepletedAtZero, Sellable, NoAllocation
<1>4. \A p \in Products : /\ stock'[p] = stock[p] + Total(n, LotsOf(p))
                          /\ reserved'[p] = reserved[p] + Total(NoAllocation, LotsOf(p))
  BY LineChange, LineQtyType DEF StockTypeOK, consumeDirect
<1> HIDE DEF n
<1> QED
  BY <1>1, <1>2, <1>3, <1>4, RollupStep

\* Converting holds that the lots still carry keeps the rollup.
LEMMA consumeRollup ==
  ASSUME StockTypeOK, StockRollup, NEW held \in Allocation, consume(held, NoAllocation),
         \A l \in Lots : held[l] > 0 => /\ lotStatus[l] = "ACTIVE"
                                        /\ held[l] <= quantityReserved[l]
                                        /\ quantityReserved[l] <= quantityRemaining[l]
  PROVE  StockRollup'
<1> DEFINE n == [l \in Lots |-> -held[l]]
<1>1. NoAllocation \in Allocation
  BY DEF NoAllocation, Allocation
<1>2. StockTypeOK'
  BY <1>1, consumeType
<1>3. n \in [Lots -> Int]
  BY DEF Allocation
<1>4. \A l \in Lots : /\ Sellable(lotStatus', quantityRemaining')[l] =
                           Sellable(lotStatus, quantityRemaining)[l] + n[l]
                      /\ Sellable(lotStatus', quantityReserved')[l] =
                           Sellable(lotStatus, quantityReserved)[l] + n[l]
  BY DEF StockTypeOK, Allocation, consume, DepletedAtZero, Sellable, NoAllocation
<1>5. \A p \in Products : /\ stock'[p] = stock[p] + Total(n, LotsOf(p))
                          /\ reserved'[p] = reserved[p] + Total(n, LotsOf(p))
  <2>1. \A p \in Products : LineQty(NoAllocation, p) = 0
    BY LineChange DEF LineQty
  <2> QED
    BY <2>1, LineChange, LineQtyType DEF StockTypeOK, consume
<1> HIDE DEF n
<1> QED
  BY <1>2, <1>3, <1>4, <1>5, RollupStep

\* The change of a single lot, as a change of every lot.
AtLot(l, n) == [k \in Lots |-> IF k = l THEN n ELSE 0]

\* It moves the rollup of its own product only.
LEMMA AtLotTotal ==
  ASSUME NEW l \in Lots, NEW n \in Int, NEW p
  PROVE  Total(AtLot(l, n), LotsOf(p)) = IF ProductOf[l] = p THEN n ELSE 0
<1>1. IntegerOn(AtLot(l, n), LotsOf(p))
  BY LotsOfFinite DEF IntegerOn, AtLot
<1>2. CASE ProductOf[l] = p
  <2>1. l \in LotsOf(p) /\ AtLot(l, n)[l] = n
    BY <1>2 DEF LotsOf, AtLot
  <2>2. \A k \in LotsOf(p) : k # l => AtLot(l, n)[k] = 0
    BY LotsOfFinite DEF AtLot
  <2>3. Total(AtLot(l, n), LotsOf(p)) = AtLot(l, n)[l]
    BY <1>1, <2>1, <2>2, LotsOfFinite, TotalPoint
  <2> QED
    BY <1>2, <2>1, <2>3
<1>3. CASE ProductOf[l] # p
  <2>1. \A k \in LotsOf(p) : AtLot(l, n)[k] = 0
    BY <1>3 DEF LotsOf, AtLot
  <2> QED
    BY <1>3, <2>1, TotalZero
<1> QED
  BY <1>2, <1>3

\* A step that moves one lot's contribution to stock, and Product.stock with
\* it, keeps the rollup.
LEMMA OneLotRollup ==
  ASSUME StockTypeOK, StockTypeOK', StockRollup, NEW l \in Lots, NEW n \in Int,
         stock' = [stock EXCEPT ![ProductOf[l]] = @ + n], UNCHANGED reserved,
         \A k \in Lots : /\ Sellable(lotStatus', quantityRemaining')[k] =
                              Sellable(lotStatus, quantityRemaining)[k] + AtLot(l, n)[k]
                         /\ Sellable(lotStatus', quantityReserved')[k] =
                              Sellable(lotStatus, quantityReserved)[k]
  PROVE  StockRollup'
<1>1. AtLot(l, n) \in [Lots -> Int] /\ NoAllocation \in [Lots -> Int]
  BY DEF AtLot, NoAllocation
<1>2. \A k \in Lots : Sellable(lotStatus', quantityReserved')[k] =
                        Sellable(lotStatus, quantityReserved)[k] + NoAllocation[k]
  BY DEF StockTypeOK, Sellable, NoAllocation
<1>3. \A p \in Products : /\ stock'[p] = stock[p] + Total(AtLot(l, n), LotsOf(p))
                          /\ reserved'[p] = reserved[p] + Total(NoAllocation, LotsOf(p))
  BY AtLotTotal, LineChange DEF StockTypeOK
<1> QED
  BY <1>1, <1>2, <1>3, RollupStep

\* A new lot enters the rollup with all its units.
LEMMA addLotRollup ==
  ASSUME StockTypeOK, StockRollup, NEW l \in Lots, NEW qty \in Nat, addLot(l, qty)
  PROVE  StockRollup'
<1>1. StockTypeOK'
  BY addLotType
<1>2. \A k \in Lots : /\ Sellable(lotStatus', quantityRemaining')[k] =
                           Sellable(lotStatus, quantityRemaining)[k] + AtLot(l, qty)[k]
                      /\ Sellable(lotStatus', quantityReserved')[k] =
                           Sellable(lotStatus, quantityReserved)[k]
  BY DEF StockTypeOK, addLot, Sellable, AtLot
<1>3. stock' = [stock EXCEPT ![ProductOf[l]] = @ + qty] /\ UNCHANGED reserved /\ qty \in Int
  BY DEF addLot
<1> QED
  BY <1>1, <1>2, <1>3, OneLotRollup

\* Setting a lot's quantity keeps the rollup when a lot that is empty, or is
\* being emptied, holds nothing.
LEMMA setLotRemainingRollup ==
  ASSUME StockTypeOK, StockRollup, NEW l \in Lots, NEW targetQty \in Nat,
         setLotRemaining(l, targetQty), quantityReserved[l] >= 0,
         lotStatus[l] # "ACTIVE" => quantityReserved[l] = 0
  PROVE  StockRollup'
<1>1. StockTypeOK'
  BY setLotRemainingType
<1>2. RollupDelta(l, targetQty) \in Int
  BY DEF StockTypeOK, RollupDelta
<1>3. \A k \in Lots : /\ Sellable(lotStatus', quantityRemaining')[k] =
                           Sellable(lotStatus, quantityRemaining)[k] +
                             AtLot(l, RollupDelta(l, targetQty))[k]
                      /\ Sellable(lotStatus', quantityReserved')[k] =
                           Sellable(lotStatus, quantityReserved)[k]
  BY DEF StockTypeOK, setLotRemaining, StatusAtTarget, RollupDelta, Sellable, AtLot
<1>4. /\ stock' = [stock EXCEPT ![ProductOf[l]] = @ + RollupDelta(l, targetQty)]
      /\ UNCHANGED reserved
  BY DEF setLotRemaining
<1> QED
  BY <1>1, <1>2, <1>3, <1>4, OneLotRollup

\* Units go back into lots as numbers.
LEMMA restockToLotsType ==
  ASSUME StockTypeOK, NEW r \in Allocation, restockToLots(r)
  PROVE  StockTypeOK'
<1>1. \A p \in Products : Total(r, {l \in LotsOf(p) : lotStatus[l] # "QUARANTINED"}) \in Int
  <2>1. \A p : {l \in LotsOf(p) : lotStatus[l] # "QUARANTINED"} \in SUBSET Lots
    BY DEF LotsOf
  <2>2. r \in [Lots -> Int]
    BY DEF Allocation
  <2> QED
    BY <2>1, <2>2, LotTotalType
<1>2. stock' \in [Products -> Int] /\ UNCHANGED <<quantityReserved, reserved>>
  BY <1>1 DEF StockTypeOK, restockToLots
<1>3. quantityRemaining' \in [Lots -> Int] /\ lotStatus' \in [Lots -> LotStatus]
  BY DEF StockTypeOK, restockToLots, Allocation, LotStatus
<1> QED
  BY <1>2, <1>3 DEF StockTypeOK

\* Restocking keeps the rollup: units enter it with an ACTIVE lot or with an
\* empty one that comes back on sale, and stay outside it in a quarantined one.
LEMMA restockToLotsRollup ==
  ASSUME StockTypeOK, StockRollup, NEW r \in Allocation, restockToLots(r),
         \A l \in Lots : /\ lotStatus[l] = "DEPLETED" => quantityRemaining[l] = 0
                         /\ lotStatus[l] # "ACTIVE" => quantityReserved[l] = 0
                         /\ lotStatus[l] = "ABSENT" => r[l] = 0
  PROVE  StockRollup'
<1> DEFINE d == [l \in Lots |-> IF lotStatus[l] = "QUARANTINED" THEN 0 ELSE r[l]]
<1>1. StockTypeOK'
  BY restockToLotsType
<1>2. r \in [Lots -> Nat] /\ d \in [Lots -> Int] /\ NoAllocation \in [Lots -> Int]
  BY DEF Allocation, NoAllocation
<1>3. ASSUME NEW l \in Lots
      PROVE  /\ Sellable(lotStatus', quantityRemaining')[l] =
                  Sellable(lotStatus, quantityRemaining)[l] + d[l]
             /\ Sellable(lotStatus', quantityReserved')[l] =
                  Sellable(lotStatus, quantityReserved)[l] + NoAllocation[l]
  <2>1. /\ quantityRemaining[l] \in Int /\ quantityReserved[l] \in Int /\ r[l] \in Nat
        /\ lotStatus[l] \in LotStatus
    BY <1>2 DEF StockTypeOK
  <2>2. /\ quantityRemaining'[l] = quantityRemaining[l] + r[l]
        /\ quantityReserved'[l] = quantityReserved[l]
        /\ lotStatus'[l] = IF r[l] > 0 /\ lotStatus[l] = "DEPLETED"
                                /\ quantityRemaining[l] + r[l] > 0
                           THEN "ACTIVE" ELSE lotStatus[l]
        /\ r[l] > 0 => lotStatus[l] \notin {"RECALLED", "EXPIRED"}
    BY DEF restockToLots
  <2> QED
    BY <2>1, <2>2 DEF Sellable, NoAllocation, LotStatus
<1>4. ASSUME NEW p \in Products
      PROVE  /\ stock'[p] = stock[p] + Total(d, LotsOf(p))
             /\ reserved'[p] = reserved[p] + Total(NoAllocation, LotsOf(p))
  <2> DEFINE open == {l \in LotsOf(p) : lotStatus[l] # "QUARANTINED"}
  <2>1. IsFiniteSet(LotsOf(p)) /\ open \in SUBSET LotsOf(p) /\ LotsOf(p) \subseteq Lots
    BY LotsOfFinite
  <2>2. /\ IntegerOn(d, LotsOf(p))
        /\ \A l \in open : d[l] = r[l]
        /\ \A l \in LotsOf(p) \ open : d[l] = 0
    BY <1>2, <2>1 DEF IntegerOn
  <2>3. stock'[p] = stock[p] + Total(r, open) /\ reserved'[p] = reserved[p]
    BY DEF restockToLots
  <2> HIDE DEF open, d
  <2>4. Total(r, open) = Total(d, LotsOf(p))
    BY <2>1, <2>2, TotalFiltered
  <2> QED
    BY <2>3, <2>4, LineChange DEF StockTypeOK
<1> HIDE DEF d
<1> QED
  BY <1>1, <1>2, <1>3, <1>4, RollupStep

\* Lots that are not oversold and hold nothing leave the rollup with all their
\* units.
LEMMA leaveSellableRollupRollup ==
  ASSUME StockTypeOK, StockRollup, NEW leaving \in SUBSET Lots,
         NEW nextStatus \in LotStatus \ {"ACTIVE"},
         leaveSellableRollup(leaving, nextStatus),
         \A l \in leaving : /\ quantityReserved[l] = 0
                            /\ quantityRemaining[l] >= 0
  PROVE  StockRollup'
<1> DEFINE out == [l \in Lots |-> IF l \in leaving /\ lotStatus[l] = "ACTIVE"
                                  THEN quantityRemaining[l] ELSE 0]
           n == [l \in Lots |-> -out[l]]
<1>1. StockTypeOK'
  BY leaveSellableRollupType
<1>2. out \in Allocation /\ n \in [Lots -> Int] /\ NoAllocation \in [Lots -> Int]
  BY DEF StockTypeOK, NoAllocation, Allocation
<1>3. \A l \in Lots : /\ Sellable(lotStatus', quantityRemaining')[l] =
                           Sellable(lotStatus, quantityRemaining)[l] + n[l]
                      /\ Sellable(lotStatus', quantityReserved')[l] =
                           Sellable(lotStatus, quantityReserved)[l] + NoAllocation[l]
  BY DEF StockTypeOK, leaveSellableRollup, Sellable, NoAllocation
<1>4. \A p \in Products : Total(OnShelf, leaving \cap ActiveLots(p)) = LineQty(out, p)
  <2> TAKE p \in Products
  <2>1. IntegerOn(out, LotsOf(p))
    BY <1>2, LotsOfFinite DEF IntegerOn, Allocation
  <2>2. leaving \cap ActiveLots(p) \in SUBSET LotsOf(p)
    BY DEF ActiveLots
  <2>3. /\ \A l \in leaving \cap ActiveLots(p) : out[l] = OnShelf[l]
        /\ \A l \in LotsOf(p) \ (leaving \cap ActiveLots(p)) : out[l] = 0
    BY LotsOfFinite DEF StockTypeOK, ActiveLots, OnShelf, AtLeastZero
  <2> HIDE DEF out
  <2> QED
    BY <2>1, <2>2, <2>3, LotsOfFinite, TotalFiltered DEF LineQty
<1> HIDE DEF out
<1>5. \A p \in Products : /\ stock'[p] = stock[p] + Total(n, LotsOf(p))
                          /\ reserved'[p] = reserved[p] + Total(NoAllocation, LotsOf(p))
  BY <1>2, <1>4, LineChange, LineQtyType DEF StockTypeOK, leaveSellableRollup
<1> HIDE DEF n
<1> QED
  BY <1>1, <1>2, <1>3, <1>5, RollupStep

-----------------------------------------------------------------------------
(* What allocateFefo adds up to *)

\* Within its product, a lot supplies what its rank leaves to it.
LEMMA FefoTakeSupplied ==
  ASSUME StockTypeOK, NEW p, NEW l \in ActiveLots(p), NEW q \in Nat
  PROVE  FefoTake(l, q) = Supplied(AvailableOf, ActiveLots(p), FefoRank, l, q)
<1>1. l \in Lots /\ ProductOf[l] = p
  BY DEF ActiveLots, LotsOf
<1>2. AvailableBefore(l) = Ahead(AvailableOf, ActiveLots(p), FefoRank, l)
  BY <1>1 DEF AvailableBefore, Ahead
<1>3. AvailableOf[l] = Available(l)
  BY <1>1 DEF AvailableOf
<1>4. AvailableBefore(l) \in Int /\ Available(l) \in Nat
  <2>1. AvailableOf \in [Lots -> Int] /\ Available(l) \in Nat
    BY <1>1 DEF StockTypeOK, AvailableOf, Available, AtLeastZero
  <2>2. {k \in ActiveLots(ProductOf[l]) : FefoRank[k] < FefoRank[l]} \in SUBSET Lots
    BY DEF ActiveLots, LotsOf
  <2> QED
    BY <2>1, <2>2, LotTotalType DEF AvailableBefore
<1> QED
  BY <1>2, <1>3, <1>4 DEF FefoTake, Supplied, Smaller, AtLeastZero

\* The loop of allocateFefo finds the whole quantity, or every free unit.
LEMMA FefoTakeTotal ==
  ASSUME StockTypeOK, NEW p, NEW q \in Nat, NEW g,
         \A l \in ActiveLots(p) : g[l] = FefoTake(l, q)
  PROVE  Total(g, ActiveLots(p)) = Smaller(TotalAvailable(p), q)
<1>1. /\ IsFiniteSet(ActiveLots(p))
      /\ ActiveLots(p) \subseteq Lots
  BY LotsOfFinite, FS_Subset DEF ActiveLots
<1>2. NaturalOn(AvailableOf, ActiveLots(p))
  BY <1>1 DEF NaturalOn, StockTypeOK, AvailableOf, Available, AtLeastZero
<1>3. IntegerOn(FefoRank, ActiveLots(p))
  BY <1>1, LotsAssumption DEF IntegerOn
<1>4. \A k, l \in ActiveLots(p) : FefoRank[k] = FefoRank[l] => k = l
  BY <1>1, LotsAssumption
<1>5. \A l \in ActiveLots(p) : g[l] = Supplied(AvailableOf, ActiveLots(p), FefoRank, l, q)
  BY FefoTakeSupplied
<1> QED
  BY <1>1, <1>2, <1>3, <1>4, <1>5, SuppliedTotal DEF TotalAvailable

\* The lot that takes a shortage is one of the product's ACTIVE lots.
LEMMA LastLotActive ==
  ASSUME NEW p, ActiveLots(p) # {}
  PROVE  /\ LastLot(p) \in ActiveLots(p)
         /\ \A k \in ActiveLots(p) : FefoRank[k] <= FefoRank[LastLot(p)]
<1>1. IsFiniteSet(ActiveLots(p)) /\ ActiveLots(p) \subseteq Lots
  BY LotsOfFinite, FS_Subset DEF ActiveLots
<1>2. IntegerOn(FefoRank, ActiveLots(p))
  BY <1>1, LotsAssumption DEF IntegerOn
<1>3. \E l \in ActiveLots(p) : \A k \in ActiveLots(p) : FefoRank[k] <= FefoRank[l]
  BY <1>1, <1>2, LastRow
<1> QED
  BY <1>3 DEF LastLot

\* The lots of a cart supply exactly the units of its lines, whether or not a
\* shortage is accepted.
LEMMA AllocationSupplies ==
  ASSUME StockTypeOK, NEW cart \in [Products -> Nat], NEW offlineSync \in BOOLEAN,
         CanAllocate(cart, offlineSync), NEW p \in Products
  PROVE  LineQty(allocateFefo(cart, offlineSync), p) = cart[p]
<1> DEFINE a == allocateFefo(cart, offlineSync)
           q == cart[p]
           active == ActiveLots(p)
           short == IF offlineSync THEN AtLeastZero(q - TotalAvailable(p)) ELSE 0
           base == [l \in Lots |-> FefoTake(l, q)]
           extra == [l \in Lots |-> IF l = LastLot(p) THEN short ELSE 0]
<1>1. a \in Allocation /\ \A l \in LotsOf(p) : a[l] \in Int
  BY AllocateFefo, LotsOfFinite DEF Allocation
<1>2. active \subseteq LotsOf(p) /\ active \subseteq Lots /\ IsFiniteSet(active)
  BY LotsOfFinite, FS_Subset DEF ActiveLots
<1>3. CASE q = 0
  <2>1. \A l \in LotsOf(p) : a[l] = 0
    BY <1>3 DEF allocateFefo, LotsOf
  <2>2. LineQty(a, p) = 0
    <3> HIDE DEF a
    <3> QED
      BY <2>1, TotalZero DEF LineQty
  <2> QED
    BY <1>3, <2>2
<1>4. CASE q # 0
  <2>1. q \in Nat /\ q > 0 /\ active # {} /\ (offlineSync \/ TotalAvailable(p) >= q)
    BY <1>4 DEF CanAllocate
  <2>2. TotalAvailable(p) \in Nat
    <3>1. NaturalOn(AvailableOf, active)
      BY <1>2 DEF NaturalOn, StockTypeOK, AvailableOf, Available, AtLeastZero
    <3> QED
      BY <1>2, <3>1, TotalNatural DEF TotalAvailable
  <2>3. \A l \in LotsOf(p) \ active : a[l] = 0
    BY LotsOfFinite DEF allocateFefo, ActiveLots
  <2>4. \A l \in active : a[l] = base[l] + extra[l]
    <3>1. \A l \in active : ProductOf[l] = p /\ lotStatus[l] = "ACTIVE"
      BY DEF ActiveLots, LotsOf
    <3>2. \A l \in active : FefoTake(l, q) \in Int
      BY <1>2, <2>1, FefoTakeBounds
    <3> QED
      BY <1>2, <2>1, <3>1, <3>2 DEF allocateFefo
  <2>5. Total(base, active) = Smaller(TotalAvailable(p), q)
    BY <1>2, <2>1, FefoTakeTotal
  <2>6. short \in Int /\ LastLot(p) \in active
    BY <2>1, <2>2, LastLotActive DEF AtLeastZero
  <2>7. IntegerOn(base, active) /\ IntegerOn(extra, active)
    BY <1>2, <2>1, <2>6, FefoTakeBounds DEF IntegerOn
  <2>8. Total(extra, active) = short
    <3>1. extra[LastLot(p)] = short /\ \A l \in active : l # LastLot(p) => extra[l] = 0
      BY <1>2, <2>6
    <3> HIDE DEF extra, short, active
    <3> QED
      BY <1>2, <2>6, <2>7, <3>1, TotalPoint
  <2>9. LineQty(a, p) = Total(a, active)
    <3>1. IntegerOn(a, LotsOf(p))
      BY <1>1 DEF IntegerOn
    <3> HIDE DEF a, active
    <3> QED
      BY <1>2, <2>3, <3>1, LotsOfFinite, TotalFiltered DEF LineQty
  <2>10. Total(a, active) = Total(base, active) + Total(extra, active)
    <3> HIDE DEF a, active, base, extra
    <3> QED
      BY <1>2, <2>4, <2>7, TotalAdd
  <2> QED
    BY <2>1, <2>2, <2>5, <2>8, <2>9, <2>10 DEF Smaller, AtLeastZero
<1> QED
  BY <1>3, <1>4

\* What an earlier lot has, and what comes before it, comes before a later lot
\* and is part of what the product has.
LEMMA EarlierLotCounted ==
  ASSUME StockTypeOK, NEW p, NEW k \in ActiveLots(p), NEW S \in SUBSET ActiveLots(p),
         k \in S, \A j \in ActiveLots(p) : FefoRank[j] < FefoRank[k] => j \in S
  PROVE  /\ AvailableBefore(k) + Available(k) <= Total(AvailableOf, S)
         /\ AvailableBefore(k) \in Nat /\ Available(k) \in Nat
         /\ Total(AvailableOf, S) \in Nat
<1> DEFINE earlier == {j \in ActiveLots(p) : FefoRank[j] < FefoRank[k]}
<1>1. k \in Lots /\ ProductOf[k] = p /\ ActiveLots(p) \subseteq Lots
  BY DEF ActiveLots, LotsOf
<1>2. AvailableBefore(k) = Total(AvailableOf, earlier)
  BY <1>1 DEF AvailableBefore
<1>3. \A j \in Lots : AvailableOf[j] = Available(j) /\ Available(j) \in Nat
  BY DEF StockTypeOK, AvailableOf, Available, AtLeastZero
<1>4. earlier \subseteq S \ {k} /\ S \subseteq Lots
  BY <1>1, LotsAssumption
<1> HIDE DEF earlier
<1>5. IsFiniteSet(S) /\ IsFiniteSet(S \ {k}) /\ IsFiniteSet(earlier)
  BY <1>4, LotsAssumption, FS_Subset
<1>6. /\ IntegerOn(AvailableOf, S) /\ NaturalOn(AvailableOf, S)
      /\ NaturalOn(AvailableOf, S \ {k}) /\ NaturalOn(AvailableOf, earlier)
  BY <1>3, <1>4 DEF IntegerOn, NaturalOn
<1>7. Total(AvailableOf, S) = Total(AvailableOf, S \ {k}) + Available(k)
  BY <1>1, <1>3, <1>5, <1>6, TotalWithout
<1>8. Total(AvailableOf, earlier) <= Total(AvailableOf, S \ {k})
  BY <1>4, <1>5, <1>6, TotalSubset
<1>9. /\ Total(AvailableOf, earlier) \in Nat /\ Total(AvailableOf, S \ {k}) \in Nat
      /\ Total(AvailableOf, S) \in Nat
  BY <1>5, <1>6, TotalNatural
<1> QED
  BY <1>1, <1>2, <1>3, <1>7, <1>8, <1>9

\* When a lot supplies a sale, every ACTIVE lot of the product that expires
\* earlier gives all its free units, and no more.
LEMMA EarlierLotsExhausted ==
  ASSUME StockTypeOK, NEW cart \in [Products -> Nat], NEW offlineSync \in BOOLEAN,
         NEW k \in Lots, NEW l \in Lots,
         ProductOf[k] = ProductOf[l], FefoRank[k] < FefoRank[l], lotStatus[k] = "ACTIVE",
         allocateFefo(cart, offlineSync)[l] > 0
  PROVE  allocateFefo(cart, offlineSync)[k] = Available(k)
<1> DEFINE p == ProductOf[l]
           q == cart[p]
           short == IF offlineSync THEN AtLeastZero(q - TotalAvailable(p)) ELSE 0
           before == {j \in ActiveLots(p) : FefoRank[j] < FefoRank[l]}
<1>1. lotStatus[l] = "ACTIVE" /\ q # 0 /\ q \in Nat
  BY LotsAssumption DEF allocateFefo
<1>2. k \in ActiveLots(p) /\ l \in ActiveLots(p) /\ ActiveLots(p) \subseteq Lots
  BY <1>1 DEF ActiveLots, LotsOf
<1>3. FefoTake(l, q) \in Nat /\ FefoTake(k, q) \in Nat
  BY <1>1, FefoTakeBounds
<1>4. LastLot(p) \in ActiveLots(p) /\ FefoRank[l] <= FefoRank[LastLot(p)] /\ k # LastLot(p)
  BY <1>2, LastLotActive, LotsAssumption
<1>5. /\ allocateFefo(cart, offlineSync)[k] = FefoTake(k, q)
      /\ allocateFefo(cart, offlineSync)[l] =
           FefoTake(l, q) + (IF l = LastLot(p) THEN short ELSE 0)
  BY <1>1, <1>3, <1>4 DEF allocateFefo
<1>6. /\ AvailableBefore(k) + Available(k) <= TotalAvailable(p)
      /\ AvailableBefore(k) \in Nat /\ Available(k) \in Nat /\ TotalAvailable(p) \in Nat
  BY <1>2, EarlierLotCounted DEF TotalAvailable
<1>7. /\ AvailableBefore(k) + Available(k) <= AvailableBefore(l)
      /\ AvailableBefore(l) \in Nat
  <2>1. before \in SUBSET ActiveLots(p) /\ k \in before
    BY <1>2
  <2>2. \A j \in ActiveLots(p) : FefoRank[j] < FefoRank[k] => j \in before
    BY <1>2, LotsAssumption
  <2> HIDE DEF before
  <2>3. AvailableBefore(l) = Total(AvailableOf, before)
    BY DEF AvailableBefore, before
  <2> QED
    BY <1>2, <2>1, <2>2, <2>3, EarlierLotCounted
<1>8. Available(l) \in Nat
  BY <1>1, FefoTakeBounds
<1>9. FefoTake(l, q) > 0 \/ short > 0
  <2>1. short \in Int
    BY <1>1, <1>6 DEF AtLeastZero
  <2> HIDE DEF short, q
  <2> QED
    BY <1>3, <1>5, <2>1
<1>10. short > 0 => q > TotalAvailable(p)
  BY <1>1, <1>6 DEF AtLeastZero
<1> HIDE DEF q, short, p
<1>11. FefoTake(l, q) > 0 => q > AvailableBefore(l)
  BY <1>1, <1>7, <1>8 DEF FefoTake, Smaller, AtLeastZero
<1>12. q - AvailableBefore(k) > Available(k)
  BY <1>1, <1>6, <1>7, <1>9, <1>10, <1>11
<1>13. FefoTake(k, q) = Available(k)
  BY <1>1, <1>6, <1>12 DEF FefoTake, Smaller, AtLeastZero
<1> QED
  BY <1>5, <1>13

=============================================================================
