---------------------------- MODULE StockCount -----------------------------
(***************************************************************************)
(* Physical stock counts (stockCount.service.ts) and the counting device   *)
(* that queues entries and sends them when it has signal (CountScan.tsx,   *)
(* countQueue.ts, countSync.ts).                                           *)
(*                                                                         *)
(* shelf is the truth the code never sees: the units really there.  The    *)
(* till goes on selling and units go missing while people count.  A look   *)
(* is one counted quantity, with the idempotency key the device mints for  *)
(* it.  Timestamps are replaced by what they are used for: paidAfter[k] is *)
(* the SUM over SaleItemLot of units paid after look k.  Counters count    *)
(* right.                                                                  *)
(*                                                                         *)
(* submitCountLine reads the line and the lot without a lock, sums the     *)
(* sales in a later statement, and claims the line by the status it read:  *)
(* its reads and its write are separate steps.                             *)
(***************************************************************************)
EXTENDS Inventory

CONSTANTS
  Counts,        \* stock count ids, those not yet created included
  Keys,          \* idempotency keys of counted quantities
  NoKey,         \* a submission key column that is NULL
  Staff,         \* users who can count in the store
  OnHand,        \* units of each lot at the start
  MaxLosses,     \* bound on the units that go missing
  Racing         \* whether a sale may commit between the reads of a submission

ASSUME CountAssumption ==
  /\ NoKey \notin Keys
  /\ IsFiniteSet(Staff)
  /\ OnHand \in [Lots -> Nat]
  /\ MaxLosses \in Nat
  /\ Racing \in BOOLEAN

VARIABLES
  countStatus,   \* StockCount.status, "ABSENT" before the row exists
  approved,      \* counts whose approvedAt is set
  lineStatus,    \* StockCountLine.status per count and lot, "NONE" without a line
  variance,      \* StockCountLine.variance
  countedBy,     \* StockCountLine.countedByUserId, {} while NULL
  recountedBy,   \* StockCountLine.recountedByUserId, {} while NULL
  countKey,      \* StockCountLine.countSubmissionKey
  recountKey,    \* StockCountLine.recountSubmissionKey
  look,          \* per key, the set of the one look it was minted for
  queued,        \* keys of the entries waiting on a device
  paidAfter,     \* per key, units paid from its lot since the look
  reading,       \* per key, what the running submissions of it have read
  shelf,         \* units really on the shelf, per lot
  drift,         \* per key, how far books and shelf moved apart since the look
  losses         \* units that went missing so far

lineVars == <<lineStatus, variance, countedBy, recountedBy, countKey, recountKey>>
deviceVars == <<look, queued, paidAfter, reading>>
shelfVars == <<shelf, drift, losses>>
vars == <<inventoryVars, countStatus, approved, lineVars, deviceVars, shelfVars>>

Looks == [count : Counts, lot : Lots, by : Staff, quantity : Nat]

Readings == [status : {"PENDING", "RECOUNT_REQUIRED"}, actor : Staff, seen : Int, paid : Nat]

TypeOK ==
  /\ InventoryTypeOK
  /\ countStatus \in [Counts -> {"ABSENT", "DRAFT", "IN_PROGRESS", "COMPLETED", "CANCELLED"}]
  /\ approved \subseteq {c \in Counts : countStatus[c] = "COMPLETED"}
  /\ lineStatus \in
       [Counts -> [Lots -> {"NONE", "PENDING", "COUNTED", "RECOUNT_REQUIRED", "RESOLVED"}]]
  /\ variance \in [Counts -> [Lots -> Int]]
  /\ countedBy \in [Counts -> [Lots -> SUBSET Staff]]
  /\ recountedBy \in [Counts -> [Lots -> SUBSET Staff]]
  /\ countKey \in [Counts -> [Lots -> Keys \cup {NoKey}]]
  /\ recountKey \in [Counts -> [Lots -> Keys \cup {NoKey}]]
  /\ \A k \in Keys : look[k] \subseteq Looks /\ Cardinality(look[k]) <= 1
  /\ queued \subseteq {k \in Keys : look[k] # {}}
  /\ paidAfter \in [Keys -> Nat]
  /\ \A k \in Keys : reading[k] \subseteq Readings
  /\ shelf \in [Lots -> Nat]
  /\ drift \in [Keys -> Int]
  /\ losses \in 0 .. MaxLosses

Init ==
  /\ lotStatus = [l \in Lots |-> "ACTIVE"]
  /\ quantityRemaining = OnHand
  /\ quantityReserved = [l \in Lots |-> 0]
  /\ stock = [p \in Products |-> Total(OnHand, LotsOf(p))]
  /\ reserved = [p \in Products |-> 0]
  /\ ledger = OnHand
  /\ adjustments = 0
  /\ countStatus = [c \in Counts |-> "ABSENT"]
  /\ approved = {}
  /\ lineStatus = [c \in Counts |-> [l \in Lots |-> "NONE"]]
  /\ variance = [c \in Counts |-> [l \in Lots |-> 0]]
  /\ countedBy = [c \in Counts |-> [l \in Lots |-> {}]]
  /\ recountedBy = [c \in Counts |-> [l \in Lots |-> {}]]
  /\ countKey = [c \in Counts |-> [l \in Lots |-> NoKey]]
  /\ recountKey = [c \in Counts |-> [l \in Lots |-> NoKey]]
  /\ look = [k \in Keys |-> {}]
  /\ queued = {}
  /\ paidAfter = [k \in Keys |-> 0]
  /\ reading = [k \in Keys |-> {}]
  /\ shelf = OnHand
  /\ drift = [k \in Keys |-> 0]
  /\ losses = 0

LookOf(k) == CHOOSE e \in look[k] : TRUE

LooksAt(l) == {k \in Keys : \E e \in look[k] : e.lot = l}

Lines(c) == {l \in Lots : lineStatus[c][l] # "NONE"}

-----------------------------------------------------------------------------
(* The life of a count *)

\* openCountWhere: counts that are not yet applied to stock.
OpenCounts ==
  {c \in Counts : \/ countStatus[c] \in {"DRAFT", "IN_PROGRESS"}
                  \/ countStatus[c] = "COMPLETED" /\ c \notin approved}

CountedProducts(S) == {ProductOf[l] : l \in S}

\* Mutant of NoClash: a COMPLETED count no longer counts as open.
NoClashWhileCounting(scope) ==
  \A c \in Counts : countStatus[c] \in {"DRAFT", "IN_PROGRESS"} =>
    CountedProducts(Lines(c)) \cap CountedProducts(scope) = {}

\* insertCount: no product of the new count is on an open one.
NoClash(scope) ==
  \A c \in OpenCounts : CountedProducts(Lines(c)) \cap CountedProducts(scope) = {}

\* createCount or scheduleCycleCount.  The advisory lock serialises creation;
\* expired lots are not countable.
createCount(c, scope) ==
  /\ countStatus[c] = "ABSENT"
  /\ scope # {}
  /\ \A l \in scope : lotStatus[l] \notin {"ABSENT", "EXPIRED"}
  /\ NoClash(scope)
  /\ countStatus' = [countStatus EXCEPT ![c] = "DRAFT"]
  /\ lineStatus' = [lineStatus EXCEPT ![c] =
                      [l \in Lots |-> IF l \in scope THEN "PENDING" ELSE "NONE"]]
  /\ UNCHANGED <<inventoryVars, approved, variance, countedBy, recountedBy, countKey,
                 recountKey, deviceVars, shelfVars>>

\* The frozen expectedQuantity only explains a variance and is left out.
startCount(c) ==
  /\ countStatus[c] = "DRAFT"
  /\ countStatus' = [countStatus EXCEPT ![c] = "IN_PROGRESS"]
  /\ UNCHANGED <<inventoryVars, approved, lineVars, deviceVars, shelfVars>>

completeCount(c) ==
  /\ countStatus[c] = "IN_PROGRESS"
  /\ \A l \in Lines(c) : lineStatus[c][l] \in {"COUNTED", "RESOLVED"}
  /\ countStatus' = [countStatus EXCEPT ![c] = "COMPLETED"]
  /\ UNCHANGED <<inventoryVars, approved, lineVars, deviceVars, shelfVars>>

\* Mutant of cancelCount: an approved count is not protected.
cancelCountApproved(c) ==
  /\ countStatus[c] \in {"DRAFT", "IN_PROGRESS", "COMPLETED"}
  /\ countStatus' = [countStatus EXCEPT ![c] = "CANCELLED"]
  /\ UNCHANGED <<inventoryVars, approved, lineVars, deviceVars, shelfVars>>

cancelCount(c) ==
  /\ countStatus[c] \in {"DRAFT", "IN_PROGRESS", "COMPLETED"}
  /\ c \notin approved
  /\ countStatus' = [countStatus EXCEPT ![c] = "CANCELLED"]
  /\ UNCHANGED <<inventoryVars, approved, lineVars, deviceVars, shelfVars>>

-----------------------------------------------------------------------------
(* The device *)

\* save: a counter looks at a lot and the entry is queued on their device, to be
\* sent in their session.  The sheet may be a cached one; a line with an entry
\* waiting there is not offered again.
SaveEntry(k, c, l, u) ==
  /\ look[k] = {}
  /\ countStatus[c] \notin {"ABSENT", "DRAFT"}
  /\ l \in Lines(c)
  /\ \A j \in queued : LookOf(j).lot = l /\ LookOf(j).count = c =>
                         LookOf(j).by # u
  /\ look' = [look EXCEPT ![k] = {[count |-> c, lot |-> l, by |-> u, quantity |-> shelf[l]]}]
  /\ queued' = queued \cup {k}
  /\ UNCHANGED <<inventoryVars, countStatus, approved, lineVars, paidAfter, reading, shelfVars>>

\* The answer reaches the device, which drops the entry (or marks it rejected
\* and never sends it again), or the answer is lost and it will send it again.
Answered(k) == queued' = queued \/ queued' = queued \ {k}

-----------------------------------------------------------------------------
(* submitCountLine *)

Recorded(k) ==
  \E c \in Counts, l \in Lots : k \in {countKey[c][l], recountKey[c][l]}

\* Mutant of MayRecount: whoever asks may recount.
MayRecountAlways(c, l, actor) == TRUE

\* A recount is for another person, unless nobody else is there.
MayRecount(c, l, actor) == actor \in countedBy[c][l] => Staff \ {actor} = {}

\* The reads, up to the lot's quantity and the current time.  A key that is
\* recorded is a replay; whatever may not be counted is refused.
BeginSubmit(k) ==
  LET c == LookOf(k).count
      l == LookOf(k).lot
      actor == LookOf(k).by
      accepted == /\ ~Recorded(k)
                  /\ countStatus[c] = "IN_PROGRESS"
                  /\ \/ lineStatus[c][l] = "PENDING"
                     \/ lineStatus[c][l] = "RECOUNT_REQUIRED" /\ MayRecount(c, l, actor)
  IN  /\ k \in queued
      /\ IF accepted
         THEN /\ reading' = [reading EXCEPT ![k] = @ \cup
                   {[status |-> lineStatus[c][l], actor |-> actor,
                     seen |-> quantityRemaining[l], paid |-> paidAfter[k]]}]
              /\ UNCHANGED queued
         ELSE Answered(k) /\ UNCHANGED reading
      /\ UNCHANGED <<inventoryVars, countStatus, approved, lineVars, look, paidAfter, shelfVars>>

\* Mutant of QuantityAtCount: the books when the entry arrives are used.
QuantityAtSync(r) == r.seen

\* The lot's books at the moment of the look: units paid since are added back.
QuantityAtCount(r) == r.seen + r.paid

\* exceedsRecountThreshold, for any thresholds and unit cost.
RecountNeeded(quantityAtCount, v) ==
  IF v = 0 THEN {FALSE} ELSE IF quantityAtCount <= 0 THEN {TRUE} ELSE BOOLEAN

\* Mutant of LineUnclaimed: the status is not compared.
LineUnclaimedAlways(c, l, r) == TRUE

\* updateMany where status = the status read.
LineUnclaimed(c, l, r) == lineStatus[c][l] = r.status

\* The write: the first count, or the recount that then stands.
ClaimLine(k, r) ==
  LET c == LookOf(k).count
      l == LookOf(k).lot
      v == LookOf(k).quantity - QuantityAtCount(r)
  IN  /\ r \in reading[k]
      /\ LineUnclaimed(c, l, r)
      /\ variance' = [variance EXCEPT ![c][l] = v]
      /\ IF r.status = "RECOUNT_REQUIRED"
         THEN /\ lineStatus' = [lineStatus EXCEPT ![c][l] = "RESOLVED"]
              /\ recountedBy' = [recountedBy EXCEPT ![c][l] = {r.actor}]
              /\ recountKey' = [recountKey EXCEPT ![c][l] = k]
              /\ UNCHANGED <<countedBy, countKey>>
         ELSE /\ \E again \in RecountNeeded(QuantityAtCount(r), v) :
                   lineStatus' = [lineStatus EXCEPT ![c][l] =
                                    IF again THEN "RECOUNT_REQUIRED" ELSE "COUNTED"]
              /\ countedBy' = [countedBy EXCEPT ![c][l] = {r.actor}]
              /\ countKey' = [countKey EXCEPT ![c][l] = k]
              /\ UNCHANGED <<recountedBy, recountKey>>
      /\ reading' = [reading EXCEPT ![k] = @ \ {r}]
      /\ Answered(k)
      /\ UNCHANGED <<inventoryVars, countStatus, approved, look, paidAfter, shelfVars>>

\* Somebody else changed the line since it was read: a replay or a 409.
LoseLine(k, r) ==
  /\ r \in reading[k]
  /\ ~LineUnclaimed(LookOf(k).count, LookOf(k).lot, r)
  /\ reading' = [reading EXCEPT ![k] = @ \ {r}]
  /\ Answered(k)
  /\ UNCHANGED <<inventoryVars, countStatus, approved, lineVars, look, paidAfter, shelfVars>>

-----------------------------------------------------------------------------
(* approveCount *)

VarianceLines(c) == {l \in Lots : variance[c][l] # 0}

\* The variance is a delta on the quantity of now.
CountTarget(c, l) == AtLeastZero(quantityRemaining[l] + variance[c][l])

\* The StockAdjustment and InventoryWriteOff rows of one line: a shortfall
\* has both.
CountEntry(c, l) ==
  LET delta == CountTarget(c, l) - quantityRemaining[l]
      rollupDelta == RollupDelta(l, CountTarget(c, l))
  IN  (IF rollupDelta # 0 THEN rollupDelta ELSE delta) + (IF delta < 0 THEN delta ELSE 0)

\* Mutant of approveCount: the rollup takes the variance of every lot.
approveCountAllLots(c, overrideBlockedLots) ==
  LET V == VarianceLines(c)
  IN  /\ countStatus[c] = "COMPLETED"
      /\ c \notin approved
      /\ overrideBlockedLots \/ \A l \in V : lotStatus[l] \notin {"QUARANTINED", "RECALLED"}
      /\ \A l \in V : lotStatus[l] = "ACTIVE" => CountTarget(c, l) >= quantityReserved[l]
      /\ approved' = approved \cup {c}
      /\ quantityRemaining' = [l \in Lots |-> IF l \in V THEN CountTarget(c, l) ELSE quantityRemaining[l]]
      /\ lotStatus' = [l \in Lots |-> IF l \in V THEN StatusAtTarget(l, CountTarget(c, l)) ELSE lotStatus[l]]
      /\ stock' = [p \in Products |-> stock[p] + Total(variance[c], V \cap LotsOf(p))]
      /\ ledger' = [l \in Lots |-> IF l \in V THEN ledger[l] + CountEntry(c, l) ELSE ledger[l]]
      /\ UNCHANGED <<quantityReserved, reserved, adjustments, countStatus, lineVars,
                     deviceVars, shelfVars>>

\* The count is claimed, then Product and Lot rows are locked and every line
\* with a variance goes through setLotRemaining; one refusal refuses all.
approveCount(c, overrideBlockedLots) ==
  LET V == VarianceLines(c)
  IN  /\ countStatus[c] = "COMPLETED"
      /\ c \notin approved
      /\ overrideBlockedLots \/ \A l \in V : lotStatus[l] \notin {"QUARANTINED", "RECALLED"}
      /\ \A l \in V : lotStatus[l] = "ACTIVE" => CountTarget(c, l) >= quantityReserved[l]
      /\ approved' = approved \cup {c}
      /\ quantityRemaining' = [l \in Lots |-> IF l \in V THEN CountTarget(c, l) ELSE quantityRemaining[l]]
      /\ lotStatus' = [l \in Lots |-> IF l \in V THEN StatusAtTarget(l, CountTarget(c, l)) ELSE lotStatus[l]]
      /\ stock' = [p \in Products |->
           stock[p] + Total([l \in Lots |-> RollupDelta(l, CountTarget(c, l))], V \cap LotsOf(p))]
      /\ ledger' = [l \in Lots |-> IF l \in V THEN ledger[l] + CountEntry(c, l) ELSE ledger[l]]
      /\ UNCHANGED <<quantityReserved, reserved, adjustments, countStatus, lineVars,
                     deviceVars, shelfVars>>

-----------------------------------------------------------------------------
(* The shop meanwhile *)

OneUnitOf(p) == [q \in Products |-> IF q = p THEN 1 ELSE 0]

\* Units a are paid for and a unit of lot m leaves the shelf, which need not be
\* the lot the till books.  A submission that has read the lot but not yet
\* summed the sales may find this one in its sum.
Pay(a, m, raced) ==
  /\ shelf[m] > 0
  /\ shelf' = [shelf EXCEPT ![m] = @ - 1]
  /\ paidAfter' = [k \in Keys |->
       IF look[k] = {} THEN 0 ELSE paidAfter[k] + a[LookOf(k).lot]]
  /\ reading' = [k \in Keys |->
       {IF raced THEN [r EXCEPT !.paid = @ + a[LookOf(k).lot]] ELSE r : r \in reading[k]}]
  /\ drift' = [k \in Keys |->
       IF look[k] = {} THEN 0
       ELSE drift[k] - a[LookOf(k).lot] + (IF LookOf(k).lot = m THEN 1 ELSE 0)]
  /\ UNCHANGED <<ledger, adjustments, countStatus, approved, lineVars, look, queued, losses>>

\* createSale, cash path.
SellUnit(p, m, raced) ==
  LET a == allocateFefo(OneUnitOf(p), FALSE)
  IN  /\ CanAllocate(OneUnitOf(p), FALSE)
      /\ consumeDirect(a)
      /\ Pay(a, m, raced)

\* createSale, card path.
HoldUnit(p) ==
  /\ CanAllocate(OneUnitOf(p), FALSE)
  /\ reserve(allocateFefo(OneUnitOf(p), FALSE))
  /\ UNCHANGED <<ledger, adjustments, countStatus, approved, lineVars, deviceVars, shelfVars>>

\* finalizePaidSale of a sale that holds a unit of l.
FinalizeHold(l, m, raced) ==
  LET a == [k \in Lots |-> IF k = l THEN 1 ELSE 0]
  IN  /\ quantityReserved[l] > 0 /\ quantityRemaining[l] > 0
      /\ consume(a, NoAllocation)
      /\ Pay(a, m, raced)

\* A unit goes missing, or breaks.
LoseUnit(l) ==
  /\ losses < MaxLosses
  /\ shelf[l] > 0
  /\ losses' = losses + 1
  /\ shelf' = [shelf EXCEPT ![l] = @ - 1]
  /\ drift' = [k \in Keys |-> IF k \in LooksAt(l) THEN drift[k] + 1 ELSE drift[k]]
  /\ UNCHANGED <<inventoryVars, countStatus, approved, lineVars, deviceVars>>

\* A manager notices a difference and adjusts the lot to what is there.
CorrectLot(l) ==
  /\ adjustLot(l, shelf[l])
  /\ UNCHANGED <<countStatus, approved, lineVars, deviceVars, shelfVars>>

LotLeavesSale(l) ==
  /\ quarantineLot(l) \/ runExpireLotsOnce(l)
  /\ UNCHANGED <<countStatus, approved, lineVars, deviceVars, shelfVars>>

CountStep(c) ==
  \/ \E scope \in SUBSET Lots : createCount(c, scope)
  \/ startCount(c)
  \/ completeCount(c)
  \/ cancelCount(c)
  \/ \E overrideBlockedLots \in BOOLEAN : approveCount(c, overrideBlockedLots)

EntryStep(k) ==
  \/ \E c \in Counts, l \in Lots, u \in Staff : SaveEntry(k, c, l, u)
  \/ BeginSubmit(k)
  \/ \E r \in reading[k] : ClaimLine(k, r) \/ LoseLine(k, r)

ShopStep ==
  \/ \E p \in Products : HoldUnit(p)
  \/ \E m \in Lots, raced \in {FALSE, Racing} :
       \/ SellUnit(ProductOf[m], m, raced)
       \/ \E l \in LotsOf(ProductOf[m]) : FinalizeHold(l, m, raced)
  \/ \E l \in Lots : LoseUnit(l) \/ CorrectLot(l) \/ LotLeavesSale(l)

Next ==
  \/ \E c \in Counts : CountStep(c)
  \/ \E k \in Keys : EntryStep(k)
  \/ ShopStep

Spec == Init /\ [][Next]_vars

-----------------------------------------------------------------------------
(* Properties *)

\* The look whose figure stands on a line.
StandingKey(c, l) == IF recountKey[c][l] # NoKey THEN recountKey[c][l] ELSE countKey[c][l]

\* Approval brings the books of every counted lot that is on sale to the shelf:
\* they differ by what happened after the look, and by nothing the count could
\* have seen.  Sales before the look, between look and arrival and between
\* arrival and approval are neither reported missing nor undone.  (A manual
\* adjustment of the lot after the look is not seen by the count.)
ApprovalMatchesShelf ==
  [][\A c \in approved' \ approved : \A l \in Lines(c) :
       lotStatus[l] \in {"ACTIVE", "DEPLETED"} /\ adjustments = 0 =>
         quantityRemaining'[l] = AtLeastZero(shelf[l] + drift[StandingKey(c, l)])]_vars

\* A unit that is on the shelf is not written off: where sales are booked on the
\* lot they are taken from, the books of a lot on sale never fall below its
\* shelf, so one shortfall is written off once, however many counts see it.
BooksCoverShelf ==
  adjustments = 0 =>
    \A l \in Lots : lotStatus[l] \in {"ACTIVE", "DEPLETED"} => quantityRemaining[l] >= shelf[l]

\* A line that needed a recount is settled by a second look, entered by
\* another person if there is one: a repeated delivery of the first look is
\* never taken for the recount.
RecountIsSecondEntry ==
  \A c \in Counts, l \in Lots : lineStatus[c][l] = "RESOLVED" =>
    /\ countKey[c][l] # recountKey[c][l]
    /\ countedBy[c][l] # recountedBy[c][l] \/ Cardinality(Staff) = 1

\* The figures of a COMPLETED count are final: a submission that began before
\* the count was completed, or a late delivery, cannot change what is approved.
CompletedIsFinal ==
  [][\A c \in Counts : countStatus[c] = "COMPLETED" => variance'[c] = variance[c]]_vars

\* Whatever is delivered twice, late or by two people, the rollup holds and a
\* recount is a second look.
CountsConsistent ==
  /\ TypeOK
  /\ StockRollup
  /\ RecountIsSecondEntry

\* What is approved is what was completed, and it brings the books to the shelf.
ApprovalFaithful ==
  /\ ApprovalMatchesShelf
  /\ CompletedIsFinal

=============================================================================
