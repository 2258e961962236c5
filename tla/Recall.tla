------------------------------- MODULE Recall -------------------------------
(***************************************************************************)
(* Product recalls (recall.service.ts): initiate quarantines the lots,     *)
(* activate writes them off and records who must be told, cancel returns   *)
(* them to sale, close ends the recall.                                    *)
(*                                                                         *)
(* Each operation reads before it locks Product and Lot rows, and the      *)
(* Recall row is never locked: the reads and the locked part are separate  *)
(* steps.  The till goes on selling meanwhile; its sales are seen here by  *)
(* what they do to the lots (Checkout has the rest).                       *)
(***************************************************************************)
EXTENDS Inventory

CONSTANTS
  Recalls,    \* recall ids, those not yet initiated included
  ScopeOf,    \* the lots each recall names
  Members,    \* members who buy
  Concurrent  \* whether two requests about one recall may be in flight at once

ASSUME RecallAssumption ==
  /\ ScopeOf \in [Recalls -> SUBSET Lots]
  /\ Concurrent \in BOOLEAN

VARIABLES
  recallStatus,  \* Recall.status, "ABSENT" before the row exists
  buyers,        \* per lot, the members with a sold SaleItemLot row of it
  notified,      \* RecallNotification rows
  initiating,    \* recalls whose lots passed the unlocked checks
  previewed,     \* recalls whose activation has the impact preview
  impact,        \* the members in that preview
  activating,    \* recalls whose activation read DRAFT
  cancelling,    \* recalls whose cancellation read DRAFT
  restoring,     \* the lots that cancellation read as QUARANTINED
  revived        \* a lot that joined a recall sold out has been adjusted upwards

requestVars == <<initiating, previewed, impact, activating, cancelling, restoring>>
recallVars == <<inventoryVars, recallStatus, buyers, notified, requestVars, revived>>

RecallTypeOK ==
  /\ InventoryTypeOK
  /\ recallStatus \in [Recalls -> {"ABSENT", "DRAFT", "ACTIVE", "COMPLETED", "CANCELLED"}]
  /\ buyers \in [Lots -> SUBSET Members]
  /\ notified \in [Recalls -> SUBSET Members]
  /\ initiating \subseteq {r \in Recalls : recallStatus[r] = "ABSENT"}
  /\ previewed \subseteq {r \in Recalls : recallStatus[r] # "ABSENT"}
  /\ impact \in [Recalls -> SUBSET Members]
  /\ activating \subseteq Recalls
  /\ cancelling \subseteq Recalls
  /\ restoring \in [Recalls -> SUBSET Lots]
  /\ revived \in BOOLEAN

RecallInit ==
  /\ InventoryInit
  /\ recallStatus = [r \in Recalls |-> "ABSENT"]
  /\ buyers = [l \in Lots |-> {}]
  /\ notified = [r \in Recalls |-> {}]
  /\ initiating = {}
  /\ previewed = {}
  /\ impact = [r \in Recalls |-> {}]
  /\ activating = {}
  /\ cancelling = {}
  /\ restoring = [r \in Recalls |-> {}]
  /\ revived = FALSE

\* A new request about recall r may start.
RequestMayStart(r) ==
  Concurrent \/ r \notin initiating \cup previewed \cup activating \cup cancelling

-----------------------------------------------------------------------------
(* initiateRecall *)

ReadLotsToRecall(r) ==
  /\ RequestMayStart(r)
  /\ recallStatus[r] = "ABSENT"
  /\ \A l \in ScopeOf[r] : /\ lotStatus[l] \in {"ACTIVE", "QUARANTINED"}
                           /\ quantityReserved[l] <= 0
  /\ initiating' = initiating \cup {r}
  /\ UNCHANGED <<inventoryVars, recallStatus, buyers, notified, previewed, impact,
                 activating, cancelling, restoring, revived>>

\* Mutant of InitiateRecall: the reservations are not checked under the locks.
InitiateUnchecked(r) ==
  /\ r \in initiating
  /\ initiating' = initiating \ {r}
  /\ leaveSellableRollup({l \in ScopeOf[r] : lotStatus[l] = "ACTIVE"}, "QUARANTINED")
  /\ recallStatus' = [recallStatus EXCEPT ![r] = "DRAFT"]
  /\ UNCHANGED <<ledger, adjustments, buyers, notified, previewed, impact,
                 activating, cancelling, restoring, revived>>

\* Mutant of InitiateRecall: the lots stay on sale until the activation.
InitiateOnSale(r) ==
  /\ r \in initiating
  /\ initiating' = initiating \ {r}
  /\ recallStatus' = [recallStatus EXCEPT ![r] = "DRAFT"]
  /\ UNCHANGED <<inventoryVars, buyers, notified, previewed, impact,
                 activating, cancelling, restoring, revived>>

\* Under the locks the reservations are checked again, the status is not: a
\* lot that is no longer ACTIVE joins the recall as it is.
InitiateRecall(r) ==
  /\ r \in initiating
  /\ initiating' = initiating \ {r}
  /\ IF \A l \in ScopeOf[r] : quantityReserved[l] <= 0
     THEN /\ leaveSellableRollup({l \in ScopeOf[r] : lotStatus[l] = "ACTIVE"}, "QUARANTINED")
          /\ recallStatus' = [recallStatus EXCEPT ![r] = "DRAFT"]
     ELSE UNCHANGED <<stockVars, recallStatus>>
  /\ UNCHANGED <<ledger, adjustments, buyers, notified, previewed, impact,
                 activating, cancelling, restoring, revived>>

-----------------------------------------------------------------------------
(* activateRecall *)

\* previewRecallImpact, before the transaction.
PreviewRecallImpact(r) ==
  /\ RequestMayStart(r)
  /\ recallStatus[r] # "ABSENT"
  /\ previewed' = previewed \cup {r}
  /\ impact' = [impact EXCEPT ![r] = UNION {buyers[l] : l \in ScopeOf[r]}]
  /\ UNCHANGED <<inventoryVars, recallStatus, buyers, notified, initiating,
                 activating, cancelling, restoring, revived>>

\* The unlocked read of the status; anything but DRAFT is refused.
ReadBeforeActivate(r) ==
  /\ r \in previewed
  /\ previewed' = previewed \ {r}
  /\ activating' = IF recallStatus[r] = "DRAFT" THEN activating \cup {r} ELSE activating
  /\ UNCHANGED <<inventoryVars, recallStatus, buyers, notified, initiating, impact,
                 cancelling, restoring, revived>>

\* Under the locks every lot of the recall is written off, whatever its status.
ActivateRecall(r) ==
  /\ r \in activating
  /\ activating' = activating \ {r}
  /\ recallDepleteLot(ScopeOf[r])
  /\ ledger' = [l \in Lots |-> IF l \in ScopeOf[r] THEN ledger[l] - OnShelf[l] ELSE ledger[l]]
  /\ notified' = [notified EXCEPT ![r] = @ \cup impact[r]]
  /\ recallStatus' = [recallStatus EXCEPT ![r] = "ACTIVE"]
  /\ UNCHANGED <<adjustments, buyers, initiating, previewed, impact, cancelling, restoring, revived>>

-----------------------------------------------------------------------------
(* cancelRecall and closeRecall *)

\* Mutant of ReadBeforeCancel: an ACTIVE recall may be cancelled too.
ReadBeforeCancelOpen(r) ==
  /\ RequestMayStart(r)
  /\ recallStatus[r] \in {"DRAFT", "ACTIVE"}
  /\ cancelling' = cancelling \cup {r}
  /\ restoring' = [restoring EXCEPT ![r] = QuarantinedAmong(ScopeOf[r])]
  /\ UNCHANGED <<inventoryVars, recallStatus, buyers, notified, initiating,
                 previewed, impact, activating, revived>>

\* The status and the lots are read outside the transaction.
ReadBeforeCancel(r) ==
  /\ RequestMayStart(r)
  /\ recallStatus[r] = "DRAFT"
  /\ cancelling' = cancelling \cup {r}
  /\ restoring' = [restoring EXCEPT ![r] = QuarantinedAmong(ScopeOf[r])]
  /\ UNCHANGED <<inventoryVars, recallStatus, buyers, notified, initiating,
                 previewed, impact, activating, revived>>

\* Mutant of CancelRecall: the recall is left in DRAFT.
CancelKeepsDraft(r) ==
  /\ r \in cancelling
  /\ cancelling' = cancelling \ {r}
  /\ returnToSellableRollup(restoring[r])
  /\ UNCHANGED <<ledger, adjustments, recallStatus, buyers, notified, initiating,
                 previewed, impact, activating, restoring, revived>>

\* Lots still QUARANTINED under the locks return to sale, whoever else
\* quarantined them.
CancelRecall(r) ==
  /\ r \in cancelling
  /\ cancelling' = cancelling \ {r}
  /\ returnToSellableRollup(restoring[r])
  /\ recallStatus' = [recallStatus EXCEPT ![r] = "CANCELLED"]
  /\ UNCHANGED <<ledger, adjustments, buyers, notified, initiating, previewed,
                 impact, activating, restoring, revived>>

CloseRecall(r) ==
  /\ RequestMayStart(r)
  /\ recallStatus[r] = "ACTIVE"
  /\ recallStatus' = [recallStatus EXCEPT ![r] = "COMPLETED"]
  /\ UNCHANGED <<inventoryVars, buyers, notified, requestVars, revived>>

-----------------------------------------------------------------------------
(* The till *)

OneUnitOf(p) == [q \in Products |-> IF q = p THEN 1 ELSE 0]

\* createSale, cash path.
SellUnit(p, m) ==
  /\ CanAllocate(OneUnitOf(p), FALSE)
  /\ consumeDirect(allocateFefo(OneUnitOf(p), FALSE))
  /\ buyers' = [l \in Lots |-> IF allocateFefo(OneUnitOf(p), FALSE)[l] > 0
                               THEN buyers[l] \cup {m} ELSE buyers[l]]
  /\ UNCHANGED <<ledger, adjustments, recallStatus, notified, requestVars, revived>>

\* createSale, card path.
HoldUnit(p) ==
  /\ CanAllocate(OneUnitOf(p), FALSE)
  /\ reserve(allocateFefo(OneUnitOf(p), FALSE))
  /\ UNCHANGED <<ledger, adjustments, recallStatus, buyers, notified, requestVars, revived>>

\* finalizePaidSale or settleUnpaidSale of a sale that holds a unit of l.
SettleHold(l, m) ==
  LET unit == [k \in Lots |-> IF k = l THEN 1 ELSE 0]
  IN  /\ quantityReserved[l] > 0
      /\ \/ release(unit) /\ UNCHANGED buyers
         \/ /\ quantityRemaining[l] > 0
            /\ consume(unit, NoAllocation)
            /\ buyers' = [buyers EXCEPT ![l] = @ \cup {m}]
      /\ UNCHANGED <<ledger, adjustments, recallStatus, notified, requestVars, revived>>

-----------------------------------------------------------------------------
(* The rest of the shop *)

OpenRecalls == {r \in Recalls : recallStatus[r] \in {"DRAFT", "ACTIVE"}}

\* Receipts, adjustments, quarantine and expiry.  A lot that sold out before it
\* was locked for its recall was not quarantined: an adjustment upwards puts it
\* on sale.
MaintainLots ==
  /\ InventoryNext
  /\ revived' = (revived \/ \E r \in OpenRecalls : \E l \in ScopeOf[r] :
                              lotStatus[l] = "DEPLETED" /\ lotStatus'[l] = "ACTIVE")
  /\ UNCHANGED <<recallStatus, buyers, notified, requestVars>>

RecallNext ==
  \/ \E r \in Recalls :
       \/ ReadLotsToRecall(r)
       \/ InitiateRecall(r)
       \/ PreviewRecallImpact(r)
       \/ ReadBeforeActivate(r)
       \/ ActivateRecall(r)
       \/ ReadBeforeCancel(r)
       \/ CancelRecall(r)
       \/ CloseRecall(r)
  \/ \E p \in Products, m \in Members : SellUnit(p, m)
  \/ \E p \in Products : HoldUnit(p)
  \/ \E l \in Lots, m \in Members : SettleHold(l, m)
  \/ MaintainLots

RecallSpec == RecallInit /\ [][RecallNext]_recallVars

-----------------------------------------------------------------------------
(* Properties *)

\* No unit of a lot under an open recall is on sale.
RecalledOffSale ==
  \A r \in OpenRecalls : \A l \in ScopeOf[r] : lotStatus[l] # "ACTIVE"

\* A lot that left sale carries no hold: a customer who is paying for a unit
\* is not overtaken by a quarantine or a recall of its lot.
NoHoldOffSale ==
  \A l \in Lots : lotStatus[l] \in {"QUARANTINED", "RECALLED", "EXPIRED"} =>
                    quantityReserved[l] = 0

\* Whoever bought a unit of a recalled lot has a notification row, although the
\* list of buyers is taken before the activation's transaction.
BuyersNotified ==
  \A r \in Recalls : recallStatus[r] \in {"ACTIVE", "COMPLETED"} =>
    \A l \in ScopeOf[r] : buyers[l] \subseteq notified[r]

\* Only a DRAFT is activated or cancelled, only an ACTIVE recall is closed, and
\* a recall that was cancelled or closed stays so.
RecallStatusOrder ==
  [][\A r \in Recalls : recallStatus'[r] # recallStatus[r] =>
       <<recallStatus[r], recallStatus'[r]>> \in
         {<<"ABSENT", "DRAFT">>, <<"DRAFT", "ACTIVE">>, <<"DRAFT", "CANCELLED">>,
          <<"ACTIVE", "COMPLETED">>}]_recallVars

\* A recall runs through its states in order.  It takes the goods off sale, with
\* nobody paying for them, and reaches everyone who bought them, unless a lot
\* that sold out before it was locked is adjusted upwards again.
RecallEffective ==
  /\ []RecallTypeOK
  /\ [](~revived => StockRollup /\ RecalledOffSale /\ NoHoldOffSale /\ BuyersNotified)
  /\ RecallStatusOrder

=============================================================================
