----------------------------- MODULE LegacyLots -----------------------------
(***************************************************************************)
(* The migration to lots (scripts/migrate-legacy-lots.ts): every product   *)
(* with stock gets one LEGACY lot, with the stock and the holds that the   *)
(* script read when it began.  It runs without a transaction, may stop     *)
(* anywhere, and may be run again ("Idempotent - safe to run twice").      *)
(*                                                                         *)
(* The shops are open: goods are received into lots of their own and units *)
(* are sold from lots, which moves Product.stock by the same amount (the   *)
(* stock engine).  A lot without units is DEPLETED; its row stays.         *)
(***************************************************************************)
EXTENDS Integers

CONSTANTS LegacyGoods, MaxShelf, NoLot

Row == [stock : 0 .. 3 * MaxShelf, reserved : 0 .. MaxShelf]
LotRow == [remaining : 0 .. 3 * MaxShelf, reserved : 0 .. MaxShelf]

ASSUME LegacyAssumption == MaxShelf \in Nat /\ NoLot \notin LotRow

VARIABLES
  rollup,     \* Product.stock and Product.reserved
  legacyLot,  \* the row LEGACY-<sku>: quantityRemaining and quantityReserved, or NoLot
  received,   \* units in the product's other lots
  script,     \* where the run is, with the rows it has read
  outcome,    \* how the last run ended
  shelf,      \* units really there
  early,      \* products received into lots before they had a LEGACY lot
  busy        \* something moved while the lots were being verified

legacyVars == <<rollup, legacyLot, received, script, outcome, shelf, early, busy>>

NotStarted == [at |-> "idle"]

LegacyTypeOK ==
  /\ rollup \in [LegacyGoods -> Row]
  /\ legacyLot \in [LegacyGoods -> LotRow \cup {NoLot}]
  /\ received \in [LegacyGoods -> 0 .. MaxShelf]
  /\ script.at \in {"idle", "creating", "verifying"}
  /\ outcome \in {"none", "ok", "failed", "stopped"}
  /\ shelf \in [LegacyGoods -> 0 .. MaxShelf]
  /\ early \subseteq LegacyGoods
  /\ busy \in BOOLEAN

\* Stock without lots, some of it held by pending sales.
LegacyInit ==
  /\ shelf \in [LegacyGoods -> 0 .. MaxShelf]
  /\ \E held \in [LegacyGoods -> 0 .. 1] :
       /\ \A p \in LegacyGoods : held[p] <= shelf[p]
       /\ rollup = [p \in LegacyGoods |-> [stock |-> shelf[p], reserved |-> held[p]]]
  /\ legacyLot = [p \in LegacyGoods |-> NoLot]
  /\ received = [p \in LegacyGoods |-> 0]
  /\ script = NotStarted /\ outcome = "none" /\ early = {} /\ busy = FALSE

-----------------------------------------------------------------------------
(* The shops *)

Moved(p, units) ==
  /\ rollup' = [rollup EXCEPT ![p].stock = @ + units]
  /\ shelf' = [shelf EXCEPT ![p] = @ + units]
  /\ busy' = (busy \/ script.at = "verifying")
  /\ UNCHANGED <<script, outcome>>

ReceiveIntoLot(p) ==
  /\ shelf[p] < MaxShelf /\ received[p] < MaxShelf
  /\ Moved(p, 1)
  /\ received' = [received EXCEPT ![p] = @ + 1]
  /\ early' = IF legacyLot[p] = NoLot THEN early \cup {p} ELSE early
  /\ UNCHANGED legacyLot

\* Whichever lot comes first; holds are kept.
SellFromLot(p) ==
  /\ shelf[p] > 0
  /\ \/ received[p] > 0 /\ received' = [received EXCEPT ![p] = @ - 1] /\ UNCHANGED legacyLot
     \/ /\ legacyLot[p] # NoLot
        /\ legacyLot[p].remaining > legacyLot[p].reserved
        /\ legacyLot' = [legacyLot EXCEPT ![p].remaining = @ - 1]
        /\ UNCHANGED received
  /\ Moved(p, -1)
  /\ UNCHANGED early

-----------------------------------------------------------------------------
(* The script *)

\* productsWithStock
BeginMigration ==
  /\ script = NotStarted
  /\ script' = [at |-> "creating", rows |-> rollup, todo |-> {p \in LegacyGoods : rollup[p].stock > 0}]
  /\ outcome' = "none"
  /\ UNCHANGED <<rollup, legacyLot, received, shelf, early, busy>>

\* Mutant of Existing: only an ACTIVE lot is found.
ExistingActive(p) == legacyLot[p] # NoLot /\ legacyLot[p].remaining > 0

\* The row is looked up by its key, depleted or not.
Existing(p) == legacyLot[p] # NoLot

MigrateProduct(p) ==
  /\ script.at = "creating" /\ p \in script.todo
  /\ script' = [script EXCEPT !.todo = @ \ {p}]
  /\ legacyLot' = IF Existing(p) THEN legacyLot
                  ELSE [legacyLot EXCEPT ![p] = [remaining |-> script.rows[p].stock,
                                                 reserved |-> script.rows[p].reserved]]
  /\ UNCHANGED <<rollup, received, outcome, shelf, early, busy>>

\* allProducts
BeginVerification ==
  /\ script.at = "creating" /\ script.todo = {}
  /\ script' = [at |-> "verifying", rows |-> rollup]
  /\ busy' = FALSE
  /\ UNCHANGED <<rollup, legacyLot, received, outcome, shelf, early>>

\* lotAggs, the sums over the product's ACTIVE lots
InLots(p) == received[p] + (IF legacyLot[p] = NoLot THEN 0 ELSE legacyLot[p].remaining)
HeldInLots(p) == IF legacyLot[p] = NoLot THEN 0 ELSE legacyLot[p].reserved

\* Mutant of Mismatch: more in the lots than in stock is tolerated.
MismatchShort(p) == InLots(p) < script.rows[p].stock \/ HeldInLots(p) # script.rows[p].reserved

Mismatch(p) == InLots(p) # script.rows[p].stock \/ HeldInLots(p) # script.rows[p].reserved

EndMigration ==
  /\ script.at = "verifying"
  /\ outcome' = IF \E p \in LegacyGoods : Mismatch(p) THEN "failed" ELSE "ok"
  /\ script' = NotStarted
  /\ UNCHANGED <<rollup, legacyLot, received, shelf, early, busy>>

\* A crash, or a statement that fails.
StopMigration ==
  /\ script # NotStarted
  /\ script' = NotStarted /\ outcome' = "stopped"
  /\ UNCHANGED <<rollup, legacyLot, received, shelf, early, busy>>

LegacyNext ==
  \/ \E p \in LegacyGoods : ReceiveIntoLot(p) \/ SellFromLot(p) \/ MigrateProduct(p)
  \/ BeginMigration \/ BeginVerification \/ EndMigration \/ StopMigration

LegacySpec == LegacyInit /\ [][LegacyNext]_legacyVars

-----------------------------------------------------------------------------
(* Properties *)

\* However often the script runs or stops, the lots of a product it has
\* migrated hold the units that are there and the holds on them, unless goods
\* had gone into other lots before: those are counted twice.
LegacyUnitsExact ==
  \A p \in LegacyGoods \ early :
    legacyLot[p] # NoLot =>
      InLots(p) = shelf[p] /\ rollup[p] = [stock |-> shelf[p], reserved |-> HeldInLots(p)]

\* "Verification OK" is true, and stays true, unless something was moved
\* between its two reads.
VerifiedMeansTracked ==
  (outcome = "ok" /\ ~busy) =>
    \A p \in LegacyGoods : rollup[p] = [stock |-> InLots(p), reserved |-> HeldInLots(p)]

\* The migration invents and loses no unit, and its verification can be trusted.
MigrationExact ==
  /\ LegacyTypeOK
  /\ LegacyUnitsExact
  /\ VerifiedMeansTracked

=============================================================================
