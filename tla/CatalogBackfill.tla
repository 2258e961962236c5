--------------------------- MODULE CatalogBackfill ---------------------------
(***************************************************************************)
(* The backfill of the network catalog (scripts/backfill-catalog.ts) for   *)
(* one sku, and the disagreements it records (catalog.service.ts).  The    *)
(* locations that list the sku may have named it differently: the script   *)
(* records the disagreement, makes or finds the catalog item, and links    *)
(* the products one by one, giving each the item's identity (here: its     *)
(* name).  There is no transaction; the script may stop anywhere and may   *)
(* be run again.  Other skus are treated alike and share nothing.          *)
(*                                                                         *)
(* Meanwhile stores change prices, and a network administrator renames the *)
(* item and accepts disagreements.                                         *)
(***************************************************************************)
EXTENDS FiniteSets, Integers

CONSTANTS
  Locations,  \* numbers, in the order of their ids
  Names,      \* numbers, in alphabetical order
  Tags,       \* prices
  MaxEdits,   \* price changes and renames in a behaviour
  NoItem

ASSUME BackfillAssumption ==
  /\ Locations \subseteq Nat /\ Names \subseteq Nat /\ Tags \subseteq Nat /\ MaxEdits \in Nat
  /\ IsFiniteSet(Locations) /\ Locations # {}  \* a sku is of some product
  /\ NoItem \notin [name : Names, ceiling : Tags]

VARIABLES
  listing,    \* the location's Product: name, price, and whether it is linked
  master,     \* the CatalogItem: name and maxShelfPrice, or NoItem
  disputes,   \* CatalogDisagreement rows
  backfill,   \* where the run is, with what it has read
  firstName,  \* the names before any run
  muddled,    \* a run was interrupted, or the item renamed while one was linking
  raised,     \* locations that changed their price after the last run read it
  misnamed,   \* the item's last change of name came while a run was linking
  edits       \* how many price changes and renames there have been

backfillVars == <<listing, master, disputes, backfill, firstName, muddled, raised, misnamed, edits>>

NotRunning == [at |-> "idle"]

BackfillTypeOK ==
  /\ listing \in [Locations -> [name : Names, price : Tags, linked : BOOLEAN]]
  /\ master \in [name : Names, ceiling : Tags] \cup {NoItem}
  /\ disputes \subseteq [values : SUBSET Names, chosen : Names, open : BOOLEAN]
  /\ backfill.at \in {"idle", "read", "recorded", "linking"}
  /\ raised \subseteq Locations
  /\ muddled \in BOOLEAN /\ misnamed \in BOOLEAN
  /\ edits \in 0 .. MaxEdits

BackfillInit ==
  /\ firstName \in [Locations -> Names]
  /\ \E price \in [Locations -> Tags] :
       listing = [l \in Locations |-> [name |-> firstName[l], price |-> price[l], linked |-> FALSE]]
  /\ master = NoItem /\ disputes = {}
  /\ backfill = NotRunning /\ muddled = FALSE /\ raised = {} /\ misnamed = FALSE /\ edits = 0

-----------------------------------------------------------------------------
(* The script *)

ReadProducts ==
  /\ backfill = NotRunning
  /\ backfill' = [at |-> "read", rows |-> listing]
  /\ UNCHANGED <<listing, master, disputes, firstName, muddled, raised, misnamed, edits>>

\* The most common value; of several, the first in alphabetical order.
mode(rows) ==
  LET count(n) == Cardinality({l \in Locations : rows[l].name = n})
  IN  CHOOSE n \in Names :
        /\ count(n) > 0
        /\ \A other \in Names : count(other) < count(n) \/ (count(other) = count(n) /\ n <= other)

Values(rows) == {rows[l].name : l \in Locations}

\* One open row per sku and field: it is updated, or a new one is made.
upsertOpenCatalogDisagreement(values, chosen) ==
  disputes' = {row \in disputes : ~row.open} \cup {[values |-> values, chosen |-> chosen, open |-> TRUE]}

\* Mutant of Disagree: a single dissenter is not worth a row.
DisagreeMuch(rows) == Cardinality(Values(rows)) > 2

Disagree(rows) == Cardinality(Values(rows)) > 1

RecordDisagreement ==
  /\ backfill.at = "read"
  /\ IF Disagree(backfill.rows)
     THEN upsertOpenCatalogDisagreement(Values(backfill.rows), mode(backfill.rows))
     ELSE UNCHANGED disputes
  /\ backfill' = [backfill EXCEPT !.at = "recorded"]
  /\ UNCHANGED <<listing, master, firstName, muddled, raised, misnamed, edits>>

maxPrice(rows) == CHOOSE t \in Tags : /\ \E l \in Locations : rows[l].price = t
                                      /\ \A l \in Locations : rows[l].price <= t

\* Mutant of Widened: the ceiling of an item that exists is left alone.
WidenedNot(item, rows) == item

\* "Keep ceiling at least as high as any current price"
Widened(item, rows) ==
  IF maxPrice(rows) > item.ceiling THEN [item EXCEPT !.ceiling = maxPrice(rows)] ELSE item

MakeItem ==
  /\ backfill.at = "recorded"
  /\ master' = IF master = NoItem
               THEN [name |-> mode(backfill.rows), ceiling |-> maxPrice(backfill.rows)]
               ELSE Widened(master, backfill.rows)
  /\ backfill' = [at |-> "linking", rows |-> backfill.rows, catalog |-> master', todo |-> Locations]
  /\ raised' = {l \in Locations : listing[l].price # backfill.rows[l].price}
  /\ UNCHANGED <<listing, disputes, firstName, muddled, misnamed, edits>>

NextToLink(l) ==
  backfill.at = "linking" /\ l \in backfill.todo /\ \A k \in backfill.todo : l <= k

\* Mutant of LinkProduct: products get the name this run would have chosen.
LinkProductToMode(l) ==
  /\ NextToLink(l)
  /\ listing' = IF backfill.rows[l].linked THEN listing
                ELSE [listing EXCEPT ![l].linked = TRUE, ![l].name = mode(backfill.rows)]
  /\ backfill' = IF backfill.todo = {l} THEN NotRunning ELSE [backfill EXCEPT !.todo = @ \ {l}]
  /\ UNCHANGED <<master, disputes, firstName, muddled, raised, misnamed, edits>>

\* A product that was linked when it was read is passed over.
LinkProduct(l) ==
  /\ NextToLink(l)
  /\ listing' = IF backfill.rows[l].linked THEN listing
                ELSE [listing EXCEPT ![l].linked = TRUE, ![l].name = backfill.catalog.name]
  /\ backfill' = IF backfill.todo = {l} THEN NotRunning ELSE [backfill EXCEPT !.todo = @ \ {l}]
  /\ UNCHANGED <<master, disputes, firstName, muddled, raised, misnamed, edits>>

StopBackfill ==
  /\ backfill # NotRunning
  /\ backfill' = NotRunning /\ muddled' = TRUE
  /\ UNCHANGED <<listing, master, disputes, firstName, raised, misnamed, edits>>

-----------------------------------------------------------------------------
(* The others *)

\* updateProduct: only a linked product has a ceiling.
ChangePrice(l, price) ==
  /\ edits < MaxEdits /\ edits' = edits + 1
  /\ listing[l].price # price
  /\ listing[l].linked => price <= master.ceiling
  /\ listing' = [listing EXCEPT ![l].price = price]
  /\ raised' = IF backfill.at = "linking" THEN raised \cup {l} ELSE raised
  /\ UNCHANGED <<master, disputes, backfill, firstName, muddled, misnamed>>

\* updateCatalogItem: the new name goes to the linked products.
RenameItem(n) ==
  /\ edits < MaxEdits /\ edits' = edits + 1
  /\ master # NoItem /\ master.name # n
  /\ master' = [master EXCEPT !.name = n]
  /\ listing' = [l \in Locations |-> IF listing[l].linked THEN [listing[l] EXCEPT !.name = n] ELSE listing[l]]
  /\ misnamed' = (backfill.at = "linking")
  /\ muddled' = (muddled \/ backfill.at = "linking")
  /\ UNCHANGED <<disputes, backfill, firstName, raised>>

resolveCatalogDisagreement(row) ==
  /\ row.open
  /\ disputes' = (disputes \ {row}) \cup {[row EXCEPT !.open = FALSE]}
  /\ UNCHANGED <<listing, master, backfill, firstName, muddled, raised, misnamed, edits>>

BackfillNext ==
  \/ ReadProducts \/ RecordDisagreement \/ MakeItem \/ StopBackfill
  \/ \E l \in Locations : LinkProduct(l) \/ \E t \in Tags : ChangePrice(l, t)
  \/ \E n \in Names : RenameItem(n)
  \/ \E row \in disputes : resolveCatalogDisagreement(row)

BackfillSpec == BackfillInit /\ [][BackfillNext]_backfillVars

-----------------------------------------------------------------------------
(* Properties *)

\* A name the backfill has replaced can be looked up in a disagreement, unless
\* a run was interrupted, or the item renamed while it was linking: the products
\* then disagree when the next one reads them, it no longer sees the names that
\* had been replaced, and it updates the row.
ReplacedNameOnRecord ==
  \A l \in Locations :
    (listing[l].linked /\ ~muddled /\ \E k \in Locations : firstName[k] # firstName[l]) =>
      \E row \in disputes : firstName[l] \in row.values

\* "so no existing price is over ceiling": no linked product costs more than
\* the item's ceiling, whatever was interrupted, unless its store changed the
\* price while the script ran.
BackfillCoversPrices ==
  \A l \in Locations \ raised : listing[l].linked => listing[l].price <= master.ceiling

\* Linked products have the item's name, across interrupted runs and renames,
\* unless the item was renamed while a run was linking: the products left get
\* the old name, for good.
LinkedShareName ==
  misnamed \/ \A l \in Locations : listing[l].linked => listing[l].name = master.name

\* Wherever the backfill stops and however often it runs, what it has linked
\* has one name, is under the ceiling, and the names it replaced are on record.
BackfillFaithful ==
  /\ BackfillTypeOK
  /\ ReplacedNameOnRecord
  /\ BackfillCoversPrices
  /\ LinkedShareName

=============================================================================
