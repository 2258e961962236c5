------------------------------ MODULE Barcodes ------------------------------
(***************************************************************************)
(* The barcode registry of one store (barcode.service.ts): product codes,  *)
(* lot labels and SKUs, what a scan resolves to, and the locks that the    *)
(* registrations take.  A code is a model value, case folded; Expansion    *)
(* maps a UPC-E to the UPC-A it stands for (lib/barcode.ts, modelled in    *)
(* Gs1).  receiveGoods claims a lot label the way setLotBarcode does.      *)
(*                                                                         *)
(* Inserting a ProductBarcode makes Postgres take a key-share lock on the  *)
(* product, which waits for a transaction that holds the product FOR       *)
(* UPDATE.                                                                 *)
(***************************************************************************)
EXTENDS Naturals, FiniteSets

CONSTANTS
  Goods,      \* products of the store
  LabelLots, GoodsOf,
  Codes,
  SkuCodes,   \* codes that a SKU may be
  Expansion,  \* UPC-E -> UPC-A
  Gtins,      \* codes with a valid check digit
  Clerks,     \* requests being served
  Nobody

Steps == {"lockProduct", "lockStore", "check", "write"}

\* A registration under way: a product barcode, or the label of one lot.
Requests == [op : {"add", "label"}, product : Goods, lot : SUBSET LabelLots,
             code : Codes \cup {Nobody}, step : Steps]

ASSUME BarcodesAssumption ==
  /\ IsFiniteSet(Goods)
  /\ Nobody \notin Goods \cup Codes \cup Clerks \cup Requests
  /\ GoodsOf \in [LabelLots -> Goods]
  /\ SkuCodes \subseteq Codes
  /\ DOMAIN Expansion \subseteq Codes
  /\ \A c \in DOMAIN Expansion : Expansion[c] \in Codes \ DOMAIN Expansion

VARIABLES
  sku,          \* Product.sku, Nobody before the product exists
  barcodeOf,    \* ProductBarcode: code -> product or Nobody
  label,        \* Lot.barcode
  storeLock,    \* pg_advisory_xact_lock of the store's barcodes
  productLock,  \* Product rows locked FOR UPDATE
  clerk,        \* requests: operation, arguments and progress
  renamed       \* codes that became a SKU when they were registered already

barcodeVars == <<sku, barcodeOf, label, storeLock, productLock, clerk, renamed>>
tables == <<sku, barcodeOf, label>>

BarcodeTypeOK ==
  /\ sku \in [Goods -> Codes \cup {Nobody}]
  /\ barcodeOf \in [Codes -> Goods \cup {Nobody}]
  /\ label \in [LabelLots -> Codes \cup {Nobody}]
  /\ storeLock \in Clerks \cup {Nobody}
  /\ productLock \in [Goods -> Clerks \cup {Nobody}]
  /\ clerk \in [Clerks -> Requests \cup {Nobody}]
  \* Locks are held by requests under way only.
  /\ storeLock # Nobody => clerk[storeLock] # Nobody
  /\ \A p \in Goods : productLock[p] # Nobody => clerk[productLock[p]] # Nobody

BarcodeInit ==
  /\ sku = [p \in Goods |-> Nobody]
  /\ barcodeOf = [c \in Codes |-> Nobody]
  /\ label = [l \in LabelLots |-> Nobody]
  /\ storeLock = Nobody
  /\ productLock = [p \in Goods |-> Nobody]
  /\ clerk = [k \in Clerks |-> Nobody]
  /\ renamed = {}

-----------------------------------------------------------------------------
(* Looking a code up *)

lookupCandidates(c) == {c} \cup (IF c \in DOMAIN Expansion THEN {Expansion[c]} ELSE {})

Labelled(c) == {l \in LabelLots : label[l] = c}

\* The products a scan of c may mean: a lot label, product barcodes, SKUs.
\* (Lot numbers are asked only when there is no match at all.)
lookupBarcode(c) ==
  {GoodsOf[l] : l \in Labelled(c)}
    \cup {barcodeOf[d] : d \in {d \in lookupCandidates(c) : barcodeOf[d] # Nobody}}
    \cup {p \in Goods : sku[p] = c}

\* Mutant of resolveCountScan: the expansion of a UPC-E is not tried.
resolveCountScanAsScanned(c) ==
  LET byLotLabel == {GoodsOf[l] : l \in Labelled(c)}
      byProductCode == {barcodeOf[c]} \ {Nobody}
      bySku == {p \in Goods : sku[p] = c}
  IN  CASE byLotLabel # {} -> byLotLabel
        [] byLotLabel = {} /\ byProductCode # {} -> byProductCode
        [] OTHER -> bySku

\* The same on the counting screen, from the count's own lines: the lot label
\* first, then product codes, then SKUs.  Here the label may match the
\* expansion as well.
resolveCountScan(c) ==
  LET byLotLabel == {GoodsOf[l] : l \in {l \in LabelLots : label[l] \in lookupCandidates(c)}}
      byProductCode == {barcodeOf[d] : d \in {d \in lookupCandidates(c) : barcodeOf[d] # Nobody}}
      bySku == {p \in Goods : sku[p] = c}
  IN  CASE byLotLabel # {} -> byLotLabel
        [] byLotLabel = {} /\ byProductCode # {} -> byProductCode
        [] OTHER -> bySku

-----------------------------------------------------------------------------
(* Registration *)

\* Mutant of assertBarcodeFree: lot labels are not looked at.
assertBarcodeFreeOfLots(c, exceptProduct, exceptLot) ==
  /\ barcodeOf[c] = Nobody
  /\ \A p \in Goods \ exceptProduct : sku[p] # c

assertBarcodeFree(c, exceptProduct, exceptLot) ==
  /\ barcodeOf[c] = Nobody
  /\ Labelled(c) \subseteq exceptLot
  /\ \A p \in Goods \ exceptProduct : sku[p] # c

\* A UPC-E is stored as its expansion, unless it is an INTERNAL code.
Stored(c, kind) == IF kind = "GTIN" /\ c \in DOMAIN Expansion THEN Expansion[c] ELSE c

Start(k, request) == clerk[k] = Nobody /\ clerk' = [clerk EXCEPT ![k] = request]

Goto(k, step) == clerk' = [clerk EXCEPT ![k].step = step]

\* Commit or rollback.
Release(k) ==
  /\ storeLock' = IF storeLock = k THEN Nobody ELSE storeLock
  /\ productLock' = [p \in Goods |-> IF productLock[p] = k THEN Nobody ELSE productLock[p]]
  /\ clerk' = [clerk EXCEPT ![k] = Nobody]

addProductBarcode(k, p, c, kind) ==
  /\ sku[p] # Nobody
  /\ kind = "GTIN" => c \in Gtins
  /\ Start(k, [op |-> "add", product |-> p, lot |-> {}, code |-> Stored(c, kind), step |-> "lockStore"])
  /\ UNCHANGED <<tables, storeLock, productLock, renamed>>

\* code Nobody clears the label.
setLotBarcode(k, l, code) ==
  /\ sku[GoodsOf[l]] # Nobody
  /\ Start(k, [op |-> "label", product |-> GoodsOf[l], lot |-> {l}, code |-> code,
               step |-> "lockProduct"])
  /\ UNCHANGED <<tables, storeLock, productLock, renamed>>

\* The product and then the lot; a lot is never locked without its product.
lockProducts(k) ==
  /\ clerk[k] # Nobody /\ clerk[k].step = "lockProduct"
  /\ productLock[clerk[k].product] = Nobody
  /\ productLock' = [productLock EXCEPT ![clerk[k].product] = k]
  /\ Goto(k, IF clerk[k].code = Nobody THEN "write" ELSE "lockStore")
  /\ UNCHANGED <<tables, storeLock, renamed>>

\* Mutant of lockStoreBarcodes: nobody waits.
lockStoreBarcodesShared(k) ==
  /\ clerk[k] # Nobody /\ clerk[k].step = "lockStore"
  /\ storeLock' = k
  /\ Goto(k, "check")
  /\ UNCHANGED <<tables, productLock, renamed>>

lockStoreBarcodes(k) ==
  /\ clerk[k] # Nobody /\ clerk[k].step = "lockStore"
  /\ storeLock = Nobody
  /\ storeLock' = k
  /\ Goto(k, "check")
  /\ UNCHANGED <<tables, productLock, renamed>>

CheckFree(k) ==
  /\ clerk[k] # Nobody /\ clerk[k].step = "check"
  /\ IF assertBarcodeFree(clerk[k].code,
          IF clerk[k].op = "add" THEN {clerk[k].product} ELSE {}, clerk[k].lot)
     THEN Goto(k, "write") /\ UNCHANGED <<storeLock, productLock>>
     ELSE Release(k)
  /\ UNCHANGED <<tables, renamed>>

\* The insert waits for the product; a product deleted meanwhile is an error.
InsertBarcode(k) ==
  /\ clerk[k] # Nobody /\ clerk[k].op = "add" /\ clerk[k].step = "write"
  /\ productLock[clerk[k].product] = Nobody
  /\ barcodeOf' = IF sku[clerk[k].product] # Nobody
                  THEN [barcodeOf EXCEPT ![clerk[k].code] = clerk[k].product] ELSE barcodeOf
  /\ Release(k)
  /\ UNCHANGED <<sku, label, renamed>>

\* Mutant of WriteLabel: the locks are kept.
WriteLabelHolding(k) ==
  /\ clerk[k] # Nobody /\ clerk[k].op = "label" /\ clerk[k].step = "write"
  /\ label' = [l \in LabelLots |-> IF l \in clerk[k].lot THEN clerk[k].code ELSE label[l]]
  /\ clerk' = [clerk EXCEPT ![k] = Nobody]
  /\ UNCHANGED <<sku, barcodeOf, storeLock, productLock, renamed>>

WriteLabel(k) ==
  /\ clerk[k] # Nobody /\ clerk[k].op = "label" /\ clerk[k].step = "write"
  /\ label' = [l \in LabelLots |-> IF l \in clerk[k].lot THEN clerk[k].code ELSE label[l]]
  /\ Release(k)
  /\ UNCHANGED <<sku, barcodeOf, renamed>>

removeProductBarcode(c) ==
  /\ barcodeOf[c] # Nobody
  /\ barcodeOf' = [barcodeOf EXCEPT ![c] = Nobody]
  /\ UNCHANGED <<sku, label, storeLock, productLock, clerk, renamed>>

-----------------------------------------------------------------------------
(* SKUs change without a look at the registered codes. *)

InUse(c) ==
  \/ barcodeOf[c] # Nobody
  \/ Labelled(c) # {}
  \/ \E k \in Clerks : clerk[k] # Nobody /\ clerk[k].step = "write" /\ clerk[k].code = c

\* A new product (createProduct) or a new sku of its catalog item
\* (updateCatalogItem, which waits for the product's lock); the sku is unique
\* in the store.
SetSku(p, c) ==
  /\ productLock[p] = Nobody
  /\ \A q \in Goods : sku[q] # c
  /\ sku' = [sku EXCEPT ![p] = c]
  /\ renamed' = IF InUse(c) THEN renamed \cup {c} ELSE renamed
  /\ UNCHANGED <<barcodeOf, label, storeLock, productLock, clerk>>

-----------------------------------------------------------------------------
(* Postgres finds a cycle of waiting transactions and aborts one of them.  *)

\* Whom k waits for.
WaitsFor(k) ==
  IF clerk[k] = Nobody THEN {}
  ELSE CASE clerk[k].step = "lockProduct" -> {productLock[clerk[k].product]} \ {Nobody}
         [] clerk[k].step = "lockStore" -> {storeLock} \ {Nobody}
         [] clerk[k].step = "write" /\ clerk[k].op = "add" ->
              {productLock[clerk[k].product]} \ {Nobody}
         [] OTHER -> {}

\* Whoever holds the store lock waits for a product at most, and whoever holds
\* a product waits for the store lock at most: every cycle is one of two.
InCycle(k) == \E j \in WaitsFor(k) : k \in WaitsFor(j)

AbortDeadlocked(k) ==
  /\ InCycle(k)
  /\ Release(k)
  /\ UNCHANGED <<tables, renamed>>

-----------------------------------------------------------------------------

Serve(k) ==
  \/ lockProducts(k)
  \/ lockStoreBarcodes(k)
  \/ CheckFree(k)
  \/ InsertBarcode(k)
  \/ WriteLabel(k)
  \/ AbortDeadlocked(k)

BarcodeNext ==
  \/ \E k \in Clerks :
       \/ \E p \in Goods, c \in Codes, kind \in {"GTIN", "INTERNAL"} : addProductBarcode(k, p, c, kind)
       \/ \E l \in LabelLots, code \in Codes \cup {Nobody} : setLotBarcode(k, l, code)
       \/ Serve(k)
  \/ \E c \in Codes : removeProductBarcode(c)
  \/ \E p \in Goods, c \in SkuCodes : SetSku(p, c)

BarcodeSpec == BarcodeInit /\ [][BarcodeNext]_barcodeVars

-----------------------------------------------------------------------------
(* Properties *)

\* Within a store a code is registered once: as a product barcode or as the
\* label of one lot.  (Two tables: only the advisory lock keeps two
\* registrations of the same code apart.)
RegisteredOnce ==
  \A c \in Codes :
    /\ Cardinality(Labelled(c)) <= 1
    /\ Labelled(c) # {} => barcodeOf[c] = Nobody

\* A scan means one product, as long as no SKU was set to a code in use.  (A
\* UPC-E registered as an INTERNAL code may mean another product than the
\* UPC-A it stands for.)
ScanMeansOneProduct ==
  \A c \in Codes \ (DOMAIN Expansion \cup renamed) : Cardinality(lookupBarcode(c)) <= 1

\* The counting screen, which works without the server, finds the product the
\* server finds, unless a lot label is the expansion of what was scanned.
DeviceAgrees ==
  \A c \in Codes :
    (/\ Cardinality(lookupBarcode(c)) = 1
     /\ \A d \in lookupCandidates(c) \ {c} : Labelled(d) = {})
    => resolveCountScan(c) = lookupBarcode(c)

\* Whichever registrations overlap, a scan finds one product, and the same one
\* on the server and on the device.
RegistrySound ==
  /\ BarcodeTypeOK
  /\ RegisteredOnce
  /\ ScanMeansOneProduct
  /\ DeviceAgrees

=============================================================================
