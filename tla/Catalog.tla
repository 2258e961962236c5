------------------------------- MODULE Catalog -------------------------------
(***************************************************************************)
(* The network catalog and the products of the stores                      *)
(* (catalog.service.ts; createProduct, updateProduct and deleteProduct of  *)
(* inventory.service.ts).  A catalog item owns the identity of its         *)
(* products (here: the sku) and a ceiling for their price at retail.       *)
(*                                                                         *)
(* Transactions run at READ COMMITTED, so a plain read of the catalog item *)
(* protects nothing: createProduct and updateProduct read it in one step   *)
(* and write in another, and updateCatalogItem reads the item before its   *)
(* transaction begins.  The transaction of updateCatalogItem itself is one *)
(* step: it updates, and so locks, every linked product before it looks    *)
(* for prices to clamp.                                                    *)
(***************************************************************************)
EXTENDS Integers

CONSTANTS
  Items, Listings, Requests,
  Stores, Warehouses,   \* Warehouses \subseteq Stores: nothing is sold there
  Skus, Prices,
  Changes,              \* updateCatalogItem inputs: records of some of sku, ceiling, active
  Nothing

ItemRow == [sku : Skus, ceiling : Prices, active : BOOLEAN]
ProductRow == [store : Stores, item : Items, sku : Skus, price : Prices]

\* What a request under way has read, and whether its item was changed since.
CreateRequest == [op : {"create"}, item : Items, product : Listings, store : Stores,
                  read : ItemRow, price : Prices, overtaken : BOOLEAN]
PriceRequest == [op : {"price"}, item : Items, product : Listings, price : Prices,
                 overtaken : BOOLEAN]
UpdateRequest == [op : {"update"}, item : Items, read : ItemRow, change : Changes,
                  overtaken : BOOLEAN]
RequestRow == CreateRequest \cup PriceRequest \cup UpdateRequest

ASSUME CatalogAssumption ==
  /\ Warehouses \subseteq Stores
  /\ Prices \subseteq Nat
  /\ \A change \in Changes :
       /\ "sku" \in DOMAIN change => change["sku"] \in Skus
       /\ "ceiling" \in DOMAIN change => change["ceiling"] \in Prices
       /\ "active" \in DOMAIN change => change["active"] \in BOOLEAN
  /\ Nothing \notin ItemRow \cup ProductRow \cup RequestRow

VARIABLES
  item,     \* CatalogItem: sku, maxShelfPrice (ceiling), isActive
  product,  \* Product: store, item, sku, price
  desk,     \* requests under way, with what they have read
  crossed   \* items written by a request that another update had overtaken

catalogVars == <<item, product, desk, crossed>>

CatalogTypeOK ==
  /\ item \in [Items -> ItemRow \cup {Nothing}]
  /\ product \in [Listings -> ProductRow \cup {Nothing}]
  /\ desk \in [Requests -> RequestRow \cup {Nothing}]
  /\ \A r \in Requests : desk[r] # Nothing => item[desk[r].item] # Nothing
  /\ crossed \subseteq Items
  \* The unique indexes.
  /\ \A i, j \in Items :
       i # j /\ item[i] # Nothing /\ item[j] # Nothing => item[i].sku # item[j].sku
  /\ \A p, q \in Listings :
       p # q /\ product[p] # Nothing /\ product[q] # Nothing /\ product[p].store = product[q].store
         => product[p].sku # product[q].sku

CatalogInit ==
  /\ item = [i \in Items |-> Nothing]
  /\ product = [p \in Listings |-> Nothing]
  /\ desk = [r \in Requests |-> Nothing]
  /\ crossed = {}

-----------------------------------------------------------------------------

OfItem(i) == {p \in Listings : product[p] # Nothing /\ product[p].item = i}

SkuTaken(sku) == \E i \in Items : item[i] # Nothing /\ item[i].sku = sku

createCatalogItem(i, sku, ceiling) ==
  /\ item[i] = Nothing
  /\ ~SkuTaken(sku)
  /\ item' = [item EXCEPT ![i] = [sku |-> sku, ceiling |-> ceiling, active |-> TRUE]]
  /\ UNCHANGED <<product, desk, crossed>>

Begin(r, request) == desk' = [desk EXCEPT ![r] = request]

End(r) == desk' = [desk EXCEPT ![r] = Nothing]

\* A write that rests on a read which is out of date by now.
Crossed(r) == IF desk[r].overtaken THEN crossed \cup {desk[r].item} ELSE crossed

\* The price a new product gets: a warehouse stores the ceiling.
CeilingCheck(store, price, ceiling) == store \in Warehouses \/ price <= ceiling

\* Ids are fresh: no request knows the one that is given to a new product.
InHand(p) ==
  \E r \in Requests : desk[r] # Nothing /\ desk[r].op # "update" /\ desk[r].product = p

readForCreate(r, p, store, i, price) ==
  /\ desk[r] = Nothing
  /\ product[p] = Nothing /\ ~InHand(p)
  /\ item[i] # Nothing /\ item[i].active
  /\ CeilingCheck(store, price, item[i].ceiling)
  /\ Begin(r, [op |-> "create", item |-> i, product |-> p, store |-> store, read |-> item[i],
               price |-> IF store \in Warehouses THEN item[i].ceiling ELSE price,
               overtaken |-> FALSE])
  /\ UNCHANGED <<item, product, crossed>>

SkuInStore(store, sku) ==
  \E q \in Listings : product[q] # Nothing /\ product[q].store = store /\ product[q].sku = sku

\* The insert, with the sku that was read; refused if the store has the sku.
createProduct(r) ==
  /\ desk[r] # Nothing /\ desk[r].op = "create"
  /\ LET d == desk[r] IN
       IF SkuInStore(d.store, d.read.sku)
       THEN UNCHANGED <<product, crossed>>
       ELSE /\ product' = [product EXCEPT ![d.product] =
                 [store |-> d.store, item |-> d.item, sku |-> d.read.sku, price |-> d.price]]
            /\ crossed' = Crossed(r)
  /\ End(r)
  /\ UNCHANGED item

readForPrice(r, p, price) ==
  /\ desk[r] = Nothing
  /\ product[p] # Nothing
  /\ LET i == product[p].item IN
       /\ CeilingCheck(product[p].store, price, item[i].ceiling)
       /\ Begin(r, [op |-> "price", item |-> i, product |-> p, price |-> price,
                    overtaken |-> FALSE])
  /\ UNCHANGED <<item, product, crossed>>

\* The update; an error if the product was deleted meanwhile.
updateProduct(r) ==
  /\ desk[r] # Nothing /\ desk[r].op = "price"
  /\ LET p == desk[r].product IN
       IF product[p] = Nothing
       THEN UNCHANGED <<product, crossed>>
       ELSE /\ product' = [product EXCEPT ![p].price = desk[r].price]
            /\ crossed' = Crossed(r)
  /\ End(r)
  /\ UNCHANGED item

\* Refused by the database for a product that sales, lots or orders refer to;
\* any other is gone.
deleteProduct(p) ==
  /\ product[p] # Nothing
  /\ product' = [product EXCEPT ![p] = Nothing]
  /\ UNCHANGED <<item, desk, crossed>>

readForUpdate(r, i, change) ==
  /\ desk[r] = Nothing
  /\ item[i] # Nothing
  /\ Begin(r, [op |-> "update", item |-> i, read |-> item[i], change |-> change,
               overtaken |-> FALSE])
  /\ UNCHANGED <<item, product, crossed>>

Field(change, read, name) == IF name \in DOMAIN change THEN change[name] ELSE read[name]

\* Mutant of Relabelled: a change of the item does not reach its products.
RelabelledAlone(row, nextSku, nextCeiling, lowering) ==
  [row EXCEPT !.price = IF lowering /\ row.store \notin Warehouses /\ @ > nextCeiling
                        THEN nextCeiling ELSE @]

\* A product after its item: identity from the item, the price clamped if the
\* ceiling comes down.
Relabelled(row, nextSku, nextCeiling, lowering) ==
  [row EXCEPT !.sku = nextSku,
              !.price = IF lowering /\ row.store \notin Warehouses /\ @ > nextCeiling
                        THEN nextCeiling ELSE @]

\* Mutant of LoweringCeiling: prices are clamped when the ceiling goes up.
LoweringCeilingSwapped(change, read) == Field(change, read, "ceiling") > read.ceiling

LoweringCeiling(change, read) == Field(change, read, "ceiling") < read.ceiling

Overtake(r, i) ==
  [q \in Requests |->
     IF q = r THEN Nothing
     ELSE IF desk[q] # Nothing /\ desk[q].item = i THEN [desk[q] EXCEPT !.overtaken = TRUE]
     ELSE desk[q]]

\* What the request did not name keeps its place in the item, but the products
\* get the value that was read.
UpdatedItem(row, change) ==
  [sku |-> Field(change, row, "sku"), ceiling |-> Field(change, row, "ceiling"),
   active |-> Field(change, row, "active")]

updateCatalogItem(r) ==
  /\ desk[r] # Nothing /\ desk[r].op = "update"
  /\ LET i == desk[r].item
         change == desk[r].change
         read == desk[r].read
         nextSku == Field(change, read, "sku")
         relabelled == [p \in Listings |->
           IF p \in OfItem(i)
           THEN Relabelled(product[p], nextSku, Field(change, read, "ceiling"),
                           LoweringCeiling(change, read))
           ELSE product[p]]
         duplicate ==
           \/ \E j \in Items \ {i} :
                "sku" \in DOMAIN change /\ item[j] # Nothing /\ item[j].sku = nextSku
           \/ \E p, q \in Listings :
                /\ p # q /\ relabelled[p] # Nothing /\ relabelled[q] # Nothing
                /\ relabelled[p].store = relabelled[q].store /\ relabelled[p].sku = relabelled[q].sku
     IN  IF duplicate
         THEN UNCHANGED <<item, product, crossed>> /\ End(r)
         ELSE /\ item' = [item EXCEPT ![i] = UpdatedItem(@, change)]
              /\ product' = relabelled
              /\ crossed' = Crossed(r)
              /\ desk' = Overtake(r, i)

-----------------------------------------------------------------------------

CatalogNext ==
  \/ \E i \in Items, sku \in Skus, ceiling \in Prices : createCatalogItem(i, sku, ceiling)
  \/ \E p \in Listings : deleteProduct(p)
  \/ \E r \in Requests :
       \/ \E p \in Listings, store \in Stores, i \in Items, price \in Prices :
            readForCreate(r, p, store, i, price)
       \/ createProduct(r)
       \/ \E p \in Listings, price \in Prices : readForPrice(r, p, price)
       \/ updateProduct(r)
       \/ \E i \in Items, change \in Changes : readForUpdate(r, i, change)
       \/ updateCatalogItem(r)

CatalogSpec == CatalogInit /\ [][CatalogNext]_catalogVars

-----------------------------------------------------------------------------
(* Properties *)

Retail == {p \in Listings : product[p] # Nothing /\ product[p].store \notin Warehouses}

\* No retail price is above the ceiling of its catalog item (updateCatalogItem
\* clamps, createProduct and updateProduct check), wherever no write rested on a
\* read that was out of date.
CeilingHeld ==
  \A p \in Retail :
    product[p].item \notin crossed => product[p].price <= item[product[p].item].ceiling

\* A product carries the identity of its catalog item in every store, wherever
\* no write rested on a read that was out of date.
IdentityPropagated ==
  \A p \in Listings :
    product[p] # Nothing /\ product[p].item \notin crossed
      => product[p].sku = item[product[p].item].sku

\* Products agree with the catalog in identity and ceiling, whichever writes
\* overlap (but for the items that were crossed).
CatalogConsistent ==
  /\ CatalogTypeOK
  /\ CeilingHeld
  /\ IdentityPropagated

=============================================================================
