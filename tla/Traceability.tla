---------------------------- MODULE Traceability ----------------------------
(***************************************************************************)
(* From a lot to the customers who bought of it and back                   *)
(* (traceability.service.ts).  A product belongs to one store; a lot is    *)
(* known by its product and the batch code on it, unique in the store.     *)
(* A sale is a record of its member (or Anonymous), its payment status and *)
(* the lots its SaleItemLot rows name.                                     *)
(***************************************************************************)
EXTENDS FiniteSets

CONSTANTS
  StoreProducts,  \* Product rows
  ItemOf,         \* their catalog items: what is sold in several stores is one item
  Numbers,        \* batch codes
  Customers,
  Anonymous       \* the buyer in a sale without a member

ASSUME TraceAssumption ==
  /\ StoreProducts = DOMAIN ItemOf
  /\ Anonymous \notin Customers

BatchLots == [product : StoreProducts, number : Numbers]

SaleRows ==
  [member : Customers \cup {Anonymous},
   status : {"PENDING", "PAID", "REFUNDING", "REFUNDED", "EXPIRED"},
   lots : SUBSET BatchLots \ {{}}]

\* Mutant of SOLD_STATUSES: a sale whose refund is under way is not looked at.
SoldForGood == {"PAID", "REFUNDED"}

SOLD_STATUSES == {"PAID", "REFUNDING", "REFUNDED"}

\* The sales, of those in `sales`, that moved units of a lot in `from`.
collectDownstream(sales, from) ==
  {s \in DOMAIN sales : sales[s].status \in SOLD_STATUSES /\ sales[s].lots \cap from # {}}

\* The lots traceForward takes for the batch: same product row, same code.
batchLots(lot) == {l \in BatchLots : l.product = lot.product /\ l.number = lot.number}

traceForward(sales, lot) == collectDownstream(sales, batchLots(lot))

buyersOf(sales, found) == {sales[s].member : s \in found} \ {Anonymous}

\* The lots a sale came from, whatever its status.
traceBackward(sale) == sale.lots

\* Downstream of this lot alone.
getLotGenealogy(sales, lot) == buyersOf(sales, collectDownstream(sales, {lot}))

\* The same batch in every store that received it.
SameBatch(lot) == {l \in BatchLots : ItemOf[l.product] = ItemOf[lot.product] /\ l.number = lot.number}

=============================================================================
