---------------------------- MODULE MCStockCount ----------------------------
(***************************************************************************)
(* Counting: the counts and the shelf (StockCount), or the registry by     *)
(* which a scan at the shelf finds its product (Barcodes).  They share no  *)
(* state; a behaviour is about one of them.                                *)
(***************************************************************************)
EXTENDS StockCount, Barcodes, TLC

VARIABLE topic

CONSTANTS l1, p1, k1, k2, u1, u2, c1, c2,
          good1, good2, label1, label2, upcShort, upcLong

OneProduct == [l \in Lots |-> p1]
OneRank == [l \in Lots |-> 1]
TwoOfOne == [l \in Lots |-> 2]

(* Two products with a lot each; a UPC-E, its UPC-A and another code. *)

OneLotEach == label1 :> good1 @@ label2 :> good2
ShortForLong == upcShort :> upcLong

Symmetry == Permutations(Keys) \cup Permutations(Staff) \cup Permutations(Clerks)

-----------------------------------------------------------------------------

CountingInit ==
  /\ topic \in {"counts", "barcodes"}
  /\ Init /\ BarcodeInit

CountingNext ==
  \/ topic = "counts" /\ Next /\ UNCHANGED <<topic, barcodeVars>>
  \/ topic = "barcodes" /\ BarcodeNext /\ UNCHANGED <<topic, vars>>

CountingSpec == CountingInit /\ [][CountingNext]_<<topic, vars, barcodeVars>>

=============================================================================
