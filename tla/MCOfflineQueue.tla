--------------------------- MODULE MCOfflineQueue ---------------------------
(* An instance of OfflineQueue for TLC. *)
EXTENDS OfflineQueue, TLC

CONSTANTS p1, l1, s1

MCProductOf == l1 :> p1
MCFefoRank == l1 :> 1
MCCartOf == [b \in Baskets |-> p1 :> 1]

=============================================================================
