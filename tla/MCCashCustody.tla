--------------------------- MODULE MCCashCustody ---------------------------
(* Two shifts, a sale rung up online and one synced later, a deposit. *)
EXTENDS CashCustody

CONSTANTS online, offline

Prices == [s \in {online, offline} |-> IF s = online THEN 1 ELSE 2]

=============================================================================
