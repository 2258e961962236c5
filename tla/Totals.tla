------------------------------- MODULE Totals -------------------------------
(***************************************************************************)
(* Sums of a quantity column over a set of rows: the SQL SUM and the       *)
(* reduce((s, l) => s + l.quantity, 0) calls of the stock code.            *)
(*                                                                         *)
(* A sum is defined by counting units, not by recursion: the units of f    *)
(* over S are the pairs <<x, i>> with i in 1..f[x].  The definition is one *)
(* TLC evaluates and one whose laws (TotalsProofs) follow from the         *)
(* cardinality theorems, with no induction.  A negative quantity (an       *)
(* oversold lot) contributes units on the debit side.                      *)
(***************************************************************************)
EXTENDS Integers, FiniteSets

Units(f, S) == UNION { {x} \X (1 .. f[x]) : x \in S }

Negated(f, S) == [x \in S |-> -f[x]]

\* The sum of f[x] for x in S.
Total(f, S) == Cardinality(Units(f, S)) - Cardinality(Units(Negated(f, S), S))

AtLeastZero(n) == IF n > 0 THEN n ELSE 0

Smaller(m, n) == IF m < n THEN m ELSE n

Larger(m, n) == IF m < n THEN n ELSE m

=============================================================================
