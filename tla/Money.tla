------------------------------- MODULE Money -------------------------------
(* Amounts are whole numbers of the smallest unit kept: cents, or the       *)
(* fourth decimal for unit costs.                                           *)
EXTENDS Integers

\* n / d to the nearest unit, half up, for n >= 0: toDecimalPlaces(_, ROUND_HALF_UP).
Rounded(n, d) == (2 * n + d) \div (2 * d)

\* The given percentage of an amount.
PercentOf(percent, amount) == Rounded(percent * amount, 100)

=============================================================================
