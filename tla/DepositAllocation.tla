------------------------- MODULE DepositAllocation -------------------------
(***************************************************************************)
(* How confirmed deposits are spread over the shifts they were recorded    *)
(* for (cash.service.ts): the deposits in the order the bank confirmed     *)
(* them, each over its shifts in the order those closed.                   *)
(***************************************************************************)
EXTENDS Totals, Sequences

\* The float stays in the till; a short count is not a debt to the bank.
bankableCash(counted, openingFloat) == AtLeastZero(counted - openingFloat)

\* The shifts of S that closed before d.
ClosedEarlier(S, d, closedOrder) ==
  {closedOrder[i] : i \in {j \in DOMAIN closedOrder :
      /\ closedOrder[j] \in S
      /\ \A k \in 1 .. j : closedOrder[k] # d}}

\* Mutant of Take: only the first shift to close is filled.
TakeFirst(row, remaining, d, closedOrder) ==
  IF d \in row.drawers /\ ClosedEarlier(row.drawers, d, closedOrder) = {}
  THEN Smaller(remaining[d], row.confirmedAmount) ELSE 0

\* Mutant of Take: every linked shift is offered the whole deposit.
TakeWhole(row, remaining, d, closedOrder) ==
  IF d \in row.drawers THEN Smaller(remaining[d], row.confirmedAmount) ELSE 0

\* What one deposit puts on shift d: what its earlier shifts have left of it,
\* as far as the shift needs it.
Take(row, remaining, d, closedOrder) ==
  IF d \in row.drawers
  THEN AtLeastZero(Smaller(remaining[d], row.confirmedAmount
         - Total(remaining, ClosedEarlier(row.drawers, d, closedOrder))))
  ELSE 0

\* The amount covered per shift, deposits being in confirmation order.
allocateConfirmedDeposits(bankable, closedOrder, deposits) ==
  LET covered[n \in 0 .. Len(deposits)] ==
        IF n = 0 THEN [d \in DOMAIN bankable |-> 0]
        ELSE LET remaining == [d \in DOMAIN bankable |-> bankable[d] - covered[n - 1][d]]
             IN  [d \in DOMAIN bankable |-> covered[n - 1][d] +
                    Take(deposits[n], remaining, d, closedOrder)]
  IN  covered[Len(deposits)]

=============================================================================
