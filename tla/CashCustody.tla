---------------------------- MODULE CashCustody ----------------------------
(***************************************************************************)
(* Cash from the till to the bank, for one store: the drawer shifts        *)
(* (drawer.service.ts), the deposits that bank them (cash.service.ts) and  *)
(* the daily job that flags cash kept too long (flagUndepositedCash.ts).   *)
(*                                                                         *)
(* createSale looks for an open drawer before it takes cash, openDrawer    *)
(* looks for one before it creates one, closeDrawer sums the cash sales    *)
(* and then updates the drawer: no lock holds the two halves together, so  *)
(* each is two steps.  The banknotes are in `till`; who closes a drawer    *)
(* counts them honestly before sending the request.  Amounts are whole     *)
(* units of money, a refund is of a whole sale, a day is the grain of the  *)
(* ages.  Rows are created on demand, so their ids are 1, 2, ...           *)
(***************************************************************************)
EXTENDS DepositAllocation

CONSTANTS
  MaxShifts,   \* bound on the drawers opened
  Sales,       \* cash sales
  Synced,      \* those rung up while the till was offline
  Price,       \* Sale.total of each
  Float,       \* openingFloat
  MaxDeposits, \* bound on the deposits recorded
  Amounts,     \* amounts the bank may confirm
  MaxOpeners,  \* bound on the openDrawer requests being served at once
  GraceDays,   \* CooperativeSettings.cashDepositGraceDays
  LastDay      \* bound on the days that pass

ASSUME CashAssumption ==
  /\ MaxShifts \in Nat /\ MaxDeposits \in Nat /\ MaxOpeners \in Nat
  /\ IsFiniteSet(Sales) /\ Synced \subseteq Sales
  /\ Price \in [Sales -> Nat]
  /\ Amounts \subseteq Nat \ {0}
  /\ Float \in Nat /\ GraceDays \in Nat /\ LastDay \in Nat

Drawers == 1 .. MaxShifts
Deposits == 1 .. MaxDeposits

VARIABLES
  saleStatus,   \* "NONE"; "RINGING": found an open drawer, or rung up offline;
                \* then Sale.paymentStatus
  drawer,       \* the shift: "NONE", "OPEN", "CLOSED"
  soldBefore,   \* cash sales paid before the shift's openedAt
  countedCash,  \* CashDrawer.countedCash
  expectedCash, \* CashDrawer.expectedCash
  closedOrder,  \* the closed shifts, ORDER BY closedAt
  closedDay,    \* the day of closedAt
  till,         \* the money that is physically in the till
  opening,      \* number of openDrawer requests that found no open drawer
  closing,      \* the closeDrawer request: its drawer, count and expected cash
  deposit,      \* CashDeposit rows
  bankOrder,    \* CONFIRMED deposits, ORDER BY confirmedAt
  disputing,    \* a STORE_ADMIN's dispute, allowed and not yet written
  day,          \* today
  flagged,      \* days with a CASH_DEPOSIT_PAST_GRACE row
  disturbed     \* shifts whose cash moved outside the orderly sequence

shiftVars == <<countedCash, expectedCash, closedOrder, closedDay>>
depositVars == <<deposit, bankOrder, disputing>>
tillVars == <<saleStatus, drawer, soldBefore, shiftVars, till, opening, closing, disturbed>>
vars == <<tillVars, depositVars, day, flagged>>

NoRow == [status |-> "NONE", drawers |-> {}, confirmedAmount |-> 0]

Idle == [drawer |-> 0, counted |-> 0, expected |-> {}]

\* The drawer, sale and deposit rows are well formed, and the two ORDER BY
\* queries see exactly the CLOSED shifts and the CONFIRMED deposits.
TypeOK ==
  /\ saleStatus \in [Sales -> {"NONE", "RINGING", "PAID", "REFUNDED"}]
  /\ drawer \in [Drawers -> {"NONE", "OPEN", "CLOSED"}]
  /\ soldBefore \in [Drawers -> SUBSET Sales]
  /\ countedCash \in [Drawers -> Nat]
  /\ expectedCash \in [Drawers -> Int]
  /\ {closedOrder[i] : i \in DOMAIN closedOrder} = {d \in Drawers : drawer[d] = "CLOSED"}
  /\ closedDay \in [Drawers -> 0 .. LastDay]
  /\ till \in Nat
  /\ opening \in 0 .. MaxOpeners
  /\ closing.drawer \in Drawers \cup {0}
  /\ \A x \in Deposits :
       /\ deposit[x].status \in {"NONE", "RECORDED", "CONFIRMED", "DISPUTED"}
       /\ deposit[x].drawers \subseteq Drawers
       /\ deposit[x].confirmedAmount \in Amounts \cup {0}
  /\ {bankOrder[i] : i \in DOMAIN bankOrder} =
       {x \in Deposits : deposit[x].status = "CONFIRMED"}
  /\ disputing \subseteq Deposits
  /\ day \in 0 .. LastDay
  /\ flagged \subseteq 0 .. LastDay
  /\ disturbed \subseteq Drawers

Init ==
  /\ saleStatus = [s \in Sales |-> "NONE"]
  /\ drawer = [d \in Drawers |-> "NONE"]
  /\ soldBefore = [d \in Drawers |-> {}]
  /\ countedCash = [d \in Drawers |-> 0]
  /\ expectedCash = [d \in Drawers |-> 0]
  /\ closedOrder = <<>>
  /\ closedDay = [d \in Drawers |-> 0]
  /\ till = 0
  /\ opening = 0
  /\ closing = Idle
  /\ deposit = [x \in Deposits |-> NoRow]
  /\ bankOrder = <<>>
  /\ disputing = {}
  /\ day = 0
  /\ flagged = {}
  /\ disturbed = {}

-----------------------------------------------------------------------------
(* The till *)

OpenDrawers == {d \in Drawers : drawer[d] = "OPEN"}

\* getCurrentDrawer takes the one opened last.
IsCurrent(d) == d \in OpenDrawers /\ \A e \in OpenDrawers : e <= d

PaidSales == {s \in Sales : saleStatus[s] \in {"PAID", "REFUNDED"}}

\* Cash that is in the till and in no Sale row yet.
UnsyncedCash == {s \in Synced : saleStatus[s] = "RINGING"}

\* Shifts a movement of cash now disturbs: the one whose count has been taken.
BeingCounted == {closing.drawer} \cap Drawers

\* createSale finds an open drawer.  A till that is offline asks nobody, and
\* takes the cash.
RingUp(s) ==
  /\ saleStatus[s] = "NONE"
  /\ s \in Synced \/ OpenDrawers # {}
  /\ saleStatus' = [saleStatus EXCEPT ![s] = "RINGING"]
  /\ till' = IF s \in Synced THEN till + Price[s] ELSE till
  /\ disturbed' = IF s \in Synced THEN disturbed \cup BeingCounted ELSE disturbed
  /\ UNCHANGED <<drawer, soldBefore, shiftVars, opening, closing, depositVars, day, flagged>>

\* createSale creates the PAID sale, for an offline sale when it is synced.
CashSale(s) ==
  /\ saleStatus[s] = "RINGING"
  /\ saleStatus' = [saleStatus EXCEPT ![s] = "PAID"]
  /\ till' = IF s \in Synced THEN till ELSE till + Price[s]
  /\ disturbed' = disturbed \cup BeingCounted
  /\ UNCHANGED <<drawer, soldBefore, shiftVars, opening, closing, depositVars, day, flagged>>

\* The money comes out of today's till, whichever shift took it in.
CashRefund(s) ==
  /\ saleStatus[s] = "PAID"
  /\ till >= Price[s]
  /\ saleStatus' = [saleStatus EXCEPT ![s] = "REFUNDED"]
  /\ till' = till - Price[s]
  /\ disturbed' = disturbed \cup BeingCounted \cup {d \in OpenDrawers : s \in soldBefore[d]}
  /\ UNCHANGED <<drawer, soldBefore, shiftVars, opening, closing, depositVars, day, flagged>>

\* openDrawer finds no open drawer.
getCurrentDrawer ==
  /\ opening < MaxOpeners
  /\ OpenDrawers = {}
  /\ opening' = opening + 1
  /\ UNCHANGED <<saleStatus, drawer, soldBefore, shiftVars, till, closing, disturbed,
                 depositVars, day, flagged>>

\* openDrawer creates the row; the float is put into the till.
openDrawer(d) ==
  /\ opening > 0
  /\ drawer[d] = "NONE"
  /\ \A e \in 1 .. d - 1 : drawer[e] # "NONE"
  /\ opening' = opening - 1
  /\ drawer' = [drawer EXCEPT ![d] = "OPEN"]
  /\ soldBefore' = [soldBefore EXCEPT ![d] = PaidSales]
  /\ till' = till + Float
  /\ disturbed' = IF OpenDrawers # {} \/ till # 0 \/ UnsyncedCash # {}
                  THEN disturbed \cup OpenDrawers \cup {d} ELSE disturbed
  /\ UNCHANGED <<saleStatus, shiftVars, closing, depositVars, day, flagged>>

\* The store admin counts the till and sends the count; closeDrawer finds the
\* drawer.
CountTill(d) ==
  /\ closing = Idle
  /\ IsCurrent(d)
  /\ closing' = [drawer |-> d, counted |-> till, expected |-> {}]
  /\ disturbed' = IF UnsyncedCash # {} THEN disturbed \cup {d} ELSE disturbed
  /\ UNCHANGED <<saleStatus, drawer, soldBefore, shiftVars, till, opening, depositVars,
                 day, flagged>>

\* Mutant of ShiftSales: refunds do not reduce the shift's takings.
ShiftSalesGross(d) == PaidSales \ soldBefore[d]

\* The cash sales closeDrawer sums, net of refunds: paidAt >= openedAt.
ShiftSales(d) == {s \in PaidSales \ soldBefore[d] : saleStatus[s] # "REFUNDED"}

SumCashSales ==
  /\ closing # Idle
  /\ closing.expected = {}
  /\ closing' = [closing EXCEPT !.expected =
       {Float + Total(Price, ShiftSales(closing.drawer))}]
  /\ UNCHANGED <<saleStatus, drawer, soldBefore, shiftVars, till, opening, disturbed,
                 depositVars, day, flagged>>

\* The drawer is updated; the counted money leaves the till.
closeDrawer ==
  /\ \E expected \in closing.expected :
       expectedCash' = [expectedCash EXCEPT ![closing.drawer] = expected]
  /\ countedCash' = [countedCash EXCEPT ![closing.drawer] = closing.counted]
  /\ drawer' = [drawer EXCEPT ![closing.drawer] = "CLOSED"]
  /\ closedOrder' = Append(closedOrder, closing.drawer)
  /\ closedDay' = [closedDay EXCEPT ![closing.drawer] = day]
  /\ till' = AtLeastZero(till - closing.counted)
  /\ closing' = Idle
  /\ UNCHANGED <<saleStatus, soldBefore, opening, disturbed, depositVars, day, flagged>>

-----------------------------------------------------------------------------
(* What confirmed deposits cover *)

bankable == [d \in Drawers |->
  IF drawer[d] = "CLOSED" THEN bankableCash(countedCash[d], Float) ELSE 0]

\* loadDrawerCoverage
Covered == allocateConfirmedDeposits(bankable, closedOrder,
             [i \in DOMAIN bankOrder |-> deposit[bankOrder[i]]])

Uncovered(d) == bankable[d] - Covered[d]

\* getUndepositedCash: the shifts that still hold cash.
UndepositedDrawers == {d \in Drawers : drawer[d] = "CLOSED" /\ Uncovered(d) > 0}

-----------------------------------------------------------------------------
(* Deposits *)

\* The order without x, which is in it once at most.
Without(order, x) ==
  IF \E p \in DOMAIN order : order[p] = x
  THEN LET p == CHOOSE p \in DOMAIN order : order[p] = x
       IN  [i \in 1 .. Len(order) - 1 |-> IF i < p THEN order[i] ELSE order[i + 1]]
  ELSE order

\* The amount the operator records is a claim and covers nothing; only the
\* bank's figure is kept.
recordDeposit(x, ids) ==
  /\ deposit[x] = NoRow
  /\ \A y \in 1 .. x - 1 : deposit[y] # NoRow
  /\ ids # {}
  /\ \A d \in ids : drawer[d] = "CLOSED" /\ Uncovered(d) > 0
  /\ deposit' = [deposit EXCEPT ![x].status = "RECORDED", ![x].drawers = ids]
  /\ UNCHANGED <<tillVars, bankOrder, disputing, day, flagged>>

\* One UPDATE guarded by the status.
confirmDeposit(x, actualAmount) ==
  /\ deposit[x].status = "RECORDED"
  /\ deposit' = [deposit EXCEPT ![x].status = "CONFIRMED", ![x].confirmedAmount = actualAmount]
  /\ bankOrder' = Append(bankOrder, x)
  /\ UNCHANGED <<tillVars, disputing, day, flagged>>

\* Mutant of disputeDeposit: the disputed deposit still covers its shifts.
disputeDepositCovers(x) ==
  /\ deposit[x].status \in {"RECORDED", "CONFIRMED"}
  /\ deposit' = [deposit EXCEPT ![x].status = "DISPUTED"]
  /\ UNCHANGED <<tillVars, bankOrder, disputing, day, flagged>>

\* A COOP_ADMIN disputes a deposit, confirmed or not: it covers nothing.
disputeDeposit(x) ==
  /\ deposit[x].status \in {"RECORDED", "CONFIRMED"}
  /\ deposit' = [deposit EXCEPT ![x].status = "DISPUTED"]
  /\ bankOrder' = Without(bankOrder, x)
  /\ UNCHANGED <<tillVars, disputing, day, flagged>>

\* A STORE_ADMIN may dispute only what is not confirmed yet.  One such request
\* at a time.
disputeAllowed(x) ==
  /\ disputing = {}
  /\ deposit[x].status = "RECORDED"
  /\ disputing' = {x}
  /\ UNCHANGED <<tillVars, deposit, bankOrder, day, flagged>>

\* Mutant of disputeClaim: the update is not guarded by the status read.
disputeClaimUnguarded(x) ==
  /\ x \in disputing
  /\ disputing' = {}
  /\ deposit' = [deposit EXCEPT ![x].status = "DISPUTED"]
  /\ bankOrder' = Without(bankOrder, x)
  /\ UNCHANGED <<tillVars, day, flagged>>

\* The update is guarded by the status read; a 409 otherwise.
disputeClaim(x) ==
  /\ x \in disputing
  /\ disputing' = {}
  /\ deposit' = [deposit EXCEPT ![x].status = IF @ = "RECORDED" THEN "DISPUTED" ELSE @]
  /\ UNCHANGED <<tillVars, bankOrder, day, flagged>>

-----------------------------------------------------------------------------
(* runFlagUndepositedCashOnce *)

\* buildCashPosition: the oldest shift with undeposited cash decides.
pastGrace == \E d \in UndepositedDrawers : day - closedDay[d] > GraceDays

\* Mutant of runFlagUndepositedCashOnce: the newest shift decides.
runFlagNewest ==
  /\ UndepositedDrawers # {}
  /\ \A d \in UndepositedDrawers : day - closedDay[d] > GraceDays
  /\ flagged' = flagged \cup {day}
  /\ UNCHANGED <<tillVars, depositVars, day>>

\* One row per day, while the store is past grace.
runFlagUndepositedCashOnce ==
  /\ pastGrace
  /\ day \notin flagged
  /\ flagged' = flagged \cup {day}
  /\ UNCHANGED <<tillVars, depositVars, day>>

\* No request takes more than a day.
DayPasses ==
  /\ day < LastDay
  /\ opening = 0 /\ closing = Idle /\ disputing = {}
  /\ \A s \in Sales \ Synced : saleStatus[s] # "RINGING"
  /\ day' = day + 1
  /\ UNCHANGED <<tillVars, depositVars, flagged>>

-----------------------------------------------------------------------------

TillStep ==
  \/ \E s \in Sales : RingUp(s) \/ CashSale(s) \/ CashRefund(s)
  \/ getCurrentDrawer
  \/ \E d \in Drawers : openDrawer(d) \/ CountTill(d)
  \/ SumCashSales
  \/ closeDrawer

DepositStep(x) ==
  \/ \E ids \in SUBSET Drawers : recordDeposit(x, ids)
  \/ \E actualAmount \in Amounts : confirmDeposit(x, actualAmount)
  \/ disputeDeposit(x)
  \/ disputeAllowed(x)
  \/ disputeClaim(x)

Next ==
  \/ TillStep
  \/ \E x \in Deposits : DepositStep(x)
  \/ runFlagUndepositedCashOnce
  \/ DayPasses

\* cron starts the job every day.
Spec == Init /\ [][Next]_vars /\ WF_vars(runFlagUndepositedCashOnce)

-----------------------------------------------------------------------------
(* Properties *)

\* With an honest count a shift balances: float plus the cash sales of the
\* shift less those refunded is what the till held, so a variance is a loss and
\* never an artefact of the books.  Exempt are the shifts the code cannot
\* balance: two drawers open at once, a till that was not empty when the shift
\* began, offline cash not synced within the shift, a sale or refund between
\* count and close, a refund of an earlier shift's sale.
OrderlyShiftBalances ==
  \A d \in Drawers \ disturbed :
    drawer[d] = "CLOSED" => countedCash[d] = expectedCash[d]

\* A shift disappears from the undeposited cash only against money that the
\* bank has confirmed, and comes back when that deposit is disputed.
BankedMeansConfirmed ==
  \A d \in Drawers : bankable[d] > 0 /\ Uncovered(d) < bankable[d] =>
    \E x \in Deposits : deposit[x].status = "CONFIRMED" /\ d \in deposit[x].drawers

\* A store admin's dispute never takes away a deposit the bank has confirmed,
\* although the dispute was allowed before the confirmation.
ConfirmedStaysBanked ==
  [][\A x \in disputing \ disputing' :
       deposit[x].status = "CONFIRMED" => deposit'[x] = deposit[x]]_vars

\* Cash kept past the grace period is flagged that day, or banked first.
KeptCashIsFlagged ==
  (pastGrace /\ day = LastDay) ~> (LastDay \in flagged \/ ~pastGrace)

\* Cash is in the till, in a shift's books or at the bank: orderly shifts
\* balance, and only confirmed money covers a shift.
CashAccounted ==
  /\ TypeOK
  /\ OrderlyShiftBalances
  /\ BankedMeansConfirmed

=============================================================================
