----------------------------- MODULE Settlement -----------------------------
(***************************************************************************)
(* What the co-op owes the operator of one store (settlement.service.ts):  *)
(* the operator's share of the sales, net of refunds, less the payouts.    *)
(* The shares and refunds are those of Pricing; a refund is claimed        *)
(* (REFUNDING) and later finalized or aborted.                             *)
(*                                                                         *)
(* createPayout adds up sales and payouts in two queries of their own and  *)
(* creates the payout afterwards; no lock covers the three.                *)
(***************************************************************************)
EXTENDS Pricing

CONSTANTS
  SettledSales,
  Carts,      \* lines a sale may have
  Settings,   \* Store: operatorPercent, bearer, sharedPercent, taxRate
  Payers,     \* createPayout requests being served at once
  PayoutAmounts,    \* amounts paid out
  MaxPaidOut  \* bound on the sum of the payouts

ASSUME SettlementAssumption ==
  /\ IsFiniteSet(SettledSales)
  /\ \A cart \in Carts :
       /\ IsFiniteSet(DOMAIN cart)
       /\ \A i \in DOMAIN cart :
            /\ cart[i].quantity \in 1 .. 5 /\ cart[i].exempt \in BOOLEAN
            /\ cart[i].price \in Nat /\ cart[i].benefit \in Nat /\ cart[i].manual \in Nat
  /\ \A settings \in Settings :
       /\ settings.operatorPercent \in 0 .. 100 /\ settings.sharedPercent \in 0 .. 100
       /\ settings.bearer \in {"COOP", "OPERATOR", "SHARED"} /\ settings.taxRate \in Nat
  /\ PayoutAmounts \subseteq Nat \ {0}
  /\ MaxPaidOut \in Nat

VARIABLES
  store,     \* the settings of today
  saleStatus,    \* Sale.paymentStatus, "NONE" before
  row,       \* the Sale row: the amounts of createSale
  refunded,  \* its refundedAmount and refundedOperatorAmount
  taken,     \* SaleItem.refundedQuantity
  claim,     \* the refund that is under way: units per line and amounts
  refunds,   \* number of refunds finalized, per sale
  paidOut,   \* sum of Payout.amount
  payer      \* createPayout requests

settlementVars == <<store, saleStatus, row, refunded, taken, claim, refunds, paidOut, payer>>
saleVars == <<saleStatus, row, refunded, taken, claim, refunds>>

Unset == [state |-> "NONE"]

NoMoney == [amount |-> 0, operatorAmount |-> 0]

Paid == {s \in SettledSales : saleStatus[s] # "NONE"}

SettlementTypeOK ==
  /\ store \in Settings
  /\ saleStatus \in [SettledSales -> {"NONE", "PAID", "REFUNDING", "REFUNDED"}]
  /\ \A s \in SettledSales : saleStatus[s] = "REFUNDING" <=> claim[s] # Unset
  /\ \A s \in Paid : \A i \in DOMAIN row[s].lines :
       taken[s][i] \in 0 .. row[s].lines[i].quantity
  /\ paidOut \in 0 .. MaxPaidOut

SettlementInit ==
  /\ store \in Settings
  /\ saleStatus = [s \in SettledSales |-> "NONE"]
  /\ row = [s \in SettledSales |-> Unset]
  /\ refunded = [s \in SettledSales |-> NoMoney]
  /\ taken = [s \in SettledSales |-> <<>>]
  /\ claim = [s \in SettledSales |-> Unset]
  /\ refunds = [s \in SettledSales |-> 0]
  /\ paidOut = 0
  /\ payer = [r \in Payers |-> Unset]

-----------------------------------------------------------------------------

updateStore(settings) ==
  /\ settings # store
  /\ store' = settings
  /\ UNCHANGED <<saleVars, paidOut, payer>>

createSale(s, cart) ==
  /\ saleStatus[s] = "NONE"
  /\ SaleAllowed(cart, store)
  /\ saleStatus' = [saleStatus EXCEPT ![s] = "PAID"]
  /\ row' = [row EXCEPT ![s] = SaleRow(cart, store)]
  /\ taken' = [taken EXCEPT ![s] = [i \in DOMAIN cart |-> 0]]
  /\ UNCHANGED <<store, refunded, claim, refunds, paidOut, payer>>

claimRefundInDb(s, back) ==
  /\ saleStatus[s] = "PAID"
  /\ RefundPossible(row[s], refunded[s].amount, taken[s], back)
  /\ saleStatus' = [saleStatus EXCEPT ![s] = "REFUNDING"]
  /\ claim' = [claim EXCEPT ![s] = [back |-> back, plan |->
       planRefundLines(row[s], refunded[s].amount, refunded[s].operatorAmount, taken[s], back)]]
  /\ UNCHANGED <<store, row, refunded, taken, refunds, paidOut, payer>>

\* A step that lowers what is owed overtakes the payers that are under way.
Overtaken(rs) ==
  [r \in Payers |->
     IF r \in rs /\ payer[r] # Unset THEN [payer[r] EXCEPT !.overtaken = TRUE] ELSE payer[r]]

finalizeSucceededRefund(s) ==
  /\ saleStatus[s] = "REFUNDING"
  /\ refunded' = [refunded EXCEPT ![s] =
       [amount |-> @.amount + claim[s].plan.amount,
        operatorAmount |-> @.operatorAmount + claim[s].plan.operatorAmount]]
  /\ taken' = [taken EXCEPT ![s] = [i \in DOMAIN @ |-> @[i] + claim[s].back[i]]]
  /\ saleStatus' = [saleStatus EXCEPT ![s] =
       IF refundsAllRemaining(row[s], taken[s], claim[s].back) THEN "REFUNDED" ELSE "PAID"]
  /\ claim' = [claim EXCEPT ![s] = Unset]
  /\ refunds' = [refunds EXCEPT ![s] = @ + 1]
  /\ payer' = Overtaken(Payers)
  /\ UNCHANGED <<store, row, paidOut>>

abortFailedRefund(s) ==
  /\ saleStatus[s] = "REFUNDING"
  /\ saleStatus' = [saleStatus EXCEPT ![s] = "PAID"]
  /\ claim' = [claim EXCEPT ![s] = Unset]
  /\ UNCHANGED <<store, row, refunded, taken, refunds, paidOut, payer>>

-----------------------------------------------------------------------------
(* createPayout *)

\* PAID, REFUNDING and REFUNDED sales, net of what has been clawed back.
operatorAccrued ==
  Sum(LAMBDA s : row[s].operatorAmount - refunded[s].operatorAmount, Paid)

BeginPayout(r, role, amount) ==
  /\ payer[r] = Unset
  /\ paidOut + amount <= MaxPaidOut
  /\ payer' = [payer EXCEPT ![r] =
       [role |-> role, amount |-> amount, accrued |-> {}, paid |-> {}, overtaken |-> FALSE]]
  /\ UNCHANGED <<store, saleVars, paidOut>>

\* Mutant of ReadSales: refunds are not netted.
ReadSalesGross(r) ==
  /\ payer[r] # Unset
  /\ payer[r].accrued = {}
  /\ payer' = [payer EXCEPT ![r].accrued = {Sum(LAMBDA s : row[s].operatorAmount, Paid)}]
  /\ UNCHANGED <<store, saleVars, paidOut>>

\* The two queries of getStoreSettlementSummary run side by side.
ReadSales(r) ==
  /\ payer[r] # Unset
  /\ payer[r].accrued = {}
  /\ payer' = [payer EXCEPT ![r].accrued = {operatorAccrued}]
  /\ UNCHANGED <<store, saleVars, paidOut>>

ReadPayouts(r) ==
  /\ payer[r] # Unset
  /\ payer[r].paid = {}
  /\ payer' = [payer EXCEPT ![r].paid = {paidOut}]
  /\ UNCHANGED <<store, saleVars, paidOut>>

\* More than is owed needs a COOP_ADMIN.  Whoever is refused is done.
createPayout(r) ==
  /\ payer[r] # Unset
  /\ \E accrued \in payer[r].accrued, paid \in payer[r].paid :
       paidOut' = IF payer[r].amount <= accrued - paid \/ payer[r].role = "COOP_ADMIN"
                  THEN paidOut + payer[r].amount ELSE paidOut
  /\ paidOut' <= MaxPaidOut
  /\ payer' = [IF paidOut' # paidOut THEN Overtaken(Payers \ {r}) ELSE payer EXCEPT ![r] = Unset]
  /\ UNCHANGED <<store, saleVars>>

-----------------------------------------------------------------------------

Refunds(s) == {back \in [DOMAIN row[s].lines -> 0 .. 5] :
                 \A i \in DOMAIN back : back[i] <= row[s].lines[i].quantity - taken[s][i]}

SettlementNext ==
  \/ \E settings \in Settings : updateStore(settings)
  \/ \E s \in SettledSales :
       \/ \E cart \in Carts : createSale(s, cart)
       \/ saleStatus[s] = "PAID" /\ \E back \in Refunds(s) : claimRefundInDb(s, back)
       \/ finalizeSucceededRefund(s)
       \/ abortFailedRefund(s)
  \/ \E r \in Payers :
       \/ \E role \in {"STORE_ADMIN", "COOP_ADMIN"}, amount \in PayoutAmounts :
            BeginPayout(r, role, amount)
       \/ ReadSales(r)
       \/ ReadPayouts(r)
       \/ createPayout(r)

SettlementSpec == SettlementInit /\ [][SettlementNext]_settlementVars

-----------------------------------------------------------------------------
(* Properties *)

currentlyOwed == operatorAccrued - paidOut

\* A sale refunded to the last unit, in any number of parts and whatever was
\* rounded on the way and whichever settings have changed since, gave the
\* customer all of the total back and took back all of the operator's share.
FullRefundNetsToZero ==
  \A s \in SettledSales : saleStatus[s] = "REFUNDED" =>
    /\ refunded[s].amount = row[s].total
    /\ refunded[s].operatorAmount = row[s].operatorAmount

\* The customer is never given more than was paid.
CustomerNeverOverRefunded ==
  \A s \in Paid : refunded[s].amount <= row[s].total

\* The share of the base that the refunded units of a sale carried, times 60.
BaseBack(s) ==
  Sum(LAMBDA i : taken[s][i] * (60 \div row[s].lines[i].quantity) *
        (IF row[s].bearer = "COOP" THEN lineGross(row[s].lines[i])
                                   ELSE lineNet(row[s].lines[i])),
      DOMAIN row[s].lines)

\* While a sale is partly refunded the operator has given back the share that
\* the refunded units carried, up to a cent per refund and line.  (Where the
\* discount is SHARED the code measures units and base differently.)
ClawbackProportional ==
  \A s \in Paid : saleStatus[s] # "REFUNDED" /\ row[s].bearer # "SHARED" =>
    LET exact == row[s].operatorAmount * BaseBack(s)
        booked == refunded[s].operatorAmount * row[s].operatorBase * 60
        slack == refunds[s] * Cardinality(DOMAIN row[s].lines) * row[s].operatorBase * 60
    IN  exact - slack <= booked /\ booked <= exact + slack

\* A store console never overpays: unless another payout or a refund committed
\* after it began to read, a STORE_ADMIN's payout leaves nothing overpaid.
StoreConsoleNeverOverpays ==
  [][\A r \in Payers :
       (/\ payer[r] # Unset /\ payer'[r] = Unset
        /\ payer[r].role = "STORE_ADMIN" /\ ~payer[r].overtaken
        /\ paidOut' > paidOut)
       => currentlyOwed' >= 0]_settlementVars

\* Refunds in any number of parts add up: for the customer to no more than was
\* paid, for the operator to the share the goods carried, and to all of both
\* when the last unit is back.
RefundsAddUp ==
  /\ SettlementTypeOK
  /\ FullRefundNetsToZero
  /\ CustomerNeverOverRefunded
  /\ ClawbackProportional

=============================================================================
