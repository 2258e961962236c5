----------------------------- MODULE Dividends -----------------------------
(***************************************************************************)
(* A dividend (membership.service.ts): the board's resolution, its         *)
(* declaration, and the split of the pool (allocateDividend).              *)
(* `capital` and `patronage` are functions on members: confirmed capital,  *)
(* and the subtotals of the fiscal year's sales, refunded ones included.   *)
(* Patronage counts members that are not ACTIVE in its total, too.         *)
(*                                                                         *)
(* A weight of the HYBRID method is a fraction in the code (a floating     *)
(* point number); here all weights are multiplied by both totals.          *)
(***************************************************************************)
EXTENDS Money, Totals

CONSTANTS
  Holders,      \* ACTIVE members
  Treasurers,   \* requests to allocate the dividend
  Pool,
  Holdings,     \* amounts of confirmed capital
  MaxTransfers, \* changes of capital in a behaviour
  NoRun

AllocationRow == [amount : Nat, by : Treasurers]

\* A request that has read the weights, and one that has deleted the rows.
ReadRun == [at : {"read"}, shares : UNION {[S -> Nat] : S \in SUBSET Holders}]
DeletedRun ==
  [at : {"deleted", "ended"}, shares : UNION {[S -> Nat] : S \in SUBSET Holders},
   deleted : UNION {[S -> AllocationRow] : S \in SUBSET Holders}]

ASSUME DividendAssumption ==
  /\ Pool \in Nat /\ Holdings \subseteq Nat /\ MaxTransfers \in Nat
  /\ IsFiniteSet(Holders)
  /\ NoRun \notin ReadRun /\ NoRun \notin DeletedRun

VARIABLES
  resolution,  \* BoardResolution.outcome, or "NONE"
  dividend,    \* Dividend.status, or "NONE"
  allocation,  \* DividendAllocation: the amount of each member and whose run wrote it
  invested,    \* Member.totalInvested
  runOf,       \* what each request to allocate has read and deleted
  transfers    \* changes of capital so far

dividendVars == <<resolution, dividend, allocation, invested, runOf, transfers>>

\* sharePercent: the part of HYBRID that goes by capital.
Weight100(method, sharePercent, capital, patronage, m, active) ==
  LET totalCapital == Total(capital, active)
      totalPatronage == Total(patronage, DOMAIN patronage)
      byCapital == IF totalCapital > 0 THEN sharePercent * capital[m] * Larger(totalPatronage, 1) ELSE 0
      byPatronage == IF totalPatronage > 0
                     THEN (100 - sharePercent) * patronage[m] * Larger(totalCapital, 1) ELSE 0
  IN  CASE method = "BY_CAPITAL" -> capital[m]
        [] method = "BY_PATRONAGE" -> patronage[m]
        [] method = "HYBRID" -> byCapital + byPatronage

\* Mutant of allocateDividend: everyone's amount is rounded up.
allocateDividendUp(pool, method, sharePercent, capital, patronage, active) ==
  LET weight == [m \in active |-> Weight100(method, sharePercent, capital, patronage, m, active)]
      sharing == {m \in active : weight[m] > 0}
  IN  [m \in sharing |-> (pool * weight[m]) \div Total(weight, sharing) + 1]

\* The rows written; none (an error) if nobody has any weight.
allocateDividend(pool, method, sharePercent, capital, patronage, active) ==
  LET weight == [m \in active |-> Weight100(method, sharePercent, capital, patronage, m, active)]
      sharing == {m \in active : weight[m] > 0}
  IN  [m \in sharing |-> Rounded(pool * weight[m], Total(weight, sharing))]

-----------------------------------------------------------------------------
(* The life of a dividend.  Two administrators may allocate it at once:    *)
(* the status, the members and their capital are read before the           *)
(* transaction that deletes and writes the rows.                           *)

DividendTypeOK ==
  /\ resolution \in {"NONE", "PENDING", "PASSED"}
  /\ dividend \in {"NONE", "DECLARED", "ALLOCATED"}
  /\ DOMAIN allocation \subseteq Holders
  /\ \A m \in DOMAIN allocation : allocation[m] \in AllocationRow
  /\ invested \in [Holders -> Holdings]
  /\ transfers \in 0 .. MaxTransfers
  /\ dividend # "NONE" => resolution = "PASSED"

Empty == [m \in {} |-> 0]

DividendInit ==
  /\ resolution = "NONE" /\ dividend = "NONE" /\ allocation = Empty
  /\ invested \in [Holders -> Holdings]
  /\ runOf = [t \in Treasurers |-> NoRun] /\ transfers = 0

createBoardResolution ==
  /\ resolution = "NONE" /\ resolution' = "PENDING"
  /\ UNCHANGED <<dividend, allocation, invested, runOf, transfers>>

passBoardResolution ==
  /\ resolution # "NONE" /\ resolution' = "PASSED"
  /\ UNCHANGED <<dividend, allocation, invested, runOf, transfers>>

declareDividend ==
  /\ dividend = "NONE" /\ resolution = "PASSED"
  /\ dividend' = "DECLARED"
  /\ UNCHANGED <<resolution, allocation, invested, runOf, transfers>>

\* Capital is confirmed or paid back meanwhile.
CapitalMoves(m, amount) ==
  /\ transfers < MaxTransfers /\ transfers' = transfers + 1
  /\ invested[m] # amount /\ invested' = [invested EXCEPT ![m] = amount]
  /\ UNCHANGED <<resolution, dividend, allocation, runOf>>

ReadWeights(t) ==
  /\ dividend = "DECLARED" /\ runOf[t] = NoRun
  /\ LET shares == allocateDividend(Pool, "BY_CAPITAL", 50, invested, [m \in Holders |-> 0], Holders)
     IN  /\ DOMAIN shares # {}
         /\ runOf' = [runOf EXCEPT ![t] = [at |-> "read", shares |-> shares]]
  /\ UNCHANGED <<resolution, dividend, allocation, invested, transfers>>

\* deleteMany sees the rows that are committed when it begins.
DeleteRows(t) ==
  /\ runOf[t] # NoRun /\ runOf[t].at = "read"
  /\ runOf' = [runOf EXCEPT ![t] = [at |-> "deleted", shares |-> runOf[t].shares, deleted |-> allocation]]
  /\ UNCHANGED <<resolution, dividend, allocation, invested, transfers>>

\* Rows committed since then.
Newer(t) == {m \in DOMAIN allocation :
               m \notin DOMAIN runOf[t].deleted \/ runOf[t].deleted[m] # allocation[m]}

\* Mutant of Written: members who have a row already are skipped.
WrittenSkipping(t) == DOMAIN runOf[t].shares \ Newer(t)

Written(t) == DOMAIN runOf[t].shares

\* One row per dividend and member: who finds a newer one is rolled back.
WriteRows(t) ==
  /\ runOf[t] # NoRun /\ runOf[t].at = "deleted"
  /\ IF Written(t) \cap Newer(t) # {} THEN UNCHANGED <<allocation, dividend>>
     ELSE /\ allocation' = [m \in Written(t) \cup Newer(t) |->
                              IF m \in Written(t) THEN [amount |-> runOf[t].shares[m], by |-> t] ELSE allocation[m]]
          /\ dividend' = "ALLOCATED"
  /\ runOf' = [runOf EXCEPT ![t].at = "ended"]
  /\ UNCHANGED <<resolution, invested, transfers>>

DividendNext ==
  \/ createBoardResolution \/ passBoardResolution \/ declareDividend
  \/ \E m \in Holders, amount \in Holdings : CapitalMoves(m, amount)
  \/ \E t \in Treasurers : ReadWeights(t) \/ DeleteRows(t) \/ WriteRows(t)

DividendSpec == DividendInit /\ [][DividendNext]_dividendVars

\* The pool is given out once, but for half a cent per member, although two
\* administrators allocate it at the same time and capital moves between their
\* reads; unless no member had a share in both runs, and both are kept.
PoolGivenOutOnce ==
  LET amount == [m \in DOMAIN allocation |-> allocation[m].amount]
      gap == 2 * (Total(amount, DOMAIN amount) - Pool)
      apart == \E t, u \in {allocation[m].by : m \in DOMAIN allocation} :
                 DOMAIN runOf[t].shares \cap DOMAIN runOf[u].shares = {}
  IN  dividend = "ALLOCATED" =>
        apart \/ gap \in -Cardinality(DOMAIN amount) .. Cardinality(DOMAIN amount)

\* The life of a dividend is well formed and ends with its pool given out once.
DividendSound == DividendTypeOK /\ PoolGivenOutOnce

=============================================================================
