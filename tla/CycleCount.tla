----------------------------- MODULE CycleCount -----------------------------
(***************************************************************************)
(* The cycle counts of one store: which products the next one takes        *)
(* (generateCycleCountSchedule) and the job that drafts it                 *)
(* (jobs/scheduleCycleCounts.ts).  Time passes in cycles of                *)
(* cycleCountFrequencyDays; stock values and sales stay as they are.  How  *)
(* a count is carried out is StockCount's matter: here it is approved or   *)
(* cancelled.                                                              *)
(***************************************************************************)
EXTENDS Money, Totals

CONSTANTS
  Counted,     \* products with countable lots
  Value,       \* value on hand at lot cost, per product
  Sold,        \* units sold in the last cycle
  HighValue,   \* highValueThreshold
  Size         \* cycleCountSize

ASSUME CycleCountAssumption ==
  /\ IsFiniteSet(Counted)
  /\ Value \in [Counted -> Nat] /\ Sold \in [Counted -> Nat]
  /\ HighValue \in Nat /\ Size \in Nat \ {0}

VARIABLES
  age,         \* cycles since the last approved count; Never before the first
  variance,    \* products whose last count found a variance
  nearExpiry,  \* products with an ACTIVE lot that expires within 7 days
  open,        \* products on the open CYCLE count
  recent       \* a CYCLE count that was not cancelled was drafted in this cycle

cycleVars == <<age, variance, nearExpiry, open, recent>>

\* Ages beyond the longest interval (class C) are alike.
MaxAge == 4
Never == MaxAge + 1

CycleTypeOK ==
  /\ age \in [Counted -> 0 .. Never]
  /\ variance \subseteq Counted /\ nearExpiry \subseteq Counted
  /\ open \subseteq Counted
  /\ recent \in BOOLEAN

CycleInit ==
  /\ age = [p \in Counted |-> Never]
  /\ variance = {} /\ nearExpiry = {} /\ open = {} /\ recent = FALSE

-----------------------------------------------------------------------------

sellers == {p \in Counted : Sold[p] > 0}

\* Share percent of the sellers, rounded up.
topOf(percent) == (Cardinality(sellers) * percent + 99) \div 100

\* Equal sellers are told apart by id; here none are equal.
velocityRank(p) == Cardinality({q \in sellers : Sold[q] > Sold[p]})

\* Cycles between two counts: class A 1, B 2, C 4, the better of the class by
\* value and the class by velocity.
valueInterval(p) ==
  CASE Value[p] >= HighValue -> 1
    [] Value[p] < HighValue /\ 4 * Value[p] >= HighValue -> 2
    [] OTHER -> 4

velocityInterval(p) ==
  CASE p \in sellers /\ velocityRank(p) < topOf(20) -> 1
    [] p \in sellers /\ velocityRank(p) \in topOf(20) .. topOf(50) - 1 -> 2
    [] OTHER -> 4

interval(p) == Smaller(valueInterval(p), velocityInterval(p))

\* Mutant of due: an interval that lapses with the next cycle can wait.
dueLater(p, late) == age[p] > interval(p)

\* The interval would lapse before the next cycle.  A count starts after it was
\* drafted, so at the k-th job since then less than k cycles have passed,
\* unless the job is late (it skips a day when the last draft is milliseconds
\* short of a cycle old).
due(p, late) == age[p] + (IF late THEN 1 ELSE 0) >= interval(p)

flagged(p) == p \in variance \cup nearExpiry

Greatest(f) == CHOOSE n \in {f[p] : p \in Counted} \cup {0} : \A p \in Counted : f[p] <= n

\* Value share + velocity share + staleness, each 0 to 1, in thousandths.
score(p) ==
  LET v == Larger(Greatest(Value), 1)
      s == Larger(Greatest(Sold), 1)
      i == interval(p)
  IN  Rounded(1000 * (Value[p] * s * i + Sold[p] * v * i + Smaller(age[p], i) * v * s), v * s * i)

\* Flagged products first, then by score (then by id: any choice here).
Before(p, q) ==
  \/ flagged(p) /\ ~flagged(q)
  \/ flagged(p) = flagged(q) /\ score(p) > score(q)

ranked(late) == {p \in Counted : (due(p, late) \/ flagged(p)) /\ p \notin open}

\* The sets that may be selected: the first Size of `ranked`.
generateCycleCountSchedule(late) ==
  {S \in SUBSET ranked(late) :
     /\ Cardinality(S) = Smaller(Size, Cardinality(ranked(late)))
     /\ \A p \in S, q \in ranked(late) \ S : ~Before(q, p)}

\* The daily job, once per cycle at most and never beside an open count.
scheduleCycleCounts ==
  /\ open = {} /\ ~recent
  /\ \E late \in BOOLEAN :
       /\ ranked(late) # {}
       /\ open' \in generateCycleCountSchedule(late)
  /\ recent' = TRUE
  /\ UNCHANGED <<age, variance, nearExpiry>>

approveCount(found) ==
  /\ open # {}
  /\ found \subseteq open
  /\ age' = [p \in Counted |-> IF p \in open THEN 0 ELSE age[p]]
  /\ variance' = (variance \ open) \cup found
  /\ open' = {}
  /\ UNCHANGED <<nearExpiry, recent>>

cancelCount ==
  /\ open # {}
  /\ open' = {} /\ recent' = FALSE
  /\ UNCHANGED <<age, variance, nearExpiry>>

\* A cycle passes; lots come near their expiry, or are sold or expire.
NextCycle ==
  /\ age' = [p \in Counted |-> IF age[p] < MaxAge THEN age[p] + 1 ELSE age[p]]
  /\ recent' = FALSE
  /\ nearExpiry' \in SUBSET Counted
  /\ UNCHANGED <<variance, open>>

CycleNext ==
  \/ scheduleCycleCounts
  \/ \E found \in SUBSET Counted : approveCount(found)
  \/ cancelCount
  \/ NextCycle

CycleSpec == CycleInit /\ [][CycleNext]_cycleVars

-----------------------------------------------------------------------------
(* Properties *)

\* Where all products fit on a count, A is counted every cycle, B at least
\* every second and C at least every fourth: once the cycle's count has been
\* approved, no interval has lapsed.
CountedOnTime ==
  recent /\ open = {} /\ Size >= Cardinality(Counted)
    => \A p \in Counted : age[p] < interval(p)

\* Cycle counts keep their intervals, whatever is cancelled or found.
CyclesKept == CycleTypeOK /\ CountedOnTime

=============================================================================
