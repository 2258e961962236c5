----------------------------- MODULE DeskProofs -----------------------------
(***************************************************************************)
(* The store desk.  Which shifts confirmed deposits cover, for any         *)
(* deposits and shifts, and the cash from the till to the bank, for any    *)
(* number of shifts, sales and deposits; barcodes of any length and the    *)
(* scanner, for any number of keys; the catalog, its backfill and the      *)
(* migration to lots, for any number of items, products, stores and        *)
(* requests.                                                               *)
(*                                                                         *)
(* The inductive invariants say what a request that reads and then writes  *)
(* still knows when it writes: a price is under the ceiling of the item it *)
(* read, the backfill has taken the first name it saw, the till holds what *)
(* the books of an orderly shift say, unless somebody came between.        *)
(***************************************************************************)
EXTENDS CashCustody, Gs1, Scanner, Catalog, CatalogBackfill, LegacyLots, TotalsProofs,
        SequenceTheorems

-----------------------------------------------------------------------------
(* Deposits spread over shifts *)

\* What a sequence lists, and that it lists nothing twice.
Listed(q) == {q[i] : i \in DOMAIN q}
ListsOnce(q) == \A i, j \in DOMAIN q : q[i] = q[j] => i = j

\* One more at the end of a sequence.
LEMMA AppendedOne ==
  ASSUME NEW S, NEW q \in Seq(S), NEW x \in S
  PROVE  /\ Append(q, x) \in Seq(S) /\ Listed(Append(q, x)) = Listed(q) \cup {x}
         /\ ListsOnce(q) /\ x \notin Listed(q) => ListsOnce(Append(q, x))
<1> DEFINE r == Append(q, x)
<1>1. /\ DOMAIN r = 1 .. Len(q) + 1 /\ DOMAIN q = 1 .. Len(q) /\ Len(q) \in Nat
      /\ r[Len(q) + 1] = x /\ \A i \in 1 .. Len(q) : r[i] = q[i]
  OBVIOUS
<1>2. r \in Seq(S)
  OBVIOUS
<1> HIDE DEF r
<1>3. ASSUME NEW i \in DOMAIN r PROVE i \in DOMAIN q \/ i = Len(q) + 1
  BY <1>1
<1>4. Listed(r) = Listed(q) \cup {x}
  <2>1. ASSUME NEW i \in DOMAIN r PROVE r[i] \in Listed(q) \cup {x}
    BY <1>1, <1>3 DEF Listed
  <2>2. ASSUME NEW i \in DOMAIN q PROVE q[i] \in Listed(r)
    <3>1. i \in DOMAIN r /\ r[i] = q[i]
      BY <1>1
    <3> QED BY <3>1 DEF Listed
  <2>3. x \in Listed(r)
    <3>1. Len(q) + 1 \in DOMAIN r
      BY <1>1
    <3> QED BY <3>1, <1>1 DEF Listed
  <2> QED BY <2>1, <2>2, <2>3 DEF Listed
<1>5. ASSUME ListsOnce(q), x \notin Listed(q) PROVE ListsOnce(r)
  <2> SUFFICES ASSUME NEW i \in DOMAIN r, NEW j \in DOMAIN r, r[i] = r[j] PROVE i = j
    BY DEF ListsOnce
  <2>1. \A k \in DOMAIN q : q[k] # x
    BY <1>5 DEF Listed
  <2> QED BY <1>1, <1>3, <1>5, <2>1 DEF ListsOnce
<1> QED BY <1>2, <1>4, <1>5 DEF r

-----------------------------------------------------------------------------

\* What is covered after one more deposit.
Spread(prev, row, held, order) ==
  LET remaining == [d \in DOMAIN held |-> held[d] - prev[d]]
  IN  [d \in DOMAIN held |-> prev[d] + Take(row, remaining, d, order)]

AfterDeposits(c, n, held, order, deposits) ==
  IF n = 0 THEN [d \in DOMAIN held |-> 0] ELSE Spread(c[n - 1], deposits[n], held, order)

\* c is what is covered after the first deposit, the second, up to the k-th.
Allocates(c, k, held, order, deposits) ==
  c = [n \in 0 .. k |-> AfterDeposits(c, n, held, order, deposits)]

\* The deposits can be spread one after the other.
LEMMA AllocationExists ==
  ASSUME NEW k \in Nat, NEW held, NEW order, NEW deposits
  PROVE  \E c : Allocates(c, k, held, order, deposits)
<1> DEFINE Good == {n \in Nat : \E c : Allocates(c, n, held, order, deposits)}
<1>1. 0 \in Good
  <2> DEFINE c == [n \in 0 .. 0 |-> [d \in DOMAIN held |-> 0]]
  <2>1. Allocates(c, 0, held, order, deposits)
    BY DEF Allocates, AfterDeposits
  <2> QED BY <2>1
<1>2. ASSUME NEW n \in Nat, n \in Good PROVE n + 1 \in Good
  <2>1. PICK c : Allocates(c, n, held, order, deposits)
    BY <1>2
  <2> DEFINE g == [i \in 0 .. n + 1 |-> IF i = n + 1 THEN Spread(c[n], deposits[n + 1], held, order) ELSE c[i]]
  <2>2. ASSUME NEW i \in 0 .. n + 1 PROVE g[i] = AfterDeposits(g, i, held, order, deposits)
    <3>1. CASE i = n + 1
      <4>1. g[i - 1] = c[n] /\ i # 0
        BY <3>1
      <4>2. g[i] = Spread(c[n], deposits[n + 1], held, order)
        BY <3>1
      <4> HIDE DEF g
      <4> QED BY <3>1, <4>1, <4>2 DEF AfterDeposits
    <3>2. CASE i # n + 1
      <4>1. i \in 0 .. n /\ g[i] = c[i] /\ (i # 0 => g[i - 1] = c[i - 1])
        BY <3>2
      <4>2. c[i] = AfterDeposits(c, i, held, order, deposits)
        BY <2>1, <4>1 DEF Allocates
      <4> HIDE DEF g
      <4> QED BY <4>1, <4>2 DEF AfterDeposits
    <3> QED BY <3>1, <3>2
  <2>3. Allocates(g, n + 1, held, order, deposits)
    <3>1. g = [i \in 0 .. n + 1 |-> g[i]]
      OBVIOUS
    <3> HIDE DEF g
    <3> QED BY <2>2, <3>1 DEF Allocates
  <2> QED BY <2>3
<1>3. Nat \subseteq Good
  <2> HIDE DEF Good
  <2> QED BY <1>1, <1>2, NumbersInduction
<1> QED BY <1>3

\* What is computed is the last of them.
LEMMA AllocationComputed ==
  ASSUME NEW held, NEW order, NEW deposits, Len(deposits) \in Nat
  PROVE  \E c : /\ Allocates(c, Len(deposits), held, order, deposits)
                /\ allocateConfirmedDeposits(held, order, deposits) = c[Len(deposits)]
<1>1. \E c : Allocates(c, Len(deposits), held, order, deposits)
  BY AllocationExists
<1> DEFINE c == CHOOSE f : f = [n \in 0 .. Len(deposits) |->
        IF n = 0 THEN [d \in DOMAIN held |-> 0]
        ELSE LET remaining == [d \in DOMAIN held |-> held[d] - f[n - 1][d]]
             IN  [d \in DOMAIN held |-> f[n - 1][d] +
                    Take(deposits[n], remaining, d, order)]]
<1>2. Allocates(c, Len(deposits), held, order, deposits)
  BY <1>1 DEF Allocates, AfterDeposits, Spread
<1>3. allocateConfirmedDeposits(held, order, deposits) = c[Len(deposits)]
  BY DEF allocateConfirmedDeposits
<1> QED BY <1>2, <1>3

\* The rows a deposit may have.
DepositOver(row, D, order) ==
  /\ row.drawers \subseteq D /\ row.drawers \subseteq Listed(order)
  /\ row.confirmedAmount \in Nat

\* One deposit fills its shifts in the order they closed, with all it has or all
\* they need.
LEMMA OneDepositSpread ==
  ASSUME NEW D, IsFiniteSet(D), NEW f \in [D -> Nat], NEW order \in Seq(D), ListsOnce(order),
         NEW row, DepositOver(row, D, order),
         NEW g, \A d \in D : g[d] = Take(row, f, d, order)
  PROVE  /\ \A d \in D : g[d] \in 0 .. f[d] /\ (d \notin row.drawers => g[d] = 0)
         /\ Total(g, row.drawers) = Smaller(Total(f, row.drawers), row.confirmedAmount)
<1> DEFINE T == row.drawers
           q == row.confirmedAmount
           rank == [e \in T |-> CHOOSE i \in DOMAIN order : order[i] = e]
<1>1. T \subseteq D /\ T \subseteq Listed(order) /\ q \in Nat /\ IsFiniteSet(T) /\ NaturalOn(f, T)
  BY FS_Subset DEF DepositOver, NaturalOn
<1>2. DOMAIN order = 1 .. Len(order) /\ Len(order) \in Nat
  OBVIOUS
<1>3. ASSUME NEW e \in T PROVE rank[e] \in DOMAIN order /\ order[rank[e]] = e
  BY <1>1 DEF Listed
<1>4. ASSUME NEW i \in DOMAIN order, order[i] \in T PROVE rank[order[i]] = i
  BY <1>3, <1>4 DEF ListsOnce
<1> HIDE DEF rank
<1>5. IntegerOn(rank, T) /\ \A x, y \in T : rank[x] = rank[y] => x = y
  BY <1>2, <1>3 DEF IntegerOn
<1>6. ASSUME NEW d \in T PROVE ClosedEarlier(T, d, order) = {e \in T : rank[e] < rank[d]}
  <2>1. ASSUME NEW j \in DOMAIN order, order[j] \in T, \A k \in 1 .. j : order[k] # d
        PROVE  order[j] \in T /\ rank[order[j]] < rank[d]
    BY <1>2, <1>3, <1>4, <1>6, <2>1
  <2>2. ASSUME NEW e \in T, rank[e] < rank[d]
        PROVE  rank[e] \in DOMAIN order /\ order[rank[e]] = e /\ \A k \in 1 .. rank[e] : order[k] # d
    <3>1. rank[e] \in DOMAIN order /\ order[rank[e]] = e /\ rank[d] \in DOMAIN order
      BY <1>3, <1>6
    <3>2. ASSUME NEW k \in 1 .. rank[e], order[k] = d PROVE FALSE
      <4>1. k \in DOMAIN order /\ k < rank[d]
        BY <1>2, <2>2, <3>1
      <4> QED BY <1>2, <1>4, <3>1, <3>2, <4>1
    <3> QED BY <3>1, <3>2
  <2>3. ASSUME NEW e \in ClosedEarlier(T, d, order) PROVE e \in T /\ rank[e] < rank[d]
    <3>1. PICK j \in DOMAIN order : order[j] = e /\ order[j] \in T /\ \A k \in 1 .. j : order[k] # d
      BY DEF ClosedEarlier
    <3> QED BY <2>1, <3>1
  <2>4. ASSUME NEW e \in T, rank[e] < rank[d] PROVE e \in ClosedEarlier(T, d, order)
    <3>1. rank[e] \in DOMAIN order /\ order[rank[e]] = e /\ \A k \in 1 .. rank[e] : order[k] # d
      BY <2>2, <2>4
    <3> QED BY <3>1 DEF ClosedEarlier
  <2> QED BY <2>3, <2>4
<1>7. ASSUME NEW d \in T PROVE g[d] = Supplied(f, T, rank, d, q)
  <2>1. Ahead(f, T, rank, d) \in Nat
    BY <1>1, SuppliedType
  <2>2. Total(f, ClosedEarlier(T, d, order)) = Ahead(f, T, rank, d)
    BY <1>6 DEF Ahead
  <2>3. g[d] = AtLeastZero(Smaller(f[d], q - Ahead(f, T, rank, d))) /\ f[d] \in Nat
    BY <1>1, <2>2 DEF Take
  <2> QED BY <1>1, <2>1, <2>3 DEF Supplied, Smaller, AtLeastZero
<1> HIDE DEF T, q
<1>8. Total(g, T) = Smaller(Total(f, T), q)
  <2>1. \A x \in T : g[x] = Supplied(f, T, rank, x, q)
    BY <1>7
  <2>2. IsFiniteSet(T) /\ NaturalOn(f, T) /\ IntegerOn(rank, T) /\ q \in Nat
    BY <1>1, <1>5
  <2>3. \A x, y \in T : rank[x] = rank[y] => x = y
    BY <1>5
  <2> HIDE <1>7
  <2> QED BY <2>1, <2>2, <2>3, SuppliedTotal
<1>9. ASSUME NEW d \in T PROVE g[d] \in 0 .. f[d]
  <2>1. Supplied(f, T, rank, d, q) \in 0 .. f[d]
    BY <1>1, SuppliedType
  <2> QED BY <1>7, <2>1
<1>10. ASSUME NEW d \in D, d \notin T PROVE g[d] = 0 /\ 0 \in 0 .. f[d]
  BY <1>10 DEF Take, T
<1> QED BY <1>8, <1>9, <1>10 DEF T, q

\* What one deposit adds: to no shift more than it took, to no set of shifts more
\* than the deposit, and all of it unless its shifts are then covered.
SpreadRight(prev, next, row, held, D) ==
  /\ next \in [D -> Nat] /\ \A d \in D : prev[d] <= next[d] /\ next[d] <= held[d]
  /\ \A S \in SUBSET D :
       Total(next, S) <= Total(prev, S) + (IF row.drawers \cap S = {} THEN 0 ELSE row.confirmedAmount)
  /\ Total(next, D) - Total(prev, D) < row.confirmedAmount => \A d \in row.drawers : next[d] = held[d]

\* Spreading one more deposit is right.
LEMMA SpreadStep ==
  ASSUME NEW D, IsFiniteSet(D), NEW held \in [D -> Nat], NEW order \in Seq(D), ListsOnce(order),
         NEW row, DepositOver(row, D, order),
         NEW prev \in [D -> Nat], \A d \in D : prev[d] <= held[d]
  PROVE  SpreadRight(prev, Spread(prev, row, held, order), row, held, D)
<1> DEFINE f == [d \in D |-> held[d] - prev[d]]
           g == [d \in D |-> Take(row, f, d, order)]
           T == row.drawers
           q == row.confirmedAmount
           next == Spread(prev, row, held, order)
<1>1. DOMAIN held = D
  OBVIOUS
<1>2. next = [d \in D |-> prev[d] + g[d]]
  BY <1>1 DEF Spread
<1>3. f \in [D -> Nat] /\ \A d \in D : f[d] = held[d] - prev[d]
  OBVIOUS
<1>4. \A d \in D : g[d] = Take(row, f, d, order)
  OBVIOUS
<1> HIDE DEF f, g
<1>5. /\ \A d \in D : g[d] \in 0 .. f[d] /\ (d \notin row.drawers => g[d] = 0)
      /\ Total(g, row.drawers) = Smaller(Total(f, row.drawers), row.confirmedAmount)
  BY <1>3, <1>4, OneDepositSpread
<1>6. T \subseteq D /\ q \in Nat /\ IsFiniteSet(T)
  BY FS_Subset DEF DepositOver
<1>6a. Total(g, T) = Smaller(Total(f, T), q) /\ \A d \in D : d \notin T => g[d] = 0
  BY <1>5
<1> HIDE DEF next, T, q
<1>7. /\ \A d \in D : g[d] \in Nat /\ f[d] \in Nat /\ g[d] <= f[d] /\ next[d] = prev[d] + g[d]
      /\ next \in [D -> Nat] /\ \A d \in D : prev[d] <= next[d] /\ next[d] <= held[d]
  <2>1. ASSUME NEW d \in D
        PROVE  /\ g[d] \in Nat /\ f[d] \in Nat /\ g[d] <= f[d] /\ next[d] = prev[d] + g[d]
               /\ prev[d] <= next[d] /\ next[d] <= held[d] /\ prev[d] + g[d] \in Nat
    <3>1. g[d] \in 0 .. f[d] /\ f[d] \in Nat /\ f[d] = held[d] - prev[d] /\ held[d] \in Nat /\ prev[d] \in Nat
      BY <1>3, <1>5
    <3>2. next[d] = prev[d] + g[d]
      BY <1>2
    <3> QED BY <3>1, <3>2
  <2>2. next \in [D -> Nat]
    BY <1>2, <2>1
  <2> QED BY <2>1, <2>2
<1>8. ASSUME NEW S \in SUBSET D
      PROVE  /\ IsFiniteSet(S) /\ NaturalOn(g, S) /\ IntegerOn(g, S) /\ IntegerOn(prev, S)
             /\ NaturalOn(f, S) /\ IntegerOn(f, S)
             /\ Total(next, S) = Total(prev, S) + Total(g, S)
             /\ Total(prev, S) \in Int /\ Total(g, S) \in Nat /\ Total(f, S) \in Nat
  <2>1. /\ IsFiniteSet(S) /\ NaturalOn(g, S) /\ IntegerOn(g, S) /\ IntegerOn(prev, S)
        /\ NaturalOn(f, S) /\ IntegerOn(f, S)
    BY <1>7, FS_Subset DEF NaturalOn, IntegerOn
  <2>2. \A d \in S : next[d] = prev[d] + g[d]
    BY <1>7
  <2>3. Total(next, S) = Total(prev, S) + Total(g, S)
    BY <2>1, <2>2, TotalAdd
  <2>4. Total(prev, S) \in Int /\ Total(g, S) \in Nat /\ Total(f, S) \in Nat
    BY <2>1, TotalType, TotalNatural
  <2> QED BY <2>1, <2>3, <2>4
<1>9. Total(g, T) <= q
  <2>1. Total(f, T) \in Nat /\ Total(g, T) \in Nat
    BY <1>6, <1>8
  <2> HIDE <1>8
  <2> QED BY <1>6, <1>6a, <2>1 DEF Smaller
<1>10. ASSUME NEW S \in SUBSET D
       PROVE  Total(next, S) <= Total(prev, S) + (IF T \cap S = {} THEN 0 ELSE q)
  <2>1. CASE T \cap S = {}
    <3>1. Total(g, S) = 0
      <4>1. \A d \in S : g[d] = 0
        BY <1>6a, <2>1
      <4> QED BY <4>1, TotalZero
    <3> QED BY <1>8, <2>1, <3>1
  <2>2. CASE T \cap S # {}
    <3>1. Total(g, T \cap S) = Total(g, S)
      <4>1. T \cap S \in SUBSET S /\ (\A d \in S \ (T \cap S) : g[d] = 0)
        BY <1>6a
      <4>2. IsFiniteSet(S) /\ IntegerOn(g, S)
        BY <1>8
      <4>3. \A d \in T \cap S : g[d] = g[d]
        OBVIOUS
      <4> QED BY <4>1, <4>2, <4>3, TotalFiltered
    <3>2. Total(g, T \cap S) <= Total(g, T)
      <4>1. T \cap S \in SUBSET T /\ IsFiniteSet(T) /\ NaturalOn(g, T)
        BY <1>6, <1>8
      <4> QED BY <4>1, TotalSubset
    <3>3. Total(g, T) \in Nat /\ Total(g, S) \in Nat /\ Total(prev, S) \in Int
      BY <1>6, <1>8
    <3> QED BY <1>6, <1>8, <1>9, <2>2, <3>1, <3>2, <3>3
  <2> QED BY <2>1, <2>2
<1>11. ASSUME Total(next, D) - Total(prev, D) < q, NEW d \in T PROVE next[d] = held[d]
  <2>1. Total(g, T) = Total(g, D)
    <3>1. T \in SUBSET D /\ (\A x \in D \ T : g[x] = 0) /\ IntegerOn(g, D)
      BY <1>6, <1>6a, <1>8
    <3>2. \A x \in T : g[x] = g[x]
      OBVIOUS
    <3> QED BY <3>1, <3>2, TotalFiltered
  <2>2. Total(next, D) = Total(prev, D) + Total(g, D) /\ Total(prev, D) \in Int /\ Total(g, D) \in Nat
    BY <1>8
  <2>3. Total(g, T) < q /\ Total(f, T) \in Nat
    BY <1>6, <1>8, <1>11, <2>1, <2>2
  <2>4. Total(g, T) = Total(f, T)
    BY <1>6, <1>6a, <2>3 DEF Smaller
  <2>5. /\ Total(g, T) = Total(g, T \ {d}) + g[d] /\ Total(f, T) = Total(f, T \ {d}) + f[d]
        /\ Total(g, T \ {d}) \in Int /\ Total(f, T \ {d}) \in Int
    <3>1. IntegerOn(g, T) /\ IntegerOn(f, T)
      BY <1>6, <1>8
    <3> QED BY <1>6, <3>1, TotalWithout
  <2>6. Total(g, T \ {d}) <= Total(f, T \ {d})
    <3>1. T \ {d} \in SUBSET D
      BY <1>6
    <3>2. IsFiniteSet(T \ {d}) /\ IntegerOn(g, T \ {d}) /\ IntegerOn(f, T \ {d})
      BY <1>8, <3>1
    <3>3. \A x \in T \ {d} : g[x] <= f[x]
      BY <1>7, <3>1
    <3> QED BY <3>2, <3>3, TotalMonotone
  <2>7. d \in D /\ g[d] \in Nat /\ f[d] \in Nat /\ g[d] <= f[d]
    BY <1>6, <1>7
  <2>8. g[d] = f[d]
    <3> DEFINE a == Total(g, T \ {d})
               b == Total(f, T \ {d})
    <3>1. a + g[d] = b + f[d] /\ a <= b /\ a \in Int /\ b \in Int
      BY <2>4, <2>5, <2>6
    <3> HIDE DEF a, b
    <3> QED BY <2>7, <3>1
  <2> QED BY <1>3, <1>7, <2>7, <2>8
<1> QED BY <1>7, <1>10, <1>11 DEF SpreadRight, next, T, q

\* Deposits spread alike as far as they are the same deposits.
LEMMA AllocationAgrees ==
  ASSUME NEW held, NEW order, NEW deposits, NEW others, NEW k \in Nat, NEW m \in Nat,
         NEW a, Allocates(a, k, held, order, deposits), NEW b, Allocates(b, m, held, order, others),
         m <= k, \A i \in 1 .. m : deposits[i] = others[i]
  PROVE  a[m] = b[m]
<1> DEFINE Good == {i \in Nat : i <= m => a[i] = b[i]}
<1>1. \A i \in 0 .. m : a[i] = AfterDeposits(a, i, held, order, deposits)
                        /\ b[i] = AfterDeposits(b, i, held, order, others)
  <2>1. \A i \in 0 .. m : a[i] = AfterDeposits(a, i, held, order, deposits)
    <3>1. \A i \in 0 .. k : a[i] = AfterDeposits(a, i, held, order, deposits)
      BY DEF Allocates
    <3> QED BY <3>1
  <2>2. \A i \in 0 .. m : b[i] = AfterDeposits(b, i, held, order, others)
    BY DEF Allocates
  <2> QED BY <2>1, <2>2
<1>2. 0 \in Good
  <2>1. 0 \in 0 .. m
    OBVIOUS
  <2> QED BY <1>1, <2>1 DEF AfterDeposits
<1>3. ASSUME NEW i \in Nat, i \in Good PROVE i + 1 \in Good
  <2> SUFFICES ASSUME i + 1 <= m PROVE a[i + 1] = b[i + 1]
    OBVIOUS
  <2>1. i + 1 \in 0 .. m /\ i + 1 \in 1 .. m /\ i + 1 # 0 /\ (i + 1) - 1 = i /\ a[i] = b[i]
    BY <1>3
  <2> QED BY <1>1, <2>1 DEF AfterDeposits
<1>4. Nat \subseteq Good
  <2> HIDE DEF Good
  <2> QED BY <1>2, <1>3, NumbersInduction
<1> QED BY <1>4

\* The confirmed amounts of the deposits recorded for a shift of S.
Banked(deposits, S, n) ==
  Total([i \in DOMAIN deposits |-> deposits[i].confirmedAmount],
        {i \in 1 .. n : deposits[i].drawers \cap S # {}})

\* No shift is covered by more than it took, no set of shifts by more than the
\* deposits recorded for any of them, and a shift stays uncovered only when its
\* deposits are used up.
CoverageRight(held, order, deposits) ==
  LET covered(n) == allocateConfirmedDeposits(held, order, SubSeq(deposits, 1, n))
      last == allocateConfirmedDeposits(held, order, deposits)
  IN  /\ last \in [DOMAIN held -> Nat] /\ \A d \in DOMAIN held : last[d] <= held[d]
      /\ \A S \in SUBSET DOMAIN held : Total(last, S) <= Banked(deposits, S, Len(deposits))
      /\ \A n \in 1 .. Len(deposits) :
           Total(covered(n), DOMAIN held) - Total(covered(n - 1), DOMAIN held)
               < deposits[n].confirmedAmount
             => \A d \in deposits[n].drawers : last[d] = held[d]

\* allocateConfirmedDeposits is right for any shifts and any deposits recorded
\* for shifts that closed.
THEOREM CoverageIsRight ==
  ASSUME NEW D, IsFiniteSet(D), NEW held \in [D -> Nat], NEW order \in Seq(D), ListsOnce(order),
         NEW R, NEW deposits \in Seq(R), \A i \in DOMAIN deposits : DepositOver(deposits[i], D, order)
  PROVE  CoverageRight(held, order, deposits)
<1> DEFINE L == Len(deposits)
           amount == [i \in DOMAIN deposits |-> deposits[i].confirmedAmount]
           For(S, n) == {i \in 1 .. n : deposits[i].drawers \cap S # {}}
           Sound(x) == x \in [D -> Nat] /\ \A d \in D : x[d] <= held[d]
<1>1. L \in Nat /\ DOMAIN deposits = 1 .. L /\ DOMAIN held = D
  OBVIOUS
<1>2. PICK c : /\ Allocates(c, L, held, order, deposits)
               /\ allocateConfirmedDeposits(held, order, deposits) = c[L]
  BY <1>1, AllocationComputed
<1> HIDE DEF L
<1>3. /\ c[0] = [d \in D |-> 0]
      /\ \A n \in 1 .. L : c[n] = Spread(c[n - 1], deposits[n], held, order)
  <2>1. \A n \in 0 .. L : c[n] = AfterDeposits(c, n, held, order, deposits)
    BY <1>2 DEF Allocates
  <2>2. 0 \in 0 .. L /\ \A n \in 1 .. L : n \in 0 .. L /\ n # 0
    BY <1>1
  <2> QED BY <1>1, <2>1, <2>2 DEF AfterDeposits
<1>4. ASSUME NEW S \in SUBSET D, NEW n \in Nat, n + 1 <= L
      PROVE  /\ Total(amount, For(S, n)) \in Nat
             /\ Total(amount, For(S, n + 1)) =
                  Total(amount, For(S, n)) + (IF deposits[n + 1].drawers \cap S = {} THEN 0
                                              ELSE deposits[n + 1].confirmedAmount)
  <2>1. IsFiniteSet(1 .. n) /\ IsFiniteSet(1 .. n + 1)
    BY FS_Interval
  <2>2. IsFiniteSet(For(S, n)) /\ IsFiniteSet(For(S, n + 1))
    BY <2>1, FS_Subset
  <2>3. \A i \in 1 .. L : amount[i] = deposits[i].confirmedAmount /\ amount[i] \in Nat
    BY <1>1 DEF DepositOver
  <2>4. NaturalOn(amount, For(S, n)) /\ IntegerOn(amount, For(S, n + 1))
    <3>1. For(S, n) \subseteq 1 .. L /\ For(S, n + 1) \subseteq 1 .. L
      BY <1>1, <1>4
    <3> HIDE DEF For, amount
    <3> QED BY <2>3, <3>1 DEF NaturalOn, IntegerOn
  <2>5. Total(amount, For(S, n)) \in Nat
    <3> HIDE DEF For, amount
    <3> QED BY <2>2, <2>4, TotalNatural
  <2>6. ASSUME deposits[n + 1].drawers \cap S = {} PROVE For(S, n + 1) = For(S, n)
    BY <2>6
  <2>7. ASSUME deposits[n + 1].drawers \cap S # {}
        PROVE  n + 1 \in For(S, n + 1) /\ For(S, n + 1) \ {n + 1} = For(S, n)
    BY <2>7
  <2>8. n + 1 \in 1 .. L
    BY <1>1, <1>4
  <2> HIDE DEF For, amount
  <2>9. CASE deposits[n + 1].drawers \cap S = {}
    BY <2>5, <2>6, <2>9
  <2>10. CASE deposits[n + 1].drawers \cap S # {}
    <3>1. Total(amount, For(S, n + 1)) = Total(amount, For(S, n + 1) \ {n + 1}) + amount[n + 1]
      BY <2>2, <2>4, <2>7, <2>10, TotalWithout
    <3> QED BY <2>3, <2>5, <2>7, <2>8, <2>10, <3>1
  <2> QED BY <2>9, <2>10
<1> HIDE DEF amount, For
<1> DEFINE Bounded(n) == \A S \in SUBSET D : Total(c[n], S) <= Total(amount, For(S, n))
           Good == {n \in Nat : n <= L => Sound(c[n]) /\ Bounded(n)}
<1>5. 0 \in Good
  <2>1. Sound(c[0])
    BY <1>3
  <2>2. ASSUME NEW S \in SUBSET D PROVE Total(c[0], S) <= Total(amount, For(S, 0))
    <3>1. For(S, 0) = {}
      BY DEF For
    <3>2. \A d \in S : c[0][d] = 0
      BY <1>3
    <3>3. Total(c[0], S) = 0 /\ Total(amount, For(S, 0)) = 0
      BY <3>1, <3>2, TotalZero
    <3> QED BY <3>3
  <2> QED BY <2>1, <2>2
<1>6. ASSUME NEW n \in Nat, n + 1 <= L, Sound(c[n])
      PROVE  SpreadRight(c[n], c[n + 1], deposits[n + 1], held, D)
  <2>1. n + 1 \in 1 .. L /\ (n + 1) - 1 = n
    BY <1>1, <1>6
  <2>2. c[n + 1] = Spread(c[n], deposits[n + 1], held, order)
    BY <1>3, <2>1
  <2>3. DepositOver(deposits[n + 1], D, order)
    BY <1>1, <2>1
  <2> QED BY <1>6, <2>2, <2>3, SpreadStep
<1>7. ASSUME NEW n \in Nat, n \in Good PROVE n + 1 \in Good
  <2> SUFFICES ASSUME n + 1 <= L PROVE Sound(c[n + 1]) /\ Bounded(n + 1)
    OBVIOUS
  <2>1. Sound(c[n]) /\ Bounded(n)
    BY <1>1, <1>7
  <2>2. SpreadRight(c[n], c[n + 1], deposits[n + 1], held, D)
    BY <1>6, <2>1
  <2>3. Sound(c[n + 1])
    BY <2>2 DEF SpreadRight
  <2>4. ASSUME NEW S \in SUBSET D PROVE Total(c[n + 1], S) <= Total(amount, For(S, n + 1))
    <3> DEFINE x == IF deposits[n + 1].drawers \cap S = {} THEN 0 ELSE deposits[n + 1].confirmedAmount
    <3>1. Total(c[n + 1], S) <= Total(c[n], S) + x /\ Total(c[n], S) <= Total(amount, For(S, n))
      BY <2>1, <2>2 DEF SpreadRight
    <3>2. Total(amount, For(S, n)) \in Nat /\ Total(amount, For(S, n + 1)) = Total(amount, For(S, n)) + x
      BY <1>4
    <3>3. n + 1 \in DOMAIN deposits
      BY <1>1
    <3>4. x \in Nat
      BY <3>3 DEF DepositOver
    <3>5. IsFiniteSet(S) /\ IntegerOn(c[n], S) /\ IntegerOn(c[n + 1], S)
      BY <2>1, <2>3, FS_Subset DEF IntegerOn
    <3>6. Total(c[n], S) \in Int /\ Total(c[n + 1], S) \in Int
      BY <3>5, TotalType
    <3> HIDE DEF x
    <3> QED BY <3>1, <3>2, <3>4, <3>6
  <2> QED BY <2>3, <2>4
<1>8. Nat \subseteq Good
  <2> HIDE DEF Good
  <2> QED BY <1>5, <1>7, NumbersInduction
<1>9. Sound(c[L]) /\ Bounded(L)
  <2>1. L \in Good /\ L <= L
    BY <1>1, <1>8
  <2> HIDE DEF Sound, Bounded
  <2> QED BY <2>1
<1>10. ASSUME NEW n \in 0 .. L PROVE Sound(c[n])
  BY <1>1, <1>8
<1>11. ASSUME NEW n \in 0 .. L PROVE allocateConfirmedDeposits(held, order, SubSeq(deposits, 1, n)) = c[n]
  <2> DEFINE part == SubSeq(deposits, 1, n)
  <2>1. Len(part) = n /\ n \in Nat /\ \A i \in 1 .. n : part[i] = deposits[i]
    BY <1>1 DEF L
  <2> HIDE DEF part
  <2>2. PICK b : Allocates(b, n, held, order, part) /\ allocateConfirmedDeposits(held, order, part) = b[n]
    BY <2>1, AllocationComputed
  <2>3. n <= L /\ \A i \in 1 .. n : deposits[i] = part[i]
    BY <1>1, <2>1
  <2>4. c[n] = b[n]
    BY <1>1, <1>2, <2>1, <2>2, <2>3, AllocationAgrees
  <2> QED BY <2>2, <2>4 DEF part
<1>12. ASSUME NEW n \in 1 .. L, Total(c[n], D) - Total(c[n - 1], D) < deposits[n].confirmedAmount,
              NEW d \in deposits[n].drawers
       PROVE  c[L][d] = held[d]
  <2> DEFINE Full == {i \in Nat : n <= i /\ i <= L => c[i][d] = held[d]}
  <2>1. n \in DOMAIN deposits /\ n - 1 \in Nat /\ (n - 1) + 1 = n /\ n - 1 \in 0 .. L /\ n <= L /\ n \in Nat
    BY <1>1
  <2>2. d \in D
    BY <2>1 DEF DepositOver
  <2>3. Sound(c[n - 1])
    BY <1>10, <2>1
  <2>4. SpreadRight(c[n - 1], c[n], deposits[n], held, D)
    BY <1>6, <2>1, <2>3
  <2>5. c[n][d] = held[d]
    BY <1>12, <2>4 DEF SpreadRight
  <2>6. 0 \in Full
    BY <2>1, <2>5
  <2>7. ASSUME NEW i \in Nat, i \in Full PROVE i + 1 \in Full
    <3> SUFFICES ASSUME n <= i + 1, i + 1 <= L PROVE c[i + 1][d] = held[d]
      OBVIOUS
    <3>1. CASE n = i + 1
      BY <2>5, <3>1
    <3>2. CASE n # i + 1
      <4>1. i \in 0 .. L /\ n <= i /\ c[i][d] = held[d]
        BY <1>1, <2>1, <2>7, <3>2
      <4>2. SpreadRight(c[i], c[i + 1], deposits[i + 1], held, D)
        BY <1>6, <1>10, <4>1
      <4>3. c[i + 1][d] \in Nat /\ c[i][d] <= c[i + 1][d] /\ c[i + 1][d] <= held[d] /\ held[d] \in Nat
        BY <2>2, <4>2 DEF SpreadRight
      <4> QED BY <4>1, <4>3
    <3> QED BY <3>1, <3>2
  <2>8. Nat \subseteq Full
    <3> HIDE DEF Full
    <3> QED BY <2>6, <2>7, NumbersInduction
  <2> QED BY <1>1, <2>1, <2>8
<1>13. ASSUME NEW n \in 1 .. L,
              Total(allocateConfirmedDeposits(held, order, SubSeq(deposits, 1, n)), D)
                - Total(allocateConfirmedDeposits(held, order, SubSeq(deposits, 1, n - 1)), D)
                < deposits[n].confirmedAmount,
              NEW d \in deposits[n].drawers
       PROVE  c[L][d] = held[d]
  <2>1. n \in 0 .. L /\ n - 1 \in 0 .. L
    BY <1>1
  <2> QED BY <1>11, <1>12, <1>13, <2>1
<1>14. ASSUME NEW S \in SUBSET D PROVE Total(c[L], S) <= Banked(deposits, S, L)
  BY <1>9 DEF Banked, amount, For
<1>15. L = Len(deposits)
  BY DEF L
<1> HIDE DEF Good, Bounded
<1> QED BY <1>1, <1>2, <1>9, <1>13, <1>14, <1>15 DEF CoverageRight

-----------------------------------------------------------------------------
(* Cash from the till to the bank *)

DepositRow ==
  [status : {"NONE", "RECORDED", "CONFIRMED", "DISPUTED"}, drawers : SUBSET Drawers,
   confirmedAmount : Amounts \cup {0}]

\* The rows, and the requests under way.
CashRowsOK ==
  /\ TypeOK
  /\ closing \in [drawer : Drawers \cup {0}, counted : Nat, expected : SUBSET Int]
  /\ deposit \in [Deposits -> DepositRow]
  /\ closedOrder \in Seq(Drawers) /\ bankOrder \in Seq(Deposits)

\* A deposit is in the bank's order once, a shift in the order of closing.
ConfirmedOnce == \A i, j \in DOMAIN bankOrder : bankOrder[i] = bankOrder[j] => i = j

ClosedOnce == \A i, j \in DOMAIN closedOrder : closedOrder[i] = closedOrder[j] => i = j

\* Deposits are recorded for shifts that closed.
DepositsOfClosed == \A x \in Deposits : \A d \in deposit[x].drawers : drawer[d] = "CLOSED"

\* Who closes a drawer closes an open one.
ClosingOpen == closing = Idle \/ closing.drawer \in OpenDrawers

SoldBeforePaid == \A d \in Drawers : soldBefore[d] \subseteq PaidSales

\* Of two open drawers neither is orderly.
TwoOpenDisturbed == \A d, e \in OpenDrawers : d # e => d \in disturbed

\* The money in the till of an orderly shift: the float, what its books say and
\* what is not synced yet.
TillBalances ==
  \A d \in OpenDrawers \ disturbed :
    till = Float + Total(Price, ShiftSales(d)) + Total(Price, UnsyncedCash)

\* A count that was taken stands until the close, unless the shift is disturbed.
CountStands ==
  closing # Idle /\ closing.drawer \notin disturbed =>
    UnsyncedCash = {} /\ closing.counted = till /\ closing.expected \subseteq {closing.counted}

CashInv ==
  /\ CashRowsOK /\ ConfirmedOnce /\ ClosedOnce /\ DepositsOfClosed /\ ClosingOpen /\ SoldBeforePaid
  /\ TwoOpenDisturbed /\ TillBalances /\ CountStands /\ OrderlyShiftBalances

\* What depends on the till and the shifts alone.
TillOK ==
  /\ ClosingOpen /\ SoldBeforePaid /\ TwoOpenDisturbed
  /\ TillBalances /\ CountStands /\ OrderlyShiftBalances

\* Prices add up.
LEMMA PriceTotals ==
  ASSUME NEW S \in SUBSET Sales
  PROVE  IsFiniteSet(S) /\ IntegerOn(Price, S) /\ Total(Price, S) \in Nat
<1>1. IsFiniteSet(S) /\ NaturalOn(Price, S) /\ IntegerOn(Price, S)
  BY CashAssumption, FS_Subset DEF NaturalOn, IntegerOn
<1> QED BY <1>1, TotalNatural

\* A sale more, a sale less.
LEMMA PriceMoves ==
  ASSUME NEW S \in SUBSET Sales, NEW s \in Sales
  PROVE  /\ s \notin S => Total(Price, S \cup {s}) = Total(Price, S) + Price[s]
         /\ s \in S => Total(Price, S \ {s}) = Total(Price, S) - Price[s]
<1>1. /\ IsFiniteSet(S) /\ IntegerOn(Price, S) /\ Total(Price, S) \in Nat
      /\ IsFiniteSet(S \cup {s}) /\ IntegerOn(Price, S \cup {s}) /\ Total(Price, S \cup {s}) \in Nat
  BY PriceTotals
<1>2. Price[s] \in Nat
  BY CashAssumption
<1>3. ASSUME s \notin S PROVE Total(Price, S \cup {s}) = Total(Price, S) + Price[s]
  <2>1. Total(Price, S \cup {s}) = Total(Price, (S \cup {s}) \ {s}) + Price[s]
    BY <1>1, TotalWithout
  <2>2. (S \cup {s}) \ {s} = S
    BY <1>3
  <2> QED BY <2>1, <2>2
<1>4. ASSUME s \in S PROVE Total(Price, S \ {s}) = Total(Price, S) - Price[s]
  <2>1. Total(Price, S) = Total(Price, S \ {s}) + Price[s] /\ Total(Price, S \ {s}) \in Int
    BY <1>1, <1>4, TotalWithout
  <2> QED BY <2>1, <1>1, <1>2
<1> QED BY <1>3, <1>4

\* The sets of sales the books and the till speak of.
LEMMA SaleSets ==
  /\ PaidSales \subseteq Sales /\ UnsyncedCash \subseteq Sales
  /\ \A d : ShiftSales(d) \subseteq Sales
  BY CashAssumption DEF PaidSales, UnsyncedCash, ShiftSales

\* At first the till is empty.
LEMMA CashStart == Init => CashInv
<1> SUFFICES ASSUME Init PROVE CashInv
  OBVIOUS
<1>1. \A d \in Drawers : drawer[d] = "NONE"
  BY DEF Init
<1>2. OpenDrawers = {}
  BY <1>1 DEF OpenDrawers
<1>3. deposit \in [Deposits -> DepositRow] /\ \A x \in Deposits : deposit[x] = NoRow /\ deposit[x].status = "NONE"
      /\ deposit[x].drawers = {} /\ deposit[x].confirmedAmount = 0
  BY DEF Init, NoRow, DepositRow
<1>4. closing = Idle /\ closing.drawer = 0 /\ closing \in [drawer : Drawers \cup {0}, counted : Nat, expected : SUBSET Int]
  BY DEF Init, Idle
<1>5. closedOrder \in Seq(Drawers) /\ bankOrder \in Seq(Deposits) /\ DOMAIN closedOrder = {} /\ DOMAIN bankOrder = {}
  BY DEF Init
<1>6. TypeOK
  <2>1. {closedOrder[i] : i \in DOMAIN closedOrder} = {d \in Drawers : drawer[d] = "CLOSED"}
    BY <1>1, <1>5
  <2>2. {bankOrder[i] : i \in DOMAIN bankOrder} = {x \in Deposits : deposit[x].status = "CONFIRMED"}
    BY <1>3, <1>5
  <2>3. opening \in 0 .. MaxOpeners /\ day \in 0 .. LastDay /\ closedDay \in [Drawers -> 0 .. LastDay]
    BY CashAssumption DEF Init
  <2> QED BY <2>1, <2>2, <2>3, <1>3, <1>4 DEF TypeOK, Init
<1>7. ConfirmedOnce /\ ClosedOnce /\ DepositsOfClosed /\ ClosingOpen
  BY <1>3, <1>4, <1>5 DEF ConfirmedOnce, ClosedOnce, DepositsOfClosed, ClosingOpen
<1>8. SoldBeforePaid
  BY DEF SoldBeforePaid, Init
<1>9. TwoOpenDisturbed /\ TillBalances
  BY <1>2 DEF TwoOpenDisturbed, TillBalances
<1>10. CountStands /\ OrderlyShiftBalances
  BY <1>1, <1>4 DEF CountStands, OrderlyShiftBalances
<1> QED BY <1>3, <1>4, <1>5, <1>6, <1>7, <1>8, <1>9, <1>10 DEF CashInv, CashRowsOK

\* What the steps at the till may use.
LEMMA TillFacts ==
  ASSUME CashInv
  PROVE  /\ TillOK /\ TypeOK /\ till \in Nat /\ opening \in Nat
         /\ closing \in [drawer : Drawers \cup {0}, counted : Nat, expected : SUBSET Int]
         /\ closing # Idle => closing.drawer \in OpenDrawers /\ closing.drawer \in Drawers
         /\ saleStatus \in [Sales -> {"NONE", "RINGING", "PAID", "REFUNDED"}]
         /\ drawer \in [Drawers -> {"NONE", "OPEN", "CLOSED"}]
         /\ disturbed \subseteq Drawers
  BY CashAssumption DEF CashInv, CashRowsOK, TillOK, TypeOK, ClosingOpen, OpenDrawers

\* Steps that leave the deposits and the shifts' books alone.
LEMMA TillStepFrame ==
  ASSUME CashInv, UNCHANGED <<shiftVars, depositVars, day, flagged>>,
         saleStatus' \in [Sales -> {"NONE", "RINGING", "PAID", "REFUNDED"}],
         drawer' \in [Drawers -> {"NONE", "OPEN", "CLOSED"}],
         \A d \in Drawers : drawer'[d] = "CLOSED" <=> drawer[d] = "CLOSED",
         soldBefore' \in [Drawers -> SUBSET Sales], till' \in Nat, opening' \in 0 .. MaxOpeners,
         closing' \in [drawer : Drawers \cup {0}, counted : Nat, expected : SUBSET Int],
         disturbed' \subseteq Drawers, disturbed \subseteq disturbed',
         ClosingOpen', SoldBeforePaid', TwoOpenDisturbed', TillBalances', CountStands'
  PROVE  CashInv'
<1>1. UNCHANGED <<countedCash, expectedCash, closedOrder, closedDay, deposit, bankOrder, disputing, day, flagged>>
  BY DEF shiftVars, depositVars
<1>2. {d \in Drawers : drawer'[d] = "CLOSED"} = {d \in Drawers : drawer[d] = "CLOSED"}
  OBVIOUS
<1>3. closing'.drawer \in Drawers \cup {0}
  OBVIOUS
<1>4. TypeOK'
  <2>1. TypeOK
    BY DEF CashInv, CashRowsOK
  <2>2. {closedOrder'[i] : i \in DOMAIN closedOrder'} = {d \in Drawers : drawer'[d] = "CLOSED"}
    BY <2>1, <1>1, <1>2 DEF TypeOK
  <2>3. {bankOrder'[i] : i \in DOMAIN bankOrder'} = {x \in Deposits : deposit'[x].status = "CONFIRMED"}
    BY <2>1, <1>1 DEF TypeOK
  <2>4. /\ countedCash' \in [Drawers -> Nat] /\ expectedCash' \in [Drawers -> Int]
        /\ closedDay' \in [Drawers -> 0 .. LastDay] /\ disputing' \subseteq Deposits
        /\ day' \in 0 .. LastDay /\ flagged' \subseteq 0 .. LastDay
        /\ \A x \in Deposits :
             /\ deposit'[x].status \in {"NONE", "RECORDED", "CONFIRMED", "DISPUTED"}
             /\ deposit'[x].drawers \subseteq Drawers
             /\ deposit'[x].confirmedAmount \in Amounts \cup {0}
    BY <2>1, <1>1 DEF TypeOK
  <2> QED BY <2>2, <2>3, <2>4, <1>3 DEF TypeOK
<1>5. CashRowsOK'
  BY <1>1, <1>4 DEF CashInv, CashRowsOK
<1>6. ConfirmedOnce' /\ ClosedOnce'
  BY <1>1 DEF CashInv, ConfirmedOnce, ClosedOnce
<1>6a. DepositsOfClosed'
  BY <1>1 DEF CashInv, CashRowsOK, TypeOK, DepositsOfClosed
<1>7. OrderlyShiftBalances'
  BY <1>1 DEF CashInv, OrderlyShiftBalances
<1> QED BY <1>5, <1>6, <1>6a, <1>7 DEF CashInv

\* A sale is rung up.
LEMMA RingUpKeeps == ASSUME CashInv, NEW s \in Sales, RingUp(s) PROVE CashInv'
<1>1. /\ saleStatus[s] = "NONE" /\ saleStatus' = [saleStatus EXCEPT ![s] = "RINGING"]
      /\ till' = (IF s \in Synced THEN till + Price[s] ELSE till)
      /\ disturbed' = (IF s \in Synced THEN disturbed \cup BeingCounted ELSE disturbed)
      /\ UNCHANGED <<drawer, soldBefore, opening, closing>> /\ UNCHANGED <<shiftVars, depositVars, day, flagged>>
  BY DEF RingUp
<1>2. /\ saleStatus' \in [Sales -> {"NONE", "RINGING", "PAID", "REFUNDED"}] /\ saleStatus'[s] = "RINGING"
      /\ \A x \in Sales : x # s => saleStatus'[x] = saleStatus[x]
  BY <1>1, TillFacts
<1>3. PaidSales' = PaidSales /\ (\A d : ShiftSales(d)' = ShiftSales(d)) /\ OpenDrawers' = OpenDrawers
  BY <1>1, <1>2 DEF PaidSales, ShiftSales, OpenDrawers
<1>4. s \notin UnsyncedCash /\ UnsyncedCash' = (IF s \in Synced THEN UnsyncedCash \cup {s} ELSE UnsyncedCash)
  BY <1>1, <1>2, CashAssumption DEF UnsyncedCash
<1>5. disturbed \subseteq disturbed' /\ disturbed' \subseteq Drawers
  BY <1>1, TillFacts DEF BeingCounted
<1>6. TillBalances'
  <2> SUFFICES ASSUME NEW d \in OpenDrawers' \ disturbed'
               PROVE  till' = Float + Total(Price, ShiftSales(d)') + Total(Price, UnsyncedCash')
    BY DEF TillBalances
  <2>1. till = Float + Total(Price, ShiftSales(d)) + Total(Price, UnsyncedCash)
    BY <1>3, <1>5, TillFacts DEF TillOK, TillBalances
  <2>2. PICK a \in Nat, u \in Nat, p \in Nat, f \in Nat :
          a = Total(Price, ShiftSales(d)) /\ u = Total(Price, UnsyncedCash) /\ p = Price[s] /\ f = Float
    BY SaleSets, PriceTotals, CashAssumption
  <2>3. Total(Price, UnsyncedCash') = IF s \in Synced THEN u + p ELSE u
    BY <1>4, <2>2, SaleSets, PriceMoves
  <2> QED BY <1>1, <1>3, <2>1, <2>2, <2>3
<1>7. CountStands'
  <2> SUFFICES ASSUME closing' # Idle, closing'.drawer \notin disturbed'
               PROVE  UnsyncedCash' = {} /\ closing'.counted = till' /\ closing'.expected \subseteq {closing'.counted}
    BY DEF CountStands
  <2>1. closing # Idle /\ closing.drawer \in Drawers /\ closing.drawer \notin disturbed'
    BY <1>1, TillFacts
  <2>2. s \notin Synced
    BY <1>1, <2>1 DEF BeingCounted
  <2> QED BY <1>1, <1>4, <1>5, <2>1, <2>2, TillFacts DEF TillOK, CountStands
<1>8. ClosingOpen' /\ SoldBeforePaid'
  BY <1>1, <1>3, TillFacts DEF TillOK, ClosingOpen, SoldBeforePaid
<1>9. TwoOpenDisturbed'
  BY <1>3, <1>5, TillFacts DEF TillOK, TwoOpenDisturbed
<1>10. till' \in Nat /\ opening' \in 0 .. MaxOpeners /\ soldBefore' \in [Drawers -> SUBSET Sales]
       /\ closing' \in [drawer : Drawers \cup {0}, counted : Nat, expected : SUBSET Int]
       /\ drawer' \in [Drawers -> {"NONE", "OPEN", "CLOSED"}]
       /\ \A d \in Drawers : drawer'[d] = "CLOSED" <=> drawer[d] = "CLOSED"
  BY <1>1, TillFacts, CashAssumption DEF TypeOK
<1> QED BY <1>1, <1>2, <1>5, <1>6, <1>7, <1>8, <1>9, <1>10, TillStepFrame

\* A sale is created: its cash is in the books.
LEMMA CashSaleKeeps == ASSUME CashInv, NEW s \in Sales, CashSale(s) PROVE CashInv'
<1>1. /\ saleStatus[s] = "RINGING" /\ saleStatus' = [saleStatus EXCEPT ![s] = "PAID"]
      /\ till' = (IF s \in Synced THEN till ELSE till + Price[s])
      /\ disturbed' = disturbed \cup BeingCounted
      /\ UNCHANGED <<drawer, soldBefore, opening, closing>> /\ UNCHANGED <<shiftVars, depositVars, day, flagged>>
  BY DEF CashSale
<1>2. /\ saleStatus' \in [Sales -> {"NONE", "RINGING", "PAID", "REFUNDED"}] /\ saleStatus'[s] = "PAID"
      /\ \A x \in Sales : x # s => saleStatus'[x] = saleStatus[x]
  BY <1>1, TillFacts
<1>3. PaidSales' = PaidSales \cup {s} /\ s \notin PaidSales /\ OpenDrawers' = OpenDrawers
  BY <1>1, <1>2 DEF PaidSales, OpenDrawers
<1>4. s \in Synced <=> s \in UnsyncedCash
  BY <1>1 DEF UnsyncedCash
<1>4a. UnsyncedCash' = UnsyncedCash \ {s}
  BY <1>1, <1>2, CashAssumption DEF UnsyncedCash
<1>5. disturbed \subseteq disturbed' /\ disturbed' \subseteq Drawers
  BY <1>1, TillFacts DEF BeingCounted
<1>6. TillBalances'
  <2> SUFFICES ASSUME NEW d \in OpenDrawers' \ disturbed'
               PROVE  till' = Float + Total(Price, ShiftSales(d)') + Total(Price, UnsyncedCash')
    BY DEF TillBalances
  <2>1. till = Float + Total(Price, ShiftSales(d)) + Total(Price, UnsyncedCash) /\ d \in Drawers
    BY <1>3, <1>5, TillFacts DEF TillOK, TillBalances, OpenDrawers
  <2>2. PICK a \in Nat, u \in Nat, p \in Nat, f \in Nat :
          a = Total(Price, ShiftSales(d)) /\ u = Total(Price, UnsyncedCash) /\ p = Price[s] /\ f = Float
    BY SaleSets, PriceTotals, CashAssumption
  <2>3. s \notin soldBefore[d] /\ s \notin ShiftSales(d)
    BY <1>3, <2>1, TillFacts DEF TillOK, SoldBeforePaid, ShiftSales
  <2>4. ShiftSales(d)' = ShiftSales(d) \cup {s}
    <3>1. soldBefore' = soldBefore
      BY <1>1
    <3> QED BY <3>1, <1>2, <1>3, <2>3 DEF ShiftSales, PaidSales
  <2>5. Total(Price, ShiftSales(d)') = a + p
    BY <2>2, <2>3, <2>4, SaleSets, PriceMoves
  <2>6. CASE s \in Synced
    <3>1. Total(Price, UnsyncedCash') = u - p
      BY <1>4, <1>4a, <2>2, <2>6, SaleSets, PriceMoves
    <3> QED BY <3>1, <1>1, <2>1, <2>2, <2>5, <2>6
  <2>7. CASE s \notin Synced
    <3>1. UnsyncedCash' = UnsyncedCash
      BY <1>4, <1>4a, <2>7
    <3> QED BY <3>1, <1>1, <2>1, <2>2, <2>5, <2>7
  <2> QED BY <2>6, <2>7
<1>7. CountStands'
  <2> SUFFICES ASSUME closing' # Idle, closing'.drawer \notin disturbed' PROVE FALSE
    BY DEF CountStands
  <2>1. closing # Idle /\ closing.drawer \in Drawers /\ closing.drawer \notin disturbed'
    BY <1>1, TillFacts
  <2> QED BY <1>1, <2>1 DEF BeingCounted
<1>8. ClosingOpen' /\ SoldBeforePaid'
  BY <1>1, <1>3, TillFacts DEF TillOK, ClosingOpen, SoldBeforePaid
<1>9. TwoOpenDisturbed'
  BY <1>3, <1>5, TillFacts DEF TillOK, TwoOpenDisturbed
<1>10. till' \in Nat /\ opening' \in 0 .. MaxOpeners /\ soldBefore' \in [Drawers -> SUBSET Sales]
       /\ closing' \in [drawer : Drawers \cup {0}, counted : Nat, expected : SUBSET Int]
       /\ drawer' \in [Drawers -> {"NONE", "OPEN", "CLOSED"}]
       /\ \A d \in Drawers : drawer'[d] = "CLOSED" <=> drawer[d] = "CLOSED"
  BY <1>1, TillFacts, CashAssumption DEF TypeOK
<1> QED BY <1>1, <1>2, <1>5, <1>6, <1>7, <1>8, <1>9, <1>10, TillStepFrame

\* A sale is paid back out of the till.
LEMMA CashRefundKeeps == ASSUME CashInv, NEW s \in Sales, CashRefund(s) PROVE CashInv'
<1>1. /\ saleStatus[s] = "PAID" /\ saleStatus' = [saleStatus EXCEPT ![s] = "REFUNDED"]
      /\ till' = till - Price[s] /\ till >= Price[s]
      /\ disturbed' = disturbed \cup BeingCounted \cup {d \in OpenDrawers : s \in soldBefore[d]}
      /\ UNCHANGED <<drawer, soldBefore, opening, closing>> /\ UNCHANGED <<shiftVars, depositVars, day, flagged>>
  BY DEF CashRefund
<1>2. /\ saleStatus' \in [Sales -> {"NONE", "RINGING", "PAID", "REFUNDED"}] /\ saleStatus'[s] = "REFUNDED"
      /\ \A x \in Sales : x # s => saleStatus'[x] = saleStatus[x]
  BY <1>1, TillFacts
<1>3. PaidSales' = PaidSales /\ s \in PaidSales /\ OpenDrawers' = OpenDrawers
  BY <1>1, <1>2 DEF PaidSales, OpenDrawers
<1>4. UnsyncedCash' = UnsyncedCash
  BY <1>1, <1>2, CashAssumption DEF UnsyncedCash
<1>5. disturbed \subseteq disturbed' /\ disturbed' \subseteq Drawers
  BY <1>1, TillFacts DEF BeingCounted, OpenDrawers
<1>6. TillBalances'
  <2> SUFFICES ASSUME NEW d \in OpenDrawers' \ disturbed'
               PROVE  till' = Float + Total(Price, ShiftSales(d)') + Total(Price, UnsyncedCash')
    BY DEF TillBalances
  <2>1. till = Float + Total(Price, ShiftSales(d)) + Total(Price, UnsyncedCash) /\ d \in Drawers
    BY <1>3, <1>5, TillFacts DEF TillOK, TillBalances, OpenDrawers
  <2>2. PICK a \in Nat, u \in Nat, p \in Nat, f \in Nat :
          a = Total(Price, ShiftSales(d)) /\ u = Total(Price, UnsyncedCash) /\ p = Price[s] /\ f = Float
    BY SaleSets, PriceTotals, CashAssumption
  <2>3. s \in ShiftSales(d)
    BY <1>1, <1>3, <2>1 DEF ShiftSales
  <2>4. ShiftSales(d)' = ShiftSales(d) \ {s}
    <3>1. soldBefore' = soldBefore
      BY <1>1
    <3> QED BY <3>1, <1>2, <1>3 DEF ShiftSales, PaidSales
  <2>5. Total(Price, ShiftSales(d)') = a - p
    BY <2>2, <2>3, <2>4, SaleSets, PriceMoves
  <2> QED BY <1>1, <1>4, <2>1, <2>2, <2>5
<1>7. CountStands'
  <2> SUFFICES ASSUME closing' # Idle, closing'.drawer \notin disturbed' PROVE FALSE
    BY DEF CountStands
  <2>1. closing # Idle /\ closing.drawer \in Drawers /\ closing.drawer \notin disturbed'
    BY <1>1, TillFacts
  <2> QED BY <1>1, <2>1 DEF BeingCounted
<1>8. ClosingOpen' /\ SoldBeforePaid'
  BY <1>1, <1>3, TillFacts DEF TillOK, ClosingOpen, SoldBeforePaid
<1>9. TwoOpenDisturbed'
  BY <1>3, <1>5, TillFacts DEF TillOK, TwoOpenDisturbed
<1>10. till' \in Nat /\ opening' \in 0 .. MaxOpeners /\ soldBefore' \in [Drawers -> SUBSET Sales]
       /\ closing' \in [drawer : Drawers \cup {0}, counted : Nat, expected : SUBSET Int]
       /\ drawer' \in [Drawers -> {"NONE", "OPEN", "CLOSED"}]
       /\ \A d \in Drawers : drawer'[d] = "CLOSED" <=> drawer[d] = "CLOSED"
  BY <1>1, TillFacts, CashAssumption DEF TypeOK
<1> QED BY <1>1, <1>2, <1>5, <1>6, <1>7, <1>8, <1>9, <1>10, TillStepFrame

\* A request to open found no open drawer.
LEMMA OpeningKeeps == ASSUME CashInv, getCurrentDrawer PROVE CashInv'
<1>1. /\ opening < MaxOpeners /\ opening' = opening + 1
      /\ UNCHANGED <<saleStatus, drawer, soldBefore, till, closing, disturbed>>
      /\ UNCHANGED <<shiftVars, depositVars, day, flagged>>
  BY DEF getCurrentDrawer
<1>2. OpenDrawers' = OpenDrawers /\ PaidSales' = PaidSales /\ UnsyncedCash' = UnsyncedCash
      /\ \A d : ShiftSales(d)' = ShiftSales(d)
  BY <1>1 DEF OpenDrawers, PaidSales, UnsyncedCash, ShiftSales
<1>3. ClosingOpen' /\ SoldBeforePaid' /\ TwoOpenDisturbed' /\ TillBalances' /\ CountStands'
  BY <1>1, <1>2, TillFacts DEF TillOK, ClosingOpen, SoldBeforePaid, TwoOpenDisturbed, TillBalances, CountStands
<1>4. /\ opening' \in 0 .. MaxOpeners /\ till' \in Nat /\ soldBefore' \in [Drawers -> SUBSET Sales]
      /\ closing' \in [drawer : Drawers \cup {0}, counted : Nat, expected : SUBSET Int]
      /\ drawer' \in [Drawers -> {"NONE", "OPEN", "CLOSED"}]
      /\ saleStatus' \in [Sales -> {"NONE", "RINGING", "PAID", "REFUNDED"}]
      /\ \A d \in Drawers : drawer'[d] = "CLOSED" <=> drawer[d] = "CLOSED"
  BY <1>1, TillFacts, CashAssumption DEF TypeOK
<1>5. disturbed' \subseteq Drawers /\ disturbed \subseteq disturbed'
  BY <1>1, TillFacts
<1> QED BY <1>1, <1>3, <1>4, <1>5, TillStepFrame

\* A drawer is opened beside others, or on a till with money in it, or neither.
LEMMA OpenDrawerKeeps == ASSUME CashInv, NEW d \in Drawers, openDrawer(d) PROVE CashInv'
<1>1. /\ opening > 0 /\ drawer[d] = "NONE" /\ opening' = opening - 1
      /\ drawer' = [drawer EXCEPT ![d] = "OPEN"] /\ soldBefore' = [soldBefore EXCEPT ![d] = PaidSales]
      /\ till' = till + Float
      /\ disturbed' = (IF OpenDrawers # {} \/ till # 0 \/ UnsyncedCash # {}
                       THEN disturbed \cup OpenDrawers \cup {d} ELSE disturbed)
      /\ UNCHANGED <<saleStatus, closing>> /\ UNCHANGED <<shiftVars, depositVars, day, flagged>>
  BY DEF openDrawer
<1>2. /\ drawer' \in [Drawers -> {"NONE", "OPEN", "CLOSED"}] /\ drawer'[d] = "OPEN"
      /\ \A e \in Drawers : e # d => drawer'[e] = drawer[e]
  BY <1>1, TillFacts
<1>3. /\ OpenDrawers' = OpenDrawers \cup {d} /\ d \notin OpenDrawers /\ OpenDrawers \subseteq Drawers
      /\ PaidSales' = PaidSales /\ UnsyncedCash' = UnsyncedCash
  BY <1>1, <1>2 DEF OpenDrawers, PaidSales, UnsyncedCash
<1>4. /\ soldBefore' \in [Drawers -> SUBSET Sales] /\ soldBefore'[d] = PaidSales
      /\ \A e \in Drawers : e # d => soldBefore'[e] = soldBefore[e]
  BY <1>1, TillFacts, SaleSets DEF TypeOK
<1>5. disturbed \subseteq disturbed' /\ disturbed' \subseteq Drawers
      /\ (OpenDrawers # {} => OpenDrawers' \subseteq disturbed')
  BY <1>1, <1>3, TillFacts
<1>6. TwoOpenDisturbed'
  <2> SUFFICES ASSUME NEW a \in OpenDrawers', NEW b \in OpenDrawers', a # b PROVE a \in disturbed'
    BY DEF TwoOpenDisturbed
  <2>1. OpenDrawers # {}
    BY <1>3
  <2> QED BY <2>1, <1>5
<1>7. TillBalances'
  <2> SUFFICES ASSUME NEW e \in OpenDrawers' \ disturbed'
               PROVE  till' = Float + Total(Price, ShiftSales(e)') + Total(Price, UnsyncedCash')
    BY DEF TillBalances
  <2>1. OpenDrawers = {} /\ e = d
    BY <1>3, <1>5
  <2>2. till = 0 /\ UnsyncedCash = {}
    BY <1>1, <2>1
  <2>3. ShiftSales(e)' = {}
    BY <1>3, <1>4, <2>1 DEF ShiftSales
  <2>4. Total(Price, ShiftSales(e)') = 0 /\ Total(Price, UnsyncedCash') = 0
    BY <1>3, <2>2, <2>3, TotalZero
  <2> QED BY <1>1, <2>2, <2>4, CashAssumption
<1>8. CountStands'
  BY <1>1, <1>3, <1>5, TillFacts DEF CountStands
<1>9. ClosingOpen'
  BY <1>1, <1>3, TillFacts DEF TillOK, ClosingOpen
<1>10. SoldBeforePaid'
  BY <1>3, <1>4, TillFacts DEF TillOK, SoldBeforePaid
<1>11. /\ till' \in Nat /\ opening' \in 0 .. MaxOpeners
       /\ closing' \in [drawer : Drawers \cup {0}, counted : Nat, expected : SUBSET Int]
       /\ saleStatus' \in [Sales -> {"NONE", "RINGING", "PAID", "REFUNDED"}]
       /\ \A e \in Drawers : drawer'[e] = "CLOSED" <=> drawer[e] = "CLOSED"
  BY <1>1, <1>2, TillFacts, CashAssumption DEF TypeOK
<1> QED BY <1>1, <1>2, <1>4, <1>5, <1>6, <1>7, <1>8, <1>9, <1>10, <1>11, TillStepFrame

\* The till is counted.
LEMMA CountTillKeeps == ASSUME CashInv, NEW d \in Drawers, CountTill(d) PROVE CashInv'
<1>1. /\ d \in OpenDrawers /\ closing' = [drawer |-> d, counted |-> till, expected |-> {}]
      /\ disturbed' = (IF UnsyncedCash # {} THEN disturbed \cup {d} ELSE disturbed)
      /\ UNCHANGED <<saleStatus, drawer, soldBefore, till, opening>>
      /\ UNCHANGED <<shiftVars, depositVars, day, flagged>>
  BY DEF CountTill, IsCurrent
<1>2. OpenDrawers' = OpenDrawers /\ PaidSales' = PaidSales /\ UnsyncedCash' = UnsyncedCash
      /\ \A e : ShiftSales(e)' = ShiftSales(e)
  BY <1>1 DEF OpenDrawers, PaidSales, UnsyncedCash, ShiftSales
<1>3. disturbed' \subseteq Drawers /\ disturbed \subseteq disturbed'
  BY <1>1, TillFacts
<1>4. closing'.drawer = d /\ closing'.counted = till /\ closing'.expected = {}
  BY <1>1
<1>5. ClosingOpen' /\ SoldBeforePaid' /\ TwoOpenDisturbed' /\ TillBalances'
  BY <1>1, <1>2, <1>3, <1>4, TillFacts DEF TillOK, ClosingOpen, SoldBeforePaid, TwoOpenDisturbed, TillBalances
<1>6. CountStands'
  BY <1>1, <1>2, <1>4 DEF CountStands
<1>7. /\ opening' \in 0 .. MaxOpeners /\ till' \in Nat /\ soldBefore' \in [Drawers -> SUBSET Sales]
      /\ closing' \in [drawer : Drawers \cup {0}, counted : Nat, expected : SUBSET Int]
      /\ drawer' \in [Drawers -> {"NONE", "OPEN", "CLOSED"}]
      /\ saleStatus' \in [Sales -> {"NONE", "RINGING", "PAID", "REFUNDED"}]
      /\ \A e \in Drawers : drawer'[e] = "CLOSED" <=> drawer[e] = "CLOSED"
  BY <1>1, TillFacts, CashAssumption DEF TypeOK
<1> QED BY <1>1, <1>3, <1>5, <1>6, <1>7, TillStepFrame

\* The sales of the shift are summed: an orderly shift expects what was counted.
LEMMA SumCashSalesKeeps == ASSUME CashInv, SumCashSales PROVE CashInv'
<1> DEFINE c == closing.drawer
           e == Float + Total(Price, ShiftSales(c))
<1>1. /\ closing # Idle /\ closing' = [closing EXCEPT !.expected = {e}]
      /\ UNCHANGED <<saleStatus, drawer, soldBefore, till, opening, disturbed>>
      /\ UNCHANGED <<shiftVars, depositVars, day, flagged>>
  BY DEF SumCashSales
<1>2. OpenDrawers' = OpenDrawers /\ PaidSales' = PaidSales /\ UnsyncedCash' = UnsyncedCash
      /\ \A x : ShiftSales(x)' = ShiftSales(x)
  BY <1>1 DEF OpenDrawers, PaidSales, UnsyncedCash, ShiftSales
<1>3. disturbed' \subseteq Drawers /\ disturbed \subseteq disturbed'
  BY <1>1, TillFacts
<1>4. PICK a \in Nat, f \in Nat : a = Total(Price, ShiftSales(c)) /\ f = Float
  BY SaleSets, PriceTotals, CashAssumption
<1>5. e \in Nat /\ c \in OpenDrawers /\ c \in Drawers
  BY <1>1, <1>4, TillFacts
<1> HIDE DEF e
<1>6. closing'.drawer = c /\ closing'.counted = closing.counted /\ closing'.expected = {e}
      /\ closing' \in [drawer : Drawers \cup {0}, counted : Nat, expected : SUBSET Int]
  BY <1>1, <1>5, TillFacts
<1>7. ClosingOpen' /\ SoldBeforePaid' /\ TwoOpenDisturbed' /\ TillBalances'
  BY <1>1, <1>2, <1>3, <1>5, <1>6, TillFacts DEF TillOK, ClosingOpen, SoldBeforePaid, TwoOpenDisturbed, TillBalances
<1>8. CountStands'
  <2> SUFFICES ASSUME closing' # Idle, closing'.drawer \notin disturbed'
               PROVE  UnsyncedCash' = {} /\ closing'.counted = till' /\ closing'.expected \subseteq {closing'.counted}
    BY DEF CountStands
  <2>1. UnsyncedCash = {} /\ closing.counted = till /\ c \notin disturbed
    BY <1>1, <1>6, TillFacts DEF TillOK, CountStands
  <2>2. Total(Price, UnsyncedCash) = 0
    BY <2>1, TotalZero
  <2>3. till = e
    BY <1>4, <1>5, <2>1, <2>2, TillFacts DEF TillOK, TillBalances, e
  <2> QED BY <1>1, <1>2, <1>6, <2>1, <2>3
<1>9. /\ opening' \in 0 .. MaxOpeners /\ till' \in Nat /\ soldBefore' \in [Drawers -> SUBSET Sales]
      /\ drawer' \in [Drawers -> {"NONE", "OPEN", "CLOSED"}]
      /\ saleStatus' \in [Sales -> {"NONE", "RINGING", "PAID", "REFUNDED"}]
      /\ \A x \in Drawers : drawer'[x] = "CLOSED" <=> drawer[x] = "CLOSED"
  BY <1>1, TillFacts, CashAssumption DEF TypeOK
<1> QED BY <1>1, <1>3, <1>6, <1>7, <1>8, <1>9, TillStepFrame

\* The drawer is closed: an orderly shift balances.
LEMMA CloseDrawerKeeps == ASSUME CashInv, closeDrawer PROVE CashInv'
<1> DEFINE c == closing.drawer
<1>1. PICK expected \in closing.expected : expectedCash' = [expectedCash EXCEPT ![c] = expected]
  BY DEF closeDrawer
<1>2. /\ countedCash' = [countedCash EXCEPT ![c] = closing.counted]
      /\ drawer' = [drawer EXCEPT ![c] = "CLOSED"]
      /\ closedOrder' = Append(closedOrder, c)
      /\ closedDay' = [closedDay EXCEPT ![c] = day]
      /\ till' = AtLeastZero(till - closing.counted)
      /\ closing' = Idle
      /\ UNCHANGED <<saleStatus, soldBefore, opening, disturbed, deposit, bankOrder, disputing, day, flagged>>
  BY DEF closeDrawer, depositVars
<1>3. closing # Idle
  BY <1>1 DEF Idle
<1>4. c \in OpenDrawers /\ c \in Drawers /\ expected \in Int /\ closing.counted \in Nat
  BY <1>1, <1>3, TillFacts
<1> HIDE DEF c
<1>5. TypeOK
  BY TillFacts
<1>6. /\ drawer' \in [Drawers -> {"NONE", "OPEN", "CLOSED"}] /\ drawer'[c] = "CLOSED"
      /\ \A d \in Drawers : d # c => drawer'[d] = drawer[d]
  BY <1>2, <1>4, TillFacts
<1>7. OpenDrawers' = OpenDrawers \ {c}
  BY <1>6 DEF OpenDrawers
<1>8. /\ countedCash' \in [Drawers -> Nat] /\ countedCash'[c] = closing.counted
      /\ expectedCash' \in [Drawers -> Int] /\ expectedCash'[c] = expected
      /\ \A d \in Drawers : d # c => countedCash'[d] = countedCash[d] /\ expectedCash'[d] = expectedCash[d]
      /\ closedDay' \in [Drawers -> 0 .. LastDay]
  BY <1>1, <1>2, <1>4, <1>5 DEF TypeOK
<1>9. till' \in Nat
  BY <1>2, <1>4, TillFacts DEF AtLeastZero
<1>10. closedOrder \in Seq(Drawers) /\ bankOrder \in Seq(Deposits) /\ deposit \in [Deposits -> DepositRow]
  BY DEF CashInv, CashRowsOK
<1>11. /\ closedOrder' \in Seq(Drawers)
       /\ {closedOrder'[i] : i \in DOMAIN closedOrder'} = {closedOrder[i] : i \in DOMAIN closedOrder} \cup {c}
       /\ ClosedOnce'
  <2> DEFINE q == closedOrder
  <2>1. q \in Seq(Drawers) /\ ListsOnce(q) /\ c \notin Listed(q)
    <3>1. drawer[c] # "CLOSED" /\ {closedOrder[i] : i \in DOMAIN closedOrder} = {d \in Drawers : drawer[d] = "CLOSED"}
      BY <1>4, <1>5 DEF TypeOK, OpenDrawers
    <3> QED BY <1>10, <3>1 DEF CashInv, ClosedOnce, ListsOnce, Listed
  <2>2. closedOrder' = Append(q, c)
    BY <1>2
  <2> HIDE DEF q
  <2>3. Append(q, c) \in Seq(Drawers) /\ Listed(Append(q, c)) = Listed(q) \cup {c} /\ ListsOnce(Append(q, c))
    BY <1>4, <2>1, AppendedOne
  <2> QED BY <2>2, <2>3 DEF q, Listed, ListsOnce, ClosedOnce
<1>12. {closedOrder'[i] : i \in DOMAIN closedOrder'} = {d \in Drawers : drawer'[d] = "CLOSED"}
  <2>1. {closedOrder[i] : i \in DOMAIN closedOrder} = {d \in Drawers : drawer[d] = "CLOSED"}
    BY <1>5 DEF TypeOK
  <2>2. {d \in Drawers : drawer'[d] = "CLOSED"} = {d \in Drawers : drawer[d] = "CLOSED"} \cup {c}
    BY <1>4, <1>6
  <2> QED BY <1>11, <2>1, <2>2
<1>13. closing'.drawer \in Drawers \cup {0} /\ closing' \in [drawer : Drawers \cup {0}, counted : Nat, expected : SUBSET Int]
  BY <1>2 DEF Idle
<1>14. TypeOK'
  <2>1. /\ saleStatus' \in [Sales -> {"NONE", "RINGING", "PAID", "REFUNDED"}]
        /\ soldBefore' \in [Drawers -> SUBSET Sales] /\ opening' \in 0 .. MaxOpeners
        /\ disputing' \subseteq Deposits /\ disturbed' \subseteq Drawers
        /\ day' \in 0 .. LastDay /\ flagged' \subseteq 0 .. LastDay
        /\ \A x \in Deposits :
             /\ deposit'[x].status \in {"NONE", "RECORDED", "CONFIRMED", "DISPUTED"}
             /\ deposit'[x].drawers \subseteq Drawers
             /\ deposit'[x].confirmedAmount \in Amounts \cup {0}
    BY <1>2, <1>5 DEF TypeOK
  <2>2. {bankOrder'[i] : i \in DOMAIN bankOrder'} = {x \in Deposits : deposit'[x].status = "CONFIRMED"}
    BY <1>2, <1>5 DEF TypeOK
  <2> QED BY <2>1, <2>2, <1>6, <1>8, <1>9, <1>12, <1>13 DEF TypeOK
<1>15. CashRowsOK'
  BY <1>2, <1>10, <1>11, <1>13, <1>14 DEF CashRowsOK
<1>16. ConfirmedOnce' /\ ClosingOpen'
  BY <1>2 DEF CashInv, ConfirmedOnce, ClosingOpen
<1>16a. DepositsOfClosed'
  BY <1>2, <1>5, <1>6 DEF CashInv, DepositsOfClosed, TypeOK
<1>17. SoldBeforePaid'
  BY <1>2 DEF CashInv, SoldBeforePaid, PaidSales
<1>18. TwoOpenDisturbed'
  BY <1>2, <1>7 DEF CashInv, TwoOpenDisturbed
<1>19. TillBalances'
  BY <1>2, <1>4, <1>7 DEF CashInv, TwoOpenDisturbed, TillBalances
<1>20. CountStands'
  BY <1>2 DEF CountStands
<1>21. OrderlyShiftBalances'
  <2> SUFFICES ASSUME NEW d \in Drawers \ disturbed', drawer'[d] = "CLOSED"
               PROVE  countedCash'[d] = expectedCash'[d]
    BY DEF OrderlyShiftBalances
  <2>1. CASE d = c
    <3>1. closing.expected \subseteq {closing.counted}
      BY <1>2, <1>3, <2>1 DEF CashInv, CountStands, c
    <3> QED BY <1>1, <1>8, <2>1, <3>1
  <2>2. CASE d # c
    BY <1>2, <1>6, <1>8, <2>2 DEF CashInv, OrderlyShiftBalances
  <2> QED BY <2>1, <2>2
<1> QED BY <1>11, <1>15, <1>16, <1>16a, <1>17, <1>18, <1>19, <1>20, <1>21 DEF CashInv

\* Steps at the bank leave the till alone.
LEMMA BankStepFrame ==
  ASSUME CashInv, UNCHANGED tillVars, deposit' \in [Deposits -> DepositRow],
         bankOrder' \in Seq(Deposits), ConfirmedOnce', DepositsOfClosed',
         {bankOrder'[i] : i \in DOMAIN bankOrder'} = {x \in Deposits : deposit'[x].status = "CONFIRMED"},
         disputing' \subseteq Deposits, day' \in 0 .. LastDay, flagged' \subseteq 0 .. LastDay
  PROVE  CashInv'
<1>1. UNCHANGED <<saleStatus, drawer, soldBefore, countedCash, expectedCash, closedOrder, closedDay,
                  till, opening, closing, disturbed>>
  BY DEF tillVars, shiftVars
<1>2. UNCHANGED <<OpenDrawers, PaidSales, UnsyncedCash>> /\ \A d : ShiftSales(d)' = ShiftSales(d)
  BY <1>1 DEF OpenDrawers, PaidSales, UnsyncedCash, ShiftSales
<1>3. ClosingOpen' /\ SoldBeforePaid' /\ TwoOpenDisturbed' /\ TillBalances' /\ CountStands' /\ OrderlyShiftBalances'
  <2>1. ClosingOpen' /\ SoldBeforePaid' /\ TwoOpenDisturbed'
    BY <1>1, <1>2 DEF CashInv, ClosingOpen, SoldBeforePaid, TwoOpenDisturbed
  <2>2. TillBalances' /\ CountStands' /\ OrderlyShiftBalances'
    BY <1>1, <1>2 DEF CashInv, TillBalances, CountStands, OrderlyShiftBalances
  <2> QED BY <2>1, <2>2
<1>4. TypeOK'
  <2>1. TypeOK
    BY DEF CashInv, CashRowsOK
  <2>2. \A x \in Deposits :
             /\ deposit'[x].status \in {"NONE", "RECORDED", "CONFIRMED", "DISPUTED"}
             /\ deposit'[x].drawers \subseteq Drawers
             /\ deposit'[x].confirmedAmount \in Amounts \cup {0}
    BY DEF DepositRow
  <2>3. {closedOrder'[i] : i \in DOMAIN closedOrder'} = {d \in Drawers : drawer'[d] = "CLOSED"}
    BY <1>1, <2>1 DEF TypeOK
  <2> QED BY <1>1, <2>1, <2>2, <2>3 DEF TypeOK
<1>5. CashRowsOK'
  BY <1>1, <1>4 DEF CashInv, CashRowsOK
<1>6. ClosedOnce'
  BY <1>1 DEF CashInv, ClosedOnce
<1> QED BY <1>3, <1>5, <1>6 DEF CashInv

\* Taking a deposit out of the bank's order.
LEMMA WithoutOne ==
  ASSUME NEW S, NEW q \in Seq(S), NEW x, ListsOnce(q)
  PROVE  /\ Without(q, x) \in Seq(S) /\ ListsOnce(Without(q, x))
         /\ Listed(Without(q, x)) = Listed(q) \ {x}
<1> USE DEF ListsOnce, Listed
<1>1. CASE ~ \E p \in DOMAIN q : q[p] = x
  <2>1. Without(q, x) = q
    BY <1>1 DEF Without
  <2>2. Listed(q) = Listed(q) \ {x}
    BY <1>1
  <2> HIDE DEF Listed, ListsOnce
  <2> QED BY <2>1, <2>2
<1>2. CASE \E p \in DOMAIN q : q[p] = x
  <2> DEFINE p == CHOOSE p \in DOMAIN q : q[p] = x
             r == [i \in 1 .. Len(q) - 1 |-> IF i < p THEN q[i] ELSE q[i + 1]]
  <2>1. p \in DOMAIN q /\ q[p] = x
    BY <1>2
  <2>2. Without(q, x) = r
    BY <1>2 DEF Without
  <2> HIDE DEF p
  <2>3. Len(q) \in Nat /\ DOMAIN q = 1 .. Len(q) /\ p \in 1 .. Len(q) /\ p \in Nat
        /\ \A i \in 1 .. Len(q) : q[i] \in S
    BY <2>1
  <2>4. Len(q) - 1 \in Nat /\ DOMAIN r = 1 .. Len(q) - 1
        /\ \A i \in DOMAIN r : r[i] = (IF i < p THEN q[i] ELSE q[i + 1]) /\ i \in 1 .. Len(q) /\ i + 1 \in 1 .. Len(q)
    BY <2>3
  <2>5. r \in [1 .. Len(q) - 1 -> S]
    BY <2>3, <2>4
  <2>6. r \in Seq(S)
    BY <2>4, <2>5
  <2> HIDE DEF r
  <2>7. ASSUME NEW i \in DOMAIN r, NEW j \in DOMAIN r, r[i] = r[j] PROVE i = j
    <3>1. i \in Int /\ j \in Int
      BY <2>4
    <3> QED BY <2>3, <2>4, <2>7, <3>1
  <2>8. ASSUME NEW i \in DOMAIN r PROVE r[i] \in {q[j] : j \in DOMAIN q} \ {x}
    <3>1. r[i] # x
      BY <2>1, <2>3, <2>4
    <3>2. r[i] \in {q[j] : j \in DOMAIN q}
      BY <2>3, <2>4
    <3> QED BY <3>1, <3>2
  <2>9. ASSUME NEW j \in DOMAIN q, q[j] # x PROVE q[j] \in {r[i] : i \in DOMAIN r}
    <3>1. j # p /\ j \in 1 .. Len(q)
      BY <2>1, <2>3, <2>9
    <3>2. CASE j < p
      <4>1. j \in DOMAIN r /\ r[j] = q[j]
        BY <2>3, <2>4, <3>1, <3>2
      <4> QED BY <4>1
    <3>3. CASE j > p
      <4>1. j - 1 \in DOMAIN r /\ r[j - 1] = q[(j - 1) + 1] /\ (j - 1) + 1 = j
        BY <2>3, <2>4, <3>1, <3>3
      <4> QED BY <4>1
    <3> QED BY <2>3, <3>1, <3>2, <3>3
  <2>10. {r[i] : i \in DOMAIN r} = {q[i] : i \in DOMAIN q} \ {x}
    BY <2>8, <2>9
  <2>11. Listed(r) = Listed(q) \ {x} /\ ListsOnce(r)
    BY <2>7, <2>10
  <2> HIDE DEF Listed, ListsOnce
  <2> QED BY <2>2, <2>6, <2>11
<1> QED BY <1>1, <1>2

\* A deposit is recorded: it is not at the bank yet.
LEMMA RecordDepositKeeps ==
  ASSUME CashInv, NEW x \in Deposits, NEW ids \in SUBSET Drawers, recordDeposit(x, ids)
  PROVE  CashInv'
<1>1. /\ deposit[x] = NoRow /\ \A d \in ids : drawer[d] = "CLOSED"
      /\ deposit' = [deposit EXCEPT ![x].status = "RECORDED", ![x].drawers = ids]
      /\ UNCHANGED tillVars /\ UNCHANGED <<bankOrder, disputing, day, flagged>>
  BY DEF recordDeposit
<1>2. deposit \in [Deposits -> DepositRow] /\ bankOrder \in Seq(Deposits) /\ TypeOK /\ ConfirmedOnce
  BY DEF CashInv, CashRowsOK
<1>3. deposit[x] \in DepositRow /\ deposit[x].status = "NONE"
  <2>1. NoRow.status = "NONE"
    BY DEF NoRow
  <2> QED BY <1>1, <1>2, <2>1
<1> DEFINE row == [deposit[x] EXCEPT !.status = "RECORDED", !.drawers = ids]
<1>4. row \in DepositRow /\ row.status = "RECORDED" /\ row.drawers = ids
  BY <1>3 DEF DepositRow
<1>5. deposit' = [deposit EXCEPT ![x] = row]
  BY <1>1, <1>2
<1> HIDE DEF row
<1>6. /\ deposit' \in [Deposits -> DepositRow] /\ deposit'[x].status = "RECORDED" /\ deposit'[x].drawers = ids
      /\ \A y \in Deposits : y # x => deposit'[y] = deposit[y]
  BY <1>2, <1>4, <1>5
<1>7. {y \in Deposits : deposit'[y].status = "CONFIRMED"} = {y \in Deposits : deposit[y].status = "CONFIRMED"}
  BY <1>3, <1>6
<1>8. {bankOrder'[i] : i \in DOMAIN bankOrder'} = {y \in Deposits : deposit'[y].status = "CONFIRMED"}
  BY <1>1, <1>2, <1>7 DEF TypeOK
<1>9. ConfirmedOnce' /\ bankOrder' \in Seq(Deposits)
  BY <1>1, <1>2 DEF ConfirmedOnce
<1>10. disputing' \subseteq Deposits /\ day' \in 0 .. LastDay /\ flagged' \subseteq 0 .. LastDay
  BY <1>1, <1>2 DEF TypeOK
<1>11. DepositsOfClosed'
  BY <1>1, <1>2, <1>6 DEF CashInv, DepositsOfClosed, tillVars
<1> QED BY <1>1, <1>6, <1>8, <1>9, <1>10, <1>11, BankStepFrame

\* The bank confirms a deposit.
LEMMA ConfirmDepositKeeps ==
  ASSUME CashInv, NEW x \in Deposits, NEW actualAmount \in Amounts, confirmDeposit(x, actualAmount)
  PROVE  CashInv'
<1>1. /\ deposit[x].status = "RECORDED"
      /\ deposit' = [deposit EXCEPT ![x].status = "CONFIRMED", ![x].confirmedAmount = actualAmount]
      /\ bankOrder' = Append(bankOrder, x)
      /\ UNCHANGED tillVars /\ UNCHANGED <<disputing, day, flagged>>
  BY DEF confirmDeposit
<1>2. deposit \in [Deposits -> DepositRow] /\ bankOrder \in Seq(Deposits) /\ TypeOK /\ ConfirmedOnce
  BY DEF CashInv, CashRowsOK
<1> DEFINE row == [deposit[x] EXCEPT !.status = "CONFIRMED", !.confirmedAmount = actualAmount]
<1>3. deposit[x] \in DepositRow
  BY <1>2
<1>4. row \in DepositRow /\ row.status = "CONFIRMED" /\ row.drawers = deposit[x].drawers
  BY <1>3 DEF DepositRow
<1>5. deposit' = [deposit EXCEPT ![x] = row]
  BY <1>1, <1>2
<1> HIDE DEF row
<1>6. /\ deposit' \in [Deposits -> DepositRow] /\ deposit'[x].status = "CONFIRMED"
      /\ deposit'[x].drawers = deposit[x].drawers
      /\ \A y \in Deposits : y # x => deposit'[y] = deposit[y]
  BY <1>2, <1>4, <1>5
<1>7. {y \in Deposits : deposit'[y].status = "CONFIRMED"} = {y \in Deposits : deposit[y].status = "CONFIRMED"} \cup {x}
  BY <1>6
<1> DEFINE q == bankOrder
<1>8. q \in Seq(Deposits) /\ ListsOnce(q) /\ Listed(q) = {y \in Deposits : deposit[y].status = "CONFIRMED"}
  BY <1>2 DEF TypeOK, ConfirmedOnce, ListsOnce, Listed
<1>8a. bankOrder' = Append(q, x)
  BY <1>1
<1> HIDE DEF q
<1>9. Append(q, x) \in Seq(Deposits) /\ Listed(Append(q, x)) = Listed(q) \cup {x} /\ ListsOnce(Append(q, x))
  <2>1. x \notin Listed(q)
    BY <1>1, <1>8
  <2> QED BY <1>8, <2>1, AppendedOne
<1>10. ListsOnce(bankOrder') /\ bankOrder' \in Seq(Deposits)
       /\ Listed(bankOrder') = {y \in Deposits : deposit'[y].status = "CONFIRMED"}
  BY <1>7, <1>8, <1>8a, <1>9
<1>11. ConfirmedOnce' /\ {bankOrder'[i] : i \in DOMAIN bankOrder'} = {y \in Deposits : deposit'[y].status = "CONFIRMED"}
  BY <1>10 DEF ConfirmedOnce, ListsOnce, Listed
<1>12. disputing' \subseteq Deposits /\ day' \in 0 .. LastDay /\ flagged' \subseteq 0 .. LastDay
  BY <1>1, <1>2 DEF TypeOK
<1>13. DepositsOfClosed'
  BY <1>1, <1>2, <1>6 DEF CashInv, DepositsOfClosed, tillVars
<1> QED BY <1>1, <1>6, <1>10, <1>11, <1>12, <1>13, BankStepFrame

\* A disputed deposit leaves the bank's order.
LEMMA DisputeDepositKeeps == ASSUME CashInv, NEW x \in Deposits, disputeDeposit(x) PROVE CashInv'
<1>1. /\ deposit' = [deposit EXCEPT ![x].status = "DISPUTED"]
      /\ bankOrder' = Without(bankOrder, x)
      /\ UNCHANGED tillVars /\ UNCHANGED <<disputing, day, flagged>>
  BY DEF disputeDeposit
<1>2. deposit \in [Deposits -> DepositRow] /\ bankOrder \in Seq(Deposits) /\ TypeOK /\ ConfirmedOnce
  BY DEF CashInv, CashRowsOK
<1> DEFINE row == [deposit[x] EXCEPT !.status = "DISPUTED"]
<1>3. deposit[x] \in DepositRow
  BY <1>2
<1>4. row \in DepositRow /\ row.status = "DISPUTED" /\ row.drawers = deposit[x].drawers
  BY <1>3 DEF DepositRow
<1>5. deposit' = [deposit EXCEPT ![x] = row]
  BY <1>1, <1>2
<1> HIDE DEF row
<1>6. /\ deposit' \in [Deposits -> DepositRow] /\ deposit'[x].status = "DISPUTED"
      /\ deposit'[x].drawers = deposit[x].drawers
      /\ \A y \in Deposits : y # x => deposit'[y] = deposit[y]
  BY <1>2, <1>4, <1>5
<1>7. {y \in Deposits : deposit'[y].status = "CONFIRMED"} = {y \in Deposits : deposit[y].status = "CONFIRMED"} \ {x}
  BY <1>6
<1> DEFINE q == bankOrder
<1>8. q \in Seq(Deposits) /\ ListsOnce(q) /\ Listed(q) = {y \in Deposits : deposit[y].status = "CONFIRMED"}
  BY <1>2 DEF TypeOK, ConfirmedOnce, ListsOnce, Listed
<1>8a. bankOrder' = Without(q, x)
  BY <1>1
<1> HIDE DEF q
<1>9. Without(q, x) \in Seq(Deposits) /\ ListsOnce(Without(q, x)) /\ Listed(Without(q, x)) = Listed(q) \ {x}
  BY <1>8, WithoutOne
<1>10. ListsOnce(bankOrder') /\ bankOrder' \in Seq(Deposits)
       /\ Listed(bankOrder') = {y \in Deposits : deposit'[y].status = "CONFIRMED"}
  BY <1>7, <1>8, <1>8a, <1>9
<1>11. ConfirmedOnce' /\ {bankOrder'[i] : i \in DOMAIN bankOrder'} = {y \in Deposits : deposit'[y].status = "CONFIRMED"}
  BY <1>10 DEF ConfirmedOnce, ListsOnce, Listed
<1>12. disputing' \subseteq Deposits /\ day' \in 0 .. LastDay /\ flagged' \subseteq 0 .. LastDay
  BY <1>1, <1>2 DEF TypeOK
<1>13. DepositsOfClosed'
  BY <1>1, <1>2, <1>6 DEF CashInv, DepositsOfClosed, tillVars
<1> QED BY <1>1, <1>6, <1>10, <1>11, <1>12, <1>13, BankStepFrame

\* A store admin's dispute is written, if the deposit is still as it was read.
LEMMA DisputeClaimKeeps == ASSUME CashInv, NEW x \in Deposits, disputeClaim(x) PROVE CashInv'
<1>1. /\ disputing' = {}
      /\ deposit' = [deposit EXCEPT ![x].status = IF @ = "RECORDED" THEN "DISPUTED" ELSE @]
      /\ UNCHANGED tillVars /\ UNCHANGED <<bankOrder, day, flagged>>
  BY DEF disputeClaim
<1>2. deposit \in [Deposits -> DepositRow] /\ bankOrder \in Seq(Deposits) /\ TypeOK /\ ConfirmedOnce
  BY DEF CashInv, CashRowsOK
<1> DEFINE row == [deposit[x] EXCEPT !.status = IF @ = "RECORDED" THEN "DISPUTED" ELSE @]
<1>3. deposit[x] \in DepositRow
  BY <1>2
<1>4. row \in DepositRow /\ (row.status = "CONFIRMED" <=> deposit[x].status = "CONFIRMED")
      /\ row.drawers = deposit[x].drawers
  BY <1>3 DEF DepositRow
<1>5. deposit' = [deposit EXCEPT ![x] = row]
  BY <1>1, <1>2
<1> HIDE DEF row
<1>6. /\ deposit' \in [Deposits -> DepositRow]
      /\ \A y \in Deposits : /\ deposit'[y].status = "CONFIRMED" <=> deposit[y].status = "CONFIRMED"
                              /\ deposit'[y].drawers = deposit[y].drawers
  BY <1>2, <1>4, <1>5
<1>7. {bankOrder'[i] : i \in DOMAIN bankOrder'} = {y \in Deposits : deposit'[y].status = "CONFIRMED"}
  BY <1>1, <1>2, <1>6 DEF TypeOK
<1>8. ConfirmedOnce' /\ bankOrder' \in Seq(Deposits)
  BY <1>1, <1>2 DEF ConfirmedOnce
<1>9. disputing' \subseteq Deposits /\ day' \in 0 .. LastDay /\ flagged' \subseteq 0 .. LastDay
  BY <1>1, <1>2 DEF TypeOK
<1>10. DepositsOfClosed'
  BY <1>1, <1>6 DEF CashInv, DepositsOfClosed, tillVars
<1> QED BY <1>1, <1>6, <1>7, <1>8, <1>9, <1>10, BankStepFrame

\* Steps that leave the deposits alone too: a dispute is allowed, a row is
\* written to the log, a day passes, nothing happens.
LEMMA QuietStepKeeps ==
  ASSUME CashInv, UNCHANGED tillVars, UNCHANGED <<deposit, bankOrder>>,
         disputing' \subseteq Deposits, day' \in 0 .. LastDay, flagged' \subseteq 0 .. LastDay
  PROVE  CashInv'
<1>1. deposit \in [Deposits -> DepositRow] /\ bankOrder \in Seq(Deposits) /\ TypeOK /\ ConfirmedOnce
  BY DEF CashInv, CashRowsOK
<1>2. {bankOrder'[i] : i \in DOMAIN bankOrder'} = {y \in Deposits : deposit'[y].status = "CONFIRMED"}
  BY <1>1 DEF TypeOK
<1>3. ConfirmedOnce' /\ DepositsOfClosed'
  BY <1>1 DEF CashInv, ConfirmedOnce, DepositsOfClosed, tillVars
<1> QED BY <1>1, <1>2, <1>3, BankStepFrame

\* Every step keeps the invariant.
LEMMA CashNextKeeps == CashInv /\ [Next]_vars => CashInv'
<1> SUFFICES ASSUME CashInv, [Next]_vars PROVE CashInv'
  OBVIOUS
<1>1. disputing \subseteq Deposits /\ day \in 0 .. LastDay /\ flagged \subseteq 0 .. LastDay
  BY DEF CashInv, CashRowsOK, TypeOK
<1>2. CASE TillStep
  BY <1>2, RingUpKeeps, CashSaleKeeps, CashRefundKeeps, OpeningKeeps, OpenDrawerKeeps, CountTillKeeps,
     SumCashSalesKeeps, CloseDrawerKeeps DEF TillStep
<1>3. ASSUME NEW x \in Deposits, DepositStep(x) PROVE CashInv'
  <2>1. CASE disputeAllowed(x)
    <3>1. /\ UNCHANGED tillVars /\ UNCHANGED <<deposit, bankOrder>> /\ disputing' = {x}
          /\ UNCHANGED <<day, flagged>>
      BY <2>1 DEF disputeAllowed
    <3> QED BY <1>1, <3>1, QuietStepKeeps
  <2> QED
    BY <1>3, <2>1, RecordDepositKeeps, ConfirmDepositKeeps, DisputeDepositKeeps, DisputeClaimKeeps DEF DepositStep
<1>4. CASE runFlagUndepositedCashOnce
  <2>1. /\ UNCHANGED tillVars /\ UNCHANGED <<deposit, bankOrder, disputing>>
        /\ flagged' = flagged \cup {day} /\ day' = day
    BY <1>4 DEF runFlagUndepositedCashOnce, depositVars
  <2> QED BY <1>1, <2>1, QuietStepKeeps
<1>5. CASE DayPasses
  <2>1. /\ UNCHANGED tillVars /\ UNCHANGED <<deposit, bankOrder, disputing>>
        /\ day' = day + 1 /\ day < LastDay /\ flagged' = flagged
    BY <1>5 DEF DayPasses, depositVars
  <2>2. day' \in 0 .. LastDay
    BY <1>1, <2>1, CashAssumption
  <2> QED BY <1>1, <2>1, <2>2, QuietStepKeeps
<1>6. CASE UNCHANGED vars
  <2>1. UNCHANGED tillVars /\ UNCHANGED <<deposit, bankOrder>> /\ UNCHANGED <<disputing, day, flagged>>
    BY <1>6 DEF vars, depositVars
  <2> QED BY <1>1, <2>1, QuietStepKeeps
<1> QED BY <1>2, <1>3, <1>4, <1>5, <1>6 DEF Next

\* What the shifts hold, and the deposits the bank has confirmed, are the inputs
\* that allocateConfirmedDeposits is right for.
LEMMA CoverageOfShifts ==
  ASSUME CashInv
  PROVE  /\ bankable \in [Drawers -> Nat] /\ IsFiniteSet(Drawers)
         /\ CoverageRight(bankable, closedOrder, [i \in DOMAIN bankOrder |-> deposit[bankOrder[i]]])
<1> DEFINE rows == [i \in DOMAIN bankOrder |-> deposit[bankOrder[i]]]
<1>1. /\ TypeOK /\ closedOrder \in Seq(Drawers) /\ bankOrder \in Seq(Deposits)
      /\ deposit \in [Deposits -> DepositRow] /\ DepositsOfClosed
  BY DEF CashInv, CashRowsOK
<1>2. IsFiniteSet(Drawers)
  BY CashAssumption, FS_Interval DEF Drawers
<1>3. bankable \in [Drawers -> Nat]
  <2>1. ASSUME NEW d \in Drawers PROVE bankableCash(countedCash[d], Float) \in Nat
    BY <1>1, CashAssumption DEF bankableCash, AtLeastZero, TypeOK
  <2> QED BY <2>1 DEF bankable
<1>4. ListsOnce(closedOrder) /\ Listed(closedOrder) = {d \in Drawers : drawer[d] = "CLOSED"}
  BY <1>1 DEF CashInv, ClosedOnce, ListsOnce, Listed, TypeOK
<1>5. rows \in Seq(DepositRow) /\ DOMAIN rows = DOMAIN bankOrder
      /\ \A i \in DOMAIN bankOrder : bankOrder[i] \in Deposits /\ rows[i] = deposit[bankOrder[i]]
  BY <1>1
<1>6. ASSUME NEW i \in DOMAIN rows PROVE DepositOver(rows[i], Drawers, closedOrder)
  <2>1. PICK x \in Deposits : rows[i] = deposit[x]
    BY <1>5
  <2>2. deposit[x].drawers \subseteq Drawers /\ deposit[x].confirmedAmount \in Nat
    <3>1. deposit[x].drawers \subseteq Drawers /\ deposit[x].confirmedAmount \in Amounts \cup {0}
      BY <1>1 DEF DepositRow
    <3>2. \A a \in Amounts \cup {0} : a \in Nat
      BY CashAssumption
    <3>3. deposit[x].confirmedAmount \in Nat
      BY <3>1, <3>2, Zenon
    <3> QED BY <3>1, <3>3
  <2>3. deposit[x].drawers \subseteq Listed(closedOrder)
    BY <1>1, <1>4, <2>2 DEF DepositsOfClosed
  <2> QED BY <2>1, <2>2, <2>3 DEF DepositOver
<1> HIDE DEF rows
<1>7. CoverageRight(bankable, closedOrder, rows)
  BY <1>1, <1>2, <1>3, <1>4, <1>5, <1>6, CoverageIsRight
<1> QED BY <1>2, <1>3, <1>7 DEF rows

\* Only confirmed money covers a shift.
LEMMA CoveredByTheBank == CashInv => BankedMeansConfirmed
<1> SUFFICES ASSUME CashInv, NEW d \in Drawers, bankable[d] > 0, Uncovered(d) < bankable[d]
             PROVE  \E x \in Deposits : deposit[x].status = "CONFIRMED" /\ d \in deposit[x].drawers
  BY DEF BankedMeansConfirmed
<1> DEFINE rows == [i \in DOMAIN bankOrder |-> deposit[bankOrder[i]]]
           For == {i \in 1 .. Len(rows) : rows[i].drawers \cap {d} # {}}
<1>1. bankable \in [Drawers -> Nat] /\ IsFiniteSet(Drawers) /\ CoverageRight(bankable, closedOrder, rows)
  BY CoverageOfShifts
<1>2. TypeOK /\ bankOrder \in Seq(Deposits) /\ deposit \in [Deposits -> DepositRow]
  BY DEF CashInv, CashRowsOK
<1>3. Len(rows) = Len(bankOrder) /\ DOMAIN bankOrder = 1 .. Len(bankOrder)
      /\ \A i \in 1 .. Len(rows) : rows[i] = deposit[bankOrder[i]]
  BY <1>2
<1>4. Covered = allocateConfirmedDeposits(bankable, closedOrder, rows)
  BY DEF Covered
<1> HIDE DEF rows
<1>5. DOMAIN bankable = Drawers
  BY <1>1
<1>6. Covered \in [Drawers -> Nat] /\ Total(Covered, {d}) <= Banked(rows, {d}, Len(rows))
  <2>1. {d} \in SUBSET Drawers
    OBVIOUS
  <2> QED BY <1>1, <1>4, <1>5, <2>1 DEF CoverageRight
<1>7. Total(Covered, {d}) = Covered[d] /\ Covered[d] > 0
  <2>1. Covered[d] \in Int /\ bankable[d] \in Nat
    BY <1>1, <1>6
  <2> QED BY <2>1, <1>6, TotalSingleton DEF Uncovered
<1>8. CASE For = {}
  <2>1. Banked(rows, {d}, Len(rows)) = 0
    BY <1>8, TotalZero DEF Banked
  <2> QED BY <1>6, <1>7, <2>1
<1>9. CASE For # {}
  <2>1. PICK i \in 1 .. Len(rows) : d \in rows[i].drawers
    BY <1>9
  <2>2. bankOrder[i] \in Deposits /\ deposit[bankOrder[i]].status = "CONFIRMED"
    BY <1>2, <1>3 DEF TypeOK
  <2> QED BY <1>3, <2>1, <2>2
<1> QED BY <1>8, <1>9

\* Orderly shifts balance, and a shift is reported as banked only against money
\* that the bank has confirmed, for any number of shifts, sales and deposits.
THEOREM CashIsAccountedFor == Spec => []CashAccounted
<1>1. Init => CashInv
  BY CashStart
<1>2. CashInv /\ [Next]_vars => CashInv'
  BY CashNextKeeps
<1>3. CashInv => CashAccounted
  BY CoveredByTheBank DEF CashAccounted, CashInv, CashRowsOK
<1> QED BY <1>1, <1>2, <1>3, PTL DEF Spec

\* A store admin's dispute that was allowed before the bank confirmed the deposit
\* takes nothing away.
THEOREM DisputesKeepConfirmed == Spec => ConfirmedStaysBanked
<1> DEFINE Keeps == \A x \in disputing \ disputing' : deposit[x].status = "CONFIRMED" => deposit'[x] = deposit[x]
<1>1. Init => CashInv
  BY CashStart
<1>2. CashInv /\ [Next]_vars => CashInv'
  BY CashNextKeeps
<1>3. CashInv /\ [Next]_vars => [Keeps]_vars
  <2> SUFFICES ASSUME CashInv, Next, NEW x \in disputing \ disputing', deposit[x].status = "CONFIRMED"
               PROVE  deposit'[x] = deposit[x]
    OBVIOUS
  <2>1. x \in Deposits /\ deposit \in [Deposits -> DepositRow]
    BY DEF CashInv, CashRowsOK, TypeOK
  <2>2. PICK y \in Deposits : disputeClaim(y) \/ disputeAllowed(y)
    BY DEF Next, TillStep, DepositStep, RingUp, CashSale, CashRefund, getCurrentDrawer, openDrawer, CountTill,
           SumCashSales, closeDrawer, recordDeposit, confirmDeposit, disputeDeposit,
           runFlagUndepositedCashOnce, DayPasses, depositVars
  <2>3. CASE disputeAllowed(y)
    BY <2>3 DEF disputeAllowed
  <2>4. CASE disputeClaim(y)
    <3>1. deposit' = [deposit EXCEPT ![y].status = IF @ = "RECORDED" THEN "DISPUTED" ELSE @]
      BY <2>4 DEF disputeClaim
    <3>2. CASE x # y
      BY <2>1, <3>1, <3>2
    <3>3. CASE x = y
      <4>1. deposit' = [deposit EXCEPT ![x] = [@ EXCEPT !.status = "CONFIRMED"]]
        BY <2>1, <3>1, <3>3
      <4>2. deposit[x] \in DepositRow /\ [deposit[x] EXCEPT !.status = "CONFIRMED"] = deposit[x]
        BY <2>1 DEF DepositRow
      <4> QED BY <2>1, <4>1, <4>2
    <3> QED BY <3>2, <3>3
  <2> QED BY <2>2, <2>3, <2>4
<1> QED BY <1>1, <1>2, <1>3, PTL DEF Spec, ConfirmedStaysBanked

-----------------------------------------------------------------------------
(* Check digits *)

\* A code with one digit read as another.
Misread(code, k, d) == [code EXCEPT ![k] = d]

\* A code with two neighbouring digits in each other's place.
Swapped(code, k) == [code EXCEPT ![k] = code[k + 1], ![k + 1] = code[k]]

\* The weighted digits of a code, its check digit among them, and their sum.
weighed(code) == [i \in DOMAIN code |-> Weight(i, Len(code)) * code[i]]
WeightSum(code) == Total(weighed(code), DOMAIN code)

\* The weighted digits are integers, and so is their sum.
LEMMA WeighedType ==
  ASSUME NEW code \in Seq(0 .. 9)
  PROVE  /\ DOMAIN code = 1 .. Len(code) /\ Len(code) \in Nat /\ IsFiniteSet(DOMAIN code)
         /\ \A i \in DOMAIN code : Weight(i, Len(code)) \in {1, 3} /\ code[i] \in 0 .. 9
         /\ IntegerOn(weighed(code), DOMAIN code)
         /\ WeightSum(code) \in Int
<1>1. DOMAIN code = 1 .. Len(code) /\ Len(code) \in Nat /\ IsFiniteSet(DOMAIN code)
  BY FS_Interval
<1>2. \A i \in DOMAIN code : Weight(i, Len(code)) \in {1, 3} /\ code[i] \in 0 .. 9
  BY DEF Weight
<1>3. IntegerOn(weighed(code), DOMAIN code)
  <2> SUFFICES ASSUME NEW i \in DOMAIN code PROVE weighed(code)[i] \in Int
    BY DEF IntegerOn
  <2>1. PICK w \in Int, x \in Int : w = Weight(i, Len(code)) /\ x = code[i]
    BY <1>2
  <2>2. weighed(code)[i] = w * x
    BY <2>1 DEF weighed
  <2> QED BY <2>1, <2>2
<1>4. WeightSum(code) \in Int
  BY <1>1, <1>3, TotalType DEF WeightSum
<1> QED BY <1>1, <1>2, <1>3, <1>4

\* A check digit is valid when the weighted digits add up to whole tens.
LEMMA ValidMeansTens ==
  ASSUME NEW code \in Seq(0 .. 9), Len(code) >= 8
  PROVE  gtinCheckDigitValid(code) <=> WeightSum(code) % 10 = 0
<1> DEFINE n == Len(code)
           body == SubSeq(code, 1, n - 1)
           f == [i \in DOMAIN body |-> Weight(i, n) * body[i]]
<1>1. /\ DOMAIN code = 1 .. n /\ n \in Nat /\ IsFiniteSet(DOMAIN code)
      /\ IntegerOn(weighed(code), DOMAIN code) /\ code[n] \in 0 .. 9
  BY WeighedType
<1>2. Len(body) = n - 1 /\ DOMAIN body = 1 .. n - 1 /\ \A i \in DOMAIN body : body[i] = code[i]
  BY <1>1
<1>3. AllDigits(code)
  BY WeighedType DEF AllDigits
<1>4. n \in DOMAIN code /\ DOMAIN code \ {n} = DOMAIN body
  BY <1>1, <1>2
<1>5. \A i \in DOMAIN body : f[i] = weighed(code)[i]
  <2> HIDE DEF body
  <2> QED BY <1>1, <1>2 DEF weighed
<1>6. weighed(code)[n] = code[n]
  <2>1. Weight(n, n) = 1
    BY <1>1 DEF Weight
  <2>2. weighed(code)[n] = Weight(n, n) * code[n]
    BY <1>4 DEF weighed
  <2> QED BY <1>1, <2>1, <2>2
<1>7. IntegerOn(weighed(code), DOMAIN body) /\ IntegerOn(f, DOMAIN body) /\ IsFiniteSet(DOMAIN body)
  <2>1. DOMAIN body \subseteq DOMAIN code
    BY <1>4
  <2> HIDE DEF f, body
  <2> QED BY <1>1, <1>5, <2>1, FS_Subset DEF IntegerOn
<1>8. Total(f, DOMAIN body) = Total(weighed(code), DOMAIN body)
  <2> HIDE DEF f, body
  <2> QED BY <1>5, <1>7, TotalExtensional
<1>9. WeightSum(code) = Total(weighed(code), DOMAIN body) + code[n]
  <2> HIDE DEF f, body
  <2> QED BY <1>1, <1>4, <1>6, TotalWithout DEF WeightSum
<1>10. PICK t \in Int, x \in 0 .. 9 : t = Total(f, DOMAIN body) /\ x = code[n] /\ WeightSum(code) = t + x
  <2> HIDE DEF f, body
  <2> QED BY <1>1, <1>7, <1>8, <1>9, TotalType
<1>11. weightedSum(body, n) = t
  BY <1>10 DEF weightedSum
<1>12. checkDigit(body) = (10 - (t % 10)) % 10
  <2>1. Len(body) + 1 = n
    BY <1>1, <1>2
  <2> HIDE DEF body
  <2> QED BY <1>11, <2>1 DEF checkDigit
<1>13. gtinCheckDigitValid(code) <=> (10 - (t % 10)) % 10 = x
  <2> HIDE DEF f
  <2> QED BY <1>3, <1>10, <1>12 DEF gtinCheckDigitValid, Front, Last
<1>14. (10 - (t % 10)) % 10 = x <=> (t + x) % 10 = 0
  <2>1. PICK q \in Int, r \in 0 .. 9 : t = 10 * q + r /\ t % 10 = r
    OBVIOUS
  <2>2. (t + x) % 10 = (r + x) % 10
    BY <2>1
  <2> QED BY <2>1, <2>2
<1> QED BY <1>10, <1>13, <1>14

\* Another digit in one place changes the sum by its weight times the difference.
LEMMA MisreadSum ==
  ASSUME NEW code \in Seq(0 .. 9), NEW k \in DOMAIN code, NEW d \in 0 .. 9
  PROVE  /\ Misread(code, k, d) \in Seq(0 .. 9) /\ Len(Misread(code, k, d)) = Len(code)
         /\ WeightSum(Misread(code, k, d)) = WeightSum(code) + Weight(k, Len(code)) * (d - code[k])
<1> DEFINE m == Misread(code, k, d)
           w == Weight(k, Len(code))
<1>1. /\ m \in Seq(0 .. 9) /\ Len(m) = Len(code) /\ DOMAIN m = DOMAIN code
      /\ m[k] = d /\ \A i \in DOMAIN code : i # k => m[i] = code[i]
  BY DEF Misread
<1> HIDE DEF m
<1>2. /\ IsFiniteSet(DOMAIN code) /\ IntegerOn(weighed(code), DOMAIN code)
      /\ IntegerOn(weighed(m), DOMAIN code) /\ w \in {1, 3} /\ code[k] \in 0 .. 9
  BY <1>1, WeighedType
<1>3. \A i \in DOMAIN code : i # k => weighed(m)[i] = weighed(code)[i]
  BY <1>1 DEF weighed
<1>4. weighed(m)[k] = w * d /\ weighed(code)[k] = w * code[k]
  BY <1>1 DEF weighed
<1>5. w * (d - code[k]) \in Int /\ w * d = w * code[k] + w * (d - code[k])
  BY <1>2
<1>6. weighed(m)[k] = weighed(code)[k] + w * (d - code[k])
  BY <1>4, <1>5
<1>7. Total(weighed(m), DOMAIN code) = Total(weighed(code), DOMAIN code) + w * (d - code[k])
  <2> HIDE DEF w
  <2> QED BY <1>2, <1>3, <1>5, <1>6, TotalBumped
<1> QED BY <1>1, <1>7 DEF WeightSum, m

\* One misread digit, or two neighbours swapped unless they differ by 5, makes a
\* code of any length invalid (gtinCheckDigitValid, lib/barcode.ts).
THEOREM MisreadIsCaught ==
  ASSUME NEW code \in Seq(0 .. 9), gtinCheckDigitValid(code), NEW k \in DOMAIN code
  PROVE  /\ \A d \in (0 .. 9) \ {code[k]} : ~gtinCheckDigitValid(Misread(code, k, d))
         /\ k < Len(code) /\ code[k] # code[k + 1] /\ code[k] - code[k + 1] \notin {5, -5}
              => ~gtinCheckDigitValid(Swapped(code, k))
<1>1. Len(code) >= 8
  BY DEF gtinCheckDigitValid
<1>2. /\ DOMAIN code = 1 .. Len(code) /\ Len(code) \in Nat /\ WeightSum(code) \in Int
      /\ \A i \in DOMAIN code : Weight(i, Len(code)) \in {1, 3} /\ code[i] \in 0 .. 9
  BY WeighedType
<1>3. WeightSum(code) % 10 = 0
  BY <1>1, ValidMeansTens
<1>4. PICK q \in Int : WeightSum(code) = 10 * q
  BY <1>2, <1>3
<1>5. ASSUME NEW d \in (0 .. 9) \ {code[k]} PROVE ~gtinCheckDigitValid(Misread(code, k, d))
  <2> DEFINE m == Misread(code, k, d)
  <2>1. /\ m \in Seq(0 .. 9) /\ Len(m) >= 8
        /\ WeightSum(m) = WeightSum(code) + Weight(k, Len(code)) * (d - code[k])
    BY <1>1, MisreadSum
  <2>2. PICK w \in {1, 3}, e \in (-9 .. 9) \ {0} : w = Weight(k, Len(code)) /\ e = d - code[k]
    BY <1>2
  <2>3. WeightSum(m) = 10 * q + w * e
    BY <1>4, <2>1, <2>2
  <2>4. WeightSum(m) % 10 # 0
    <3>1. CASE w = 1
      BY <2>3, <3>1
    <3>2. CASE w = 3
      BY <2>3, <3>2
    <3> QED BY <3>1, <3>2
  <2> HIDE DEF m
  <2>5. ~gtinCheckDigitValid(m)
    BY <2>1, <2>4, ValidMeansTens
  <2> QED BY <2>5 DEF m
<1>6. ASSUME k < Len(code), code[k] # code[k + 1], code[k] - code[k + 1] \notin {5, -5}
      PROVE  ~gtinCheckDigitValid(Swapped(code, k))
  <2> DEFINE m == Misread(code, k, code[k + 1])
             s == Misread(m, k + 1, code[k])
  <2>1. k + 1 \in DOMAIN code /\ code[k] \in 0 .. 9 /\ code[k + 1] \in 0 .. 9
    BY <1>2, <1>6
  <2>2. /\ m \in Seq(0 .. 9) /\ Len(m) = Len(code) /\ DOMAIN m = DOMAIN code /\ m[k + 1] = code[k + 1]
        /\ WeightSum(m) = WeightSum(code) + Weight(k, Len(code)) * (code[k + 1] - code[k])
    BY <1>2, <2>1, MisreadSum DEF Misread
  <2>3. Swapped(code, k) = s
    BY <1>2, <2>1 DEF Misread, Swapped
  <2>4. /\ s \in Seq(0 .. 9) /\ Len(s) = Len(code)
        /\ WeightSum(s) = WeightSum(m) + Weight(k + 1, Len(code)) * (code[k] - code[k + 1])
    <3> HIDE DEF m
    <3> QED BY <2>1, <2>2, MisreadSum
  <2> HIDE DEF m, s
  <2>5. PICK e \in (-9 .. 9) \ {0, 5, -5} : code[k + 1] - code[k] = e /\ code[k] - code[k + 1] = -e
    <3>1. PICK a \in 0 .. 9, b \in 0 .. 9 : a = code[k] /\ b = code[k + 1]
      BY <2>1
    <3>2. a # b /\ a - b # 5 /\ a - b # -5
      BY <1>6, <3>1
    <3>3. PICK e \in Int : b - a = e /\ a - b = -e /\ -9 <= e /\ e <= 9 /\ e # 0 /\ e # 5 /\ e # -5
      <4>1. b - a \in Int /\ a - b = -(b - a) /\ -9 <= b - a /\ b - a <= 9
        OBVIOUS
      <4> QED BY <3>2, <4>1
    <3>4. e \in (-9 .. 9) \ {0, 5, -5}
      BY <3>3
    <3> QED BY <3>1, <3>3, <3>4
  <2>6. \/ Weight(k, Len(code)) = 1 /\ Weight(k + 1, Len(code)) = 3
        \/ Weight(k, Len(code)) = 3 /\ Weight(k + 1, Len(code)) = 1
    BY <1>2, <2>1 DEF Weight
  <2>7. WeightSum(s) = 10 * q + 2 * e \/ WeightSum(s) = 10 * q - 2 * e
    <3>1. PICK v \in {1, 3}, w \in {1, 3} : /\ v = Weight(k, Len(code)) /\ w = Weight(k + 1, Len(code))
                                            /\ v - w = 2 \/ v - w = -2
      BY <2>6
    <3>2. WeightSum(s) = 10 * q + v * e + w * (-e)
      BY <1>4, <2>2, <2>4, <2>5, <3>1
    <3>3. CASE v = 3 /\ w = 1
      BY <3>2, <3>3
    <3>4. CASE v = 1 /\ w = 3
      BY <3>2, <3>4
    <3> QED BY <3>1, <3>3, <3>4
  <2>8. WeightSum(s) % 10 # 0
    BY <2>7
  <2> QED BY <1>1, <2>3, <2>4, <2>8, ValidMeansTens
<1> QED BY <1>5, <1>6

-----------------------------------------------------------------------------
(* The forms of a UPC-E *)

Digits == 0 .. 9

\* Digits one behind the other.
LEMMA Joined ==
  ASSUME NEW D, NEW a \in Seq(D), NEW b \in Seq(D), NEW c \in Seq(D)
  PROVE  a \o b \o c \in Seq(D) /\ Len(a \o b \o c) = Len(a) + Len(b) + Len(c)
<1>1. a \o b \in Seq(D) /\ Len(a \o b) = Len(a) + Len(b)
  BY ConcatProperties
<1>2. a \o b \o c \in Seq(D) /\ Len(a \o b \o c) = Len(a \o b) + Len(c)
  BY <1>1, ConcatProperties
<1> QED BY <1>1, <1>2, Zenon

\* Three pieces of a code of known lengths, one behind the other.
LEMMA Pieces ==
  ASSUME NEW a \in Seq(Digits), NEW b \in Seq(Digits), NEW c \in Seq(Digits),
         NEW l \in Nat, NEW m \in Nat, NEW k \in Nat, NEW n \in Nat,
         Len(a) = l, Len(b) = m, Len(c) = k, l + m + k = n
  PROVE  a \o b \o c \in Seq(Digits) /\ Len(a \o b \o c) = n
<1>1. a \o b \o c \in Seq(Digits) /\ Len(a \o b \o c) = Len(a) + Len(b) + Len(c)
  BY Joined
<1> QED BY <1>1, Zenon

\* Zeros are digits.
LEMMA ZerosType ==
  ASSUME NEW n \in Nat
  PROVE  Zeros(n) \in Seq(Digits) /\ Len(Zeros(n)) = n
BY DEF Zeros, Digits

\* A UPC-E stands for twelve digits with a valid check digit, or for nothing.
LEMMA ExpansionType ==
  ASSUME NEW code \in Seq(Digits), expandUpcE(code) # null
  PROVE  /\ Len(code) = 8
         /\ expandUpcE(code) \in Seq(Digits) /\ Len(expandUpcE(code)) = 12
         /\ gtinCheckDigitValid(expandUpcE(code))
<1> DEFINE d == SubSeq(code, 2, 7)
           body == IF d[6] \in 0 .. 2 THEN <<d[1], d[2], d[6]>> \o Zeros(4) \o <<d[3], d[4], d[5]>>
                   ELSE IF d[6] = 3 THEN <<d[1], d[2], d[3]>> \o Zeros(5) \o <<d[4], d[5]>>
                   ELSE IF d[6] = 4 THEN <<d[1], d[2], d[3], d[4]>> \o Zeros(5) \o <<d[5]>>
                   ELSE <<d[1], d[2], d[3], d[4], d[5]>> \o Zeros(4) \o <<d[6]>>
           upcA == <<code[1]>> \o body \o <<code[8]>>
<1>1. Len(code) = 8 /\ gtinCheckDigitValid(upcA) /\ expandUpcE(code) = upcA
  BY Zenon DEF expandUpcE
<1>2. \A i \in 1 .. 8 : code[i] \in Digits
  BY <1>1, ElementOfSeq
<1>3. d[1] \in Digits /\ d[2] \in Digits /\ d[3] \in Digits /\ d[4] \in Digits /\ d[5] \in Digits /\ d[6] \in Digits
  <2>1. \A i \in 1 .. 6 : d[i] = code[i + 1]
    BY <1>1
  <2> HIDE DEF d
  <2> QED BY <1>2, <2>1
<1>4. /\ Zeros(4) \in Seq(Digits) /\ Len(Zeros(4)) = 4
      /\ Zeros(5) \in Seq(Digits) /\ Len(Zeros(5)) = 5
  BY ZerosType
<1> HIDE DEF d
<1>5. body \in Seq(Digits) /\ Len(body) = 10
  <2>1. CASE d[6] \in 0 .. 2
    <3> DEFINE a == <<d[1], d[2], d[6]>>
               c == <<d[3], d[4], d[5]>>
    <3>1. a \in Seq(Digits) /\ Len(a) = 3 /\ c \in Seq(Digits) /\ Len(c) = 3
      BY <1>3
    <3>2. body = a \o Zeros(4) \o c
      BY <2>1, Zenon
    <3> HIDE DEF a, c, body
    <3>3. 3 + 4 + 3 = 10 /\ 3 \in Nat /\ 4 \in Nat
      OBVIOUS
    <3>4. PICK l \in Nat, m \in Nat, k \in Nat :
           Len(a) = l /\ Len(Zeros(4)) = m /\ Len(c) = k /\ l + m + k = 10
      BY <1>4, <3>1, <3>3, Zenon
    <3>5. a \o Zeros(4) \o c \in Seq(Digits) /\ Len(a \o Zeros(4) \o c) = 10
      <4>1. PICK x \in Seq(Digits), y \in Seq(Digits), z \in Seq(Digits) : x = a /\ y = Zeros(4) /\ z = c
        BY <1>4, <3>1, Zenon
      <4>2. x \o y \o z \in Seq(Digits) /\ Len(x \o y \o z) = 10
        BY <4>1, <3>4, Pieces
      <4> QED BY <4>1, <4>2, Zenon
    <3> QED BY <3>2, <3>3, <3>4, <3>5, Zenon
  <2>2. CASE d[6] = 3
    <3> DEFINE a == <<d[1], d[2], d[3]>>
               c == <<d[4], d[5]>>
    <3>1. a \in Seq(Digits) /\ Len(a) = 3 /\ c \in Seq(Digits) /\ Len(c) = 2
      BY <1>3
    <3>2. d[6] \notin 0 .. 2
      BY <2>2
    <3>3. body = a \o Zeros(5) \o c
      BY <2>2, <3>2, Zenon
    <3> HIDE DEF a, c, body
    <3>4. 3 + 5 + 2 = 10 /\ 3 \in Nat /\ 5 \in Nat /\ 2 \in Nat
      OBVIOUS
    <3>5. PICK l \in Nat, m \in Nat, k \in Nat :
           Len(a) = l /\ Len(Zeros(5)) = m /\ Len(c) = k /\ l + m + k = 10
      BY <1>4, <3>1, <3>4, Zenon
    <3>6. a \o Zeros(5) \o c \in Seq(Digits) /\ Len(a \o Zeros(5) \o c) = 10
      <4>1. PICK x \in Seq(Digits), y \in Seq(Digits), z \in Seq(Digits) : x = a /\ y = Zeros(5) /\ z = c
        BY <1>4, <3>1, Zenon
      <4>2. x \o y \o z \in Seq(Digits) /\ Len(x \o y \o z) = 10
        BY <4>1, <3>5, Pieces
      <4> QED BY <4>1, <4>2, Zenon
    <3> QED BY <3>3, <3>4, <3>5, <3>6, Zenon
  <2>3. CASE d[6] = 4
    <3> DEFINE a == <<d[1], d[2], d[3], d[4]>>
               c == <<d[5]>>
    <3>1. a \in Seq(Digits) /\ Len(a) = 4 /\ c \in Seq(Digits) /\ Len(c) = 1
      BY <1>3
    <3>2. d[6] \notin 0 .. 2 /\ d[6] # 3
      BY <2>3
    <3>3. body = a \o Zeros(5) \o c
      BY <2>3, <3>2, Zenon
    <3> HIDE DEF a, c, body
    <3>4. 4 + 5 + 1 = 10 /\ 4 \in Nat /\ 5 \in Nat /\ 1 \in Nat
      OBVIOUS
    <3>5. PICK l \in Nat, m \in Nat, k \in Nat :
           Len(a) = l /\ Len(Zeros(5)) = m /\ Len(c) = k /\ l + m + k = 10
      BY <1>4, <3>1, <3>4, Zenon
    <3>6. a \o Zeros(5) \o c \in Seq(Digits) /\ Len(a \o Zeros(5) \o c) = 10
      <4>1. PICK x \in Seq(Digits), y \in Seq(Digits), z \in Seq(Digits) : x = a /\ y = Zeros(5) /\ z = c
        BY <1>4, <3>1, Zenon
      <4>2. x \o y \o z \in Seq(Digits) /\ Len(x \o y \o z) = 10
        BY <4>1, <3>5, Pieces
      <4> QED BY <4>1, <4>2, Zenon
    <3> QED BY <3>3, <3>4, <3>5, <3>6, Zenon
  <2>4. CASE d[6] \notin 0 .. 2 /\ d[6] # 3 /\ d[6] # 4
    <3> DEFINE a == <<d[1], d[2], d[3], d[4], d[5]>>
               c == <<d[6]>>
    <3>1. a \in Seq(Digits) /\ Len(a) = 5 /\ c \in Seq(Digits) /\ Len(c) = 1
      BY <1>3
    <3>2. body = a \o Zeros(4) \o c
      BY <2>4, Zenon
    <3> HIDE DEF a, c, body
    <3>3. 5 + 4 + 1 = 10 /\ 5 \in Nat /\ 4 \in Nat /\ 1 \in Nat
      OBVIOUS
    <3>4. PICK l \in Nat, m \in Nat, k \in Nat :
           Len(a) = l /\ Len(Zeros(4)) = m /\ Len(c) = k /\ l + m + k = 10
      BY <1>4, <3>1, <3>3, Zenon
    <3>5. a \o Zeros(4) \o c \in Seq(Digits) /\ Len(a \o Zeros(4) \o c) = 10
      <4>1. PICK x \in Seq(Digits), y \in Seq(Digits), z \in Seq(Digits) : x = a /\ y = Zeros(4) /\ z = c
        BY <1>4, <3>1, Zenon
      <4>2. x \o y \o z \in Seq(Digits) /\ Len(x \o y \o z) = 10
        BY <4>1, <3>4, Pieces
      <4> QED BY <4>1, <4>2, Zenon
    <3> QED BY <3>2, <3>3, <3>4, <3>5, Zenon
  <2> HIDE DEF body
  <2> QED BY <2>1, <2>2, <2>3, <2>4, Zenon
<1> HIDE DEF body
<1>6. upcA \in Seq(Digits) /\ Len(upcA) = 12
  <2> DEFINE a == <<code[1]>>
             c == <<code[8]>>
  <2>1. a \in Seq(Digits) /\ Len(a) = 1 /\ c \in Seq(Digits) /\ Len(c) = 1
    <3>1. code[1] \in Digits /\ code[8] \in Digits
      BY <1>2
    <3> QED BY <3>1
  <2>2. upcA = a \o body \o c
    OBVIOUS
  <2> HIDE DEF a, c
  <2>3. 1 + 10 + 1 = 12 /\ 1 \in Nat /\ 10 \in Nat
    OBVIOUS
  <2>4. PICK l \in Nat, m \in Nat, k \in Nat :
          Len(a) = l /\ Len(body) = m /\ Len(c) = k /\ l + m + k = 12
    BY <1>5, <2>1, <2>3, Zenon
  <2>5. a \o body \o c \in Seq(Digits) /\ Len(a \o body \o c) = 12
    <3>1. PICK x \in Seq(Digits), y \in Seq(Digits), z \in Seq(Digits) : x = a /\ y = body /\ z = c
      BY <1>5, <2>1, Zenon
    <3>2. x \o y \o z \in Seq(Digits) /\ Len(x \o y \o z) = 12
      BY <3>1, <2>4, Pieces
    <3> QED BY <3>1, <3>2, Zenon
  <2> QED BY <2>2, <2>3, <2>4, <2>5, Zenon
<1> QED BY <1>1, <1>6, Zenon

\* A zero in front does not change the weighted sum.
LEMMA ZeroInFront ==
  ASSUME NEW code \in Seq(Digits)
  PROVE  /\ Zeros(1) \o code \in Seq(Digits) /\ Len(Zeros(1) \o code) = Len(code) + 1
         /\ WeightSum(Zeros(1) \o code) = WeightSum(code)
<1> DEFINE long == Zeros(1) \o code
           n == Len(code)
           f == weighed(code)
           g == weighed(long)
<1>1. /\ Zeros(1) \in Seq(Digits) /\ Len(Zeros(1)) = 1 /\ Zeros(1)[1] = 0 /\ n \in Nat
  BY DEF Zeros, Digits
<1>2. /\ long \in Seq(Digits) /\ Len(long) = n + 1
      /\ long[1] = 0 /\ \A i \in 1 .. n : long[i + 1] = code[i]
  <2>1. /\ long \in Seq(Digits) /\ Len(long) = Len(Zeros(1)) + Len(code)
        /\ \A i \in 1 .. Len(Zeros(1)) + Len(code) :
             long[i] = IF i <= Len(Zeros(1)) THEN Zeros(1)[i] ELSE code[i - Len(Zeros(1))]
    BY <1>1, ConcatProperties
  <2> HIDE DEF long
  <2>2. /\ long \in Seq(Digits) /\ Len(long) = 1 + n
        /\ \A i \in 1 .. 1 + n : long[i] = IF i <= 1 THEN Zeros(1)[i] ELSE code[i - 1]
    BY <1>1, <2>1, Zenon
  <2>3. \A i \in 1 .. n : i + 1 \in 1 .. 1 + n /\ ~(i + 1 <= 1) /\ (i + 1) - 1 = i
    BY <1>1
  <2>4. 1 \in 1 .. 1 + n /\ 1 <= 1 /\ 1 + n = n + 1
    BY <1>1
  <2>5. \A i \in 1 .. n : long[i + 1] = code[i]
    BY <2>2, <2>3
  <2> QED BY <1>1, <2>2, <2>4, <2>5, Zenon
<1> HIDE DEF long
<1>3. /\ DOMAIN code = 1 .. n /\ IntegerOn(f, 1 .. n)
      /\ DOMAIN long = 1 .. n + 1 /\ IntegerOn(g, 1 .. n + 1)
      /\ \A i \in 1 .. n : Weight(i, n) \in {1, 3}
  BY <1>2, WeighedType DEF Digits
<1>4. g[1] = 0
  <2>1. 1 \in 1 .. n + 1
    BY <1>1
  <2>2. Weight(1, n + 1) \in {1, 3}
    BY DEF Weight
  <2>3. g[1] = Weight(1, n + 1) * long[1]
    BY <1>2, <1>3, <2>1, Zenon DEF weighed
  <2> QED BY <1>2, <2>2, <2>3
<1>5. ASSUME NEW i \in 1 .. n PROVE g[i + 1] = f[i]
  <2>1. i + 1 \in 1 .. n + 1
    BY <1>1
  <2>2. Weight(i + 1, n + 1) = Weight(i, n)
    <3>1. (n + 1) - (i + 1) = n - i
      BY <1>1
    <3> QED BY <3>1 DEF Weight
  <2>3. g[i + 1] = Weight(i + 1, n + 1) * long[i + 1]
    BY <1>2, <1>3, <2>1, Zenon DEF weighed
  <2>4. f[i] = Weight(i, n) * code[i]
    BY <1>3, Zenon DEF weighed
  <2> QED BY <1>2, <2>2, <2>3, <2>4, Zenon
<1> DEFINE Good == {m \in Nat : m <= n => Total(g, 1 .. m + 1) = Total(f, 1 .. m)}
<1> HIDE DEF f, g
<1>6. 0 \in Good
  <2>1. 1 .. 0 + 1 = {1} /\ 1 .. 0 = {}
    OBVIOUS
  <2>2. Total(g, {1}) = 0
    <3>1. g[1] \in Int
      BY <1>4
    <3> QED BY <1>4, <3>1, TotalSingleton
  <2>3. Total(f, {}) = 0
    BY TotalZero
  <2> QED BY <2>1, <2>2, <2>3, Zenon
<1>7. ASSUME NEW m \in Nat, m \in Good PROVE m + 1 \in Good
  <2> SUFFICES ASSUME m + 1 <= n PROVE Total(g, 1 .. (m + 1) + 1) = Total(f, 1 .. m + 1)
    OBVIOUS
  <2>1. Total(g, 1 .. m + 1) = Total(f, 1 .. m)
    BY <1>1, <1>7
  <2> HIDE DEF Good
  <2>2. /\ IsFiniteSet(1 .. (m + 1) + 1) /\ IsFiniteSet(1 .. m + 1)
        /\ IntegerOn(g, 1 .. (m + 1) + 1) /\ IntegerOn(f, 1 .. m + 1)
    <3>1. 1 .. (m + 1) + 1 \subseteq 1 .. n + 1 /\ 1 .. m + 1 \subseteq 1 .. n
      BY <1>1
    <3>2. IsFiniteSet(1 .. (m + 1) + 1) /\ IsFiniteSet(1 .. m + 1)
      BY FS_Interval
    <3> QED BY <1>3, <3>1, <3>2 DEF IntegerOn
  <2>3. Total(g, 1 .. (m + 1) + 1) = Total(g, (1 .. (m + 1) + 1) \ {(m + 1) + 1}) + g[(m + 1) + 1]
    <3>1. (m + 1) + 1 \in 1 .. (m + 1) + 1
      OBVIOUS
    <3> QED BY <2>2, <3>1, TotalWithout
  <2>4. Total(f, 1 .. m + 1) = Total(f, (1 .. m + 1) \ {m + 1}) + f[m + 1]
    <3>1. m + 1 \in 1 .. m + 1
      OBVIOUS
    <3> QED BY <2>2, <3>1, TotalWithout
  <2>5. (1 .. (m + 1) + 1) \ {(m + 1) + 1} = 1 .. m + 1 /\ (1 .. m + 1) \ {m + 1} = 1 .. m
    OBVIOUS
  <2>6. g[(m + 1) + 1] = f[m + 1]
    <3>1. m + 1 \in 1 .. n
      BY <1>1
    <3> QED BY <1>5, <3>1
  <2> QED BY <2>1, <2>3, <2>4, <2>5, <2>6, Zenon
<1>8. n \in Good
  <2>1. Nat \subseteq Good
    <3> HIDE DEF Good
    <3> QED BY <1>6, <1>7, NumbersInduction
  <2> HIDE DEF Good
  <2> QED BY <1>1, <2>1
<1>9. Total(g, 1 .. n + 1) = Total(f, 1 .. n)
  <2>1. n <= n
    BY <1>1
  <2> QED BY <1>8, <2>1
<1> QED BY <1>2, <1>3, <1>9, Zenon DEF WeightSum, long, f, g

\* Zeros in front of zeros in front of a code, and no zeros in front of it.
LEMMA ZerosInFront ==
  ASSUME NEW code \in Seq(Digits)
  PROVE  Zeros(0) \o code = code /\ Zeros(2) \o code = Zeros(1) \o (Zeros(1) \o code)
BY DEF Zeros, Digits

\* What a scanner sends of a code of 12 digits is padded to the same 14.
LEMMA PaddedForms ==
  ASSUME NEW upcA \in Seq(Digits), Len(upcA) = 12, gtinCheckDigitValid(upcA)
  PROVE  /\ padded(upcA) \in Seq(Digits) /\ Len(padded(upcA)) = 14 /\ gtinCheckDigitValid(padded(upcA))
         /\ normalizeBarcode(upcA) = padded(upcA)
         /\ normalizeBarcode(Zeros(1) \o upcA) = padded(upcA)
         /\ normalizeBarcode(padded(upcA)) = padded(upcA)
<1> DEFINE ean == Zeros(1) \o upcA
           gtin == Zeros(1) \o ean
<1>1. ean \in Seq(Digits) /\ Len(ean) = 13 /\ WeightSum(ean) = WeightSum(upcA)
  <2>1. ean \in Seq(Digits) /\ Len(ean) = Len(upcA) + 1 /\ WeightSum(ean) = WeightSum(upcA)
    BY ZeroInFront
  <2>2. 12 + 1 = 13
    OBVIOUS
  <2> QED BY <2>1, <2>2, Zenon
<1> HIDE DEF ean
<1>2. gtin \in Seq(Digits) /\ Len(gtin) = 14 /\ WeightSum(gtin) = WeightSum(ean)
  <2>1. gtin \in Seq(Digits) /\ Len(gtin) = Len(ean) + 1 /\ WeightSum(gtin) = WeightSum(ean)
    BY <1>1, ZeroInFront
  <2>2. 13 + 1 = 14
    OBVIOUS
  <2> QED BY <1>1, <2>1, <2>2, Zenon
<1>3. 14 - 12 = 2 /\ 14 - 13 = 1 /\ 14 - 14 = 0 /\ 12 \in 12 .. 14 /\ 13 \in 12 .. 14 /\ 14 \in 12 .. 14
  OBVIOUS
<1>4. AllDigits(upcA) /\ AllDigits(ean) /\ AllDigits(gtin)
  <2>1. ASSUME NEW s \in Seq(Digits) PROVE AllDigits(s)
    BY ElementOfSeq DEF AllDigits, Digits
  <2> QED BY <1>1, <1>2, <2>1
<1>5. padded(upcA) = gtin /\ padded(ean) = gtin /\ padded(gtin) = gtin
  BY <1>1, <1>2, <1>3, ZerosInFront, Zenon DEF padded, ean
<1>6. gtinCheckDigitValid(gtin)
  <2>1. WeightSum(upcA) % 10 = 0
    <3>1. PICK l \in Nat : Len(upcA) = l /\ l >= 8
      <4>1. 12 \in Nat /\ 12 >= 8
        OBVIOUS
      <4> QED BY <4>1, Zenon
    <3>2. upcA \in Seq(0 .. 9)
      BY Zenon DEF Digits
    <3>3. Len(upcA) >= 8
      BY <3>1, Zenon
    <3> QED BY <3>2, <3>3, ValidMeansTens, Zenon
  <2>2. PICK l \in Nat : Len(gtin) = l /\ l >= 8
    BY <1>2
  <2> HIDE DEF gtin
  <2> QED BY <1>1, <1>2, <2>1, <2>2, ValidMeansTens DEF Digits
<1> HIDE DEF gtin
<1>7. normalizeBarcode(upcA) = gtin /\ normalizeBarcode(ean) = gtin /\ normalizeBarcode(gtin) = gtin
  BY <1>1, <1>2, <1>3, <1>4, <1>5, Zenon DEF normalizeBarcode
<1> QED BY <1>2, <1>5, <1>6, <1>7, Zenon DEF ean

\* The forms in which scanners send the item of a UPC-E: as it is, UPC-A,
\* EAN-13 and GTIN-14.
SentAs(code) == {code, expandUpcE(code), Zeros(1) \o expandUpcE(code), padded(expandUpcE(code))}

\* Whichever form a UPC-E's item is registered in, the code is valid and one
\* and the same is stored, and whichever form is scanned, it is among those
\* looked up (normalizeBarcode, isValidGtin, lookupCandidates and what
\* addProductBarcode stores).
THEOREM EitherFormIsFound ==
  ASSUME NEW code \in Seq(Digits), expandUpcE(code) # null,
         NEW registered \in SentAs(code), NEW scanned \in SentAs(code)
  PROVE  /\ isValidGtin(normalizeBarcode(registered))
         /\ \E k \in DOMAIN candidates(normalizeBarcode(scanned)) :
              candidates(normalizeBarcode(scanned))[k] = storedGtin(registered)
<1> DEFINE upcA == expandUpcE(code)
           gtin == padded(upcA)
<1>1. Len(code) = 8 /\ upcA \in Seq(Digits) /\ Len(upcA) = 12 /\ gtinCheckDigitValid(upcA)
  BY ExpansionType
<1> HIDE DEF upcA
<1>2. /\ gtin \in Seq(Digits) /\ Len(gtin) = 14 /\ gtinCheckDigitValid(gtin)
      /\ normalizeBarcode(upcA) = gtin /\ normalizeBarcode(Zeros(1) \o upcA) = gtin
      /\ normalizeBarcode(gtin) = gtin
  BY <1>1, PaddedForms
<1> HIDE DEF gtin
<1>3. 8 \notin 12 .. 14 /\ 14 # 8 /\ 8 \in {8, 14} /\ 14 \in {8, 14}
  OBVIOUS
<1>4. normalizeBarcode(code) = code
  BY <1>1, <1>3, Zenon DEF normalizeBarcode
<1>5. \A form \in SentAs(code) : normalizeBarcode(form) \in {code, gtin}
  BY <1>2, <1>4, Zenon DEF SentAs, upcA, gtin
<1>6. isValidGtin(code) /\ isValidGtin(gtin)
  BY <1>1, <1>2, <1>3, Zenon DEF isValidGtin
<1>7. candidates(code) = <<code>> \o <<gtin>> /\ candidates(gtin) = <<gtin>> \o <<>>
  BY <1>1, <1>2, <1>3, Zenon DEF candidates, upcA, gtin
<1>8. ASSUME NEW form \in {code, gtin}
      PROVE  /\ Last(candidates(form)) = gtin
             /\ \E k \in DOMAIN candidates(form) : candidates(form)[k] = gtin
  <2>1. PICK x, y : x = code /\ y = gtin
    OBVIOUS
  <2>2. /\ Last(<<x>> \o <<y>>) = y /\ Last(<<y>> \o <<>>) = y
        /\ \E k \in DOMAIN (<<x>> \o <<y>>) : (<<x>> \o <<y>>)[k] = y
        /\ \E k \in DOMAIN (<<y>> \o <<>>) : (<<y>> \o <<>>)[k] = y
    BY DEF Last
  <2> QED BY <1>7, <2>1, <2>2, Zenon
<1>9. storedGtin(registered) = gtin
  BY <1>5, <1>8, Zenon DEF storedGtin
<1> QED BY <1>5, <1>6, <1>8, <1>9, Zenon

-----------------------------------------------------------------------------
(* Labels *)

\* What Fields reads from i on, given what it reads from later places on.
FieldsFrom(f, s, i) ==
  LET ai == AiAt(s, i) IN
  IF i > Len(s) THEN NoFields
  ELSE IF s[i] = GS THEN f[i + 1]
  ELSE IF ai \in DOMAIN FixedLength THEN
    IF FixedField(s, i + 2, FixedLength[ai]) = null THEN Invalid
    ELSE FieldBefore(ai, FixedField(s, i + 2, FixedLength[ai]), f[i + 2 + FixedLength[ai]])
  ELSE IF ai \in DOMAIN VariableMax THEN
    FieldBefore(ai, VariableField(s, i + 2, VariableMax[ai]), f[EndOfField(s, i + 2)])
  ELSE NoFields

\* A variable field does not end before it begins.
LEMMA EndBehind ==
  ASSUME NEW s, Len(s) \in Nat, NEW i \in Nat, i <= Len(s) + 1
  PROVE  EndOfField(s, i) \in Nat /\ EndOfField(s, i) >= i
<1> DEFINE ends == {j \in i .. Len(s) : s[j] = GS}
           rank == [j \in ends |-> -j]
<1>1. CASE ends = {}
  BY <1>1 DEF EndOfField
<1>2. CASE ends # {}
  <2>1. IsFiniteSet(ends) /\ ends \subseteq i .. Len(s)
    <3>1. IsFiniteSet(i .. Len(s)) /\ ends \subseteq i .. Len(s)
      BY FS_Interval
    <3> HIDE DEF ends
    <3> QED BY <3>1, FS_Subset
  <2>2. IntegerOn(rank, ends)
    BY <2>1 DEF IntegerOn
  <2>3. PICK j \in ends : \A k \in ends : rank[k] <= rank[j]
    <3> HIDE DEF rank, ends
    <3> QED BY <1>2, <2>1, <2>2, LastRow
  <2>4. \E k \in ends : \A l \in ends : k <= l
    <3>1. \A k \in ends : rank[k] = -k
      OBVIOUS
    <3> HIDE DEF rank, ends
    <3>2. \A k \in ends : k \in Int /\ j \in Int
      BY <2>1
    <3>3. \A k \in ends : j <= k
      BY <2>3, <3>1, <3>2
    <3> QED BY <2>3, <3>3
  <2>5. EndOfField(s, i) = CHOOSE k \in ends : \A l \in ends : k <= l
    BY <1>2 DEF EndOfField
  <2>6. EndOfField(s, i) \in ends
    <3> HIDE DEF ends
    <3> QED BY <2>4, <2>5
  <2> QED BY <2>1, <2>6
<1> QED BY <1>1, <1>2

\* Only later places count.
LEMMA OnlyLaterCounts ==
  ASSUME NEW s, Len(s) \in Nat, NEW i \in Nat, NEW f, NEW g, \A j \in Nat : j > i => f[j] = g[j]
  PROVE  FieldsFrom(f, s, i) = FieldsFrom(g, s, i)
<1> DEFINE ai == AiAt(s, i)
<1>1. f[i + 1] = g[i + 1]
  OBVIOUS
<1>2. ASSUME ai \in DOMAIN FixedLength
      PROVE  f[i + 2 + FixedLength[ai]] = g[i + 2 + FixedLength[ai]]
  <2>1. FixedLength[ai] \in Nat
    BY <1>2 DEF FixedLength
  <2>2. i + 2 + FixedLength[ai] \in Nat /\ i + 2 + FixedLength[ai] > i
    <3> HIDE DEF ai
    <3> QED BY <2>1
  <2> HIDE DEF ai
  <2> QED BY <2>2
<1>3. ASSUME ai \in DOMAIN VariableMax
      PROVE  f[EndOfField(s, i + 2)] = g[EndOfField(s, i + 2)]
  <2>1. ai # -1
    BY <1>3 DEF VariableMax
  <2>2. i < Len(s)
    BY <2>1 DEF AiAt
  <2>3. EndOfField(s, i + 2) \in Nat /\ EndOfField(s, i + 2) >= i + 2
    BY <2>2, EndBehind
  <2> QED BY <2>3
<1> HIDE DEF ai
<1> QED BY <1>1, <1>2, <1>3 DEF FieldsFrom, ai

\* Reads(f, s, i): f[j] is what is read from j on, for every place j from i on.
Reads(f, s, i) == \A j \in Nat : j >= i => f[j] = FieldsFrom(f, s, j)

\* A code can be read from its end back to its beginning.
LEMMA CodeIsRead ==
  ASSUME NEW s, Len(s) \in Nat
  PROVE  \E f : f = [i \in Nat |-> FieldsFrom(f, s, i)]
<1> DEFINE L == Len(s)
           Good == {n \in Nat : \E f : f = [i \in Nat |-> f[i]] /\ Reads(f, s, L + 1 - n)}
<1>1. 0 \in Good
  <2> DEFINE f == [i \in Nat |-> NoFields]
  <2>1. Reads(f, s, L + 1)
    <3> SUFFICES ASSUME NEW j \in Nat, j >= L + 1 PROVE f[j] = FieldsFrom(f, s, j)
      BY DEF Reads
    <3>1. j > Len(s) /\ ~(j <= Len(s))
      OBVIOUS
    <3>2. AiAt(s, j) = -1
      BY <3>1 DEF AiAt
    <3>3. -1 \notin DOMAIN FixedLength /\ -1 \notin DOMAIN VariableMax
      BY DEF FixedLength, VariableMax
    <3>4. FieldsFrom(f, s, j) = NoFields
      <4> HIDE DEF f
      <4> QED BY <3>1, <3>2, <3>3 DEF FieldsFrom
    <3> QED BY <3>4
  <2>2. f = [i \in Nat |-> f[i]] /\ L + 1 - 0 = L + 1
    OBVIOUS
  <2> HIDE DEF f
  <2> QED BY <2>1, <2>2
<1>2. ASSUME NEW n \in Nat, n \in Good PROVE n + 1 \in Good
  <2>1. PICK f : f = [i \in Nat |-> f[i]] /\ Reads(f, s, L + 1 - n)
    BY <1>2
  <2> DEFINE g == [i \in Nat |-> IF i = L - n THEN FieldsFrom(f, s, i) ELSE f[i]]
  <2>2. \A i \in Nat : g[i] = (IF i = L - n THEN FieldsFrom(f, s, i) ELSE f[i])
    OBVIOUS
  <2>3. g = [i \in Nat |-> g[i]]
    OBVIOUS
  <2> HIDE DEF g
  <2>4. ASSUME NEW j \in Nat, j >= L - n PROVE g[j] = FieldsFrom(g, s, j)
    <3>1. \A k \in Nat : k > j => f[k] = g[k]
      BY <2>2, <2>4
    <3>2. FieldsFrom(f, s, j) = FieldsFrom(g, s, j)
      BY <3>1, OnlyLaterCounts
    <3>3. g[j] = FieldsFrom(f, s, j)
      BY <2>1, <2>2, <2>4 DEF Reads
    <3> QED BY <3>2, <3>3
  <2>5. Reads(g, s, L + 1 - (n + 1))
    <3>1. L + 1 - (n + 1) = L - n
      OBVIOUS
    <3> QED BY <2>4, <3>1 DEF Reads
  <2> QED BY <2>3, <2>5
<1>3. Nat \subseteq Good
  <2> HIDE DEF Good
  <2> QED BY <1>1, <1>2, NumbersInduction
<1>4. L + 1 \in Good
  <2> HIDE DEF Good
  <2> QED BY <1>3
<1>5. PICK f : f = [i \in Nat |-> f[i]] /\ Reads(f, s, 0)
  <2>1. L + 1 - (L + 1) = 0
    OBVIOUS
  <2> QED BY <1>4, <2>1
<1>6. \A j \in Nat : f[j] = FieldsFrom(f, s, j)
  BY <1>5 DEF Reads
<1>7. f = [i \in Nat |-> FieldsFrom(f, s, i)]
  <2>1. [i \in Nat |-> f[i]] = [i \in Nat |-> FieldsFrom(f, s, i)]
    BY <1>6
  <2> QED BY <1>5, <2>1, Zenon
<1> QED BY <1>7

\* What is computed is what is read from the first place on.
LEMMA FieldsComputed ==
  ASSUME NEW s, Len(s) \in Nat
  PROVE  \E f : (\A i \in Nat : f[i] = FieldsFrom(f, s, i)) /\ Fields(s) = f[1]
<1>1. \E f : f = [i \in Nat |-> FieldsFrom(f, s, i)]
  BY CodeIsRead
<1> DEFINE from == CHOOSE f : f = [i \in Nat |->
        LET ai == AiAt(s, i) IN
        IF i > Len(s) THEN NoFields
        ELSE IF s[i] = GS THEN f[i + 1]
        ELSE IF ai \in DOMAIN FixedLength THEN
          IF FixedField(s, i + 2, FixedLength[ai]) = null THEN Invalid
          ELSE FieldBefore(ai, FixedField(s, i + 2, FixedLength[ai]), f[i + 2 + FixedLength[ai]])
        ELSE IF ai \in DOMAIN VariableMax THEN
          FieldBefore(ai, VariableField(s, i + 2, VariableMax[ai]), f[EndOfField(s, i + 2)])
        ELSE NoFields]
<1>2. from = [i \in Nat |-> FieldsFrom(from, s, i)]
  BY <1>1, Zenon DEF FieldsFrom
<1>3. Fields(s) = from[1]
  BY DEF Fields
<1>4. \A i \in Nat : from[i] = FieldsFrom(from, s, i)
  <2> HIDE DEF from
  <2>1. \A i \in Nat : [j \in Nat |-> FieldsFrom(from, s, j)][i] = FieldsFrom(from, s, i)
    OBVIOUS
  <2> QED BY <1>2, <2>1, Zenon
<1> HIDE DEF from
<1> QED BY <1>3, <1>4

\* Thirteen digits announced as GS1, as a scanner with Caps Lock on announces an
\* EAN-13, are not taken for a label, whichever digits they are: with the zero
\* put in front they begin with the identifier of a field that is longer, or
\* with none ("13 digits never parse as a complete element string",
\* lib/barcode.ts).
THEOREM EanIsNotALabel ==
  ASSUME NEW code \in Seq(0 .. 9), Len(code) = 13
  PROVE  parseGs1(code, TRUE) = null
<1> DEFINE s == normalizeBarcode(code)
<1>1. \A i \in 1 .. 13 : code[i] \in 0 .. 9
  BY ElementOfSeq
<1>2. /\ s \in Seq(0 .. 9) /\ Len(s) = 14 /\ s[1] = 0 /\ s[2] \in 0 .. 9
  <2>1. DOMAIN code = 1 .. 13
    OBVIOUS
  <2>2. AllDigits(code)
    BY <1>1, <2>1, Zenon DEF AllDigits
  <2>3. Len(code) \in 12 .. 14 /\ 14 - Len(code) = 1
    OBVIOUS
  <2>4. s = Zeros(1) \o code
    BY <2>2, <2>3, Zenon DEF normalizeBarcode, padded
  <2>5. Zeros(1) \in Seq(0 .. 9) /\ Len(Zeros(1)) = 1 /\ Zeros(1)[1] = 0
    BY DEF Zeros
  <2> HIDE DEF s
  <2>6. s \in Seq(0 .. 9) /\ Len(s) = 14 /\ s[1] = 0 /\ s[2] = code[1]
    <3>1. PICK D : D = 0 .. 9
      OBVIOUS
    <3>2. PICK z \in Seq(D) : z = Zeros(1) /\ Len(z) = 1 /\ z[1] = 0
      BY <2>5, <3>1
    <3>3. code \in Seq(D) /\ s = z \o code /\ Len(code) = 13
      BY <2>4, <3>1, <3>2
    <3>4. s \in Seq(D) /\ Len(s) = 14 /\ s[1] = z[1] /\ s[2] = code[1]
      <4>1. /\ s \in Seq(D) /\ Len(s) = Len(z) + Len(code)
            /\ \A i \in 1 .. Len(z) + Len(code) : s[i] = IF i <= Len(z) THEN z[i] ELSE code[i - Len(z)]
        BY <3>3, ConcatProperties
      <4>2. PICK l \in {1}, m \in {13} : l = Len(z) /\ m = Len(code)
        BY <3>2, <3>3, Zenon
      <4>3. /\ s \in Seq(D) /\ Len(s) = l + m
            /\ \A i \in 1 .. l + m : s[i] = IF i <= l THEN z[i] ELSE code[i - l]
        BY <4>1, <4>2, Zenon
      <4>4. s[1] = z[1] /\ s[2] = code[1] /\ l + m = 14
        <5>1. l = 1 /\ m = 13
          OBVIOUS
        <5>2. 1 \in 1 .. l + m /\ 2 \in 1 .. l + m /\ 1 <= l /\ ~(2 <= l) /\ 2 - l = 1 /\ l + m = 14
          BY <5>1
        <5>3. s[1] = z[1] /\ s[2] = code[2 - l]
          BY <4>3, <5>2, Zenon
        <5> QED BY <5>2, <5>3, Zenon
      <4> QED BY <4>3, <4>4, Zenon
    <3> QED BY <3>1, <3>2, <3>4
  <2> QED BY <1>1, <2>6
<1> HIDE DEF s
<1>3. AiAt(s, 1) = s[2] /\ AiAt(s, 1) \in 0 .. 9
  <2> DEFINE u == SubSeq(s, 1, 1 + 1)
  <2>1. DOMAIN u = 1 .. 2 /\ u[1] = s[1] /\ u[2] = s[2]
    <3>1. 1 + 1 = 2 /\ Len(s) = 14
      BY <1>2
    <3> QED BY <3>1
  <2>2. AllDigits(u)
    <3> HIDE DEF u
    <3> QED BY <1>2, <2>1 DEF AllDigits
  <2>3. AiAt(s, 1) = 10 * s[1] + s[2]
    <3>1. 1 + 1 = 2 /\ 1 < Len(s)
      BY <1>2
    <3> QED BY <2>2, <3>1 DEF AiAt
  <2> QED BY <1>2, <2>3
<1>4. PICK f : (\A i \in Nat : f[i] = FieldsFrom(f, s, i)) /\ Fields(s) = f[1]
  BY <1>2, FieldsComputed
<1>5. Fields(s) = FieldsFrom(f, s, 1)
  BY <1>4
<1>6. s[1] # GS /\ ~(1 > Len(s))
  BY <1>2 DEF GS
<1>7. AiAt(s, 1) \notin DOMAIN VariableMax
  BY <1>3 DEF VariableMax
<1>8. ASSUME AiAt(s, 1) \in DOMAIN FixedLength
      PROVE  FixedField(s, 1 + 2, FixedLength[AiAt(s, 1)]) = null
  <2>1. FixedLength[AiAt(s, 1)] \in {14, 18}
    BY <1>3, <1>8 DEF FixedLength
  <2> QED BY <1>2, <2>1 DEF FixedField
<1>9. Fields(s) \in {Invalid, NoFields}
  BY <1>5, <1>6, <1>7, <1>8 DEF FieldsFrom
<1> QED BY <1>9 DEF parseGs1, s

\* A field as GS1 has it: its identifier, and digits of a fixed number or
\* characters up to a number, none of which is the separator.
GoodField ==
  {e \in [ai : Nat, value : Seq(Nat)] :
     \/ /\ e.ai \in DOMAIN FixedLength
        /\ e.value \in Seq(0 .. 9) /\ Len(e.value) = FixedLength[e.ai]
     \/ /\ e.ai \in DOMAIN VariableMax
        /\ e.value \in Seq(Nat \ {GS}) /\ Len(e.value) \in 1 .. VariableMax[e.ai]}

\* v stands in a text from i on.
Fills(text, i, v) == \A k \in 1 .. Len(v) : text[i - 1 + k] = v[k]

\* The field e stands at i in a text, and ends before EndAt(e, i).
EndAt(e, i) == i + 2 + Len(e.value)
StandsAt(text, e, i) ==
  /\ text[i] \in 0 .. 9 /\ text[i + 1] \in 0 .. 9 /\ e.ai = 10 * text[i] + text[i + 1]
  /\ Fills(text, i + 2, e.value)

\* f says what is read from each place of a text on.
IsReading(f, text) == \A i \in Nat : f[i] = FieldsFrom(f, text, i)

\* The fields of a label stand one behind the other in a text, the n-th at
\* at[n], each with a separator behind it or none; a field of variable length
\* has one unless it is the last.
Encodes(text, label, at) ==
  /\ at[1] = 1 /\ at[Len(label) + 1] = Len(text) + 1
  /\ \A n \in 1 .. Len(label) :
       /\ at[n] \in Nat \ {0}
       /\ StandsAt(text, label[n], at[n])
       /\ \/ /\ at[n + 1] = EndAt(label[n], at[n])
             /\ label[n].ai \in DOMAIN VariableMax => n = Len(label)
          \/ /\ at[n + 1] = EndAt(label[n], at[n]) + 1
             /\ text[EndAt(label[n], at[n])] = GS

\* What is written on a label from the n-th field on.
Written(label, n) ==
  [a \in {label[k].ai : k \in n .. Len(label)} |->
     label[CHOOSE k \in n .. Len(label) : label[k].ai = a].value]

\* No two fields of a label have the same identifier.
AllDifferent(label) == \A j, k \in 1 .. Len(label) : label[j].ai = label[k].ai => j = k

\* Two digits are the identifier they make.
LEMMA IdentifierIsRead ==
  ASSUME NEW text \in Seq(Nat), NEW i \in Nat \ {0}, i < Len(text),
         text[i] \in 0 .. 9, text[i + 1] \in 0 .. 9
  PROVE  AiAt(text, i) = 10 * text[i] + text[i + 1]
<1> DEFINE u == SubSeq(text, i, i + 1)
<1>1. Len(u) = 2 /\ DOMAIN u = 1 .. 2 /\ u[1] = text[i] /\ u[2] = text[i + 1]
  <2>1. /\ u = [k \in 1 .. 2 |-> text[i + k - 1]]
    <3>1. (i + 1) - i + 1 = 2
      OBVIOUS
    <3> QED BY <3>1
  <2> QED BY <2>1
<1>2. AllDigits(u)
  <2> HIDE DEF u
  <2> QED BY <1>1 DEF AllDigits
<1> QED BY <1>2 DEF AiAt

\* A value that stands at i is cut out as it is.
LEMMA ValueIsCut ==
  ASSUME NEW text \in Seq(Nat), NEW v \in Seq(Nat), NEW i \in Nat \ {0}, NEW l \in Nat, Len(v) = l,
         i + l <= Len(text) + 1, Fills(text, i, v)
  PROVE  SubSeq(text, i, i + l - 1) = v
<1>1. SubSeq(text, i, i + l - 1) = [k \in 1 .. l |-> text[i + k - 1]]
  <2>1. (i + l - 1) - i + 1 = l
    OBVIOUS
  <2> QED BY <2>1
<1>2. \A k \in 1 .. l : text[i + k - 1] = v[k]
  <2>1. \A k \in 1 .. l : i + k - 1 = i - 1 + k
    OBVIOUS
  <2> QED BY <2>1 DEF Fills
<1>3. v = [k \in 1 .. l |-> v[k]]
  OBVIOUS
<1> QED BY <1>1, <1>2, <1>3

\* The first separator from i on ends a field of variable length.
LEMMA EndIsFound ==
  ASSUME NEW text \in Seq(Nat), NEW i \in Nat \ {0}, NEW e \in Nat, i <= e,
         \A j \in i .. e - 1 : text[j] # GS,
         e = Len(text) + 1 \/ (e <= Len(text) /\ text[e] = GS)
  PROVE  EndOfField(text, i) = e
<1> DEFINE ends == {j \in i .. Len(text) : text[j] = GS}
<1>1. CASE e = Len(text) + 1
  <2>1. ends = {}
    BY <1>1
  <2> QED BY <1>1, <2>1 DEF EndOfField
<1>2. CASE e <= Len(text) /\ text[e] = GS
  <2>1. e \in ends
    BY <1>2
  <2>2. \A j \in ends : e <= j
    OBVIOUS
  <2>3. EndOfField(text, i) = CHOOSE j \in ends : \A k \in ends : j <= k
    BY <2>1 DEF EndOfField
  <2>4. \A j \in ends : (\A k \in ends : j <= k) => j = e
    BY <2>1, <2>2
  <2> HIDE DEF ends
  <2>5. (CHOOSE j \in ends : \A k \in ends : j <= k) = e
    BY <2>1, <2>2, <2>4
  <2> QED BY <2>3, <2>5
<1> QED BY <1>1, <1>2

\* Digits are digits.
LEMMA DigitsOnly ==
  ASSUME NEW v \in Seq(0 .. 9)
  PROVE  v \in Seq(Nat) /\ AllDigits(v)
<1>1. \A k \in DOMAIN v : v[k] \in 0 .. 9
  BY ElementOfSeq
<1> QED BY <1>1 DEF AllDigits

\* No identifier announces fields of both kinds.
LEMMA KindsDiffer == \A a \in DOMAIN VariableMax : a \notin DOMAIN FixedLength
BY DEF VariableMax, FixedLength

\* Digits that stand at j are a field of their number.
LEMMA DigitsAreRead ==
  ASSUME NEW text \in Seq(Nat), NEW j \in Nat \ {0}, NEW v \in Seq(0 .. 9),
         NEW l \in Nat \ {0}, Len(v) = l, j + l <= Len(text) + 1, Fills(text, j, v)
  PROVE  FixedField(text, j, l) = v /\ v # null
<1>1. v \in Seq(Nat) /\ AllDigits(v)
  BY DigitsOnly, Zenon
<1>2. v # null
  <2>1. Len(null) = 0 /\ l # 0
    BY DEF null
  <2> QED BY <2>1, Zenon
<1>3. SubSeq(text, j, j + l - 1) = v
  BY <1>1, ValueIsCut
<1>4. j + l - 1 <= Len(text)
  <2>1. Len(text) \in Nat
    OBVIOUS
  <2> QED BY <2>1
<1> QED BY <1>1, <1>2, <1>3, <1>4, Zenon DEF FixedField

\* Characters that stand at j up to a separator, or the end, are a field if
\* they are not too many.
LEMMA CharactersAreRead ==
  ASSUME NEW text \in Seq(Nat), NEW j \in Nat \ {0}, NEW v \in Seq(Nat \ {GS}),
         NEW l \in Nat, Len(v) = l, NEW m \in Nat, l <= m, NEW end \in Nat, end = j + l,
         end = Len(text) + 1 \/ (end <= Len(text) /\ text[end] = GS), Fills(text, j, v)
  PROVE  EndOfField(text, j) = end /\ VariableField(text, j, m) = v
<1>1. v \in Seq(Nat) /\ \A k \in 1 .. l : v[k] # GS
  <2>1. \A k \in 1 .. l : v[k] \in Nat \ {GS}
    BY ElementOfSeq
  <2> QED BY <2>1
<1>2. j + l <= Len(text) + 1
  <2>1. PICK L \in Nat : L = Len(text)
    OBVIOUS
  <2> QED BY <2>1
<1>3. SubSeq(text, j, j + l - 1) = v
  BY <1>1, <1>2, ValueIsCut
<1>4. EndOfField(text, j) = end
  <2>1. \A n \in j .. end - 1 : text[n] # GS
    <3> SUFFICES ASSUME NEW n \in j .. end - 1 PROVE text[n] # GS
      OBVIOUS
    <3>1. n - j + 1 \in 1 .. l /\ j - 1 + (n - j + 1) = n
      OBVIOUS
    <3>2. text[j - 1 + (n - j + 1)] = v[n - j + 1]
      BY <3>1, Zenon DEF Fills
    <3> QED BY <1>1, <3>1, <3>2, Zenon
  <2> QED BY <2>1, EndIsFound
<1>5. Smaller(end - 1, j + m - 1) = j + l - 1
  <2>1. end - 1 = j + l - 1 /\ (j + l - 1 < j + m - 1 \/ j + m - 1 = j + l - 1)
    OBVIOUS
  <2> QED BY <2>1, Zenon DEF Smaller
<1> QED BY <1>3, <1>4, <1>5, Zenon DEF VariableField

\* A separator behind a field is passed over.
LEMMA BehindIsRead ==
  ASSUME NEW text \in Seq(Nat), NEW f, IsReading(f, text), NEW end \in Nat, text[end] = GS, end <= Len(text)
  PROVE  f[end] = f[end + 1]
<1>1. ~(end > Len(text))
  <2>1. Len(text) \in Nat
    OBVIOUS
  <2> QED BY <2>1
<1>2. FieldsFrom(f, text, end) = f[end + 1]
  BY <1>1, Zenon DEF FieldsFrom
<1> QED BY <1>2, Zenon DEF IsReading

\* A field is read where it stands, and then what is behind it.
LEMMA FieldIsRead ==
  ASSUME NEW text \in Seq(Nat), NEW f, IsReading(f, text), NEW e \in GoodField,
         NEW i \in Nat \ {0}, NEW next \in Nat, next <= Len(text) + 1, StandsAt(text, e, i),
         \/ next = EndAt(e, i) /\ (e.ai \in DOMAIN VariableMax => next = Len(text) + 1)
         \/ next = EndAt(e, i) + 1 /\ text[EndAt(e, i)] = GS
  PROVE  i < next /\ f[i] = FieldBefore(e.ai, e.value, f[next])
<1>1. PICK v \in Seq(Nat), a \in Nat : v = e.value /\ a = e.ai
  BY DEF GoodField
<1>2. PICK l \in Nat, j \in Nat \ {0}, end \in Nat, L \in Nat :
        l = Len(v) /\ j = i + 2 /\ end = j + l /\ end = i + 2 + l /\ L = Len(text)
  <2>1. PICK l \in Nat, L \in Nat : l = Len(v) /\ L = Len(text)
    OBVIOUS
  <2>2. i + 2 \in Nat \ {0} /\ i + 2 + l \in Nat
    OBVIOUS
  <2> QED BY <2>1, <2>2, Zenon
<1>3. EndAt(e, i) = end
  BY <1>1, <1>2, Zenon DEF EndAt
<1>4. /\ text[i] \in 0 .. 9 /\ text[i + 1] \in 0 .. 9 /\ a = 10 * text[i] + text[i + 1]
      /\ Fills(text, j, v)
  BY <1>1, <1>2, Zenon DEF StandsAt
<1>5. next = end \/ (next = end + 1 /\ text[end] = GS)
  BY <1>3, Zenon
<1>6. next <= L + 1
  BY <1>2, Zenon
<1>7. end <= L + 1 /\ i < L /\ i < next /\ ~(i > L)
  BY <1>2, <1>5, <1>6
<1>8. AiAt(text, i) = a
  <2>1. i < Len(text)
    BY <1>2, <1>7, Zenon
  <2> QED BY <1>4, <2>1, IdentifierIsRead
<1>9. text[i] # GS /\ ~(i > Len(text))
  <2>1. 10 \notin 0 .. 9
    OBVIOUS
  <2> QED BY <1>2, <1>4, <1>7, <2>1, Zenon DEF GS
<1>10. f[end] = f[next]
  <2>1. CASE next = end
    BY <2>1, Zenon
  <2>2. CASE next = end + 1 /\ text[end] = GS
    <3>1. end <= L
      BY <1>6, <2>2
    <3>2. end <= Len(text)
      BY <1>2, <3>1, Zenon
    <3>3. f[end] = f[end + 1]
      BY <2>2, <3>2, BehindIsRead
    <3> QED BY <2>2, <3>3, Zenon
  <2> QED BY <1>5, <2>1, <2>2, Zenon
<1>11. FieldsFrom(f, text, i) = FieldBefore(a, v, f[end])
  <2>1. \/ a \in DOMAIN FixedLength /\ v \in Seq(0 .. 9) /\ Len(v) = FixedLength[a]
        \/ a \in DOMAIN VariableMax /\ v \in Seq(Nat \ {GS}) /\ Len(v) \in 1 .. VariableMax[a]
    BY <1>1, Zenon DEF GoodField
  <2>2. CASE a \in DOMAIN FixedLength /\ v \in Seq(0 .. 9) /\ Len(v) = FixedLength[a]
    <3>1. FixedLength[a] \in Nat \ {0}
      BY <2>2 DEF FixedLength
    <3>2. j + l <= Len(text) + 1
      BY <1>2, <1>7, Zenon
    <3>3. l \in Nat \ {0} /\ l = FixedLength[a]
      BY <1>2, <2>2, <3>1, Zenon
    <3>4. FixedField(text, j, l) = v /\ v # null
      BY <1>2, <1>4, <2>2, <3>2, <3>3, DigitsAreRead
    <3> QED BY <1>2, <1>8, <1>9, <2>2, <3>3, <3>4, Zenon DEF FieldsFrom
  <2>3. CASE a \in DOMAIN VariableMax /\ v \in Seq(Nat \ {GS}) /\ Len(v) \in 1 .. VariableMax[a]
    <3>1. PICK m \in Nat : m = VariableMax[a] /\ l <= m
      <4>1. VariableMax[a] \in Nat
        BY <2>3 DEF VariableMax
      <4>2. PICK m \in Nat : m = VariableMax[a]
        BY <4>1, Zenon
      <4>3. l \in 1 .. m
        BY <1>2, <2>3, <4>2, Zenon
      <4> QED BY <4>2, <4>3
    <3>2. end = Len(text) + 1 \/ (end <= Len(text) /\ text[end] = GS)
      <4>1. CASE next = end + 1 /\ text[end] = GS
        <5>1. end <= L
          BY <1>6, <4>1
        <5> QED BY <1>2, <4>1, <5>1, Zenon
      <4>2. CASE next = end /\ (e.ai \in DOMAIN VariableMax => next = Len(text) + 1)
        BY <1>1, <2>3, <4>2, Zenon
      <4> QED BY <1>3, <4>1, <4>2, Zenon
    <3>3. EndOfField(text, j) = end /\ VariableField(text, j, m) = v
      <4>1. l <= m /\ Len(v) = l /\ end = j + l /\ Fills(text, j, v) /\ v \in Seq(Nat \ {GS})
        BY <1>2, <1>4, <2>3, <3>1, Zenon
      <4> QED BY <3>2, <4>1, CharactersAreRead
    <3>4. a \notin DOMAIN FixedLength
      BY <2>3, KindsDiffer, Zenon
    <3> QED BY <1>2, <1>8, <1>9, <2>3, <3>1, <3>3, <3>4, Zenon DEF FieldsFrom
  <2> QED BY <2>1, <2>2, <2>3, Zenon
<1>12. f[i] = FieldsFrom(f, text, i)
  <2>1. i \in Nat
    OBVIOUS
  <2> QED BY <2>1, Zenon DEF IsReading
<1> QED BY <1>1, <1>7, <1>10, <1>11, <1>12, Zenon

\* What is written stands under its identifier.
LEMMA WrittenAt ==
  ASSUME NEW label \in Seq(GoodField), AllDifferent(label), NEW n \in Nat \ {0}
  PROVE  /\ DOMAIN Written(label, n) = {label[k].ai : k \in n .. Len(label)}
         /\ \A k \in n .. Len(label) : Written(label, n)[label[k].ai] = label[k].value
<1>1. DOMAIN Written(label, n) = {label[k].ai : k \in n .. Len(label)}
  BY DEF Written
<1>2. ASSUME NEW k \in n .. Len(label) PROVE Written(label, n)[label[k].ai] = label[k].value
  <2> DEFINE c == CHOOSE j \in n .. Len(label) : label[j].ai = label[k].ai
  <2>1. Written(label, n)[label[k].ai] = label[c].value
    BY Zenon DEF Written
  <2>2. c \in n .. Len(label) /\ label[c].ai = label[k].ai
    BY Zenon
  <2> HIDE DEF c
  <2>3. c \in 1 .. Len(label) /\ k \in 1 .. Len(label)
    BY <2>2
  <2>4. c = k
    BY <2>2, <2>3, Zenon DEF AllDifferent
  <2> QED BY <2>1, <2>4, Zenon
<1> QED BY <1>1, <1>2, Zenon

\* A field comes before the ones behind it.
LEMMA WrittenGrows ==
  ASSUME NEW label \in Seq(GoodField), AllDifferent(label), NEW n \in 1 .. Len(label)
  PROVE  Written(label, n) = FieldBefore(label[n].ai, label[n].value, Written(label, n + 1))
<1> DEFINE x == label[n].ai
           v == label[n].value
           rest == Written(label, n + 1)
           all == Written(label, n)
           g == [a \in DOMAIN rest \cup {x} |-> IF a \in DOMAIN rest THEN rest[a] ELSE v]
<1>1. n \in Nat \ {0} /\ n + 1 \in Nat \ {0} /\ n \in n .. Len(label)
  OBVIOUS
<1>2. \A k \in n .. Len(label) : k \in 1 .. Len(label) /\ label[k] \in GoodField /\ label[k].ai \in Nat
  <2>1. \A k \in n .. Len(label) : k \in 1 .. Len(label)
    OBVIOUS
  <2>2. \A k \in 1 .. Len(label) : label[k] \in GoodField
    BY ElementOfSeq
  <2>3. \A e \in GoodField : e.ai \in Nat
    BY DEF GoodField
  <2> QED BY <2>1, <2>2, <2>3, Zenon
<1>3. n .. Len(label) = {n} \cup (n + 1 .. Len(label)) /\ n \notin n + 1 .. Len(label)
  OBVIOUS
<1>4. /\ DOMAIN all = {label[k].ai : k \in n .. Len(label)}
      /\ \A k \in n .. Len(label) : all[label[k].ai] = label[k].value
  BY <1>1, WrittenAt
<1>5. /\ DOMAIN rest = {label[k].ai : k \in n + 1 .. Len(label)}
      /\ \A k \in n + 1 .. Len(label) : rest[label[k].ai] = label[k].value
  BY <1>1, WrittenAt
<1>6. all = [a \in DOMAIN all |-> all[a]]
  BY DEF Written
<1> HIDE DEF rest, all
<1>7. rest # Invalid
  <2>1. -1 \in DOMAIN Invalid /\ -1 \notin Nat
    BY DEF Invalid
  <2>2. \A a \in DOMAIN rest : a \in Nat
    BY <1>2, <1>3, <1>5
  <2> QED BY <2>1, <2>2, Zenon
<1>8. DOMAIN all = DOMAIN rest \cup {x}
  BY <1>3, <1>4, <1>5
<1>9. x \notin DOMAIN rest
  <2> SUFFICES ASSUME NEW k \in n + 1 .. Len(label), label[k].ai = x PROVE FALSE
    BY <1>5
  <2>1. k \in 1 .. Len(label)
    BY <1>2, <1>3
  <2>2. k = n
    BY <2>1, Zenon DEF AllDifferent
  <2> QED BY <1>3, <2>2
<1>10. ASSUME NEW a \in DOMAIN all PROVE all[a] = IF a \in DOMAIN rest THEN rest[a] ELSE v
  <2>1. PICK k \in n .. Len(label) : a = label[k].ai
    BY <1>4, Zenon
  <2>2. CASE k = n
    BY <1>4, <1>9, <2>1, <2>2, Zenon
  <2>3. CASE k \in n + 1 .. Len(label)
    <3>1. a \in DOMAIN rest
      BY <1>5, <2>1, <2>3, Zenon
    <3>2. all[a] = label[k].value /\ rest[a] = label[k].value
      BY <1>4, <1>5, <2>1, <2>3, Zenon
    <3> QED BY <3>1, <3>2, Zenon
  <2> QED BY <1>3, <2>2, <2>3
<1>11. all = g
  <2>1. [a \in DOMAIN all |-> all[a]] = g
    BY <1>8, <1>10
  <2> QED BY <1>6, <2>1, Zenon
<1> QED BY <1>7, <1>11, Zenon DEF FieldBefore, rest, all

\* What is read from the place of a field on is what is written from it on.
LEMMA LabelIsRead ==
  ASSUME NEW text \in Seq(Nat), NEW label \in Seq(GoodField), AllDifferent(label),
         NEW at, Encodes(text, label, at), NEW f, IsReading(f, text)
  PROVE  f[1] = Written(label, 1)
<1> DEFINE ReadFrom(n) == at[n] \in Nat /\ at[n] <= Len(text) + 1 /\ f[at[n]] = Written(label, n)
<1>1. PICK N \in Nat, L \in Nat : N = Len(label) /\ L = Len(text)
  <2>1. Len(label) \in Nat /\ Len(text) \in Nat
    OBVIOUS
  <2> QED BY <2>1, Zenon
<1>2. /\ at[1] = 1 /\ at[N + 1] = L + 1
      /\ \A n \in 1 .. N :
           /\ at[n] \in Nat \ {0} /\ StandsAt(text, label[n], at[n])
           /\ \/ /\ at[n + 1] = EndAt(label[n], at[n])
                 /\ label[n].ai \in DOMAIN VariableMax => n = N
              \/ /\ at[n + 1] = EndAt(label[n], at[n]) + 1
                 /\ text[EndAt(label[n], at[n])] = GS
  BY <1>1, Zenon DEF Encodes
<1>3. ReadFrom(N + 1)
  <2>1. L + 1 \in Nat /\ L + 1 <= L + 1 /\ L + 1 > L
    OBVIOUS
  <2>2. f[L + 1] = FieldsFrom(f, text, L + 1)
    BY <2>1, Zenon DEF IsReading
  <2>3. FieldsFrom(f, text, L + 1) = NoFields
    BY <1>1, <2>1, Zenon DEF FieldsFrom
  <2>4. Written(label, N + 1) = NoFields
    <3>1. N + 1 .. Len(label) = {}
      BY <1>1
    <3>2. {label[k].ai : k \in N + 1 .. Len(label)} = {}
      BY <3>1
    <3> QED BY <3>2 DEF Written, NoFields
  <2> QED BY <1>1, <1>2, <2>1, <2>2, <2>3, <2>4, Zenon
<1>4. ASSUME NEW n \in 1 .. N, ReadFrom(n + 1) PROVE ReadFrom(n)
  <2>1. label[n] \in GoodField
    <3>1. n \in 1 .. Len(label)
      BY <1>1, Zenon
    <3> QED BY <3>1, ElementOfSeq
  <2>2. PICK i \in Nat \ {0}, next \in Nat, e \in GoodField : i = at[n] /\ next = at[n + 1] /\ e = label[n]
    BY <1>2, <1>4, <2>1, Zenon
  <2>3. next <= Len(text) + 1 /\ StandsAt(text, e, i)
    BY <1>2, <1>4, <2>2, Zenon
  <2>4. \/ next = EndAt(e, i) /\ (e.ai \in DOMAIN VariableMax => next = Len(text) + 1)
        \/ next = EndAt(e, i) + 1 /\ text[EndAt(e, i)] = GS
    <3>1. n = N => next = Len(text) + 1
      BY <1>1, <1>2, <2>2, Zenon
    <3> QED BY <1>2, <2>2, <3>1, Zenon
  <2>5. i < next /\ f[i] = FieldBefore(e.ai, e.value, f[next])
    BY <2>3, <2>4, FieldIsRead
  <2>6. f[i] = Written(label, n)
    <3>1. n \in 1 .. Len(label)
      BY <1>1, Zenon
    <3>2. Written(label, n) = FieldBefore(label[n].ai, label[n].value, Written(label, n + 1))
      BY <3>1, WrittenGrows
    <3> QED BY <1>4, <2>2, <2>5, <3>2, Zenon
  <2>7. i <= L + 1
    <3>1. next <= L + 1
      BY <1>1, <2>3, Zenon
    <3>2. i < next
      BY <2>5, Zenon
    <3> QED BY <3>1, <3>2
  <2>8. i \in Nat /\ i <= Len(text) + 1
    BY <1>1, <2>7, Zenon
  <2> QED BY <2>2, <2>6, <2>8, Zenon
<1> DEFINE Good == {m \in Nat : m <= N => ReadFrom(N + 1 - m)}
<1> HIDE DEF ReadFrom
<1>5. 0 \in Good
  <2>1. N + 1 - 0 = N + 1
    OBVIOUS
  <2> QED BY <1>3, <2>1
<1>6. ASSUME NEW m \in Nat, m \in Good PROVE m + 1 \in Good
  <2> SUFFICES ASSUME m + 1 <= N PROVE ReadFrom(N + 1 - (m + 1))
    OBVIOUS
  <2>1. ReadFrom(N + 1 - m)
    BY <1>6
  <2>2. PICK n \in 1 .. N : n = N + 1 - (m + 1) /\ n + 1 = N + 1 - m
    <3>1. N - m \in 1 .. N /\ N - m = N + 1 - (m + 1) /\ (N - m) + 1 = N + 1 - m
      OBVIOUS
    <3> QED BY <3>1
  <2> QED BY <1>4, <2>1, <2>2, Zenon
<1>7. N \in Good
  <2>1. Nat \subseteq Good
    <3> HIDE DEF Good
    <3> QED BY <1>5, <1>6, NumbersInduction
  <2> HIDE DEF Good
  <2> QED BY <2>1
<1>8. ReadFrom(1)
  <2>1. N <= N /\ N + 1 - N = 1
    OBVIOUS
  <2> QED BY <1>7, <2>1, Zenon
<1> QED BY <1>2, <1>8, Zenon DEF ReadFrom

\* A text that is not padded is its own normal form.
LEMMA NormalText ==
  ASSUME NEW text \in Seq(Nat), ~(AllDigits(text) /\ Len(text) \in {12, 13})
  PROVE  normalizeBarcode(text) = text
<1>1. CASE AllDigits(text) /\ Len(text) \in 12 .. 14
  <2>1. Len(text) = 14
    BY <1>1
  <2>2. 14 - 14 = 0
    OBVIOUS
  <2>3. padded(text) = Zeros(0) \o text
    BY <2>1, <2>2, Zenon DEF padded
  <2>4. Zeros(0) \o text = text
    BY DEF Zeros
  <2> QED BY <1>1, <2>3, <2>4, Zenon DEF normalizeBarcode
<1>2. CASE ~(AllDigits(text) /\ Len(text) \in 12 .. 14)
  BY <1>2, Zenon DEF normalizeBarcode
<1> QED BY <1>1, <1>2

\* A GS1 label is read back as it was written, whatever its fields and their
\* order, if no identifier is given twice and the text is recognised: it is
\* announced, or has a separator, or begins with a GTIN.  Twelve or thirteen
\* digits are not: they are padded like a code before they are read (parseGs1,
\* normalizeBarcode, lib/barcode.ts).
THEOREM LabelIsReadBack ==
  ASSUME NEW label \in Seq(GoodField), label # <<>>, AllDifferent(label),
         NEW text \in Seq(Nat), NEW at, Encodes(text, label, at),
         ~(AllDigits(text) /\ Len(text) \in {12, 13}),
         NEW declared \in BOOLEAN, declared \/ Contains(text, GS) \/ looksGs1(text)
  PROVE  parseGs1(text, declared) = toGs1Data(Written(label, 1))
<1>1. normalizeBarcode(text) = text
  BY NormalText
<1>2. PICK f : (\A i \in Nat : f[i] = FieldsFrom(f, text, i)) /\ Fields(text) = f[1]
  <2>1. Len(text) \in Nat
    OBVIOUS
  <2> QED BY <2>1, FieldsComputed, Zenon
<1>3. Fields(text) = Written(label, 1)
  <2>1. IsReading(f, text)
    BY <1>2, Zenon DEF IsReading
  <2>2. f[1] = Written(label, 1)
    BY <2>1, LabelIsRead
  <2> QED BY <1>2, <2>2, Zenon
<1>4. Written(label, 1) \notin {Invalid, NoFields}
  <2>1. 1 \in 1 .. Len(label) /\ label[1].ai \in Nat
    <3>1. 1 \in 1 .. Len(label) /\ label[1] \in GoodField
      OBVIOUS
    <3> QED BY <3>1 DEF GoodField
  <2>2. label[1].ai \in DOMAIN Written(label, 1)
    BY <2>1, Zenon DEF Written
  <2>3. DOMAIN NoFields = {} /\ \A a \in DOMAIN Invalid : a \notin Nat
    BY DEF NoFields, Invalid
  <2> QED BY <2>1, <2>2, <2>3, Zenon
<1> QED BY <1>1, <1>3, <1>4, Zenon DEF parseGs1

-----------------------------------------------------------------------------
(* The scanner *)

\* The run in progress is the last keys, typed one after the other.
RunTyped ==
  /\ chars \in Seq(1 .. MaxKeys) /\ Len(chars) <= typed
  /\ \A i \in 1 .. Len(chars) : chars[i] = typed - Len(chars) + i

\* The first n keys are in the field, in a scan or lost, each in one place.
Placed(shown, scanned, lost, n) ==
  /\ shown \cup scanned \cup lost = 1 .. n
  /\ shown \cap scanned = {}
  /\ lost \cap (shown \cup scanned) = {}

\* What was typed before the run is in its place.
BeforeRun(shown) == Placed(Keys(shown), Scanned, lapsed, typed - Len(chars))

\* The field shows what it did before the run and the keys that leaked into it.
RunLeaks ==
  pending =>
    /\ snapshot \in Seq(1 .. MaxKeys)
    /\ Keys(field) = Keys(snapshot) \cup (Keys(chars) \ eaten)
    /\ BeforeRun(snapshot)

\* A run of slow keys takes too long to be a scan.
SlowRunsLong ==
  /\ span \in Nat /\ maxGap \in Nat
  /\ pending /\ ~quick => span >= (maxAvgInterKeyMs + 1) * (Len(chars) - 1)

KeysInv ==
  /\ RunTyped /\ field \in Seq(1 .. MaxKeys) /\ scans \in Seq(Seq(1 .. MaxKeys))
  /\ typed \in 0 .. MaxKeys /\ eaten \subseteq 1 .. typed /\ quick \in BOOLEAN
  /\ RunLeaks /\ SlowRunsLong
  /\ ~pending => BeforeRun(field)

\* The keys of a run, of no run and of a run with one more.
LEMMA RunKeys ==
  ASSUME NEW n \in Nat, NEW s \in Seq(1 .. MaxKeys), Len(s) <= n,
         \A i \in 1 .. Len(s) : s[i] = n - Len(s) + i
  PROVE  Keys(s) = n - Len(s) + 1 .. n
<1>1. Len(s) \in Nat /\ DOMAIN s = 1 .. Len(s)
  OBVIOUS
<1>2. ASSUME NEW i \in 1 .. Len(s) PROVE s[i] \in n - Len(s) + 1 .. n
  BY <1>1
<1>3. ASSUME NEW k \in n - Len(s) + 1 .. n PROVE k \in Keys(s)
  <2>1. k - (n - Len(s)) \in 1 .. Len(s)
    BY <1>1
  <2>2. s[k - (n - Len(s))] = k
    BY <1>1, <2>1
  <2> QED BY <1>1, <2>1, <2>2 DEF Keys
<1> QED BY <1>1, <1>2, <1>3 DEF Keys

\* One more key, one more scan.
LEMMA OneKeyMore ==
  ASSUME NEW s \in Seq(1 .. MaxKeys), NEW k \in 1 .. MaxKeys
  PROVE  Append(s, k) \in Seq(1 .. MaxKeys) /\ Keys(Append(s, k)) = Keys(s) \cup {k}
<1> DEFINE A == 1 .. MaxKeys
<1>1. s \in Seq(A) /\ k \in A
  OBVIOUS
<1> HIDE DEF A
<1>2. Append(s, k) \in Seq(A) /\ Listed(Append(s, k)) = Listed(s) \cup {k}
  BY <1>1, AppendedOne
<1>3. \A z : Keys(z) = Listed(z)
  BY DEF Keys, Listed
<1>4. Keys(Append(s, k)) = Keys(s) \cup {k}
  BY <1>2, <1>3, Zenon
<1> QED BY <1>2, <1>4 DEF A

\* The keys of scans.
KeysOf(q) == UNION {Keys(q[i]) : i \in DOMAIN q}

\* The keys of scans, with one more scan.
LEMMA OneScanMore ==
  ASSUME NEW q \in Seq(Seq(1 .. MaxKeys)), NEW s \in Seq(1 .. MaxKeys)
  PROVE  KeysOf(Append(q, s)) = KeysOf(q) \cup Keys(s)
<1> DEFINE r == Append(q, s)
           Q == KeysOf(q)
           R == KeysOf(r)
<1>1. /\ DOMAIN r = 1 .. Len(q) + 1 /\ DOMAIN q = 1 .. Len(q) /\ Len(q) \in Nat
      /\ r[Len(q) + 1] = s /\ \A i \in 1 .. Len(q) : r[i] = q[i]
  OBVIOUS
<1> HIDE DEF r
<1>2. ASSUME NEW i \in DOMAIN r PROVE (i \in DOMAIN q /\ r[i] = q[i]) \/ r[i] = s
  BY <1>1
<1>3. ASSUME NEW i \in DOMAIN q PROVE i \in DOMAIN r /\ r[i] = q[i]
  BY <1>1
<1>4. Len(q) + 1 \in DOMAIN r /\ r[Len(q) + 1] = s
  BY <1>1
<1>5. R \subseteq Q \cup Keys(s)
  <2>1. ASSUME NEW x \in R PROVE x \in Q \cup Keys(s)
    <3>1. PICK i \in DOMAIN r : x \in Keys(r[i])
      BY DEF KeysOf
    <3>2. CASE r[i] = s
      <4>1. x \in Keys(s)
        BY <3>1, <3>2
      <4> QED BY <4>1
    <3>3. CASE i \in DOMAIN q /\ r[i] = q[i]
      <4>1. i \in DOMAIN q /\ x \in Keys(q[i])
        BY <3>1, <3>3
      <4>2. x \in Q
        BY <4>1, Zenon DEF KeysOf
      <4> QED BY <4>2
    <3> QED BY <1>2, <3>2, <3>3
  <2> QED BY <2>1
<1>6. Q \subseteq R
  <2>1. ASSUME NEW x \in Q PROVE x \in R
    <3>1. PICK i \in DOMAIN q : x \in Keys(q[i])
      BY DEF KeysOf
    <3>2. i \in DOMAIN r /\ x \in Keys(r[i])
      BY <1>3, <3>1
    <3> QED BY <3>2, Zenon DEF KeysOf
  <2> QED BY <2>1
<1>7. Keys(s) \subseteq R
  <2>1. ASSUME NEW x \in Keys(s) PROVE x \in R
    <3>1. Len(q) + 1 \in DOMAIN r /\ x \in Keys(r[Len(q) + 1])
      BY <1>4
    <3> QED BY <3>1, Zenon DEF KeysOf
  <2> QED BY <2>1
<1>8. R = Q \cup Keys(s)
  BY <1>5, <1>6, <1>7
<1> QED BY <1>8 DEF r

\* A run is placed as a whole in a scan, or as far as it leaked in the field.
LEMMA RunPlaced ==
  ASSUME NEW n \in Nat, NEW k \in 0 .. n, NEW F, NEW S, NEW L, NEW E, Placed(F, S, L, n - k)
  PROVE  /\ Placed(F, S \cup (n - k + 1 .. n), L, n)
         /\ Placed(F \cup ((n - k + 1 .. n) \ E), S, L \cup ((n - k + 1 .. n) \cap E), n)
<1> DEFINE C == n - k + 1 .. n
           B == 1 .. n - k
<1>1. B \cup C = 1 .. n /\ B \cap C = {}
  OBVIOUS
<1>2. F \cup S \cup L = B /\ F \cap S = {} /\ L \cap (F \cup S) = {}
  BY DEF Placed
<1> HIDE DEF B, C
<1>3. /\ F \cup (S \cup C) \cup L = B \cup C /\ F \cap (S \cup C) = {} /\ L \cap (F \cup (S \cup C)) = {}
  BY <1>1, <1>2
<1>4. /\ (F \cup (C \ E)) \cup S \cup (L \cup (C \cap E)) = B \cup C
      /\ (F \cup (C \ E)) \cap S = {} /\ (L \cup (C \cap E)) \cap ((F \cup (C \ E)) \cup S) = {}
  <2>1. (F \cup (C \ E)) \cup S \cup (L \cup (C \cap E)) = (F \cup S \cup L) \cup C
    OBVIOUS
  <2> QED BY <1>1, <1>2, <2>1
<1> QED BY <1>1, <1>3, <1>4 DEF Placed, C

\* What the steps may use.
LEMMA RunFacts ==
  ASSUME KeysInv
  PROVE  /\ chars \in Seq(1 .. MaxKeys) /\ Len(chars) \in 0 .. typed /\ typed \in Nat
         /\ Keys(chars) = typed - Len(chars) + 1 .. typed
         /\ scans \in Seq(Seq(1 .. MaxKeys)) /\ Scanned = KeysOf(scans)
         /\ field \in Seq(1 .. MaxKeys) /\ Keys(<<>>) = {}
<1>1. chars \in Seq(1 .. MaxKeys) /\ Len(chars) \in 0 .. typed /\ typed \in Nat
  BY ScannerAssumption DEF KeysInv, RunTyped
<1>2. Keys(chars) = typed - Len(chars) + 1 .. typed
  BY <1>1, RunKeys DEF KeysInv, RunTyped
<1>3. Scanned = KeysOf(scans)
  BY DEF Scanned, KeysOf
<1>4. Keys(<<>>) = {}
  BY DEF Keys
<1> QED BY <1>1, <1>2, <1>3, <1>4 DEF KeysInv

\* Where the keys are when a run is over: delivered, or not.
LEMMA RunOver ==
  ASSUME KeysInv, pending
  PROVE  /\ snapshot \in Seq(1 .. MaxKeys) /\ snapshot # NoSnapshot
         /\ Append(scans, chars) \in Seq(Seq(1 .. MaxKeys))
         /\ Placed(Keys(snapshot), KeysOf(Append(scans, chars)), lapsed, typed)
         /\ Placed(Keys(field), KeysOf(scans), Lost, typed)
<1>1. /\ snapshot \in Seq(1 .. MaxKeys) /\ BeforeRun(snapshot)
      /\ Keys(field) = Keys(snapshot) \cup (Keys(chars) \ eaten)
  BY DEF KeysInv, RunLeaks
<1>2. snapshot # NoSnapshot
  <2>1. NoSnapshot[1] = 0 /\ Len(NoSnapshot) = 1
    BY DEF NoSnapshot
  <2> DEFINE A == 1 .. MaxKeys
  <2>2. \A i \in 1 .. Len(snapshot) : snapshot[i] \in A
    <3>1. snapshot \in Seq(A)
      BY <1>1
    <3> HIDE DEF A
    <3> QED BY <3>1
  <2>3. \A i \in 1 .. Len(snapshot) : snapshot[i] # 0
    BY <2>2, ScannerAssumption
  <2> QED BY <2>1, <2>3
<1> DEFINE C == typed - Len(chars) + 1 .. typed
<1>3. /\ Placed(Keys(snapshot), Scanned \cup C, lapsed, typed)
      /\ Placed(Keys(snapshot) \cup (C \ eaten), Scanned, lapsed \cup (C \cap eaten), typed)
  <2>1. typed \in Nat /\ Len(chars) \in 0 .. typed
    BY RunFacts
  <2>2. Placed(Keys(snapshot), Scanned, lapsed, typed - Len(chars))
    BY <1>1 DEF BeforeRun
  <2> QED BY <2>1, <2>2, RunPlaced
<1>4. Keys(chars) = C
  BY RunFacts
<1>5. KeysOf(Append(scans, chars)) = Scanned \cup C
  BY <1>4, RunFacts, OneScanMore
<1>6. Append(scans, chars) \in Seq(Seq(1 .. MaxKeys))
  <2> DEFINE A == Seq(1 .. MaxKeys)
  <2>1. scans \in Seq(A) /\ chars \in A
    BY RunFacts
  <2> HIDE DEF A
  <2>2. Append(scans, chars) \in Seq(A)
    BY <2>1
  <2> QED BY <2>2 DEF A
<1>7. Keys(field) = Keys(snapshot) \cup (C \ eaten) /\ Lost = lapsed \cup (C \cap eaten)
  BY <1>1, <1>4 DEF Lost
<1> HIDE DEF C
<1> QED BY <1>1, <1>2, <1>3, <1>5, <1>6, <1>7, RunFacts

\* A step after which no run is in progress.
LEMMA RunEndsKeep ==
  ASSUME KeysInv, reset, UNCHANGED <<typed, eaten>>,
         field' \in Seq(1 .. MaxKeys), scans' \in Seq(Seq(1 .. MaxKeys)),
         Placed(Keys(field'), KeysOf(scans'), lapsed', typed)
  PROVE  KeysInv'
<1>1. chars' = <<>> /\ span' = 0 /\ maxGap' = 0 /\ quick' = FALSE /\ typed' = typed /\ eaten' = eaten
  BY DEF reset
<1>2. ~pending' /\ Len(chars') = 0 /\ chars' \in Seq(1 .. MaxKeys)
  BY <1>1 DEF pending
<1>3. typed \in Nat /\ typed \in 0 .. MaxKeys /\ eaten \subseteq 1 .. typed
  BY RunFacts DEF KeysInv
<1>4. RunTyped'
  BY <1>1, <1>2, <1>3 DEF RunTyped
<1>5. RunLeaks' /\ SlowRunsLong'
  BY <1>1, <1>2 DEF RunLeaks, SlowRunsLong
<1>6. BeforeRun(field)'
  <2>1. typed' - Len(chars') = typed /\ Scanned' = KeysOf(scans')
    BY <1>1, <1>2, <1>3 DEF Scanned, KeysOf
  <2> QED BY <2>1 DEF BeforeRun
<1> QED BY <1>1, <1>3, <1>4, <1>5, <1>6 DEF KeysInv

\* A run ends as a scan or as typing.
LEMMA FinishKeeps ==
  ASSUME KeysInv, pending, reset, UNCHANGED <<typed, eaten>>, NEW keepSnapshot, Finish(keepSnapshot)
  PROVE  KeysInv'
<1>1. CASE recognized
  <2>1. scans' = Append(scans, chars) /\ field' = snapshot /\ lapsed' = lapsed
    BY <1>1, RunOver DEF Finish, Restored
  <2> QED BY <2>1, RunOver, RunEndsKeep
<1>2. CASE ~recognized
  <2>1. scans' = scans /\ field' = field /\ lapsed' = Lost
    BY <1>2 DEF Finish
  <2> QED BY <2>1, RunOver, RunFacts, RunEndsKeep
<1> QED BY <1>1, <1>2

\* A run is dropped.
LEMMA DropKeeps ==
  ASSUME KeysInv, pending, reset, UNCHANGED <<typed, eaten, scans, field>>, lapsed' = Lost
  PROVE  KeysInv'
  BY RunOver, RunFacts, RunEndsKeep

\* A run that lasts: a key more takes more time.
LEMMA SlowRunGrows ==
  ASSUME NEW m \in Nat, NEW n \in Nat, NEW t \in Nat, NEW gap \in Nat, gap > m, t >= (m + 1) * (n - 1)
  PROVE  t + gap >= (m + 1) * n
<1>1. (m + 1) * (n - 1) + (m + 1) = (m + 1) * n
  OBVIOUS
<1>2. (m + 1) * (n - 1) \in Int /\ (m + 1) * n \in Int
  OBVIOUS
<1> QED BY <1>1, <1>2

\* A key joins the run.
LEMMA JoinRunKeeps ==
  ASSUME KeysInv, NEW gap \in Gaps, typed < MaxKeys, typed' = typed + 1, JoinRun(gap)
  PROVE  KeysInv'
<1> DEFINE key == typed + 1
           n == Len(chars)
           widest == IF gap > maxGap THEN gap ELSE maxGap
           swallow == Swallowed(Len(chars) + 1, span + gap, widest)
<1>1. /\ pending /\ gap <= maxInterKeyMs
      /\ chars' = Append(chars, key) /\ span' = span + gap /\ maxGap' = widest
      /\ quick' = (quick \/ gap <= maxAvgInterKeyMs)
      /\ field' = (IF swallow THEN field ELSE Append(field, key))
      /\ eaten' = (IF swallow THEN eaten \cup {key} ELSE eaten)
      /\ UNCHANGED <<snapshot, scans, lapsed>>
  BY DEF JoinRun
<1> HIDE DEF swallow
<1>2. chars \in Seq(1 .. MaxKeys) /\ typed \in Nat /\ n \in 0 .. typed /\ key \in 1 .. MaxKeys /\ key \in Nat
      /\ gap \in Nat /\ span \in Nat /\ maxGap \in Nat /\ MaxKeys \in Nat /\ maxAvgInterKeyMs \in Nat
  BY RunFacts, ScannerAssumption DEF KeysInv, SlowRunsLong
<1>3. chars' \in Seq(1 .. MaxKeys) /\ Len(chars') = n + 1 /\ pending' /\ typed' - Len(chars') = typed - n
      /\ \A i \in 1 .. Len(chars') : chars'[i] = typed' - Len(chars') + i
  <2>1. chars' \in Seq(1 .. MaxKeys) /\ Len(chars') = n + 1 /\ chars'[n + 1] = key
        /\ \A i \in 1 .. n : chars'[i] = chars[i]
    BY <1>1, <1>2
  <2>2. \A i \in 1 .. n : chars[i] = typed - n + i
    BY DEF KeysInv, RunTyped
  <2>3. pending'
    BY <2>1, <1>2 DEF pending
  <2>4. typed' - (n + 1) = typed - n /\ n \in Nat
    BY <1>2
  <2>5. ASSUME NEW i \in 1 .. n + 1 PROVE chars'[i] = typed' - (n + 1) + i
    <3>1. CASE i = n + 1
      BY <1>2, <2>1, <2>4, <3>1
    <3>2. CASE i # n + 1
      <4>1. i \in 1 .. n
        BY <2>4, <3>2
      <4> QED BY <2>1, <2>2, <2>4, <4>1
    <3> QED BY <3>1, <3>2
  <2> HIDE DEF n
  <2> QED BY <2>1, <2>3, <2>4, <2>5
<1>4. RunTyped'
  BY <1>2, <1>3 DEF RunTyped
<1>5. eaten \subseteq 1 .. typed /\ eaten' \subseteq 1 .. typed' /\ key \notin eaten /\ typed' \in 0 .. MaxKeys
  BY <1>1, <1>2 DEF KeysInv
<1>6. Keys(chars') = Keys(chars) \cup {key} /\ key \notin Keys(chars)
  <2>1. key \notin Keys(chars)
    BY <1>2, RunFacts
  <2> QED BY <1>1, <1>2, <2>1, OneKeyMore
<1>7. snapshot \in Seq(1 .. MaxKeys) /\ BeforeRun(snapshot) /\ Keys(field) = Keys(snapshot) \cup (Keys(chars) \ eaten)
  BY <1>1 DEF KeysInv, RunLeaks
<1>8. field' \in Seq(1 .. MaxKeys) /\ Keys(field') = Keys(snapshot) \cup (Keys(chars') \ eaten')
  <2>1. field \in Seq(1 .. MaxKeys)
    BY RunFacts
  <2>2. CASE swallow
    BY <1>1, <1>6, <1>7, <2>1, <2>2
  <2>3. CASE ~swallow
    <3>1. Append(field, key) \in Seq(1 .. MaxKeys) /\ Keys(Append(field, key)) = Keys(field) \cup {key}
      BY <1>2, <2>1, OneKeyMore
    <3> QED BY <1>1, <1>5, <1>6, <1>7, <2>3, <3>1
  <2> QED BY <2>2, <2>3
<1>9. BeforeRun(snapshot)'
  BY <1>1, <1>3, <1>7 DEF BeforeRun, Scanned
<1>10. RunLeaks'
  BY <1>1, <1>7, <1>8, <1>9 DEF RunLeaks
<1>11. SlowRunsLong'
  <2>1. span' \in Nat /\ maxGap' \in Nat
    BY <1>1, <1>2
  <2>2. ASSUME ~quick' PROVE span' >= (maxAvgInterKeyMs + 1) * (Len(chars') - 1)
    <3>1. ~quick /\ gap > maxAvgInterKeyMs
      <4>1. ~(quick \/ gap <= maxAvgInterKeyMs)
        BY <1>1, <2>2
      <4>2. ~quick
        BY <4>1
      <4>3. ~(gap <= maxAvgInterKeyMs)
        BY <4>1
      <4> QED BY <1>2, <4>2, <4>3
    <3>2. span >= (maxAvgInterKeyMs + 1) * (n - 1)
      BY <1>1, <3>1 DEF KeysInv, SlowRunsLong
    <3>3. n \in Nat /\ Len(chars') - 1 = n
      BY <1>2, <1>3
    <3>4. span + gap >= (maxAvgInterKeyMs + 1) * n
      BY <1>2, <3>1, <3>2, <3>3, SlowRunGrows
    <3> QED BY <1>1, <3>3, <3>4
  <2> QED BY <2>1, <2>2 DEF SlowRunsLong
<1>12. scans' \in Seq(Seq(1 .. MaxKeys)) /\ quick' \in BOOLEAN
  BY <1>1, RunFacts DEF KeysInv
<1> QED BY <1>3, <1>4, <1>5, <1>8, <1>10, <1>11, <1>12 DEF KeysInv

\* A key starts a run; the one before, if there is one, is over.
LEMMA StartRunKeeps ==
  ASSUME KeysInv, NEW gap \in Gaps, typed < MaxKeys, typed' = typed + 1, StartRun(gap)
  PROVE  KeysInv'
<1> DEFINE key == typed + 1
           shown == IF pending /\ recognized THEN Restored(field) ELSE field
<1>1. /\ chars' = <<key>> /\ span' = 0 /\ maxGap' = 0 /\ quick' = FALSE
      /\ scans' = (IF pending /\ recognized THEN Append(scans, chars) ELSE scans)
      /\ lapsed' = (IF pending /\ ~recognized THEN Lost ELSE lapsed)
      /\ snapshot' = shown /\ field' = Append(shown, key) /\ eaten' = eaten
  BY DEF StartRun
<1>2. typed \in Nat /\ key \in 1 .. MaxKeys /\ MaxKeys \in Nat /\ maxAvgInterKeyMs \in Nat /\ key \in Nat
      /\ field \in Seq(1 .. MaxKeys) /\ scans \in Seq(Seq(1 .. MaxKeys)) /\ Scanned = KeysOf(scans)
  BY RunFacts, ScannerAssumption
<1>3. /\ shown \in Seq(1 .. MaxKeys) /\ scans' \in Seq(Seq(1 .. MaxKeys))
      /\ Placed(Keys(shown), KeysOf(scans'), lapsed', typed)
  <2>1. CASE pending /\ recognized
    BY <1>1, <2>1, RunOver DEF Restored
  <2>2. CASE pending /\ ~recognized
    BY <1>1, <1>2, <2>2, RunOver
  <2>3. CASE ~pending
    <3>1. typed - Len(chars) = typed
      BY <1>2, <2>3 DEF pending
    <3>2. BeforeRun(field)
      BY <2>3 DEF KeysInv
    <3> QED BY <1>1, <1>2, <2>3, <3>1, <3>2 DEF BeforeRun
  <2> QED BY <2>1, <2>2, <2>3
<1> HIDE DEF shown
<1>4. chars' \in Seq(1 .. MaxKeys) /\ Len(chars') = 1 /\ chars'[1] = key /\ pending'
  BY <1>1, <1>2 DEF pending
<1>5. RunTyped'
  BY <1>2, <1>4 DEF RunTyped
<1>6. Keys(chars') = {key}
  BY <1>1 DEF Keys
<1>7. eaten \subseteq 1 .. typed
  BY DEF KeysInv
<1>8. field' \in Seq(1 .. MaxKeys) /\ Keys(field') = Keys(snapshot') \cup (Keys(chars') \ eaten')
  <2>1. Append(shown, key) \in Seq(1 .. MaxKeys) /\ Keys(Append(shown, key)) = Keys(shown) \cup {key}
    BY <1>2, <1>3, OneKeyMore
  <2>2. key \notin eaten
    BY <1>2, <1>7
  <2> QED BY <1>1, <1>6, <2>1, <2>2
<1>9. BeforeRun(snapshot)'
  <2>1. typed' - Len(chars') = typed
    BY <1>2, <1>4
  <2>2. Scanned' = KeysOf(scans')
    BY DEF Scanned, KeysOf
  <2> QED BY <1>1, <1>3, <2>1, <2>2 DEF BeforeRun
<1>10. RunLeaks'
  BY <1>1, <1>3, <1>8, <1>9 DEF RunLeaks
<1>11. SlowRunsLong'
  <2>1. (maxAvgInterKeyMs + 1) * (Len(chars') - 1) = 0
    BY <1>2, <1>4
  <2> QED BY <1>1, <2>1 DEF SlowRunsLong
<1>12. typed' \in 0 .. MaxKeys /\ eaten' \subseteq 1 .. typed'
  BY <1>1, <1>2, <1>7
<1>13. quick' \in BOOLEAN
  BY <1>1
<1> QED BY <1>3, <1>4, <1>5, <1>8, <1>10, <1>11, <1>12, <1>13 DEF KeysInv

\* At first nothing was typed.
LEMMA KeysStart == ScannerInit => KeysInv
<1> SUFFICES ASSUME ScannerInit PROVE KeysInv
  OBVIOUS
<1>1. chars = <<>> /\ span = 0 /\ maxGap = 0 /\ quick = FALSE /\ field = <<>> /\ scans = <<>>
      /\ typed = 0 /\ eaten = {} /\ lapsed = {}
  BY DEF ScannerInit
<1>2. Keys(field) = {} /\ Scanned = {} /\ Len(chars) = 0 /\ ~pending
  BY <1>1 DEF Keys, Scanned, pending
<1>3. BeforeRun(field)
  BY <1>1, <1>2 DEF BeforeRun, Placed
<1>4. RunTyped /\ RunLeaks /\ SlowRunsLong
  BY <1>1, <1>2 DEF RunTyped, RunLeaks, SlowRunsLong
<1>5. field \in Seq(1 .. MaxKeys) /\ scans \in Seq(Seq(1 .. MaxKeys)) /\ typed \in 0 .. MaxKeys
      /\ eaten \subseteq 1 .. typed
  BY <1>1, ScannerAssumption
<1>6. quick \in BOOLEAN
  BY <1>1
<1> QED BY <1>3, <1>4, <1>5, <1>6 DEF KeysInv

\* Every step keeps the keys in their places.
LEMMA KeysNextKeep == KeysInv /\ [ScannerNext]_scannerVars => KeysInv'
<1> SUFFICES ASSUME KeysInv, [ScannerNext]_scannerVars PROVE KeysInv'
  OBVIOUS
<1>1. ASSUME NEW gap \in Gaps, TypeCharacter(gap) PROVE KeysInv'
  BY <1>1, JoinRunKeeps, StartRunKeeps DEF TypeCharacter
<1>2. ASSUME NEW gap \in Gaps, Terminator(gap) PROVE KeysInv'
  <2>1. pending /\ reset /\ UNCHANGED <<typed, eaten>>
    BY <1>2 DEF Terminator
  <2>2. CASE gap >= endTimeoutMs
    BY <1>2, <2>1, <2>2, DropKeeps DEF Terminator
  <2>3. CASE ~(gap >= endTimeoutMs)
    BY <1>2, <2>1, <2>3, FinishKeeps DEF Terminator
  <2> QED BY <2>2, <2>3
<1>3. CASE Interrupt
  BY <1>3, DropKeeps DEF Interrupt
<1>4. CASE Silence
  BY <1>4, FinishKeeps DEF Silence
<1>5. CASE UNCHANGED scannerVars
  <2>1. UNCHANGED <<chars, span, maxGap, quick, field, snapshot, scans, typed, eaten, lapsed>>
    BY <1>5 DEF scannerVars
  <2>2. UNCHANGED <<Scanned, pending>> /\ RunTyped' /\ SlowRunsLong'
    BY <2>1 DEF KeysInv, Scanned, pending, RunTyped, SlowRunsLong
  <2>3. RunLeaks' /\ (~pending' => BeforeRun(field)')
    BY <2>1, <2>2 DEF KeysInv, RunLeaks, BeforeRun
  <2>4. quick' \in BOOLEAN
    BY <2>1 DEF KeysInv
  <2> QED BY <2>1, <2>2, <2>3, <2>4 DEF KeysInv
<1> QED BY <1>1, <1>2, <1>3, <1>4, <1>5 DEF ScannerNext

\* The invariant says where every key is.
LEMMA KeysPlaced == KeysInv => ScannerTypeOK /\ KeysAccounted
<1> SUFFICES ASSUME KeysInv PROVE ScannerTypeOK /\ KeysAccounted
  OBVIOUS
<1>1. chars \in Seq(1 .. MaxKeys) /\ field \in Seq(1 .. MaxKeys) /\ typed \in 0 .. MaxKeys
      /\ eaten \subseteq 1 .. typed /\ typed \in Nat /\ Len(chars) \in 0 .. typed
      /\ Keys(chars) = typed - Len(chars) + 1 .. typed
  BY RunFacts DEF KeysInv
<1>2. Keys(chars) \subseteq 1 .. typed
  BY <1>1
<1>3. CASE pending
  <2>1. Placed(Keys(field), KeysOf(scans), Lost, typed)
    BY <1>3, RunOver
  <2> QED BY <1>1, <1>2, <1>3, <2>1 DEF ScannerTypeOK, KeysAccounted, Placed
<1>4. CASE ~pending
  <2>1. typed - Len(chars) = typed
    BY <1>1, <1>4 DEF pending
  <2>2. Placed(Keys(field), Scanned, lapsed, typed)
    BY <1>4, <2>1 DEF KeysInv, BeforeRun
  <2> QED BY <1>1, <1>2, <1>4, <2>2 DEF ScannerTypeOK, KeysAccounted, Placed
<1> QED BY <1>3, <1>4

\* A run that qualifies has a quick pair of keys.
LEMMA SwallowedIsQuick ==
  ASSUME KeysInv, [ScannerNext]_scannerVars, eaten' # eaten
  PROVE  quick'
<1>1. PICK gap \in Gaps : typed < MaxKeys /\ typed' = typed + 1 /\ JoinRun(gap)
  BY DEF ScannerNext, TypeCharacter, StartRun, Terminator, Interrupt, Silence, scannerVars
<1> DEFINE n == Len(chars)
           widest == IF gap > maxGap THEN gap ELSE maxGap
           swallow == Swallowed(Len(chars) + 1, span + gap, widest)
<1>2. swallow /\ pending /\ quick' = (quick \/ gap <= maxAvgInterKeyMs)
  <2>1. eaten' = (IF swallow THEN eaten \cup {typed + 1} ELSE eaten)
    BY <1>1 DEF JoinRun
  <2>2. pending /\ quick' = (quick \/ gap <= maxAvgInterKeyMs)
    BY <1>1 DEF JoinRun
  <2> QED BY <2>1, <2>2
<1>3. span + gap <= maxAvgInterKeyMs * ((n + 1) - 1)
  BY <1>2 DEF Swallowed, recognizedRun
<1>4. n \in Nat /\ n > 0 /\ span \in Nat /\ gap \in Nat /\ maxAvgInterKeyMs \in Nat
  <2>1. Len(chars) \in Nat /\ chars # <<>> /\ chars \in Seq(1 .. MaxKeys)
    BY <1>2, RunFacts DEF pending
  <2> QED BY <2>1, ScannerAssumption DEF KeysInv, SlowRunsLong
<1>5. ASSUME ~quick, ~(gap <= maxAvgInterKeyMs) PROVE FALSE
  <2>1. span >= (maxAvgInterKeyMs + 1) * (n - 1)
    BY <1>2, <1>5 DEF KeysInv, SlowRunsLong
  <2>2. span + gap >= (maxAvgInterKeyMs + 1) * n
    BY <1>4, <1>5, <2>1, SlowRunGrows
  <2>3. (maxAvgInterKeyMs + 1) * n = maxAvgInterKeyMs * n + n /\ maxAvgInterKeyMs * n \in Nat /\ (n + 1) - 1 = n
    BY <1>4
  <2> QED BY <1>3, <1>4, <2>2, <2>3
<1> QED BY <1>2, <1>5

\* The detector neither loses nor doubles a character, and never eats a person's
\* keystroke, for any limits, any times between keys and any number of keys.
THEOREM KeysAreHandled == ScannerSpec => KeysHandled
<1>1. ScannerInit => KeysInv
  BY KeysStart
<1>2. KeysInv /\ [ScannerNext]_scannerVars => KeysInv'
  BY KeysNextKeep
<1>3. KeysInv => ScannerTypeOK /\ KeysAccounted
  BY KeysPlaced
<1>4. KeysInv /\ [ScannerNext]_scannerVars => [eaten' # eaten => quick']_scannerVars
  BY SwallowedIsQuick
<1> QED BY <1>1, <1>2, <1>3, <1>4, PTL DEF ScannerSpec, KeysHandled, SlowTypingUntouched

-----------------------------------------------------------------------------
(* The catalog *)

\* What a request under way may rely on, unless its item was changed since it
\* was read: the row it read, and a price that is under the ceiling.
RequestOK(r) ==
  desk[r] # Nothing =>
    /\ item[desk[r].item] # Nothing
    /\ desk[r].op = "create" =>
         /\ product[desk[r].product] = Nothing
         /\ CeilingCheck(desk[r].store, desk[r].price, desk[r].read.ceiling)
         /\ ~desk[r].overtaken => desk[r].read = item[desk[r].item]
    /\ desk[r].op = "price" /\ product[desk[r].product] # Nothing =>
         /\ product[desk[r].product].item = desk[r].item
         /\ ~desk[r].overtaken =>
              CeilingCheck(product[desk[r].product].store, desk[r].price,
                           item[desk[r].item].ceiling)
    /\ desk[r].op = "update" /\ ~desk[r].overtaken => desk[r].read = item[desk[r].item]

\* No other request knows the product that is about to be created.
FreshIds ==
  \A r, q \in Requests :
    /\ r # q /\ desk[r] # Nothing /\ desk[q] # Nothing
    /\ desk[r].op = "create" /\ desk[q].op # "update"
    => desk[r].product # desk[q].product

ItemsExist == \A p \in Listings : product[p] # Nothing => item[product[p].item] # Nothing

\* The unique indexes.
UniqueItems ==
  \A i, j \in Items :
    i # j /\ item[i] # Nothing /\ item[j] # Nothing => item[i].sku # item[j].sku

UniqueProducts ==
  \A p, q \in Listings :
    p # q /\ product[p] # Nothing /\ product[q] # Nothing /\ product[p].store = product[q].store
      => product[p].sku # product[q].sku

RowsOK ==
  /\ item \in [Items -> ItemRow \cup {Nothing}]
  /\ product \in [Listings -> ProductRow \cup {Nothing}]
  /\ desk \in [Requests -> RequestRow \cup {Nothing}]
  /\ crossed \subseteq Items

CatalogInv ==
  /\ RowsOK /\ UniqueItems /\ UniqueProducts /\ ItemsExist
  /\ CeilingHeld /\ IdentityPropagated
  /\ FreshIds /\ \A r \in Requests : RequestOK(r)

\* The fields of a changed item.
LEMMA FieldType ==
  ASSUME NEW change \in Changes, NEW read \in ItemRow
  PROVE  /\ Field(change, read, "sku") \in Skus
         /\ Field(change, read, "ceiling") \in Prices
         /\ Field(change, read, "active") \in BOOLEAN
  BY CatalogAssumption DEF Field, ItemRow

\* What the rows are made of.
LEMMA CatalogRows ==
  ASSUME CatalogInv
  PROVE  /\ item \in [Items -> ItemRow \cup {Nothing}]
         /\ product \in [Listings -> ProductRow \cup {Nothing}]
         /\ desk \in [Requests -> RequestRow \cup {Nothing}]
         /\ crossed \subseteq Items
         /\ Nothing \notin ItemRow /\ Nothing \notin ProductRow /\ Nothing \notin RequestRow
  BY CatalogAssumption DEF CatalogInv, RowsOK

\* A request is put on the desk, with the rows as they are.
LEMMA BeginStep ==
  ASSUME CatalogInv, NEW r \in Requests, NEW request \in RequestRow,
         desk[r] = Nothing, Begin(r, request), UNCHANGED <<item, product, crossed>>,
         RequestOK(r)',
         request.op = "create" => ~InHand(request.product),
         request.op = "price" => product[request.product] # Nothing
  PROVE  CatalogInv'
<1>1. /\ item' = item /\ product' = product /\ crossed' = crossed
      /\ desk' = [desk EXCEPT ![r] = request]
  BY DEF Begin
<1>2. /\ desk' \in [Requests -> RequestRow \cup {Nothing}]
      /\ item' \in [Items -> ItemRow \cup {Nothing}]
      /\ product' \in [Listings -> ProductRow \cup {Nothing}]
      /\ crossed' \subseteq Items /\ desk'[r] = request
  BY <1>1, CatalogRows
<1>3. ASSUME NEW q \in Requests, q # r PROVE desk'[q] = desk[q]
  BY <1>1, <1>3, CatalogRows
<1>4. ASSUME NEW q \in Requests PROVE RequestOK(q)'
  <2>1. CASE q # r
    BY <1>1, <1>3, <2>1 DEF CatalogInv, RequestOK, CeilingCheck
  <2> QED
    BY <2>1
<1>5. FreshIds'
  <2> SUFFICES ASSUME NEW q \in Requests, NEW k \in Requests, q # k,
                      desk'[q] # Nothing, desk'[k] # Nothing,
                      desk'[q].op = "create", desk'[k].op # "update"
               PROVE  desk'[q].product # desk'[k].product
    BY DEF FreshIds
  <2>1. CASE q # r /\ k # r
    BY <1>3, <2>1 DEF CatalogInv, FreshIds
  <2>2. CASE q = r
    BY <1>2, <1>3, <2>2 DEF InHand
  <2>3. CASE k = r
    <3>1. desk[q].op = "create" /\ desk[q] # Nothing /\ desk[q].product = desk'[q].product
      BY <1>3, <2>3
    <3>2. product[desk[q].product] = Nothing /\ InHand(desk[q].product)
      BY <3>1 DEF CatalogInv, RequestOK, InHand
    <3>3. request.op \in {"create", "price"}
      BY <1>2, <2>3 DEF RequestRow, CreateRequest, PriceRequest, UpdateRequest
    <3> QED
      BY <1>2, <2>3, <3>1, <3>2, <3>3
  <2> QED
    BY <2>1, <2>2, <2>3
<1>6. UniqueItems' /\ UniqueProducts' /\ ItemsExist' /\ CeilingHeld' /\ IdentityPropagated'
  BY <1>1 DEF CatalogInv, UniqueItems, UniqueProducts,
              ItemsExist, CeilingHeld, IdentityPropagated, Retail
<1> QED
  BY <1>2, <1>4, <1>5, <1>6 DEF CatalogInv, RowsOK

\* The three reads.
LEMMA ReadSteps ==
  ASSUME CatalogInv, NEW r \in Requests,
         \/ \E p \in Listings, store \in Stores, i \in Items, price \in Prices :
              readForCreate(r, p, store, i, price)
         \/ \E p \in Listings, price \in Prices : readForPrice(r, p, price)
         \/ \E i \in Items, change \in Changes : readForUpdate(r, i, change)
  PROVE  CatalogInv'
<1>1. ASSUME NEW p \in Listings, NEW store \in Stores, NEW i \in Items, NEW price \in Prices,
             readForCreate(r, p, store, i, price)
      PROVE  CatalogInv'
  <2> DEFINE paid == IF store \in Warehouses THEN item[i].ceiling ELSE price
             request == [op |-> "create", item |-> i, product |-> p, store |-> store,
                         read |-> item[i], price |-> paid, overtaken |-> FALSE]
  <2>1. /\ desk[r] = Nothing /\ product[p] = Nothing /\ ~InHand(p) /\ item[i] # Nothing
        /\ CeilingCheck(store, price, item[i].ceiling) /\ Begin(r, request)
        /\ item' = item /\ product' = product /\ crossed' = crossed
    BY <1>1 DEF readForCreate
  <2>2. item[i] \in ItemRow
    BY <2>1, CatalogRows
  <2>3. paid \in Prices /\ CeilingCheck(store, paid, item[i].ceiling)
    BY <2>1, <2>2 DEF ItemRow, CeilingCheck
  <2> HIDE DEF paid
  <2>4. request \in RequestRow
    BY <2>2, <2>3 DEF RequestRow, CreateRequest
  <2>5. desk'[r] = request
    BY <2>1, CatalogRows DEF Begin
  <2>6. RequestOK(r)'
    BY <2>1, <2>3, <2>5 DEF RequestOK, CeilingCheck
  <2> QED
    BY <2>1, <2>4, <2>6, BeginStep
<1>2. ASSUME NEW p \in Listings, NEW price \in Prices, readForPrice(r, p, price)
      PROVE  CatalogInv'
  <2> DEFINE i == product[p].item
             request == [op |-> "price", item |-> i, product |-> p, price |-> price,
                         overtaken |-> FALSE]
  <2>1. /\ desk[r] = Nothing /\ product[p] # Nothing
        /\ CeilingCheck(product[p].store, price, item[i].ceiling) /\ Begin(r, request)
        /\ item' = item /\ product' = product /\ crossed' = crossed
    BY <1>2 DEF readForPrice
  <2>2. i \in Items /\ item[i] # Nothing
    BY <2>1, CatalogRows DEF ProductRow, CatalogInv, ItemsExist
  <2>3. request \in RequestRow
    BY <2>2 DEF RequestRow, PriceRequest
  <2>4. desk'[r] = request
    BY <2>1, CatalogRows DEF Begin
  <2>5. RequestOK(r)'
    BY <2>1, <2>2, <2>4 DEF RequestOK, CeilingCheck
  <2> QED
    BY <2>1, <2>3, <2>5, BeginStep
<1>3. ASSUME NEW i \in Items, NEW change \in Changes, readForUpdate(r, i, change)
      PROVE  CatalogInv'
  <2> DEFINE request == [op |-> "update", item |-> i, read |-> item[i], change |-> change,
                         overtaken |-> FALSE]
  <2>1. /\ desk[r] = Nothing /\ item[i] # Nothing /\ Begin(r, request)
        /\ item' = item /\ product' = product /\ crossed' = crossed
    BY <1>3 DEF readForUpdate
  <2>2. item[i] \in ItemRow
    BY <2>1, CatalogRows
  <2>3. request \in RequestRow
    BY <2>2 DEF RequestRow, UpdateRequest
  <2>4. desk'[r] = request
    BY <2>1, CatalogRows DEF Begin
  <2>5. RequestOK(r)'
    BY <2>1, <2>4 DEF RequestOK
  <2> QED
    BY <2>1, <2>3, <2>5, BeginStep
<1> QED
  BY <1>1, <1>2, <1>3

\* A request is done, and what is left on the desk may rely on what it did.
LEMMA EndStep ==
  ASSUME CatalogInv, NEW r \in Requests, End(r),
         \A q \in Requests \ {r} : RequestOK(q) /\ desk'[q] = desk[q] => RequestOK(q)'
  PROVE  /\ desk' \in [Requests -> RequestRow \cup {Nothing}]
         /\ FreshIds' /\ \A q \in Requests : RequestOK(q)'
<1>1. desk' = [desk EXCEPT ![r] = Nothing] /\ desk \in [Requests -> RequestRow \cup {Nothing}]
  BY CatalogRows DEF End
<1>2. desk'[r] = Nothing /\ \A q \in Requests \ {r} : desk'[q] = desk[q]
  BY <1>1
<1>3. \A q \in Requests : RequestOK(q)'
  BY <1>2 DEF RequestOK, CatalogInv
<1>4. FreshIds'
  BY <1>2 DEF FreshIds, CatalogInv
<1> QED
  BY <1>1, <1>3, <1>4

\* A new item has no products yet.
LEMMA CreateItemStep ==
  ASSUME CatalogInv, NEW i \in Items, NEW sku \in Skus, NEW ceiling \in Prices,
         createCatalogItem(i, sku, ceiling)
  PROVE  CatalogInv'
<1> DEFINE row == [sku |-> sku, ceiling |-> ceiling, active |-> TRUE]
<1>1. /\ item[i] = Nothing /\ ~SkuTaken(sku) /\ item' = [item EXCEPT ![i] = row]
      /\ product' = product /\ desk' = desk /\ crossed' = crossed
  BY DEF createCatalogItem
<1>2. row \in ItemRow /\ row.sku = sku
  BY DEF ItemRow
<1> HIDE DEF row
<1>3. RowsOK'
  BY <1>1, <1>2, CatalogRows DEF RowsOK
<1>4. item'[i] = row /\ row # Nothing /\ \A j \in Items \ {i} : item'[j] = item[j]
  BY <1>1, <1>2, CatalogRows
<1>5. UniqueItems'
  BY <1>1, <1>2, <1>4 DEF UniqueItems, CatalogInv, SkuTaken
<1>6. UniqueProducts' /\ FreshIds'
  BY <1>1 DEF UniqueProducts, FreshIds, CatalogInv
<1>7. ASSUME NEW p \in Listings, product[p] # Nothing
      PROVE  product[p].item \in Items \ {i} /\ item'[product[p].item] = item[product[p].item]
  <2>1. product[p].item \in Items
    BY <1>7, CatalogRows DEF ProductRow
  <2> QED
    BY <1>1, <1>4, <1>7, <2>1 DEF CatalogInv, ItemsExist
<1>8. ItemsExist' /\ CeilingHeld' /\ IdentityPropagated'
  BY <1>1, <1>7 DEF ItemsExist, CeilingHeld, IdentityPropagated, CatalogInv, Retail
<1>9. ASSUME NEW r \in Requests PROVE RequestOK(r)'
  <2>1. ASSUME desk[r] # Nothing
        PROVE  desk[r].item \in Items \ {i} /\ item'[desk[r].item] = item[desk[r].item]
    <3>1. desk[r].item \in Items
      BY <2>1, CatalogRows DEF RequestRow, CreateRequest, PriceRequest, UpdateRequest
    <3> QED
      BY <1>1, <1>4, <2>1, <3>1 DEF CatalogInv, RequestOK
  <2> QED
    BY <1>1, <2>1 DEF CatalogInv, RequestOK, CeilingCheck
<1> QED
  BY <1>3, <1>5, <1>6, <1>8, <1>9 DEF CatalogInv

\* Nothing is left of a product that is deleted.
LEMMA DeleteProductStep ==
  ASSUME CatalogInv, NEW p \in Listings, deleteProduct(p)
  PROVE  CatalogInv'
<1>1. /\ product' = [product EXCEPT ![p] = Nothing]
      /\ item' = item /\ desk' = desk /\ crossed' = crossed
  BY DEF deleteProduct
<1>2. RowsOK'
  BY <1>1, CatalogRows DEF RowsOK
<1>3. product'[p] = Nothing /\ \A q \in Listings \ {p} : product'[q] = product[q]
  BY <1>1, CatalogRows
<1>4. UniqueItems' /\ FreshIds'
  BY <1>1 DEF UniqueItems, FreshIds, CatalogInv
<1>5. UniqueProducts' /\ ItemsExist' /\ CeilingHeld' /\ IdentityPropagated'
  BY <1>1, <1>3 DEF UniqueProducts, ItemsExist, CeilingHeld, IdentityPropagated, CatalogInv, Retail
<1>6. ASSUME NEW r \in Requests PROVE RequestOK(r)'
  <2>1. desk[r] # Nothing /\ desk[r].op \in {"create", "price"} => desk[r].product \in Listings
    BY CatalogRows DEF RequestRow, CreateRequest, PriceRequest, UpdateRequest
  <2> QED
    BY <1>1, <1>3, <2>1 DEF CatalogInv, RequestOK, CeilingCheck
<1> QED
  BY <1>2, <1>4, <1>5, <1>6 DEF CatalogInv

\* The new product has what was read of the item; unless the request was
\* overtaken that is what the item is.
LEMMA CreateProductStep ==
  ASSUME CatalogInv, NEW r \in Requests, createProduct(r)
  PROVE  CatalogInv'
<1> DEFINE d == desk[r]
           p == desk[r].product
           row == [store |-> d.store, item |-> d.item, sku |-> d.read.sku, price |-> d.price]
<1>1. d # Nothing /\ d.op = "create" /\ End(r) /\ item' = item
  BY DEF createProduct
<1>2. d \in CreateRequest
  BY <1>1, CatalogRows DEF RequestRow, CreateRequest, PriceRequest, UpdateRequest
<1>3. /\ item[d.item] # Nothing /\ product[p] = Nothing
      /\ CeilingCheck(d.store, d.price, d.read.ceiling)
      /\ ~d.overtaken => d.read = item[d.item]
  BY <1>1 DEF CatalogInv, RequestOK
<1>4. CASE SkuInStore(d.store, d.read.sku)
  <2>1. product' = product /\ crossed' = crossed
    BY <1>4 DEF createProduct
  <2>2. \A q \in Requests \ {r} : RequestOK(q) /\ desk'[q] = desk[q] => RequestOK(q)'
    BY <1>1, <2>1 DEF RequestOK, CeilingCheck
  <2>3. /\ desk' \in [Requests -> RequestRow \cup {Nothing}]
        /\ FreshIds' /\ \A q \in Requests : RequestOK(q)'
    BY <1>1, <2>2, EndStep
  <2>4. UniqueItems' /\ UniqueProducts' /\ ItemsExist' /\ CeilingHeld' /\ IdentityPropagated'
    BY <1>1, <2>1 DEF CatalogInv, UniqueItems, UniqueProducts, ItemsExist, CeilingHeld,
                      IdentityPropagated, Retail
  <2> QED
    BY <1>1, <2>1, <2>3, <2>4, CatalogRows DEF CatalogInv, RowsOK
<1>5. CASE ~SkuInStore(d.store, d.read.sku)
  <2>1. product' = [product EXCEPT ![p] = row] /\ crossed' = Crossed(r)
    BY <1>5 DEF createProduct
  <2>2. row \in ProductRow /\ p \in Listings /\ d.item \in Items
    BY <1>2 DEF ProductRow, CreateRequest, ItemRow
  <2>3. /\ row.store = d.store /\ row.item = d.item /\ row.sku = d.read.sku /\ row.price = d.price
    OBVIOUS
  <2>4. product'[p] = row /\ row # Nothing /\ \A q \in Listings \ {p} : product'[q] = product[q]
    BY <2>1, <2>2, CatalogRows
  <2>5. crossed \subseteq crossed' /\ crossed' \subseteq Items /\ (d.overtaken => d.item \in crossed')
    BY <2>1, <2>2, CatalogRows DEF Crossed
  <2>6. d.item \notin crossed' => d.read = item[d.item]
    BY <1>3, <2>5
  <2> HIDE DEF row
  <2>7. ASSUME NEW q \in Requests \ {r}, RequestOK(q), desk'[q] = desk[q] PROVE RequestOK(q)'
    <3>1. CASE desk[q] = Nothing
      BY <2>7, <3>1 DEF RequestOK
    <3>2. CASE desk[q] # Nothing /\ desk[q].op = "update"
      BY <1>1, <2>7, <3>2 DEF RequestOK
    <3>3. CASE desk[q] # Nothing /\ desk[q].op # "update"
      <4>1. desk[q].product \in Listings \ {p}
        BY <1>1, <3>3, CatalogRows DEF CatalogInv, FreshIds, RequestRow, CreateRequest,
                                       PriceRequest, UpdateRequest
      <4>2. product'[desk[q].product] = product[desk[q].product]
        BY <2>4, <4>1
      <4> QED
        BY <1>1, <2>7, <4>2 DEF RequestOK, CeilingCheck
    <3> QED
      BY <3>1, <3>2, <3>3
  <2>8. /\ desk' \in [Requests -> RequestRow \cup {Nothing}]
        /\ FreshIds' /\ \A q \in Requests : RequestOK(q)'
    BY <1>1, <2>7, EndStep
  <2>9. RowsOK'
    BY <1>1, <2>1, <2>2, <2>5, <2>8, CatalogRows DEF RowsOK
  <2>10. UniqueItems'
    BY <1>1 DEF CatalogInv, UniqueItems
  <2>11. ItemsExist'
    BY <1>1, <1>3, <2>3, <2>4 DEF CatalogInv, ItemsExist
  <2>12. UniqueProducts'
    BY <1>5, <2>3, <2>4 DEF CatalogInv, UniqueProducts, SkuInStore
  <2>13. IdentityPropagated'
    BY <1>1, <2>3, <2>4, <2>5, <2>6 DEF CatalogInv, IdentityPropagated
  <2>14. CeilingHeld'
    <3> SUFFICES ASSUME NEW q \in Listings, product'[q] # Nothing,
                        product'[q].store \notin Warehouses, product'[q].item \notin crossed'
                 PROVE  product'[q].price <= item'[product'[q].item].ceiling
      BY DEF CeilingHeld, Retail
    <3>1. CASE q = p
      BY <1>1, <1>3, <2>3, <2>4, <2>6, <3>1 DEF CeilingCheck
    <3>2. CASE q # p
      BY <1>1, <2>4, <2>5, <3>2 DEF CatalogInv, CeilingHeld, Retail
    <3> QED
      BY <3>1, <3>2
  <2> QED
    BY <2>8, <2>9, <2>10, <2>11, <2>12, <2>13, <2>14 DEF CatalogInv
<1> QED
  BY <1>4, <1>5

\* A new price was checked against the ceiling, which is the same unless the
\* request was overtaken.
LEMMA UpdateProductStep ==
  ASSUME CatalogInv, NEW r \in Requests, updateProduct(r)
  PROVE  CatalogInv'
<1> DEFINE d == desk[r]
           p == desk[r].product
<1>1. d # Nothing /\ d.op = "price" /\ End(r) /\ item' = item
  BY DEF updateProduct
<1>2. d \in PriceRequest
  BY <1>1, CatalogRows DEF RequestRow, CreateRequest, PriceRequest, UpdateRequest
<1>3. p \in Listings /\ d.price \in Prices /\ d.item \in Items
  BY <1>2 DEF PriceRequest
<1>4. CASE product[p] = Nothing
  <2>1. product' = product /\ crossed' = crossed
    BY <1>4 DEF updateProduct
  <2>2. \A q \in Requests \ {r} : RequestOK(q) /\ desk'[q] = desk[q] => RequestOK(q)'
    BY <1>1, <2>1 DEF RequestOK, CeilingCheck
  <2>3. /\ desk' \in [Requests -> RequestRow \cup {Nothing}]
        /\ FreshIds' /\ \A q \in Requests : RequestOK(q)'
    BY <1>1, <2>2, EndStep
  <2>4. UniqueItems' /\ UniqueProducts' /\ ItemsExist' /\ CeilingHeld' /\ IdentityPropagated'
    BY <1>1, <2>1 DEF CatalogInv, UniqueItems, UniqueProducts, ItemsExist, CeilingHeld,
                      IdentityPropagated, Retail
  <2> QED
    BY <1>1, <2>1, <2>3, <2>4, CatalogRows DEF CatalogInv, RowsOK
<1>5. CASE product[p] # Nothing
  <2>1. product' = [product EXCEPT ![p].price = d.price] /\ crossed' = Crossed(r)
    BY <1>5 DEF updateProduct
  <2>2. /\ product[p].item = d.item
        /\ ~d.overtaken => CeilingCheck(product[p].store, d.price, item[d.item].ceiling)
    BY <1>1, <1>5 DEF CatalogInv, RequestOK
  <2>3. product[p] \in ProductRow
    BY <1>3, <1>5, CatalogRows
  <2>4. /\ product'[p] \in ProductRow /\ product'[p].price = d.price
        /\ product'[p].item = product[p].item /\ product'[p].sku = product[p].sku
        /\ product'[p].store = product[p].store
        /\ \A q \in Listings \ {p} : product'[q] = product[q]
    BY <1>3, <2>1, <2>3, CatalogRows DEF ProductRow
  <2>5. product' \in [Listings -> ProductRow \cup {Nothing}] /\ product'[p] # Nothing
    BY <1>3, <2>1, <2>4, CatalogRows
  <2>6. crossed \subseteq crossed' /\ crossed' \subseteq Items /\ (d.overtaken => d.item \in crossed')
    BY <1>3, <2>1, CatalogRows DEF Crossed
  <2>7. ASSUME NEW q \in Requests \ {r}, RequestOK(q), desk'[q] = desk[q] PROVE RequestOK(q)'
    <3>1. CASE desk[q] # Nothing /\ desk[q].op # "update"
      <4>1. desk[q].product \in Listings
        BY <3>1, CatalogRows DEF RequestRow, CreateRequest, PriceRequest, UpdateRequest
      <4>2. /\ product'[desk[q].product] = Nothing <=> product[desk[q].product] = Nothing
            /\ product[desk[q].product] # Nothing =>
                 /\ product'[desk[q].product].item = product[desk[q].product].item
                 /\ product'[desk[q].product].store = product[desk[q].product].store
        BY <1>5, <2>4, <2>5, <4>1
      <4> QED
        BY <1>1, <2>7, <4>2 DEF RequestOK, CeilingCheck
    <3>2. CASE desk[q] = Nothing \/ desk[q].op = "update"
      BY <1>1, <2>7, <3>2 DEF RequestOK
    <3> QED
      BY <3>1, <3>2
  <2>8. /\ desk' \in [Requests -> RequestRow \cup {Nothing}]
        /\ FreshIds' /\ \A q \in Requests : RequestOK(q)'
    BY <1>1, <2>7, EndStep
  <2>9. RowsOK'
    BY <1>1, <2>5, <2>6, <2>8, CatalogRows DEF RowsOK
  <2>10. UniqueItems' /\ ItemsExist' /\ UniqueProducts' /\ IdentityPropagated'
    BY <1>1, <1>5, <2>4, <2>6 DEF CatalogInv, UniqueItems, ItemsExist, UniqueProducts,
                                  IdentityPropagated
  <2>11. CeilingHeld'
    <3> SUFFICES ASSUME NEW q \in Listings, product'[q] # Nothing,
                        product'[q].store \notin Warehouses, product'[q].item \notin crossed'
                 PROVE  product'[q].price <= item'[product'[q].item].ceiling
      BY DEF CeilingHeld, Retail
    <3>1. CASE q = p
      BY <1>1, <2>2, <2>4, <2>6, <3>1 DEF CeilingCheck
    <3>2. CASE q # p
      BY <1>1, <2>4, <2>6, <3>2 DEF CatalogInv, CeilingHeld, Retail
    <3> QED
      BY <3>1, <3>2
  <2> QED
    BY <2>8, <2>9, <2>10, <2>11 DEF CatalogInv
<1> QED
  BY <1>4, <1>5

\* A product after its item: where it is and whose it is stay, its sku is the
\* item's, its price is at most what it was.
LEMMA RelabelledRow ==
  ASSUME NEW row \in ProductRow, NEW sku \in Skus, NEW ceiling \in Prices, NEW lowering \in BOOLEAN
  PROVE  /\ Relabelled(row, sku, ceiling, lowering) \in ProductRow
         /\ Relabelled(row, sku, ceiling, lowering).store = row.store
         /\ Relabelled(row, sku, ceiling, lowering).item = row.item
         /\ Relabelled(row, sku, ceiling, lowering).sku = sku
         /\ Relabelled(row, sku, ceiling, lowering).price <= row.price
         /\ lowering /\ row.store \notin Warehouses =>
              Relabelled(row, sku, ceiling, lowering).price <= ceiling
<1>1. row.price \in Nat /\ ceiling \in Nat
  BY CatalogAssumption DEF ProductRow
<1>2. PICK paid \in Prices :
        /\ Relabelled(row, sku, ceiling, lowering) = [row EXCEPT !.sku = sku, !.price = paid]
        /\ paid <= row.price
        /\ lowering /\ row.store \notin Warehouses => paid <= ceiling
  <2>1. CASE lowering /\ row.store \notin Warehouses /\ row.price > ceiling
    <3>1. Relabelled(row, sku, ceiling, lowering) = [row EXCEPT !.sku = sku, !.price = ceiling]
      BY <2>1 DEF Relabelled, ProductRow
    <3>2. ceiling <= row.price /\ ceiling <= ceiling
      BY <1>1, <2>1
    <3> QED
      BY <3>1, <3>2, Zenon
  <2>2. CASE ~(lowering /\ row.store \notin Warehouses /\ row.price > ceiling)
    <3>1. Relabelled(row, sku, ceiling, lowering) = [row EXCEPT !.sku = sku, !.price = row.price]
      BY <2>2 DEF Relabelled, ProductRow
    <3>2. lowering /\ row.store \notin Warehouses => row.price <= ceiling
      BY <1>1, <2>2
    <3>3. row.price \in Prices /\ row.price <= row.price
      BY <1>1 DEF ProductRow
    <3> QED
      BY <3>1, <3>2, <3>3, Zenon
  <2> QED
    BY <2>1, <2>2
<1>3. /\ [row EXCEPT !.sku = sku, !.price = paid] \in ProductRow
      /\ [row EXCEPT !.sku = sku, !.price = paid].store = row.store
      /\ [row EXCEPT !.sku = sku, !.price = paid].item = row.item
      /\ [row EXCEPT !.sku = sku, !.price = paid].sku = sku
      /\ [row EXCEPT !.sku = sku, !.price = paid].price = paid
  BY DEF ProductRow
<1> QED
  BY <1>2, <1>3, Zenon

\* The other requests for the item are overtaken, those for other items are not.
LEMMA OvertakenDesk ==
  ASSUME CatalogInv, NEW r \in Requests, NEW i \in Items
  PROVE  /\ Overtake(r, i) \in [Requests -> RequestRow \cup {Nothing}]
         /\ Overtake(r, i)[r] = Nothing
         /\ \A q \in Requests \ {r} :
              /\ desk[q] # Nothing /\ desk[q].item = i =>
                   /\ Overtake(r, i)[q] = [desk[q] EXCEPT !.overtaken = TRUE]
                   /\ Overtake(r, i)[q] \in RequestRow
              /\ desk[q] = Nothing \/ desk[q].item # i => Overtake(r, i)[q] = desk[q]
<1>1. desk \in [Requests -> RequestRow \cup {Nothing}] /\ Nothing \notin RequestRow
  BY CatalogRows
<1>2. ASSUME NEW q \in Requests, desk[q] # Nothing
      PROVE  [desk[q] EXCEPT !.overtaken = TRUE] \in RequestRow
  <2>1. desk[q] \in RequestRow
    BY <1>1, <1>2
  <2>2. CASE desk[q] \in CreateRequest
    BY <2>2 DEF RequestRow, CreateRequest
  <2>3. CASE desk[q] \in PriceRequest
    BY <2>3 DEF RequestRow, PriceRequest
  <2>4. CASE desk[q] \in UpdateRequest
    BY <2>4 DEF RequestRow, UpdateRequest
  <2> QED
    BY <2>1, <2>2, <2>3, <2>4 DEF RequestRow
<1> QED
  BY <1>1, <1>2 DEF Overtake

\* What an overtaken request still has: everything but its claim to be current.
LEMMA OvertakenRequest ==
  ASSUME NEW request \in RequestRow, NEW late, late = [request EXCEPT !.overtaken = TRUE]
  PROVE  /\ late.op = request.op /\ late.item = request.item /\ late.overtaken
         /\ request.op # "update" => late.product = request.product /\ late.price = request.price
         /\ request.op = "create" => late.store = request.store /\ late.read = request.read
<1>1. CASE request \in CreateRequest
  BY <1>1 DEF CreateRequest
<1>2. CASE request \in PriceRequest
  BY <1>2 DEF PriceRequest
<1>3. CASE request \in UpdateRequest
  BY <1>3 DEF UpdateRequest
<1> QED
  BY <1>1, <1>2, <1>3 DEF RequestRow

\* The change of an item reaches its products and overtakes the requests that
\* have read it.
LEMMA UpdateItemStep ==
  ASSUME CatalogInv, NEW r \in Requests, updateCatalogItem(r)
  PROVE  CatalogInv'
<1> DEFINE d == desk[r]
           i == desk[r].item
           nextSku == Field(d.change, d.read, "sku")
           nextCeiling == Field(d.change, d.read, "ceiling")
           lowering == LoweringCeiling(d.change, d.read)
           relabelled == [p \in Listings |->
             IF p \in OfItem(i) THEN Relabelled(product[p], nextSku, nextCeiling, lowering)
                                ELSE product[p]]
           duplicate ==
             \/ \E j \in Items \ {i} :
                  "sku" \in DOMAIN d.change /\ item[j] # Nothing /\ item[j].sku = nextSku
             \/ \E p, q \in Listings :
                  /\ p # q /\ relabelled[p] # Nothing /\ relabelled[q] # Nothing
                  /\ relabelled[p].store = relabelled[q].store
                  /\ relabelled[p].sku = relabelled[q].sku
<1>1. /\ d # Nothing /\ d.op = "update"
      /\ IF duplicate
         THEN UNCHANGED <<item, product, crossed>> /\ End(r)
         ELSE /\ item' = [item EXCEPT ![i] = UpdatedItem(@, d.change)]
              /\ product' = relabelled
              /\ crossed' = Crossed(r)
              /\ desk' = Overtake(r, i)
  BY DEF updateCatalogItem
<1>2. d \in UpdateRequest
  BY <1>1, CatalogRows DEF RequestRow, CreateRequest, PriceRequest, UpdateRequest
<1>3. i \in Items /\ d.change \in Changes /\ d.read \in ItemRow /\ item[i] # Nothing
  BY <1>1, <1>2 DEF UpdateRequest, CatalogInv, RequestOK
<1>4. item[i] \in ItemRow
  BY <1>3, CatalogRows
<1>5. CASE duplicate
  <2>1. item' = item /\ product' = product /\ crossed' = crossed /\ End(r)
    BY <1>1, <1>5
  <2>2. \A q \in Requests \ {r} : RequestOK(q) /\ desk'[q] = desk[q] => RequestOK(q)'
    BY <2>1 DEF RequestOK, CeilingCheck
  <2>3. /\ desk' \in [Requests -> RequestRow \cup {Nothing}]
        /\ FreshIds' /\ \A q \in Requests : RequestOK(q)'
    BY <2>1, <2>2, EndStep
  <2>4. UniqueItems' /\ UniqueProducts' /\ ItemsExist' /\ CeilingHeld' /\ IdentityPropagated'
    BY <2>1 DEF CatalogInv, UniqueItems, UniqueProducts, ItemsExist, CeilingHeld,
                IdentityPropagated, Retail
  <2> QED
    BY <2>1, <2>3, <2>4, CatalogRows DEF CatalogInv, RowsOK
<1>6. CASE ~duplicate
  <2>1. /\ item' = [item EXCEPT ![i] = UpdatedItem(item[i], d.change)]
        /\ product' = relabelled /\ crossed' = Crossed(r) /\ desk' = Overtake(r, i)
    BY <1>1, <1>3, <1>6, CatalogRows
  <2>2. nextSku \in Skus /\ nextCeiling \in Prices /\ lowering \in BOOLEAN
    BY <1>3, FieldType DEF LoweringCeiling
  <2>3. /\ UpdatedItem(item[i], d.change) \in ItemRow
        /\ UpdatedItem(item[i], d.change).sku = Field(d.change, item[i], "sku")
        /\ UpdatedItem(item[i], d.change).ceiling = Field(d.change, item[i], "ceiling")
    BY <1>3, <1>4, FieldType DEF UpdatedItem, ItemRow
  <2>4. /\ item'[i] \in ItemRow /\ item'[i] # Nothing
        /\ item'[i].sku = Field(d.change, item[i], "sku")
        /\ item'[i].ceiling = Field(d.change, item[i], "ceiling")
        /\ \A j \in Items \ {i} : item'[j] = item[j]
        /\ item' \in [Items -> ItemRow \cup {Nothing}]
    BY <1>3, <2>1, <2>3, CatalogRows
  <2>5. ASSUME NEW p \in Listings
        PROVE  /\ product'[p] = Nothing <=> product[p] = Nothing
               /\ product'[p] \in ProductRow \cup {Nothing}
               /\ product[p] # Nothing =>
                    /\ product'[p].store = product[p].store /\ product'[p].item = product[p].item
                    /\ product[p].item = i =>
                         /\ product'[p].sku = nextSku
                         /\ product'[p].price <= product[p].price
                         /\ lowering /\ product[p].store \notin Warehouses =>
                              product'[p].price <= nextCeiling
                    /\ product[p].item # i => product'[p] = product[p]
    <3>1. CASE p \in OfItem(i)
      <4>1. product[p] \in ProductRow /\ product[p].item = i /\ product[p] # Nothing
        BY <3>1, CatalogRows DEF OfItem
      <4>2. product'[p] = Relabelled(product[p], nextSku, nextCeiling, lowering)
        BY <2>1, <3>1
      <4> HIDE DEF nextSku, nextCeiling, lowering
      <4> QED
        BY <2>2, <4>1, <4>2, RelabelledRow, CatalogRows
    <3>2. CASE p \notin OfItem(i)
      <4>1. product'[p] = product[p]
        BY <2>1, <3>2
      <4> QED
        BY <3>2, <4>1, CatalogRows DEF OfItem
    <3> QED
      BY <3>1, <3>2
  <2>6. product' = [p \in Listings |-> product'[p]]
    BY <2>1
  <2>7. product' \in [Listings -> ProductRow \cup {Nothing}]
    BY <2>5, <2>6
  <2>8. crossed \subseteq crossed' /\ crossed' \subseteq Items /\ (d.overtaken => i \in crossed')
    BY <1>3, <2>1, CatalogRows DEF Crossed
  <2>9. i \notin crossed' => d.read = item[i] /\ i \notin crossed
    BY <1>1, <2>8 DEF CatalogInv, RequestOK
  <2>10. RowsOK'
    BY <1>3, <2>1, <2>4, <2>7, <2>8, OvertakenDesk DEF RowsOK
  <2>11. UniqueItems'
    <3>1. ASSUME NEW j \in Items \ {i}, item[j] # Nothing PROVE item[j].sku # item'[i].sku
      <4>1. CASE "sku" \in DOMAIN d.change
        BY <1>6, <2>4, <3>1, <4>1 DEF Field
      <4>2. CASE "sku" \notin DOMAIN d.change
        <5>1. item'[i].sku = item[i].sku
          BY <2>4, <4>2 DEF Field
        <5> QED
          BY <1>3, <3>1, <5>1 DEF CatalogInv, UniqueItems
      <4> QED
        BY <4>1, <4>2
    <3> QED
      BY <2>4, <3>1 DEF CatalogInv, UniqueItems
  <2>12. UniqueProducts'
    BY <1>6, <2>1 DEF UniqueProducts
  <2> HIDE DEF duplicate, relabelled, nextSku, nextCeiling, lowering
  <2>13. ItemsExist'
    <3> SUFFICES ASSUME NEW p \in Listings, product'[p] # Nothing
                 PROVE  item'[product'[p].item] # Nothing
      BY DEF ItemsExist
    <3>1. product[p] # Nothing /\ product'[p].item = product[p].item /\ product[p].item \in Items
      BY <2>5, CatalogRows DEF ProductRow
    <3> QED
      BY <2>4, <3>1 DEF CatalogInv, ItemsExist
  <2>14. IdentityPropagated'
    <3> SUFFICES ASSUME NEW p \in Listings, product'[p] # Nothing, product'[p].item \notin crossed'
                 PROVE  product'[p].sku = item'[product'[p].item].sku
      BY DEF IdentityPropagated
    <3>1. product[p] # Nothing /\ product'[p].item = product[p].item /\ product[p].item \in Items
      BY <2>5, CatalogRows DEF ProductRow
    <3>2. CASE product[p].item = i
      BY <2>4, <2>5, <2>9, <3>1, <3>2 DEF nextSku
    <3>3. CASE product[p].item # i
      BY <2>4, <2>5, <2>8, <3>1, <3>3 DEF CatalogInv, IdentityPropagated
    <3> QED
      BY <3>2, <3>3
  <2>15. CeilingHeld'
    <3> SUFFICES ASSUME NEW p \in Listings, product'[p] # Nothing,
                        product'[p].store \notin Warehouses, product'[p].item \notin crossed'
                 PROVE  product'[p].price <= item'[product'[p].item].ceiling
      BY DEF CeilingHeld, Retail
    <3>1. /\ product[p] # Nothing /\ product'[p].item = product[p].item /\ product[p].item \in Items
          /\ product[p].store \notin Warehouses /\ product[p].price \in Prices
      BY <2>5, CatalogRows DEF ProductRow
    <3>2. CASE product[p].item = i
      <4>1. item'[i].ceiling = nextCeiling /\ product[p].price <= d.read.ceiling
        BY <2>4, <2>9, <3>1, <3>2 DEF nextCeiling, CatalogInv, CeilingHeld, Retail
      <4>2. /\ product'[p].price <= product[p].price
            /\ lowering => product'[p].price <= nextCeiling
        BY <2>5, <3>1, <3>2
      <4>3. product'[p].price \in Nat /\ product[p].price \in Nat /\ nextCeiling \in Nat
            /\ d.read.ceiling \in Nat
        BY <1>3, <2>2, <2>5, <3>1, CatalogAssumption DEF ProductRow, ItemRow
      <4>4. ~lowering => d.read.ceiling <= nextCeiling
        BY <4>3 DEF lowering, nextCeiling, LoweringCeiling
      <4> QED
        BY <3>1, <3>2, <4>1, <4>2, <4>3, <4>4
    <3>3. CASE product[p].item # i
      BY <2>4, <2>5, <2>8, <3>1, <3>3 DEF CatalogInv, CeilingHeld, Retail
    <3> QED
      BY <3>2, <3>3
  <2>16. ASSUME NEW q \in Requests, desk'[q] # Nothing
         PROVE  /\ q # r /\ desk[q] # Nothing /\ desk[q] \in RequestRow
                /\ desk'[q].op = desk[q].op /\ desk'[q].item = desk[q].item
                /\ desk[q].item = i => desk'[q].overtaken
                /\ desk[q].item # i => desk'[q] = desk[q]
                /\ desk[q].op # "update" =>
                     desk'[q].product = desk[q].product /\ desk'[q].price = desk[q].price
                /\ desk[q].op = "create" =>
                     desk'[q].store = desk[q].store /\ desk'[q].read = desk[q].read
    <3>1. q # r /\ desk'[r] = Nothing
      BY <1>3, <2>1, <2>16, OvertakenDesk
    <3>2. CASE desk[q] # Nothing /\ desk[q].item = i
      <4>1. desk[q] \in RequestRow /\ desk'[q] = [desk[q] EXCEPT !.overtaken = TRUE]
        BY <1>3, <2>1, <3>1, <3>2, OvertakenDesk, CatalogRows
      <4> QED
        BY <3>1, <3>2, <4>1, OvertakenRequest
    <3>3. CASE ~(desk[q] # Nothing /\ desk[q].item = i)
      <4>1. Overtake(r, i)[q] = desk[q]
        BY <3>1, <3>3 DEF Overtake
      <4>2. desk'[q] = desk[q]
        BY <2>1, <4>1
      <4> QED
        BY <2>16, <3>1, <3>3, <4>2, CatalogRows
    <3> QED
      BY <3>2, <3>3
  <2>17. FreshIds'
    BY <2>16 DEF CatalogInv, FreshIds
  <2>18. ASSUME NEW q \in Requests PROVE RequestOK(q)'
    <3> SUFFICES ASSUME desk'[q] # Nothing PROVE RequestOK(q)'
      BY DEF RequestOK
    <3>1. desk[q] \in RequestRow /\ desk[q].item \in Items /\ RequestOK(q)
      BY <2>16 DEF CatalogInv, RequestRow, CreateRequest, PriceRequest, UpdateRequest
    <3>2. item'[desk[q].item] # Nothing
      BY <2>4, <2>16, <3>1 DEF RequestOK
    <3>3. CASE desk[q].op = "update"
      BY <2>4, <2>16, <3>1, <3>2, <3>3 DEF RequestOK
    <3>4. CASE desk[q].op # "update"
      <4>1. desk[q].product \in Listings
        BY <3>1, <3>4 DEF RequestRow, CreateRequest, PriceRequest, UpdateRequest
      <4>2. /\ product'[desk[q].product] = Nothing <=> product[desk[q].product] = Nothing
            /\ product[desk[q].product] # Nothing =>
                 /\ product'[desk[q].product].item = product[desk[q].product].item
                 /\ product'[desk[q].product].store = product[desk[q].product].store
        BY <2>5, <4>1
      <4>3. desk'[q].product = desk[q].product /\ desk'[q].price = desk[q].price
        BY <2>16, <3>4
      <4>4. ~desk'[q].overtaken => desk'[q] = desk[q] /\ item'[desk[q].item] = item[desk[q].item]
        BY <2>4, <2>16, <3>1
      <4> QED
        BY <2>16, <3>1, <3>2, <3>4, <4>2, <4>3, <4>4 DEF RequestOK, CeilingCheck
    <3> QED
      BY <3>3, <3>4
  <2> QED
    BY <2>10, <2>11, <2>12, <2>13, <2>14, <2>15, <2>17, <2>18 DEF CatalogInv
<1> QED
  BY <1>5, <1>6

\* Products agree with the catalog in identity and ceiling, whichever reads and
\* writes overlap; only the items that an overtaken request wrote are exempt.
THEOREM CatalogStaysConsistent == CatalogSpec => []CatalogConsistent
<1>1. CatalogInit => CatalogInv
  BY DEF CatalogInit, CatalogInv, RowsOK, UniqueItems, UniqueProducts, ItemsExist, CeilingHeld,
         IdentityPropagated, FreshIds, RequestOK, Retail
<1>2. CatalogInv /\ [CatalogNext]_catalogVars => CatalogInv'
  <2> SUFFICES ASSUME CatalogInv, [CatalogNext]_catalogVars PROVE CatalogInv'
    OBVIOUS
  <2>1. CASE UNCHANGED catalogVars
    BY <2>1 DEF catalogVars, CatalogInv, RowsOK, UniqueItems, UniqueProducts, ItemsExist,
                CeilingHeld, IdentityPropagated, FreshIds, RequestOK, CeilingCheck, Retail
  <2>2. CASE CatalogNext
    BY <2>2, CreateItemStep, DeleteProductStep, ReadSteps, CreateProductStep, UpdateProductStep,
       UpdateItemStep DEF CatalogNext
  <2> QED
    BY <2>1, <2>2
<1>3. CatalogInv => CatalogConsistent
  BY DEF CatalogInv, RowsOK, UniqueItems, UniqueProducts, RequestOK, CatalogConsistent,
         CatalogTypeOK
<1> QED
  BY <1>1, <1>2, <1>3, PTL DEF CatalogSpec

-----------------------------------------------------------------------------
(* The backfill of the catalog *)

BackfillRows == [Locations -> [name : Names, price : Tags, linked : BOOLEAN]]
ItemRows == [name : Names, ceiling : Tags]

BackfillRunOK ==
  /\ firstName \in [Locations -> Names]
  /\ \/ backfill = NotRunning
     \/ backfill \in [at : {"read", "recorded"}, rows : BackfillRows]
     \/ backfill \in [at : {"linking"}, rows : BackfillRows, catalog : ItemRows, todo : SUBSET Locations]

\* Products are linked only to an item that exists.
ItemBehindLinks ==
  (backfill.at = "linking" \/ \E l \in Locations : listing[l].linked) => master # NoItem

\* While a run links, the ceiling covers every price it has read, of the
\* products that it has still to link too.
LinkingCovered ==
  backfill.at = "linking" => \A l \in Locations \ raised : listing[l].price <= master.ceiling

\* The name a run hands out is the item's.
LinkingName == backfill.at = "linking" /\ ~misnamed => backfill.catalog.name = master.name

MisnamedMuddled == misnamed => muddled

\* Where the names differed, each is in a disagreement.
NamesRecorded ==
  (\E k, l \in Locations : firstName[k] # firstName[l]) =>
    \A l \in Locations : \E row \in disputes : firstName[l] \in row.values

\* Until there is an item, the products have their own names, and so has what
\* a run read of them; it makes the item after recording the disagreement.
BeforeItem ==
  ~muddled /\ master = NoItem =>
    /\ \A l \in Locations : listing[l].name = firstName[l]
    /\ backfill.at \in {"read", "recorded"} => \A l \in Locations : backfill.rows[l].name = firstName[l]
    /\ backfill.at \in {"read", "recorded"} => \A l \in Locations : ~backfill.rows[l].linked
    /\ backfill.at = "recorded" => NamesRecorded

\* Once there is one, the names are on record; the products are all linked, or
\* the run that made it is linking them; and later runs read one name.
AfterItem ==
  ~muddled /\ master # NoItem =>
    /\ NamesRecorded
    /\ \/ \A l \in Locations : listing[l].linked
       \/ /\ backfill.at = "linking"
          /\ \A l \in Locations : ~backfill.rows[l].linked
          /\ \A l \in Locations : l \in backfill.todo \/ listing[l].linked
    /\ backfill.at \in {"read", "recorded"} =>
         \A k, l \in Locations : backfill.rows[k].name = backfill.rows[l].name

BackfillInv ==
  /\ BackfillTypeOK /\ BackfillRunOK /\ ItemBehindLinks
  /\ BackfillCoversPrices /\ LinkingCovered
  /\ LinkedShareName /\ LinkingName /\ MisnamedMuddled
  /\ BeforeItem /\ AfterItem

\* What a row is made of.
LEMMA BackfillFields ==
  ASSUME NEW rows \in BackfillRows, NEW l \in Locations
  PROVE  /\ rows[l].name \in Names /\ rows[l].name \in Nat
         /\ rows[l].price \in Tags /\ rows[l].price \in Nat
         /\ rows[l].linked \in BOOLEAN
<1>1. rows[l] \in [name : Names, price : Tags, linked : BOOLEAN]
  BY DEF BackfillRows
<1>2. rows[l].name \in Names /\ rows[l].price \in Tags
  BY <1>1, SMT
<1>3. rows[l].linked \in BOOLEAN
  BY <1>1, Zenon
<1> QED
  BY <1>2, <1>3, BackfillAssumption

\* The names of a sku are finitely many.
LEMMA NamesFinite ==
  ASSUME NEW rows \in BackfillRows
  PROVE  IsFiniteSet(Values(rows)) /\ Values(rows) # {} /\ Values(rows) \subseteq Names
<1> DEFINE f == [l \in Locations |-> rows[l].name]
           V == Values(rows)
<1>1. f \in Surjection(Locations, V)
  BY DEF Surjection, Values
<1>2. IsFiniteSet(V)
  <2> HIDE DEF f, V
  <2> QED
    BY <1>1, FS_Surjection, BackfillAssumption
<1>3. V # {} /\ V \subseteq Names
  BY BackfillFields, BackfillAssumption DEF Values
<1> QED
  BY <1>2, <1>3

\* The name and the ceiling the script chooses are among those it has read.
LEMMA ModeChosen ==
  ASSUME NEW rows \in BackfillRows
  PROVE  mode(rows) \in Names
<1> DEFINE count == [n \in Names |-> Cardinality({l \in Locations : rows[l].name = n})]
           seen == {rows[l].name : l \in Locations}
<1>1. \A n \in Names : count[n] \in Nat /\ (n \notin seen => count[n] = 0) /\ (n \in seen => count[n] > 0)
  <2> TAKE n \in Names
  <2> DEFINE at == {l \in Locations : rows[l].name = n}
  <2>1. IsFiniteSet(at) /\ count[n] = Cardinality(at)
    BY BackfillAssumption, FS_Subset
  <2>2. Cardinality(at) \in Nat /\ (at = {} <=> Cardinality(at) = 0)
    <3> HIDE DEF at
    <3> QED
      BY <2>1, FS_CardinalityType, FS_EmptySet
  <2>3. n \in seen <=> at # {}
    OBVIOUS
  <2> QED
    BY <2>1, <2>2, <2>3
<1>2. IsFiniteSet(seen) /\ seen # {} /\ seen \subseteq Names
  BY NamesFinite DEF Values
<1> HIDE DEF count, seen
<1>3. PICK m \in seen : \A n \in seen : count[n] <= count[m]
  <2>1. IntegerOn(count, seen)
    BY <1>1, <1>2 DEF IntegerOn
  <2> QED
    BY <1>2, <2>1, LastRow
<1> DEFINE best == {n \in seen : count[n] = count[m]}
           order == [n \in best |-> -n]
<1>4. PICK n \in best : \A k \in best : order[k] <= order[n]
  <2>1. IsFiniteSet(best) /\ best # {} /\ IntegerOn(order, best)
    BY <1>2, FS_Subset, BackfillAssumption DEF IntegerOn
  <2> HIDE DEF best, order
  <2> QED
    BY <2>1, LastRow
<1>5. \A k \in best : n <= k
  <2> TAKE k \in best
  <2>1. order[k] = -k /\ order[n] = -n /\ k \in Nat /\ n \in Nat
    BY <1>2, BackfillAssumption
  <2> QED
    BY <1>4, <2>1
<1>6. \A other \in Names : count[other] < count[n] \/ (count[other] = count[n] /\ n <= other)
  <2> TAKE other \in Names
  <2>1. count[n] = count[m] /\ n \in Names /\ n \in seen /\ m \in Names
    BY <1>2
  <2>2. CASE other \in seen
    <3>1. other \in best \/ count[other] < count[m]
      BY <1>1, <1>3, <2>1, <2>2
    <3> QED
      BY <1>5, <2>1, <3>1
  <2>3. CASE other \notin seen
    BY <1>1, <2>1, <2>3
  <2> QED
    BY <2>2, <2>3
<1>7. count[n] > 0 /\ n \in Names
  BY <1>1, <1>2
<1> QED
  BY <1>6, <1>7 DEF mode, count

\* The same for the price.
LEMMA MaxPriceChosen ==
  ASSUME NEW rows \in BackfillRows
  PROVE  /\ maxPrice(rows) \in Tags
         /\ \A l \in Locations : rows[l].price <= maxPrice(rows)
<1> DEFINE price == [l \in Locations |-> rows[l].price]
<1>1. \A l \in Locations : rows[l].price \in Tags /\ rows[l].price \in Int
  BY BackfillFields
<1>2. IntegerOn(price, Locations)
  BY <1>1 DEF IntegerOn
<1>3. PICK l \in Locations : \A k \in Locations : price[k] <= price[l]
  <2> HIDE DEF price
  <2> QED
    BY <1>2, BackfillAssumption, LastRow
<1> QED
  BY <1>1, <1>3 DEF maxPrice

\* Names disagree when two of them differ.
LEMMA DisagreeMeans ==
  ASSUME NEW rows \in BackfillRows
  PROVE  Disagree(rows) <=> \E k, l \in Locations : rows[k].name # rows[l].name
<1> DEFINE V == Values(rows)
<1>1. IsFiniteSet(V) /\ V # {}
  BY NamesFinite
<1>2. Cardinality(V) \in Nat /\ Cardinality(V) # 0
  BY <1>1, FS_EmptySet, FS_CardinalityType
<1>3. Cardinality(V) = 1 <=> \E x : V = {x}
  BY <1>1, FS_Singleton
<1>4. (\E x : V = {x}) <=> \A k, l \in Locations : rows[k].name = rows[l].name
  BY BackfillAssumption DEF Values
<1> QED
  BY <1>2, <1>3, <1>4 DEF Disagree

\* It holds before the script is first run.
LEMMA BackfillInvInit ==
  ASSUME BackfillInit
  PROVE  BackfillInv
<1>1. PICK price \in [Locations -> Tags] :
        listing = [l \in Locations |-> [name |-> firstName[l], price |-> price[l], linked |-> FALSE]]
  BY DEF BackfillInit
<1>2. firstName \in [Locations -> Names] /\ edits = 0 /\ MaxEdits \in Nat
  BY BackfillAssumption DEF BackfillInit
<1>3. \A l \in Locations : listing[l].name = firstName[l] /\ listing[l].linked = FALSE
  BY <1>1
<1>4. listing \in BackfillRows
  BY <1>1, <1>2 DEF BackfillRows
<1>5. backfill = NotRunning /\ backfill.at = "idle" /\ raised = {} /\ disputes = {} /\ master = NoItem
  BY DEF BackfillInit, NotRunning
<1>6. muddled = FALSE /\ misnamed = FALSE
  BY DEF BackfillInit
<1>7. BackfillTypeOK
  <2>1. backfill.at \in {"idle", "read", "recorded", "linking"} /\ raised \subseteq Locations
    BY <1>5
  <2>2. edits \in 0 .. MaxEdits
    BY <1>2
  <2>3. muddled \in BOOLEAN /\ misnamed \in BOOLEAN
    BY <1>6
  <2>4. master \in [name : Names, ceiling : Tags] \cup {NoItem} /\ disputes \subseteq [values : SUBSET Names, chosen : Names, open : BOOLEAN]
    BY <1>5
  <2> QED
    BY <1>4, <2>1, <2>2, <2>3, <2>4, Zenon DEF BackfillTypeOK, BackfillRows
<1>8. BackfillRunOK
  BY <1>2, <1>5 DEF BackfillRunOK
<1>9. ItemBehindLinks /\ BackfillCoversPrices /\ LinkingCovered /\ LinkedShareName /\ LinkingName
  BY <1>3, <1>5 DEF ItemBehindLinks, BackfillCoversPrices, LinkingCovered, LinkedShareName, LinkingName
<1>10. BeforeItem /\ AfterItem /\ MisnamedMuddled
  BY <1>3, <1>5, <1>6 DEF BeforeItem, AfterItem, MisnamedMuddled
<1> QED
  BY <1>7, <1>8, <1>9, <1>10 DEF BackfillInv

\* A run in each of its states.
LEMMA BackfillPhases ==
  ASSUME BackfillInv
  PROVE  /\ listing \in BackfillRows /\ master \in ItemRows \cup {NoItem} /\ NoItem \notin ItemRows
         /\ firstName \in [Locations -> Names]
         /\ backfill = NotRunning => backfill.at = "idle"
         /\ backfill.at = "idle" => backfill = NotRunning
         /\ backfill.at \in {"read", "recorded"} =>
              backfill \in [at : {"read", "recorded"}, rows : BackfillRows]
         /\ backfill.at = "linking" =>
              backfill \in [at : {"linking"}, rows : BackfillRows, catalog : ItemRows, todo : SUBSET Locations]
<1>1. BackfillTypeOK /\ BackfillRunOK
  BY DEF BackfillInv
<1>2. listing \in BackfillRows /\ master \in ItemRows \cup {NoItem} /\ NoItem \notin ItemRows
  BY <1>1, BackfillAssumption DEF BackfillTypeOK, BackfillRows, ItemRows
<1>3. firstName \in [Locations -> Names]
  BY <1>1 DEF BackfillRunOK
<1>4. CASE backfill = NotRunning
  BY <1>2, <1>3, <1>4 DEF NotRunning
<1>5. CASE backfill \in [at : {"read", "recorded"}, rows : BackfillRows]
  <2>1. backfill.at \in {"read", "recorded"}
    BY <1>5
  <2> QED
    BY <1>2, <1>3, <1>5, <2>1 DEF NotRunning
<1>6. CASE backfill \in [at : {"linking"}, rows : BackfillRows, catalog : ItemRows, todo : SUBSET Locations]
  <2>1. backfill.at = "linking"
    BY <1>6
  <2> QED
    BY <1>2, <1>3, <1>6, <2>1 DEF NotRunning
<1> QED
  BY <1>1, <1>4, <1>5, <1>6 DEF BackfillRunOK

\* Once there is an item and no run is linking, all products have its name.
LEMMA OneName ==
  ASSUME BackfillInv, ~muddled, master # NoItem, backfill.at # "linking"
  PROVE  \A l \in Locations : listing[l].linked /\ listing[l].name = master.name
<1>1. AfterItem /\ LinkedShareName /\ MisnamedMuddled
  BY DEF BackfillInv
<1>2. ~misnamed
  BY <1>1 DEF MisnamedMuddled
<1>3. \A l \in Locations : listing[l].linked
  BY <1>1 DEF AfterItem
<1> QED
  BY <1>1, <1>2, <1>3 DEF LinkedShareName

\* The script reads the products.
LEMMA ReadProductsKeeps ==
  ASSUME BackfillInv, ReadProducts
  PROVE  BackfillInv'
<1>1. /\ backfill = NotRunning /\ backfill' = [at |-> "read", rows |-> listing]
      /\ UNCHANGED <<listing, master, disputes, firstName, muddled, raised, misnamed, edits>>
  BY DEF ReadProducts
<1>2. backfill'.at = "read" /\ backfill'.rows = listing /\ backfill.at = "idle" /\ listing \in BackfillRows
  BY <1>1, BackfillPhases
<1>3. BackfillTypeOK'
  <2>1. backfill'.at \in {"idle", "read", "recorded", "linking"}
    BY <1>2
  <2> QED
    BY <1>1, <2>1 DEF BackfillInv, BackfillTypeOK
<1>4. BackfillRunOK'
  <2>1. backfill' \in [at : {"read", "recorded"}, rows : BackfillRows]
    BY <1>1, <1>2
  <2>2. firstName' \in [Locations -> Names]
    BY <1>1, BackfillPhases
  <2> QED
    BY <2>1, <2>2 DEF BackfillRunOK
<1>5. ItemBehindLinks'
  BY <1>1, <1>2 DEF BackfillInv, ItemBehindLinks
<1>6. BackfillCoversPrices' /\ LinkingCovered'
  BY <1>1, <1>2 DEF BackfillInv, BackfillCoversPrices, LinkingCovered
<1>7. LinkedShareName' /\ LinkingName' /\ MisnamedMuddled'
  BY <1>1, <1>2 DEF BackfillInv, LinkedShareName, LinkingName, MisnamedMuddled
<1>8. BeforeItem'
  <2> SUFFICES ASSUME ~muddled, master = NoItem
               PROVE  \A l \in Locations : listing[l].name = firstName[l] /\ ~listing[l].linked
    BY <1>1, <1>2 DEF BeforeItem
  <2>1. BeforeItem /\ ItemBehindLinks
    BY DEF BackfillInv
  <2> QED
    BY <2>1 DEF BeforeItem, ItemBehindLinks
<1>9. AfterItem'
  <2> SUFFICES ASSUME ~muddled, master # NoItem
               PROVE  /\ NamesRecorded
                      /\ \A l \in Locations : listing[l].linked
                      /\ \A k, l \in Locations : listing[k].name = listing[l].name
    BY <1>1, <1>2 DEF AfterItem, NamesRecorded
  <2>1. AfterItem
    BY DEF BackfillInv
  <2>2. \A l \in Locations : listing[l].linked /\ listing[l].name = master.name
    BY <1>2, OneName
  <2> QED
    BY <2>1, <2>2 DEF AfterItem
<1> QED
  BY <1>3, <1>4, <1>5, <1>6, <1>7, <1>8, <1>9 DEF BackfillInv

\* It records the disagreement about the name, if there is one.
LEMMA RecordDisagreementKeeps ==
  ASSUME BackfillInv, RecordDisagreement
  PROVE  BackfillInv'
<1> DEFINE rows == backfill.rows
<1>1. /\ backfill.at = "read" /\ backfill' = [backfill EXCEPT !.at = "recorded"]
      /\ UNCHANGED <<listing, master, firstName, muddled, raised, misnamed, edits>>
  BY DEF RecordDisagreement
<1>2. backfill \in [at : {"read", "recorded"}, rows : BackfillRows] /\ rows \in BackfillRows
  BY <1>1, BackfillPhases
<1>3. /\ backfill' \in [at : {"read", "recorded"}, rows : BackfillRows]
      /\ backfill'.at = "recorded" /\ backfill'.rows = rows
  BY <1>1, <1>2
<1>4. ASSUME Disagree(rows) PROVE BackfillTypeOK' /\ BeforeItem' /\ AfterItem'
  <2> DEFINE new == [values |-> Values(rows), chosen |-> mode(rows), open |-> TRUE]
  <2>1. disputes' = {row \in disputes : ~row.open} \cup {new}
    BY <1>4 DEF RecordDisagreement, upsertOpenCatalogDisagreement
  <2>2. new \in [values : SUBSET Names, chosen : Names, open : BOOLEAN]
    <3>1. Values(rows) \in SUBSET Names /\ mode(rows) \in Names
      BY <1>2, NamesFinite, ModeChosen
    <3> QED
      BY <3>1
  <2>3. new \in disputes' /\ new.values = Values(rows)
    BY <2>1
  <2>4. disputes' \subseteq [values : SUBSET Names, chosen : Names, open : BOOLEAN]
    <3>1. disputes \subseteq [values : SUBSET Names, chosen : Names, open : BOOLEAN]
      BY DEF BackfillInv, BackfillTypeOK
    <3> HIDE DEF new
    <3> QED
      BY <2>1, <2>2, <3>1
  <2>5. BackfillTypeOK'
    <3>1. backfill'.at \in {"idle", "read", "recorded", "linking"}
      BY <1>3
    <3> QED
      BY <1>1, <2>4, <3>1 DEF BackfillInv, BackfillTypeOK
  <2>6. ~muddled => master = NoItem
    <3>1. PICK k, l \in Locations : rows[k].name # rows[l].name
      BY <1>2, <1>4, DisagreeMeans
    <3> QED
      BY <1>1, <3>1 DEF BackfillInv, AfterItem
  <2>7. ~muddled => NamesRecorded'
    <3> SUFFICES ASSUME ~muddled, NEW l \in Locations
                 PROVE  \E row \in disputes' : firstName[l] \in row.values
      BY <1>1 DEF NamesRecorded
    <3>1. rows[l].name = firstName[l]
      BY <1>1, <2>6 DEF BackfillInv, BeforeItem
    <3>2. firstName[l] \in Values(rows)
      BY <3>1 DEF Values
    <3> QED
      BY <2>3, <3>2
  <2>8. BeforeItem' /\ AfterItem'
    <3>1. BeforeItem'
      BY <1>1, <1>3, <2>7 DEF BackfillInv, BeforeItem
    <3>2. AfterItem'
      BY <1>1, <2>6 DEF AfterItem
    <3> QED
      BY <3>1, <3>2
  <2> QED
    BY <2>5, <2>8
<1>5. ASSUME ~Disagree(rows) PROVE BackfillTypeOK' /\ BeforeItem' /\ AfterItem'
  <2>1. disputes' = disputes
    BY <1>5 DEF RecordDisagreement
  <2>2. BackfillTypeOK'
    <3>1. backfill'.at \in {"idle", "read", "recorded", "linking"}
      BY <1>3
    <3> QED
      BY <1>1, <2>1, <3>1 DEF BackfillInv, BackfillTypeOK
  <2>3. \A k, l \in Locations : rows[k].name = rows[l].name
    BY <1>2, <1>5, DisagreeMeans
  <2>4. BeforeItem'
    <3> SUFFICES ASSUME ~muddled, master = NoItem PROVE BeforeItem'
      BY <1>1 DEF BeforeItem
    <3>1. \A l \in Locations : listing[l].name = firstName[l] /\ rows[l].name = firstName[l] /\ ~rows[l].linked
      BY <1>1 DEF BackfillInv, BeforeItem
    <3>2. NamesRecorded'
      BY <1>1, <2>3, <3>1 DEF NamesRecorded
    <3> QED
      BY <1>1, <1>3, <3>1, <3>2 DEF BeforeItem
  <2>5. AfterItem'
    <3> SUFFICES ASSUME ~muddled, master # NoItem PROVE AfterItem'
      BY <1>1 DEF AfterItem
    <3>1. NamesRecorded /\ \A l \in Locations : listing[l].linked
      BY <1>1 DEF BackfillInv, AfterItem
    <3> QED
      BY <1>1, <1>3, <2>1, <2>3, <3>1 DEF AfterItem, NamesRecorded
  <2> QED
    BY <2>2, <2>4, <2>5
<1>6. BackfillTypeOK' /\ BeforeItem' /\ AfterItem'
  BY <1>4, <1>5
<1>7. BackfillRunOK'
  <2>1. firstName' \in [Locations -> Names]
    BY <1>1, BackfillPhases
  <2> QED
    BY <1>3, <2>1 DEF BackfillRunOK
<1>8. ItemBehindLinks'
  BY <1>1, <1>3 DEF BackfillInv, ItemBehindLinks
<1>9. BackfillCoversPrices' /\ LinkingCovered'
  BY <1>1, <1>3 DEF BackfillInv, BackfillCoversPrices, LinkingCovered
<1>10. LinkedShareName' /\ LinkingName' /\ MisnamedMuddled'
  BY <1>1, <1>3 DEF BackfillInv, LinkedShareName, LinkingName, MisnamedMuddled
<1> QED
  BY <1>6, <1>7, <1>8, <1>9, <1>10 DEF BackfillInv

\* It makes the item, or widens its ceiling: the ceiling covers what it read.
LEMMA MakeItemKeeps ==
  ASSUME BackfillInv, MakeItem
  PROVE  BackfillInv'
<1> DEFINE rows == backfill.rows
<1>1. /\ backfill.at = "recorded"
      /\ backfill' = [at |-> "linking", rows |-> rows, catalog |-> master', todo |-> Locations]
      /\ raised' = {l \in Locations : listing[l].price # rows[l].price}
      /\ UNCHANGED <<listing, disputes, firstName, muddled, misnamed, edits>>
  BY DEF MakeItem
<1>2. rows \in BackfillRows
  BY <1>1, BackfillPhases
<1>3. maxPrice(rows) \in Tags /\ maxPrice(rows) \in Nat /\ \A l \in Locations : rows[l].price <= maxPrice(rows)
  BY <1>2, MaxPriceChosen, BackfillAssumption
<1>4. /\ master' \in ItemRows /\ maxPrice(rows) <= master'.ceiling
      /\ master # NoItem => master'.name = master.name /\ master.ceiling <= master'.ceiling
  <2>1. CASE master = NoItem
    <3>1. master' = [name |-> mode(rows), ceiling |-> maxPrice(rows)]
      BY <2>1 DEF MakeItem
    <3>2. mode(rows) \in Names
      BY <1>2, ModeChosen
    <3> QED
      BY <1>3, <2>1, <3>1, <3>2 DEF ItemRows
  <2>2. CASE master # NoItem
    <3>1. master' = Widened(master, rows) /\ master \in ItemRows
      BY <2>2, BackfillPhases DEF MakeItem
    <3>2. master.ceiling \in Tags /\ master.ceiling \in Nat /\ master.name \in Names
      BY <3>1, BackfillAssumption DEF ItemRows
    <3>3. CASE maxPrice(rows) > master.ceiling
      <4>1. master' = [master EXCEPT !.ceiling = maxPrice(rows)]
        BY <3>1, <3>3 DEF Widened
      <4>2. master'.ceiling = maxPrice(rows) /\ master'.name = master.name /\ master' \in ItemRows
        BY <1>3, <3>1, <4>1 DEF ItemRows
      <4> QED
        BY <1>3, <3>2, <3>3, <4>2
    <3>4. CASE ~(maxPrice(rows) > master.ceiling)
      <4>1. master' = master
        BY <3>1, <3>4 DEF Widened
      <4> QED
        BY <1>3, <3>1, <3>2, <3>4, <4>1
    <3> QED
      BY <3>3, <3>4
  <2> QED
    BY <2>1, <2>2
<1>5. /\ backfill'.at = "linking" /\ backfill'.rows = rows /\ backfill'.catalog = master'
      /\ backfill'.todo = Locations
  BY <1>1
<1>6. master' # NoItem /\ master'.ceiling \in Nat
  BY <1>4, BackfillAssumption DEF ItemRows
<1>7. BackfillTypeOK'
  <2>1. backfill'.at \in {"idle", "read", "recorded", "linking"}
    BY <1>5
  <2>2. raised' \subseteq Locations /\ master' \in [name : Names, ceiling : Tags] \cup {NoItem}
    BY <1>1, <1>4 DEF ItemRows
  <2> QED
    BY <1>1, <2>1, <2>2 DEF BackfillInv, BackfillTypeOK
<1>8. BackfillRunOK'
  <2>1. backfill' \in [at : {"linking"}, rows : BackfillRows, catalog : ItemRows, todo : SUBSET Locations]
    BY <1>1, <1>2, <1>4
  <2>2. firstName' \in [Locations -> Names]
    BY <1>1, BackfillPhases
  <2> QED
    BY <2>1, <2>2 DEF BackfillRunOK
<1>9. ItemBehindLinks'
  BY <1>6 DEF ItemBehindLinks
<1>10. \A l \in Locations \ raised' : listing[l].price <= master'.ceiling
  <2> TAKE l \in Locations \ raised'
  <2>1. listing[l].price = rows[l].price
    BY <1>1
  <2>2. rows[l].price <= maxPrice(rows) /\ rows[l].price \in Nat
    BY <1>2, <1>3, BackfillFields
  <2> QED
    BY <1>3, <1>4, <1>6, <2>1, <2>2
<1>11. BackfillCoversPrices' /\ LinkingCovered'
  BY <1>1, <1>10 DEF BackfillCoversPrices, LinkingCovered
<1>12. LinkedShareName' /\ LinkingName' /\ MisnamedMuddled'
  <2>1. LinkedShareName /\ ItemBehindLinks /\ MisnamedMuddled
    BY DEF BackfillInv
  <2>2. LinkedShareName'
    BY <1>1, <1>4, <2>1 DEF LinkedShareName, ItemBehindLinks
  <2>3. LinkingName'
    BY <1>5 DEF LinkingName
  <2> QED
    BY <1>1, <2>1, <2>2, <2>3 DEF MisnamedMuddled
<1>13. BeforeItem'
  BY <1>6 DEF BeforeItem
<1>14. AfterItem'
  <2> SUFFICES ASSUME ~muddled PROVE AfterItem'
    BY <1>1 DEF AfterItem
  <2>1. BeforeItem /\ AfterItem
    BY DEF BackfillInv
  <2>2. NamesRecorded'
    <3>1. NamesRecorded
      BY <1>1, <2>1 DEF BeforeItem, AfterItem
    <3> QED
      BY <1>1, <3>1 DEF NamesRecorded
  <2>3. CASE master = NoItem
    <3>1. \A l \in Locations : ~rows[l].linked
      BY <1>1, <2>1, <2>3 DEF BeforeItem
    <3> QED
      BY <1>5, <2>2, <3>1 DEF AfterItem
  <2>4. CASE master # NoItem
    <3>1. \A l \in Locations : listing'[l].linked
      BY <1>1, <2>1, <2>4 DEF AfterItem
    <3> QED
      BY <1>5, <2>2, <3>1 DEF AfterItem
  <2> QED
    BY <2>3, <2>4
<1> QED
  BY <1>7, <1>8, <1>9, <1>11, <1>12, <1>13, <1>14 DEF BackfillInv

\* A run is interrupted.
LEMMA StopBackfillKeeps ==
  ASSUME BackfillInv, StopBackfill
  PROVE  BackfillInv'
<1>1. /\ backfill' = NotRunning /\ muddled' = TRUE
      /\ UNCHANGED <<listing, master, disputes, firstName, raised, misnamed, edits>>
  BY DEF StopBackfill
<1>2. backfill'.at = "idle"
  BY <1>1 DEF NotRunning
<1>3. BackfillTypeOK'
  <2>1. backfill'.at \in {"idle", "read", "recorded", "linking"}
    BY <1>2
  <2> QED
    BY <1>1, <2>1 DEF BackfillInv, BackfillTypeOK
<1>4. BackfillRunOK'
  BY <1>1, BackfillPhases DEF BackfillRunOK
<1>5. ItemBehindLinks'
  BY <1>1, <1>2 DEF BackfillInv, ItemBehindLinks
<1>6. BackfillCoversPrices' /\ LinkingCovered'
  BY <1>1, <1>2 DEF BackfillInv, BackfillCoversPrices, LinkingCovered
<1>7. LinkedShareName' /\ LinkingName' /\ MisnamedMuddled'
  BY <1>1, <1>2 DEF BackfillInv, LinkedShareName, LinkingName, MisnamedMuddled
<1>8. BeforeItem' /\ AfterItem'
  BY <1>1 DEF BeforeItem, AfterItem
<1> QED
  BY <1>3, <1>4, <1>5, <1>6, <1>7, <1>8 DEF BackfillInv

\* It links the next product, unless it read it as linked.
LEMMA LinkProductKeeps ==
  ASSUME BackfillInv, NEW l \in Locations, LinkProduct(l)
  PROVE  BackfillInv'
<1>1. /\ backfill.at = "linking" /\ l \in backfill.todo
      /\ listing' = IF backfill.rows[l].linked THEN listing
                    ELSE [listing EXCEPT ![l].linked = TRUE, ![l].name = backfill.catalog.name]
      /\ backfill' = IF backfill.todo = {l} THEN NotRunning ELSE [backfill EXCEPT !.todo = @ \ {l}]
      /\ UNCHANGED <<master, disputes, firstName, muddled, raised, misnamed, edits>>
  BY DEF LinkProduct, NextToLink
<1>2. /\ backfill \in [at : {"linking"}, rows : BackfillRows, catalog : ItemRows, todo : SUBSET Locations]
      /\ listing \in BackfillRows /\ firstName \in [Locations -> Names]
  BY <1>1, BackfillPhases
<1>3. backfill.catalog \in ItemRows /\ backfill.catalog.name \in Names /\ backfill.todo \subseteq Locations
  BY <1>2 DEF ItemRows
<1>4. \/ backfill' = NotRunning /\ backfill'.at = "idle" /\ backfill.todo = {l}
      \/ /\ backfill' \in [at : {"linking"}, rows : BackfillRows, catalog : ItemRows, todo : SUBSET Locations]
         /\ backfill'.at = "linking" /\ backfill'.rows = backfill.rows
         /\ backfill'.catalog = backfill.catalog /\ backfill'.todo = backfill.todo \ {l}
  <2>1. CASE backfill.todo = {l}
    BY <1>1, <2>1 DEF NotRunning
  <2>2. CASE backfill.todo # {l}
    <3>1. backfill' = [backfill EXCEPT !.todo = @ \ {l}] /\ backfill.todo \ {l} \in SUBSET Locations
      BY <1>1, <1>3, <2>2
    <3> QED
      BY <1>2, <3>1
  <2> QED
    BY <2>1, <2>2
<1>5. /\ listing' \in BackfillRows
      /\ \A k \in Locations \ {l} : listing'[k] = listing[k]
      /\ \A k \in Locations : listing'[k].price = listing[k].price
      /\ \/ listing' = listing /\ backfill.rows[l].linked
         \/ listing'[l].linked /\ listing'[l].name = backfill.catalog.name
  <2>1. CASE backfill.rows[l].linked
    BY <1>1, <1>2, <2>1
  <2>2. CASE ~backfill.rows[l].linked
    <3> DEFINE linkedRow == [listing[l] EXCEPT !.linked = TRUE]
               linkedListing == [listing EXCEPT ![l] = linkedRow]
               row == [linkedRow EXCEPT !.name = backfill.catalog.name]
    <3>1. listing' = [listing EXCEPT ![l] = row]
      <4>1. listing' = [linkedListing EXCEPT ![l] = [linkedListing[l] EXCEPT !.name = backfill.catalog.name]]
        BY <1>1, <2>2
      <4>2. linkedListing[l] = linkedRow
        BY <1>2 DEF BackfillRows
      <4> HIDE DEF linkedRow
      <4> QED
        BY <1>2, <4>1, <4>2 DEF BackfillRows
    <3>2. listing[l] \in [name : Names, price : Tags, linked : BOOLEAN]
      BY <1>2 DEF BackfillRows
    <3>3. linkedRow \in [name : Names, price : Tags, linked : BOOLEAN] /\ linkedRow.linked
          /\ linkedRow.price = listing[l].price
      BY <3>2
    <3>4. row.linked /\ row.name = backfill.catalog.name /\ row.price = listing[l].price
          /\ row \in [name : Names, price : Tags, linked : BOOLEAN]
      <4> HIDE DEF linkedRow
      <4> QED
        BY <1>3, <3>3
    <3> HIDE DEF row
    <3>5. listing' \in BackfillRows /\ listing'[l] = row
      BY <1>2, <3>1, <3>4 DEF BackfillRows
    <3>6. \A k \in Locations \ {l} : listing'[k] = listing[k]
      BY <1>2, <3>1 DEF BackfillRows
    <3> QED
      BY <3>4, <3>5, <3>6
  <2> QED
    BY <2>1, <2>2
<1>6. master \in ItemRows /\ master # NoItem
  BY <1>1, BackfillPhases DEF BackfillInv, ItemBehindLinks
<1>7. BackfillTypeOK'
  <2>1. backfill'.at \in {"idle", "read", "recorded", "linking"}
    BY <1>4
  <2> QED
    BY <1>1, <1>5, <2>1 DEF BackfillInv, BackfillTypeOK, BackfillRows
<1>8. BackfillRunOK'
  BY <1>1, <1>2, <1>4 DEF BackfillRunOK
<1>9. ItemBehindLinks'
  BY <1>1, <1>6 DEF ItemBehindLinks
<1>10. BackfillCoversPrices' /\ LinkingCovered'
  <2>1. \A k \in Locations \ raised : listing'[k].price <= master.ceiling
    BY <1>1, <1>5 DEF BackfillInv, LinkingCovered
  <2> QED
    BY <1>1, <2>1 DEF BackfillCoversPrices, LinkingCovered
<1>11. LinkedShareName' /\ LinkingName' /\ MisnamedMuddled'
  <2>1. LinkedShareName /\ LinkingName /\ MisnamedMuddled
    BY DEF BackfillInv
  <2>2. LinkingName'
    BY <1>1, <1>4, <2>1 DEF LinkingName
  <2>3. LinkedShareName'
    <3> SUFFICES ASSUME ~misnamed, NEW k \in Locations, listing'[k].linked
                 PROVE  listing'[k].name = master.name
      BY <1>1 DEF LinkedShareName
    <3>1. backfill.catalog.name = master.name
      BY <1>1, <2>1 DEF LinkingName
    <3>2. listing[k].linked => listing[k].name = master.name
      BY <2>1 DEF LinkedShareName
    <3> QED
      BY <1>5, <3>1, <3>2
  <2> QED
    BY <1>1, <2>1, <2>2, <2>3 DEF MisnamedMuddled
<1>12. BeforeItem'
  BY <1>1, <1>6 DEF BeforeItem
<1>13. AfterItem'
  <2> SUFFICES ASSUME ~muddled PROVE AfterItem'
    BY <1>1 DEF AfterItem
  <2>1. AfterItem
    BY DEF BackfillInv
  <2>2. NamesRecorded'
    <3>1. NamesRecorded
      BY <1>6, <2>1 DEF AfterItem
    <3> QED
      BY <1>1, <3>1 DEF NamesRecorded
  <2>3. backfill'.at \notin {"read", "recorded"}
    BY <1>4
  <2>4. CASE \A k \in Locations : listing[k].linked
    <3>1. \A k \in Locations : listing'[k].linked
      BY <1>5, <2>4
    <3> QED
      BY <2>2, <2>3, <3>1 DEF AfterItem
  <2>5. CASE /\ \A k \in Locations : ~backfill.rows[k].linked
             /\ \A k \in Locations : k \in backfill.todo \/ listing[k].linked
    <3>1. \A k \in Locations : k \in backfill.todo \ {l} \/ listing'[k].linked
      BY <1>5, <2>5
    <3> QED
      BY <1>4, <2>2, <2>3, <2>5, <3>1 DEF AfterItem
  <2> QED
    BY <1>6, <2>1, <2>4, <2>5 DEF AfterItem
<1> QED
  BY <1>7, <1>8, <1>9, <1>10, <1>11, <1>12, <1>13 DEF BackfillInv

\* A store changes a price: a linked product stays under the ceiling.
LEMMA ChangePriceKeeps ==
  ASSUME BackfillInv, NEW l \in Locations, NEW price \in Tags, ChangePrice(l, price)
  PROVE  BackfillInv'
<1>1. /\ edits < MaxEdits /\ edits' = edits + 1
      /\ listing[l].linked => price <= master.ceiling
      /\ listing' = [listing EXCEPT ![l].price = price]
      /\ raised' = IF backfill.at = "linking" THEN raised \cup {l} ELSE raised
      /\ UNCHANGED <<master, disputes, backfill, firstName, muddled, misnamed>>
  BY DEF ChangePrice
<1>2. listing \in BackfillRows
  BY BackfillPhases
<1>3. /\ listing' \in BackfillRows
      /\ \A k \in Locations \ {l} : listing'[k] = listing[k]
      /\ \A k \in Locations : listing'[k].name = listing[k].name /\ listing'[k].linked = listing[k].linked
      /\ listing'[l].price = price
  <2> DEFINE row == [listing[l] EXCEPT !.price = price]
  <2>1. listing' = [listing EXCEPT ![l] = row]
    BY <1>1
  <2>2. listing[l] \in [name : Names, price : Tags, linked : BOOLEAN]
    BY <1>2 DEF BackfillRows
  <2>3. row \in [name : Names, price : Tags, linked : BOOLEAN]
    BY <2>2
  <2>4. row.linked = listing[l].linked /\ row.name = listing[l].name /\ row.price = price
    BY <2>2
  <2> HIDE DEF row
  <2>5. listing' \in BackfillRows /\ listing'[l] = row /\ \A k \in Locations \ {l} : listing'[k] = listing[k]
    BY <1>2, <2>1, <2>3 DEF BackfillRows
  <2> QED
    BY <2>4, <2>5
<1>4. BackfillTypeOK'
  <2>1. edits' \in 0 .. MaxEdits
    <3>1. edits \in 0 .. MaxEdits /\ MaxEdits \in Nat
      BY BackfillAssumption DEF BackfillInv, BackfillTypeOK
    <3> QED
      BY <1>1, <3>1
  <2>2. raised' \subseteq Locations
    BY <1>1 DEF BackfillInv, BackfillTypeOK
  <2> QED
    BY <1>1, <1>3, <2>1, <2>2 DEF BackfillInv, BackfillTypeOK, BackfillRows
<1>5. BackfillRunOK'
  BY <1>1 DEF BackfillInv, BackfillRunOK
<1>6. ItemBehindLinks'
  BY <1>1, <1>3 DEF BackfillInv, ItemBehindLinks
<1>7. BackfillCoversPrices'
  <2> SUFFICES ASSUME NEW k \in Locations \ raised', listing'[k].linked
               PROVE  listing'[k].price <= master.ceiling
    BY <1>1 DEF BackfillCoversPrices
  <2>1. CASE k = l
    BY <1>1, <1>3, <2>1
  <2>2. CASE k # l
    BY <1>1, <1>3, <2>2 DEF BackfillInv, BackfillCoversPrices
  <2> QED
    BY <2>1, <2>2
<1>8. LinkingCovered'
  BY <1>1, <1>3 DEF BackfillInv, LinkingCovered
<1>9. LinkedShareName' /\ LinkingName' /\ MisnamedMuddled'
  BY <1>1, <1>3 DEF BackfillInv, LinkedShareName, LinkingName, MisnamedMuddled
<1>10. BeforeItem'
  BY <1>1, <1>3 DEF BackfillInv, BeforeItem, NamesRecorded
<1>11. AfterItem'
  BY <1>1, <1>3 DEF BackfillInv, AfterItem, NamesRecorded
<1> QED
  BY <1>4, <1>5, <1>6, <1>7, <1>8, <1>9, <1>10, <1>11 DEF BackfillInv

\* The item is renamed, and with it the products that are linked.
LEMMA RenameItemKeeps ==
  ASSUME BackfillInv, NEW n \in Names, RenameItem(n)
  PROVE  BackfillInv'
<1>1. /\ edits < MaxEdits /\ edits' = edits + 1 /\ master # NoItem
      /\ master' = [master EXCEPT !.name = n]
      /\ listing' = [l \in Locations |-> IF listing[l].linked THEN [listing[l] EXCEPT !.name = n] ELSE listing[l]]
      /\ UNCHANGED <<disputes, backfill, firstName, raised>>
  BY DEF RenameItem
<1>2. misnamed' = (backfill.at = "linking") /\ muddled' = (muddled \/ backfill.at = "linking")
  BY DEF RenameItem
<1>3. master \in ItemRows /\ listing \in BackfillRows
  BY <1>1, BackfillPhases
<1>4. master' \in ItemRows /\ master'.name = n /\ master'.ceiling = master.ceiling /\ master' # NoItem
  BY <1>1, <1>3, BackfillAssumption DEF ItemRows
<1>5. \A l \in Locations :
        /\ listing'[l] \in [name : Names, price : Tags, linked : BOOLEAN]
        /\ listing'[l].linked = listing[l].linked /\ listing'[l].price = listing[l].price
        /\ listing[l].linked => listing'[l].name = n
  <2> TAKE l \in Locations
  <2>1. listing[l] \in [name : Names, price : Tags, linked : BOOLEAN]
    BY <1>3 DEF BackfillRows
  <2>2. CASE listing[l].linked
    <3>1. listing'[l] = [listing[l] EXCEPT !.name = n]
      BY <1>1, <2>2
    <3> QED
      BY <2>1, <3>1
  <2>3. CASE ~listing[l].linked
    <3>1. listing'[l] = listing[l]
      BY <1>1, <2>3
    <3> QED
      BY <2>1, <2>3, <3>1
  <2> QED
    BY <2>2, <2>3
<1>6. BackfillTypeOK'
  <2>1. edits' \in 0 .. MaxEdits
    <3>1. edits \in 0 .. MaxEdits /\ MaxEdits \in Nat
      BY BackfillAssumption DEF BackfillInv, BackfillTypeOK
    <3> QED
      BY <1>1, <3>1
  <2>2. listing' \in [Locations -> [name : Names, price : Tags, linked : BOOLEAN]]
    BY <1>1, <1>5, Zenon
  <2>3. misnamed' \in BOOLEAN /\ muddled' \in BOOLEAN
    BY <1>2, Zenon
  <2> QED
    BY <1>1, <1>4, <2>1, <2>2, <2>3 DEF BackfillInv, BackfillTypeOK, ItemRows
<1>7. BackfillRunOK'
  BY <1>1 DEF BackfillInv, BackfillRunOK
<1>8. ItemBehindLinks'
  BY <1>4 DEF ItemBehindLinks
<1>9. BackfillCoversPrices' /\ LinkingCovered'
  BY <1>1, <1>4, <1>5 DEF BackfillInv, BackfillCoversPrices, LinkingCovered
<1>10. LinkedShareName' /\ LinkingName' /\ MisnamedMuddled'
  BY <1>1, <1>2, <1>4, <1>5 DEF LinkedShareName, LinkingName, MisnamedMuddled
<1>11. BeforeItem'
  BY <1>4 DEF BeforeItem
<1>12. AfterItem'
  BY <1>1, <1>2, <1>5 DEF BackfillInv, AfterItem, NamesRecorded
<1> QED
  BY <1>6, <1>7, <1>8, <1>9, <1>10, <1>11, <1>12 DEF BackfillInv

\* A disagreement that is accepted keeps its values.
LEMMA ResolveDisagreementKeeps ==
  ASSUME BackfillInv, NEW row \in disputes, resolveCatalogDisagreement(row)
  PROVE  BackfillInv'
<1> DEFINE closed == [row EXCEPT !.open = FALSE]
           Disputes == [values : SUBSET Names, chosen : Names, open : BOOLEAN]
<1>1. /\ disputes' = (disputes \ {row}) \cup {closed}
      /\ UNCHANGED <<listing, master, backfill, firstName, muddled, raised, misnamed, edits>>
  BY DEF resolveCatalogDisagreement
<1>2. disputes \subseteq Disputes
  BY DEF BackfillInv, BackfillTypeOK
<1>3. closed \in Disputes /\ closed.values = row.values
  BY <1>2
<1> HIDE DEF closed
<1>4. BackfillTypeOK'
  <2>1. disputes' \subseteq Disputes
    BY <1>1, <1>2, <1>3
  <2> QED
    BY <1>1, <2>1 DEF BackfillInv, BackfillTypeOK
<1>5. NamesRecorded => NamesRecorded'
  <2> SUFFICES ASSUME NEW l \in Locations, NEW r \in disputes, firstName[l] \in r.values
               PROVE  \E q \in disputes' : firstName[l] \in q.values
    BY <1>1 DEF NamesRecorded
  <2> QED
    BY <1>1, <1>3
<1>6. BackfillRunOK' /\ ItemBehindLinks' /\ BackfillCoversPrices' /\ LinkingCovered'
  BY <1>1 DEF BackfillInv, BackfillRunOK, ItemBehindLinks, BackfillCoversPrices, LinkingCovered
<1>7. LinkedShareName' /\ LinkingName' /\ MisnamedMuddled'
  BY <1>1 DEF BackfillInv, LinkedShareName, LinkingName, MisnamedMuddled
<1>8. BeforeItem' /\ AfterItem'
  BY <1>1, <1>5 DEF BackfillInv, BeforeItem, AfterItem
<1> QED
  BY <1>4, <1>6, <1>7, <1>8 DEF BackfillInv

\* The invariant is what the property says, and more.
LEMMA BackfillInvImplies ==
  ASSUME BackfillInv
  PROVE  BackfillFaithful
<1>1. ReplacedNameOnRecord
  <2> SUFFICES ASSUME NEW l \in Locations, listing[l].linked, ~muddled,
                      NEW k \in Locations, firstName[k] # firstName[l]
               PROVE  \E row \in disputes : firstName[l] \in row.values
    BY DEF ReplacedNameOnRecord
  <2>1. master # NoItem
    BY DEF BackfillInv, ItemBehindLinks
  <2>2. NamesRecorded
    BY <2>1 DEF BackfillInv, AfterItem
  <2> QED
    BY <2>2 DEF NamesRecorded
<1> QED
  BY <1>1 DEF BackfillInv, BackfillFaithful

\* However often the script runs, wherever it is interrupted and whatever the
\* stores and the administrator change meanwhile: the products it has linked
\* have one name (unless a rename crossed it), none is over the ceiling (unless
\* its store raised the price while the script ran), and the names it has
\* replaced are on record (unless a run was interrupted or crossed by a rename).
THEOREM BackfillStaysFaithful == BackfillSpec => []BackfillFaithful
<1>1. BackfillInit => BackfillInv
  BY BackfillInvInit
<1>2. BackfillInv /\ [BackfillNext]_backfillVars => BackfillInv'
  <2> SUFFICES ASSUME BackfillInv, [BackfillNext]_backfillVars PROVE BackfillInv'
    OBVIOUS
  <2>1. CASE UNCHANGED backfillVars
    <3>1. UNCHANGED <<listing, master, disputes, backfill, firstName, muddled, raised, misnamed, edits>>
      BY <2>1 DEF backfillVars
    <3>2. BackfillTypeOK' /\ BackfillRunOK' /\ ItemBehindLinks' /\ BackfillCoversPrices' /\ LinkingCovered'
      BY <3>1 DEF BackfillInv, BackfillTypeOK, BackfillRunOK, ItemBehindLinks, BackfillCoversPrices, LinkingCovered
    <3>3. LinkedShareName' /\ LinkingName' /\ MisnamedMuddled'
      BY <3>1 DEF BackfillInv, LinkedShareName, LinkingName, MisnamedMuddled
    <3>4. BeforeItem' /\ AfterItem'
      BY <3>1 DEF BackfillInv, BeforeItem, AfterItem, NamesRecorded
    <3> QED
      BY <3>2, <3>3, <3>4 DEF BackfillInv
  <2>2. CASE ReadProducts
    BY <2>2, ReadProductsKeeps
  <2>3. CASE RecordDisagreement
    BY <2>3, RecordDisagreementKeeps
  <2>4. CASE MakeItem
    BY <2>4, MakeItemKeeps
  <2>5. CASE StopBackfill
    BY <2>5, StopBackfillKeeps
  <2>6. ASSUME NEW l \in Locations, LinkProduct(l) PROVE BackfillInv'
    BY <2>6, LinkProductKeeps
  <2>7. ASSUME NEW l \in Locations, NEW t \in Tags, ChangePrice(l, t) PROVE BackfillInv'
    BY <2>7, ChangePriceKeeps
  <2>8. ASSUME NEW n \in Names, RenameItem(n) PROVE BackfillInv'
    BY <2>8, RenameItemKeeps
  <2>9. ASSUME NEW row \in disputes, resolveCatalogDisagreement(row) PROVE BackfillInv'
    BY <2>9, ResolveDisagreementKeeps
  <2> QED
    BY <2>1, <2>2, <2>3, <2>4, <2>5, <2>6, <2>7, <2>8, <2>9 DEF BackfillNext
<1>3. BackfillInv => BackfillFaithful
  BY BackfillInvImplies
<1> QED
  BY <1>1, <1>2, <1>3, PTL DEF BackfillSpec

-----------------------------------------------------------------------------
(* The migration to lots *)

\* Where a run of the script is and what it has read.
ScriptStates ==
  {NotStarted}
    \cup [at : {"creating"}, rows : [LegacyGoods -> Row], todo : SUBSET LegacyGoods]
    \cup [at : {"verifying"}, rows : [LegacyGoods -> Row]]

\* The rollup is the shelf; nothing of a product that has no lot moves, so what
\* the script has read of it is still true when the lot is made.
Untouched(p) ==
  legacyLot[p] = NoLot /\ p \notin early =>
    /\ received[p] = 0
    /\ script.at = "creating" => script.rows[p] = rollup[p]

\* A product that has its LEGACY lot is tracked by its lots.
Tracked(p) == rollup[p] = [stock |-> InLots(p), reserved |-> HeldInLots(p)]

LegacyInv ==
  /\ LegacyTypeOK
  /\ script \in ScriptStates
  /\ \A p \in LegacyGoods :
       /\ rollup[p].stock = shelf[p]
       /\ Untouched(p)
       /\ legacyLot[p] # NoLot /\ p \notin early => Tracked(p)
  /\ script # NotStarted => outcome = "none"
  /\ script.at = "verifying" /\ ~busy => script.rows = rollup
  /\ outcome = "ok" /\ ~busy => \A p \in LegacyGoods : Tracked(p)

\* The migration starts with stock, holds and no lots.
LEMMA LegacyStart == LegacyInit => LegacyInv
<1> SUFFICES ASSUME LegacyInit PROVE LegacyInv
  OBVIOUS
<1>1. PICK held \in [LegacyGoods -> 0 .. 1] :
        /\ \A p \in LegacyGoods : held[p] <= shelf[p]
        /\ rollup = [p \in LegacyGoods |-> [stock |-> shelf[p], reserved |-> held[p]]]
  BY DEF LegacyInit
<1>2. rollup \in [LegacyGoods -> Row]
  BY <1>1, LegacyAssumption DEF LegacyInit, Row
<1>3. script = NotStarted /\ script.at = "idle"
  BY DEF LegacyInit, NotStarted
<1>4. LegacyTypeOK
  <2>1. legacyLot \in [LegacyGoods -> LotRow \cup {NoLot}]
    BY DEF LegacyInit
  <2>2. received \in [LegacyGoods -> 0 .. MaxShelf]
    BY LegacyAssumption DEF LegacyInit
  <2>3. busy \in BOOLEAN /\ early \subseteq LegacyGoods /\ outcome = "none"
    BY DEF LegacyInit
  <2>4. shelf \in [LegacyGoods -> 0 .. MaxShelf]
    BY DEF LegacyInit
  <2> QED
    BY <1>2, <1>3, <2>1, <2>2, <2>3, <2>4 DEF LegacyTypeOK
<1>5. \A p \in LegacyGoods : rollup[p].stock = shelf[p] /\ received[p] = 0 /\ legacyLot[p] = NoLot
  BY <1>1 DEF LegacyInit
<1>6. script \in ScriptStates
  BY <1>3 DEF ScriptStates
<1>7. outcome = "none"
  BY DEF LegacyInit
<1> QED
  BY <1>3, <1>4, <1>5, <1>6, <1>7 DEF LegacyInv, Untouched

\* What the shops do moves the rollup and one lot by the same unit.
LEMMA ReceiveIntoLotStep ==
  ASSUME LegacyInv, NEW p \in LegacyGoods, ReceiveIntoLot(p)
  PROVE  LegacyInv'
<1>1. /\ rollup' = [rollup EXCEPT ![p].stock = @ + 1]
      /\ shelf' = [shelf EXCEPT ![p] = @ + 1]
      /\ received' = [received EXCEPT ![p] = @ + 1]
      /\ script' = script /\ outcome' = outcome /\ legacyLot' = legacyLot
      /\ shelf[p] < MaxShelf /\ received[p] < MaxShelf
      /\ busy' = (busy \/ script.at = "verifying")
      /\ early' = IF legacyLot[p] = NoLot THEN early \cup {p} ELSE early
  BY DEF ReceiveIntoLot, Moved
<1>2. /\ rollup \in [LegacyGoods -> Row] /\ legacyLot \in [LegacyGoods -> LotRow \cup {NoLot}]
      /\ shelf \in [LegacyGoods -> 0 .. MaxShelf] /\ received \in [LegacyGoods -> 0 .. MaxShelf]
      /\ rollup[p].stock = shelf[p] /\ MaxShelf \in Nat /\ NoLot \notin LotRow
  BY LegacyAssumption DEF LegacyInv, LegacyTypeOK
<1>3. LegacyTypeOK'
  BY <1>1, <1>2 DEF LegacyInv, LegacyTypeOK, Row
<1>4. ASSUME NEW q \in LegacyGoods
      PROVE  /\ rollup'[q].stock = shelf'[q] /\ Untouched(q)'
             /\ Tracked(q) => Tracked(q)'
             /\ legacyLot'[q] # NoLot /\ q \notin early' => legacyLot[q] # NoLot /\ q \notin early
  BY <1>1, <1>2 DEF LegacyInv, Untouched, Tracked, InLots, HeldInLots, Row, LotRow
<1> QED
  BY <1>1, <1>3, <1>4 DEF LegacyInv

\* A unit leaves the rollup and the lot it is sold from.
LEMMA SellFromLotStep ==
  ASSUME LegacyInv, NEW p \in LegacyGoods, SellFromLot(p)
  PROVE  LegacyInv'
<1>1. /\ rollup' = [rollup EXCEPT ![p].stock = @ - 1]
      /\ shelf' = [shelf EXCEPT ![p] = @ - 1]
      /\ script' = script /\ outcome' = outcome /\ early' = early
      /\ shelf[p] > 0
      /\ busy' = (busy \/ script.at = "verifying")
  BY DEF SellFromLot, Moved
<1>2. /\ rollup \in [LegacyGoods -> Row] /\ legacyLot \in [LegacyGoods -> LotRow \cup {NoLot}]
      /\ shelf \in [LegacyGoods -> 0 .. MaxShelf] /\ received \in [LegacyGoods -> 0 .. MaxShelf]
      /\ rollup[p].stock = shelf[p] /\ MaxShelf \in Nat /\ NoLot \notin LotRow
  BY LegacyAssumption DEF LegacyInv, LegacyTypeOK
<1>3. \/ received[p] > 0 /\ received' = [received EXCEPT ![p] = @ - 1] /\ legacyLot' = legacyLot
      \/ /\ legacyLot[p] # NoLot
         /\ legacyLot[p].remaining > legacyLot[p].reserved
         /\ legacyLot' = [legacyLot EXCEPT ![p].remaining = @ - 1]
         /\ received' = received
  BY DEF SellFromLot
<1>4. legacyLot' \in [LegacyGoods -> LotRow \cup {NoLot}] /\ received' \in [LegacyGoods -> 0 .. MaxShelf]
  BY <1>2, <1>3 DEF LotRow
<1>5. LegacyTypeOK'
  <2>1. rollup' \in [LegacyGoods -> Row] /\ shelf' \in [LegacyGoods -> 0 .. MaxShelf]
    BY <1>1, <1>2 DEF Row
  <2> QED
    BY <1>1, <1>4, <2>1 DEF LegacyInv, LegacyTypeOK
<1>6. ASSUME NEW q \in LegacyGoods
      PROVE  /\ rollup'[q].stock = shelf'[q] /\ Untouched(q)'
             /\ Tracked(q) => Tracked(q)'
             /\ legacyLot'[q] # NoLot => legacyLot[q] # NoLot
  <2>1. rollup'[q].stock = shelf'[q]
    BY <1>1, <1>2 DEF LegacyInv, Row
  <2>2. legacyLot'[q] = NoLot <=> legacyLot[q] = NoLot
    BY <1>2, <1>3 DEF LotRow
  <2>3. Untouched(q)'
    <3>1. CASE q = p
      BY <1>1, <1>2, <1>3, <2>2, <3>1 DEF LegacyInv, Untouched
    <3>2. CASE q # p
      BY <1>1, <1>2, <1>3, <2>2, <3>2 DEF LegacyInv, Untouched
    <3> QED
      BY <3>1, <3>2
  <2>4. Tracked(q) => Tracked(q)'
    BY <1>1, <1>2, <1>3, <2>2 DEF Tracked, InLots, HeldInLots, Row, LotRow
  <2> QED
    BY <2>1, <2>2, <2>3, <2>4
<1> QED
  BY <1>1, <1>5, <1>6 DEF LegacyInv

\* The script makes a lot of what it read, which for a product nobody touched
\* is what is there; a lot that exists is left alone.
LEMMA MigrateProductStep ==
  ASSUME LegacyInv, NEW p \in LegacyGoods, MigrateProduct(p)
  PROVE  LegacyInv'
<1>1. /\ script \in [at : {"creating"}, rows : [LegacyGoods -> Row], todo : SUBSET LegacyGoods]
      /\ script' = [script EXCEPT !.todo = @ \ {p}]
      /\ rollup' = rollup /\ received' = received /\ outcome' = outcome /\ shelf' = shelf
      /\ early' = early /\ busy' = busy /\ script.at = "creating"
  BY DEF MigrateProduct, LegacyInv, ScriptStates, NotStarted
<1>2. /\ rollup \in [LegacyGoods -> Row] /\ legacyLot \in [LegacyGoods -> LotRow \cup {NoLot}]
      /\ received \in [LegacyGoods -> 0 .. MaxShelf]
      /\ MaxShelf \in Nat /\ NoLot \notin LotRow
  BY LegacyAssumption DEF LegacyInv, LegacyTypeOK
<1>3. script' \in ScriptStates /\ script'.at = "creating" /\ script'.rows = script.rows
  BY <1>1 DEF ScriptStates
<1>4. CASE legacyLot[p] # NoLot
  <2>1. legacyLot' = legacyLot
    BY <1>4 DEF MigrateProduct, Existing
  <2>2. LegacyTypeOK'
    BY <1>1, <1>3, <2>1 DEF LegacyInv, LegacyTypeOK
  <2>3. ASSUME NEW q \in LegacyGoods
        PROVE  Untouched(q)' /\ (Tracked(q) <=> Tracked(q)')
    BY <1>1, <1>3, <2>1 DEF LegacyInv, Untouched, Tracked, InLots, HeldInLots
  <2> QED
    BY <1>1, <1>3, <2>1, <2>2, <2>3 DEF LegacyInv, NotStarted
<1>5. CASE legacyLot[p] = NoLot
  <2> DEFINE lot == [remaining |-> script.rows[p].stock, reserved |-> script.rows[p].reserved]
  <2>1. legacyLot' = [legacyLot EXCEPT ![p] = lot]
    BY <1>5 DEF MigrateProduct, Existing
  <2>2. lot \in LotRow
    BY <1>1 DEF Row, LotRow
  <2>3. LegacyTypeOK'
    BY <1>1, <1>2, <1>3, <2>1, <2>2 DEF LegacyInv, LegacyTypeOK
  <2>4. outcome # "ok"
    BY <1>1 DEF LegacyInv, NotStarted
  <2>5. ASSUME NEW q \in LegacyGoods, q # p
        PROVE  Untouched(q)' /\ (Tracked(q) => Tracked(q)') /\ legacyLot'[q] = legacyLot[q]
    BY <1>1, <1>2, <1>3, <2>1, <2>5 DEF LegacyInv, Untouched, Tracked, InLots, HeldInLots
  <2>6. legacyLot'[p] = lot /\ lot # NoLot
    BY <1>2, <2>1, <2>2
  <2>7. p \notin early => Tracked(p)'
    <3>1. ASSUME p \notin early PROVE received[p] = 0 /\ script.rows[p] = rollup[p]
      BY <1>1, <1>5, <3>1 DEF LegacyInv, Untouched
    <3>2. rollup[p] \in Row
      BY <1>2
    <3> QED
      BY <1>1, <1>2, <2>6, <3>1, <3>2 DEF Tracked, InLots, HeldInLots, Row
  <2>8. Untouched(p)'
    BY <2>6 DEF Untouched
  <2> QED
    BY <1>1, <1>3, <2>3, <2>4, <2>5, <2>6, <2>7, <2>8 DEF LegacyInv, NotStarted
<1> QED
  BY <1>4, <1>5

\* Where a run begins, verifies, ends or is interrupted, only the script moves.
LEMMA ScriptStep ==
  ASSUME LegacyInv, BeginMigration \/ BeginVerification \/ EndMigration \/ StopMigration
  PROVE  LegacyInv'
<1>1. /\ rollup' = rollup /\ legacyLot' = legacyLot /\ received' = received
      /\ shelf' = shelf /\ early' = early
  BY DEF BeginMigration, BeginVerification, EndMigration, StopMigration
<1>2. \A q \in LegacyGoods : Tracked(q)' <=> Tracked(q)
  BY <1>1 DEF Tracked, InLots, HeldInLots
<1>3. rollup \in [LegacyGoods -> Row]
  BY DEF LegacyInv, LegacyTypeOK
<1>4. CASE BeginMigration
  <2>1. /\ script' \in [at : {"creating"}, rows : [LegacyGoods -> Row], todo : SUBSET LegacyGoods]
        /\ script'.rows = rollup /\ script'.at = "creating" /\ outcome' = "none" /\ busy' = busy
    BY <1>3, <1>4 DEF BeginMigration
  <2>2. LegacyTypeOK' /\ script' \in ScriptStates
    BY <1>1, <2>1 DEF LegacyInv, LegacyTypeOK, ScriptStates
  <2> QED
    BY <1>1, <1>2, <2>1, <2>2 DEF LegacyInv, Untouched
<1>5. CASE BeginVerification
  <2>1. /\ script' \in [at : {"verifying"}, rows : [LegacyGoods -> Row]]
        /\ script'.rows = rollup /\ script'.at = "verifying" /\ outcome' = outcome /\ busy' = FALSE
        /\ outcome = "none"
    BY <1>3, <1>5 DEF BeginVerification, LegacyInv, NotStarted
  <2>2. LegacyTypeOK' /\ script' \in ScriptStates
    BY <1>1, <2>1 DEF LegacyInv, LegacyTypeOK, ScriptStates
  <2> QED
    BY <1>1, <1>2, <2>1, <2>2 DEF LegacyInv, Untouched
<1>6. CASE EndMigration
  <2>1. /\ script' = NotStarted /\ script'.at = "idle" /\ busy' = busy
        /\ outcome' = IF \E p \in LegacyGoods : Mismatch(p) THEN "failed" ELSE "ok"
        /\ script.at = "verifying"
    BY <1>6 DEF EndMigration, NotStarted
  <2>2. LegacyTypeOK' /\ script' \in ScriptStates
    BY <1>1, <2>1 DEF LegacyInv, LegacyTypeOK, ScriptStates
  <2>3. ASSUME outcome' = "ok", ~busy, NEW q \in LegacyGoods PROVE Tracked(q)
    <3>1. ~Mismatch(q)
      BY <2>1, <2>3
    <3>2. script.rows[q] = rollup[q]
      BY <2>1, <2>3 DEF LegacyInv
    <3>3. rollup[q] \in Row
      BY <1>3
    <3> QED
      BY <3>1, <3>2, <3>3 DEF Mismatch, Tracked, Row
  <2> QED
    BY <1>1, <1>2, <2>1, <2>2, <2>3 DEF LegacyInv, Untouched
<1>7. CASE StopMigration
  <2>1. /\ script' = NotStarted /\ script'.at = "idle" /\ busy' = busy /\ outcome' = "stopped"
    BY <1>7 DEF StopMigration, NotStarted
  <2>2. LegacyTypeOK' /\ script' \in ScriptStates
    BY <1>1, <2>1 DEF LegacyInv, LegacyTypeOK, ScriptStates
  <2> QED
    BY <1>1, <1>2, <2>1, <2>2 DEF LegacyInv, Untouched
<1> QED
  BY <1>4, <1>5, <1>6, <1>7

\* The migration invents and loses no unit and its verification can be trusted,
\* however often the script stops and is run again while the shops go on.
THEOREM MigrationStaysExact == LegacySpec => []MigrationExact
<1>1. LegacyInv /\ [LegacyNext]_legacyVars => LegacyInv'
  <2> SUFFICES ASSUME LegacyInv, [LegacyNext]_legacyVars PROVE LegacyInv'
    OBVIOUS
  <2>1. ASSUME NEW p \in LegacyGoods, ReceiveIntoLot(p) \/ SellFromLot(p) \/ MigrateProduct(p)
        PROVE  LegacyInv'
    BY <2>1, ReceiveIntoLotStep, SellFromLotStep, MigrateProductStep
  <2>2. CASE UNCHANGED legacyVars
    BY <2>2 DEF legacyVars, LegacyInv, LegacyTypeOK, Untouched, Tracked, InLots, HeldInLots
  <2> QED
    BY <2>1, <2>2, ScriptStep DEF LegacyNext
<1>2. LegacyInv => MigrationExact
  BY DEF LegacyInv, MigrationExact, LegacyUnitsExact, VerifiedMeansTracked, Tracked, Untouched,
         LegacyTypeOK, Row
<1> QED
  BY <1>1, <1>2, LegacyStart, PTL DEF LegacySpec

=============================================================================
