---------------------------- MODULE TotalsProofs ----------------------------
(***************************************************************************)
(* Laws of Total for every finite set and every integer column: it is      *)
(* additive in the column and in the set, and blind outside the set.       *)
(* Proved by counting: units of a sum of columns are the units of the one  *)
(* column followed by those of the other, shifted.  Then induction over    *)
(* the numbers, for what is computed one row after the other.              *)
(***************************************************************************)
EXTENDS Totals, FiniteSetTheorems, FunctionTheorems, WellFoundedInduction, TLAPS

IntegerOn(f, S) == \A x \in S : f[x] \in Int

NaturalOn(f, S) == \A x \in S : f[x] \in Nat

Count(f, S) == Cardinality(Units(f, S))

-----------------------------------------------------------------------------

\* A unit is a row with a number between one and its quantity.
LEMMA UnitsMember ==
  ASSUME NEW f, NEW S, NEW u
  PROVE  u \in Units(f, S) <=> \E x \in S : \E i \in 1 .. f[x] : u = <<x, i>>
BY DEF Units

\* Finitely many rows of integer quantities have finitely many units.
LEMMA UnitsFinite ==
  ASSUME NEW S, IsFiniteSet(S), NEW f, IntegerOn(f, S)
  PROVE  /\ IsFiniteSet(Units(f, S))
         /\ Count(f, S) \in Nat
<1> DEFINE Row(x) == {x} \X (1 .. f[x])
           rows == {Row(x) : x \in S}
           g == [x \in S |-> Row(x)]
<1>1. g \in Surjection(S, rows)
  BY DEF Surjection
<1>2. IsFiniteSet(rows)
  BY <1>1, FS_Surjection
<1>3. \A R \in rows : IsFiniteSet(R)
  <2> TAKE R \in rows
  <2>1. PICK x \in S : R = {x} \X (1 .. f[x])
    OBVIOUS
  <2>2. f[x] \in Int
    BY DEF IntegerOn
  <2>3. IsFiniteSet(1 .. f[x])
    BY <2>2, FS_Interval
  <2>4. IsFiniteSet({x})
    BY FS_Singleton
  <2> QED
    BY <2>1, <2>3, <2>4, FS_Product
<1>4. IsFiniteSet(UNION rows)
  BY <1>2, <1>3, FS_UNION
<1>5. UNION rows = Units(f, S)
  BY DEF Units
<1> QED
  BY <1>4, <1>5, FS_CardinalityType DEF Count

\* Only the positive quantities have units.
LEMMA CountExtensional ==
  ASSUME NEW S, NEW f, NEW g, IntegerOn(f, S), IntegerOn(g, S),
         \A x \in S : f[x] = g[x] \/ (f[x] <= 0 /\ g[x] <= 0)
  PROVE  Units(f, S) = Units(g, S)
<1>1. \A x \in S : 1 .. f[x] = 1 .. g[x]
  BY DEF IntegerOn
<1> QED
  BY <1>1 DEF Units

\* Disjoint finite sets have the sum of their sizes.
LEMMA DisjointCardinality ==
  ASSUME NEW A, IsFiniteSet(A), NEW B, IsFiniteSet(B), A \cap B = {}
  PROVE  Cardinality(A \cup B) = Cardinality(A) + Cardinality(B)
<1>1. Cardinality(A \cup B) = Cardinality(A) + Cardinality(B) - Cardinality(A \cap B)
  BY FS_Union
<1>2. Cardinality(A \cap B) = 0
  BY FS_EmptySet
<1>3. Cardinality(A) \in Nat /\ Cardinality(B) \in Nat
  BY FS_CardinalityType
<1> QED
  BY <1>1, <1>2, <1>3

\* Counting is additive over disjoint sets of rows.
LEMMA CountDisjoint ==
  ASSUME NEW S, IsFiniteSet(S), NEW T, IsFiniteSet(T), S \cap T = {},
         NEW f, IntegerOn(f, S \cup T)
  PROVE  Count(f, S \cup T) = Count(f, S) + Count(f, T)
<1>1. Units(f, S \cup T) = Units(f, S) \cup Units(f, T)
  BY DEF Units
<1>2. Units(f, S) \cap Units(f, T) = {}
  BY UnitsMember
<1>3. IsFiniteSet(Units(f, S)) /\ IsFiniteSet(Units(f, T))
  BY UnitsFinite DEF IntegerOn
<1> QED
  BY <1>1, <1>2, <1>3, DisjointCardinality DEF Count

\* Counting is additive in the column, for natural columns.
LEMMA CountAdd ==
  ASSUME NEW S, IsFiniteSet(S), NEW f, NEW g, NEW h,
         NaturalOn(f, S), NaturalOn(g, S), \A x \in S : h[x] = f[x] + g[x]
  PROVE  Count(h, S) = Count(f, S) + Count(g, S)
<1> DEFINE shift == [u \in Units(g, S) |-> <<u[1], f[u[1]] + u[2]>>]
           upper == {shift[u] : u \in Units(g, S)}
<1>1. \A x \in S : f[x] \in Nat /\ g[x] \in Nat /\ h[x] \in Nat
  BY DEF NaturalOn
<1>2. \A u \in Units(g, S) : u = <<u[1], u[2]>> /\ u[1] \in S /\ u[2] \in 1 .. g[u[1]]
  BY UnitsMember
<1>3. \A u, v \in Units(g, S) : shift[u] = shift[v] => u = v
  <2> SUFFICES ASSUME NEW u \in Units(g, S), NEW v \in Units(g, S), shift[u] = shift[v]
               PROVE  u = v
    OBVIOUS
  <2>1. u[1] = v[1] /\ f[u[1]] + u[2] = f[v[1]] + v[2]
    OBVIOUS
  <2>2. u[2] = v[2]
    BY <2>1, <1>1, <1>2
  <2> QED
    BY <2>1, <2>2, <1>2
<1>4. shift \in Bijection(Units(g, S), upper)
  BY <1>3 DEF Bijection, Injection, Surjection, IsInjective
<1>5. IsFiniteSet(Units(f, S)) /\ IsFiniteSet(Units(g, S))
  BY <1>1, UnitsFinite DEF IntegerOn
<1>6. IsFiniteSet(upper) /\ Cardinality(upper) = Cardinality(Units(g, S))
  BY <1>4, <1>5, FS_Bijection DEF ExistsBijection
<1>7. Units(h, S) = Units(f, S) \cup upper
  <2>1. ASSUME NEW w \in Units(h, S) PROVE w \in Units(f, S) \cup upper
    <3>0. PICK x \in S : \E i \in 1 .. h[x] : w = <<x, i>>
      BY <2>1, UnitsMember
    <3>1. PICK i \in 1 .. h[x] : w = <<x, i>>
      BY <3>0
    <3>2. CASE i <= f[x]
      <4>1. i \in 1 .. f[x]
        BY <3>2, <1>1
      <4> QED
        BY <4>1, <3>1, UnitsMember
    <3>3. CASE i > f[x]
      <4>1. i - f[x] \in 1 .. g[x] /\ f[x] + (i - f[x]) = i
        BY <3>3, <1>1
      <4>2. <<x, i - f[x]>> \in Units(g, S)
        BY <4>1, UnitsMember
      <4>3. shift[<<x, i - f[x]>>] = <<x, i>>
        BY <4>1, <4>2
      <4> QED
        BY <4>2, <4>3, <3>1
    <3> QED
      BY <3>2, <3>3, <1>1
  <2>2. ASSUME NEW w \in Units(f, S) PROVE w \in Units(h, S)
    <3>0. PICK x \in S : \E i \in 1 .. f[x] : w = <<x, i>>
      BY <2>2, UnitsMember
    <3>1. PICK i \in 1 .. f[x] : w = <<x, i>>
      BY <3>0
    <3>2. i \in 1 .. h[x]
      BY <1>1
    <3> QED
      BY <3>1, <3>2, UnitsMember
  <2>3. ASSUME NEW w \in upper PROVE w \in Units(h, S)
    <3>1. PICK u \in Units(g, S) : w = <<u[1], f[u[1]] + u[2]>>
      BY <2>3
    <3>2. u[1] \in S /\ f[u[1]] + u[2] \in 1 .. h[u[1]]
      BY <1>1, <1>2
    <3> QED
      BY <3>1, <3>2, UnitsMember
  <2> QED
    BY <2>1, <2>2, <2>3
<1>8. Units(f, S) \cap upper = {}
  <2> SUFFICES ASSUME NEW w \in Units(f, S), w \in upper PROVE FALSE
    OBVIOUS
  <2>0. PICK x \in S : \E i \in 1 .. f[x] : w = <<x, i>>
    BY UnitsMember
  <2>1. PICK i \in 1 .. f[x] : w = <<x, i>>
    BY <2>0
  <2>2. PICK u \in Units(g, S) : w = <<u[1], f[u[1]] + u[2]>>
    OBVIOUS
  <2>3. x = u[1] /\ i = f[x] + u[2]
    BY <2>1, <2>2
  <2>4. u[2] \in 1 .. g[x]
    BY <2>3, <1>2
  <2> QED
    BY <2>3, <2>4, <1>1
<1>9. Cardinality(Units(f, S) \cup upper) = Cardinality(Units(f, S)) + Cardinality(upper)
  BY <1>5, <1>6, <1>8, DisjointCardinality
<1> QED
  BY <1>6, <1>7, <1>9 DEF Count

\* One row counts its quantity.
LEMMA CountSingleton ==
  ASSUME NEW f, NEW x, f[x] \in Int
  PROVE  Count(f, {x}) = AtLeastZero(f[x])
<1> DEFINE b == [i \in 1 .. f[x] |-> <<x, i>>]
<1>1. b \in Bijection(1 .. f[x], Units(f, {x}))
  BY DEF Bijection, Injection, Surjection, IsInjective, Units
<1>2. /\ IsFiniteSet(1 .. f[x])
      /\ Cardinality(1 .. f[x]) = IF 1 > f[x] THEN 0 ELSE f[x] - 1 + 1
  BY FS_Interval
<1>3. Cardinality(Units(f, {x})) = Cardinality(1 .. f[x])
  BY <1>1, <1>2, FS_Bijection DEF ExistsBijection
<1> QED
  BY <1>2, <1>3 DEF Count, AtLeastZero

-----------------------------------------------------------------------------

\* The debit side of a total counts the negated column.
LEMMA TotalCounts ==
  ASSUME NEW S, NEW f, IntegerOn(f, S), NEW g, IntegerOn(g, S),
         \A x \in S : g[x] = -f[x]
  PROVE  Total(f, S) = Count(f, S) - Count(g, S)
<1>1. IntegerOn(Negated(f, S), S) /\ \A x \in S : Negated(f, S)[x] = g[x]
  BY DEF IntegerOn, Negated
<1>2. Units(Negated(f, S), S) = Units(g, S)
  BY <1>1, CountExtensional
<1> QED
  BY <1>2 DEF Total, Count

\* A total of integers is an integer.
THEOREM TotalType ==
  ASSUME NEW S, IsFiniteSet(S), NEW f, IntegerOn(f, S)
  PROVE  Total(f, S) \in Int
<1>1. IntegerOn(Negated(f, S), S)
  BY DEF IntegerOn, Negated
<1>2. Count(f, S) \in Nat /\ Count(Negated(f, S), S) \in Nat
  BY <1>1, UnitsFinite
<1> QED
  BY <1>2 DEF Total, Count

\* A total depends only on the rows summed.
THEOREM TotalExtensional ==
  ASSUME NEW S, NEW f, NEW g, IntegerOn(f, S), \A x \in S : f[x] = g[x]
  PROVE  Total(f, S) = Total(g, S)
<1>1. Units(f, S) = Units(g, S)
  BY DEF Units
<1>2. Negated(f, S) = Negated(g, S)
  BY DEF Negated
<1> QED
  BY <1>1, <1>2 DEF Total

\* A total over two disjoint sets of rows is the sum of the totals.
THEOREM TotalDisjoint ==
  ASSUME NEW S, IsFiniteSet(S), NEW T, IsFiniteSet(T), S \cap T = {},
         NEW f, IntegerOn(f, S \cup T)
  PROVE  Total(f, S \cup T) = Total(f, S) + Total(f, T)
<1> DEFINE n == Negated(f, S \cup T)
<1>1. IntegerOn(n, S \cup T) /\ \A x \in S \cup T : n[x] = -f[x]
  BY DEF IntegerOn, Negated
<1>2. /\ IntegerOn(f, S) /\ IntegerOn(f, T)
      /\ IntegerOn(n, S) /\ IntegerOn(n, T)
  BY <1>1 DEF IntegerOn
<1>3. /\ Total(f, S \cup T) = Count(f, S \cup T) - Count(n, S \cup T)
      /\ Total(f, S) = Count(f, S) - Count(n, S)
      /\ Total(f, T) = Count(f, T) - Count(n, T)
  <2> HIDE DEF n
  <2> QED
    BY <1>1, <1>2, TotalCounts
<1>4. /\ Count(f, S \cup T) = Count(f, S) + Count(f, T)
      /\ Count(n, S \cup T) = Count(n, S) + Count(n, T)
  BY <1>1, CountDisjoint
<1>5. /\ Count(f, S) \in Nat /\ Count(f, T) \in Nat
      /\ Count(n, S) \in Nat /\ Count(n, T) \in Nat
  BY <1>2, UnitsFinite
<1> QED
  BY <1>3, <1>4, <1>5

\* The total of a sum of columns is the sum of their totals.
THEOREM TotalAdd ==
  ASSUME NEW S, IsFiniteSet(S), NEW f, NEW g, NEW h,
         IntegerOn(f, S), IntegerOn(g, S), \A x \in S : h[x] = f[x] + g[x]
  PROVE  Total(h, S) = Total(f, S) + Total(g, S)
<1> DEFINE F == [x \in S |-> AtLeastZero(f[x])]
           f_ == [x \in S |-> AtLeastZero(-f[x])]
           G == [x \in S |-> AtLeastZero(g[x])]
           g_ == [x \in S |-> AtLeastZero(-g[x])]
           H == [x \in S |-> AtLeastZero(h[x])]
           h_ == [x \in S |-> AtLeastZero(-h[x])]
           nf == [x \in S |-> -f[x]]
           ng == [x \in S |-> -g[x]]
           nh == [x \in S |-> -h[x]]
           credit == [x \in S |-> F[x] + G[x]]
           debit == [x \in S |-> f_[x] + g_[x]]
           left == [x \in S |-> H[x] + debit[x]]
           right == [x \in S |-> h_[x] + credit[x]]
<1>1. \A x \in S : f[x] \in Int /\ g[x] \in Int /\ h[x] \in Int
  BY DEF IntegerOn
<1>2. /\ NaturalOn(F, S) /\ NaturalOn(f_, S) /\ NaturalOn(G, S) /\ NaturalOn(g_, S)
      /\ NaturalOn(H, S) /\ NaturalOn(h_, S)
      /\ NaturalOn(credit, S) /\ NaturalOn(debit, S)
  BY <1>1 DEF NaturalOn, AtLeastZero
<1>3. left = right
  BY <1>1 DEF AtLeastZero
<1>4. /\ Count(credit, S) = Count(F, S) + Count(G, S)
      /\ Count(debit, S) = Count(f_, S) + Count(g_, S)
      /\ Count(left, S) = Count(H, S) + Count(debit, S)
      /\ Count(right, S) = Count(h_, S) + Count(credit, S)
  <2>1. /\ \A x \in S : credit[x] = F[x] + G[x]
        /\ \A x \in S : debit[x] = f_[x] + g_[x]
        /\ \A x \in S : left[x] = H[x] + debit[x]
        /\ \A x \in S : right[x] = h_[x] + credit[x]
    OBVIOUS
  <2> HIDE DEF F, f_, G, g_, H, h_, credit, debit, left, right
  <2> QED
    BY <1>2, <2>1, CountAdd
<1>5. /\ Count(F, S) = Count(f, S) /\ Count(f_, S) = Count(nf, S)
      /\ Count(G, S) = Count(g, S) /\ Count(g_, S) = Count(ng, S)
      /\ Count(H, S) = Count(h, S) /\ Count(h_, S) = Count(nh, S)
  <2>1. \A x \in S : /\ F[x] = f[x] \/ (F[x] <= 0 /\ f[x] <= 0)
                     /\ f_[x] = nf[x] \/ (f_[x] <= 0 /\ nf[x] <= 0)
                     /\ G[x] = g[x] \/ (G[x] <= 0 /\ g[x] <= 0)
                     /\ g_[x] = ng[x] \/ (g_[x] <= 0 /\ ng[x] <= 0)
                     /\ H[x] = h[x] \/ (H[x] <= 0 /\ h[x] <= 0)
                     /\ h_[x] = nh[x] \/ (h_[x] <= 0 /\ nh[x] <= 0)
    BY <1>1 DEF AtLeastZero
  <2>2. /\ IntegerOn(F, S) /\ IntegerOn(f_, S) /\ IntegerOn(G, S) /\ IntegerOn(g_, S)
        /\ IntegerOn(H, S) /\ IntegerOn(h_, S) /\ IntegerOn(h, S)
        /\ IntegerOn(nf, S) /\ IntegerOn(ng, S) /\ IntegerOn(nh, S)
    BY <1>1 DEF IntegerOn, AtLeastZero
  <2> HIDE DEF F, f_, G, g_, H, h_, nf, ng, nh
  <2>3. /\ Units(F, S) = Units(f, S) /\ Units(f_, S) = Units(nf, S)
        /\ Units(G, S) = Units(g, S) /\ Units(g_, S) = Units(ng, S)
        /\ Units(H, S) = Units(h, S) /\ Units(h_, S) = Units(nh, S)
    BY <2>1, <2>2, CountExtensional
  <2> QED
    BY <2>3 DEF Count
<1>6. /\ Total(f, S) = Count(f, S) - Count(nf, S)
      /\ Total(g, S) = Count(g, S) - Count(ng, S)
      /\ Total(h, S) = Count(h, S) - Count(nh, S)
  BY DEF Total, Count, Negated
<1>7. /\ Count(F, S) \in Nat /\ Count(f_, S) \in Nat
      /\ Count(G, S) \in Nat /\ Count(g_, S) \in Nat
      /\ Count(H, S) \in Nat /\ Count(h_, S) \in Nat
  <2>1. /\ IntegerOn(F, S) /\ IntegerOn(f_, S) /\ IntegerOn(G, S) /\ IntegerOn(g_, S)
        /\ IntegerOn(H, S) /\ IntegerOn(h_, S)
    BY <1>1 DEF IntegerOn, AtLeastZero
  <2> HIDE DEF F, f_, G, g_, H, h_
  <2> QED
    BY <2>1, UnitsFinite
<1>8. Count(left, S) = Count(right, S)
  BY <1>3
<1> HIDE DEF F, f_, G, g_, H, h_, nf, ng, nh, credit, debit, left, right
<1>9. Count(H, S) + (Count(f_, S) + Count(g_, S)) = Count(h_, S) + (Count(F, S) + Count(G, S))
  BY <1>4, <1>8
<1>10. Count(H, S) - Count(h_, S) = (Count(F, S) - Count(f_, S)) + (Count(G, S) - Count(g_, S))
  BY <1>7, <1>9
<1> QED
  BY <1>5, <1>6, <1>10

\* A total of zeros is zero.
THEOREM TotalZero ==
  ASSUME NEW S, NEW f, \A x \in S : f[x] = 0
  PROVE  Total(f, S) = 0
<1>1. Units(f, S) = {} /\ Units(Negated(f, S), S) = {}
  BY DEF Units, Negated
<1> QED
  BY <1>1, FS_EmptySet DEF Total

\* A total over one row is its quantity.
THEOREM TotalSingleton ==
  ASSUME NEW f, NEW x, f[x] \in Int
  PROVE  Total(f, {x}) = f[x]
<1> DEFINE n == Negated(f, {x})
<1>1. n[x] = -f[x] /\ n[x] \in Int
  BY DEF Negated
<1>2. Count(f, {x}) = AtLeastZero(f[x]) /\ Count(n, {x}) = AtLeastZero(n[x])
  <2> HIDE DEF n
  <2> QED
    BY <1>1, CountSingleton
<1> QED
  BY <1>1, <1>2 DEF Total, Count, AtLeastZero

\* A total of naturals is a natural.
THEOREM TotalNatural ==
  ASSUME NEW S, IsFiniteSet(S), NEW f, NaturalOn(f, S)
  PROVE  Total(f, S) \in Nat
<1>1. IntegerOn(f, S)
  BY DEF IntegerOn, NaturalOn
<1>2. Units(Negated(f, S), S) = {}
  <2>1. \A x \in S : 1 .. Negated(f, S)[x] = {}
    BY DEF NaturalOn, Negated
  <2> QED
    BY <2>1 DEF Units
<1>3. Count(f, S) \in Nat
  BY <1>1, UnitsFinite
<1> QED
  BY <1>2, <1>3, FS_EmptySet DEF Total, Count

-----------------------------------------------------------------------------

\* Rows outside T may be taken in with quantity zero.
THEOREM TotalFiltered ==
  ASSUME NEW S, IsFiniteSet(S), NEW T \in SUBSET S, NEW f, NEW g, IntegerOn(g, S),
         \A x \in T : g[x] = f[x], \A x \in S \ T : g[x] = 0
  PROVE  Total(f, T) = Total(g, S)
<1>1. IsFiniteSet(T) /\ IsFiniteSet(S \ T)
  BY FS_Subset
<1>2. S = T \cup (S \ T) /\ T \cap (S \ T) = {}
  OBVIOUS
<1>3. Total(g, S) = Total(g, T) + Total(g, S \ T)
  BY <1>1, <1>2, TotalDisjoint
<1>4. Total(g, S \ T) = 0
  BY TotalZero
<1>5. IntegerOn(g, T)
  BY DEF IntegerOn
<1>6. Total(g, T) = Total(f, T) /\ Total(g, T) \in Int
  BY <1>1, <1>5, TotalExtensional, TotalType
<1> QED
  BY <1>3, <1>4, <1>6

\* A column that is zero but for one row adds up to that row.
THEOREM TotalPoint ==
  ASSUME NEW S, IsFiniteSet(S), NEW f, IntegerOn(f, S), NEW x \in S,
         \A y \in S : y # x => f[y] = 0
  PROVE  Total(f, S) = f[x]
<1>1. Total(f, {x}) = Total(f, S)
  <2>1. {x} \in SUBSET S
    OBVIOUS
  <2> QED
    BY <2>1, TotalFiltered
<1> QED
  BY <1>1, TotalSingleton DEF IntegerOn

\* A smaller column has a smaller total.
THEOREM TotalMonotone ==
  ASSUME NEW S, IsFiniteSet(S), NEW f, NEW g, IntegerOn(f, S), IntegerOn(g, S),
         \A x \in S : f[x] <= g[x]
  PROVE  Total(f, S) <= Total(g, S)
<1> DEFINE d == [x \in S |-> g[x] - f[x]]
<1>1. NaturalOn(d, S) /\ IntegerOn(d, S) /\ \A x \in S : g[x] = f[x] + d[x]
  BY DEF NaturalOn, IntegerOn
<1> HIDE DEF d
<1>2. Total(g, S) = Total(f, S) + Total(d, S)
  BY <1>1, TotalAdd
<1>3. Total(d, S) \in Nat
  BY <1>1, TotalNatural
<1>4. Total(f, S) \in Int
  BY TotalType
<1> QED
  BY <1>2, <1>3, <1>4

\* A row of a natural column is at most the total.
THEOREM TotalMember ==
  ASSUME NEW S, IsFiniteSet(S), NEW f, NaturalOn(f, S), NEW x \in S
  PROVE  f[x] <= Total(f, S)
<1>1. IntegerOn(f, S) /\ NaturalOn(f, S \ {x}) /\ f[x] \in Int
  BY DEF IntegerOn, NaturalOn
<1>2. IsFiniteSet({x}) /\ IsFiniteSet(S \ {x})
  BY FS_Subset, FS_Singleton
<1>3. S = {x} \cup (S \ {x}) /\ {x} \cap (S \ {x}) = {}
  OBVIOUS
<1>4. Total(f, S) = Total(f, {x}) + Total(f, S \ {x})
  BY <1>1, <1>2, <1>3, TotalDisjoint
<1>5. Total(f, {x}) = f[x]
  BY <1>1, TotalSingleton
<1>6. Total(f, S \ {x}) \in Nat
  BY <1>1, <1>2, TotalNatural
<1> QED
  BY <1>1, <1>4, <1>5, <1>6

\* The total of the opposite column is the opposite total.
THEOREM TotalNegated ==
  ASSUME NEW S, IsFiniteSet(S), NEW f, NEW g, IntegerOn(f, S), \A x \in S : g[x] = -f[x]
  PROVE  Total(g, S) = -Total(f, S)
<1> DEFINE z == [x \in S |-> 0]
<1>1. IntegerOn(g, S) /\ \A x \in S : z[x] = f[x] + g[x]
  BY DEF IntegerOn
<1>2. Total(z, S) = 0
  BY TotalZero
<1> HIDE DEF z
<1>3. Total(z, S) = Total(f, S) + Total(g, S)
  BY <1>1, TotalAdd
<1>4. Total(f, S) \in Int /\ Total(g, S) \in Int
  BY <1>1, TotalType
<1> QED
  BY <1>2, <1>3, <1>4

\* Fewer rows of a natural column have a smaller total.
THEOREM TotalSubset ==
  ASSUME NEW S, IsFiniteSet(S), NEW T \in SUBSET S, NEW f, NaturalOn(f, S)
  PROVE  Total(f, T) <= Total(f, S)
<1>1. IsFiniteSet(T) /\ IsFiniteSet(S \ T)
  BY FS_Subset
<1>2. NaturalOn(f, T) /\ NaturalOn(f, S \ T) /\ IntegerOn(f, S)
  BY DEF NaturalOn, IntegerOn
<1>3. S = T \cup (S \ T) /\ T \cap (S \ T) = {}
  OBVIOUS
<1>4. Total(f, S) = Total(f, T) + Total(f, S \ T)
  BY <1>1, <1>2, <1>3, TotalDisjoint
<1> QED
  BY <1>1, <1>2, <1>4, TotalNatural

-----------------------------------------------------------------------------
(* Induction over a finite set of rows.  The provers do not instantiate an    *)
(* induction rule over predicates; this one is over a set of sets.            *)

\* What holds of no rows, and of a set of rows when it holds of the set with
\* each one of them taken out, holds of every finite set of rows.
THEOREM FiniteInduction ==
  ASSUME NEW S, IsFiniteSet(S), NEW Good, {} \in Good,
         \A T \in SUBSET S : T # {} /\ (\A x \in T : T \ {x} \in Good) => T \in Good
  PROVE  S \in Good
<1> DEFINE Bad == {T \in SUBSET S : T \notin Good}
<1>1. IsWellFoundedOn(StrictSubsetOrdering(S), SUBSET S)
  BY FS_StrictSubsetOrderingWellFounded, FS_FiniteSubsetsOfFinite
<1>2. CASE Bad # {}
  <2>1. Bad \subseteq SUBSET S
    OBVIOUS
  <2>2. PICK T \in Bad : \A U \in Bad : <<U, T>> \notin StrictSubsetOrdering(S)
    <3> HIDE DEF Bad
    <3> QED
      BY <1>1, <1>2, <2>1, WFMin
  <2>3. ASSUME NEW x \in T PROVE T \ {x} \in Good
    <3>1. /\ T \ {x} \in SUBSET S
          /\ <<T \ {x}, T>> \in StrictSubsetOrdering(S)
      BY DEF StrictSubsetOrdering
    <3> QED
      BY <2>2, <3>1
  <2> QED
    BY <2>3
<1>3. CASE Bad = {}
  BY <1>3
<1> QED
  BY <1>2, <1>3

\* Of finitely many rows, one has the highest rank.
THEOREM LastRow ==
  ASSUME NEW S, IsFiniteSet(S), S # {}, NEW rank, IntegerOn(rank, S)
  PROVE  \E x \in S : \A y \in S : rank[y] <= rank[x]
<1> DEFINE Good == {T \in SUBSET S : T # {} => \E x \in T : \A y \in T : rank[y] <= rank[x]}
<1>1. {} \in Good
  OBVIOUS
<1>2. ASSUME NEW T \in SUBSET S, NEW x \in T, T \ {x} \in Good
      PROVE  T \in Good
  <2>1. \A y \in T : rank[y] \in Int
    BY DEF IntegerOn
  <2>2. CASE T = {x}
    BY <2>1, <2>2
  <2>3. CASE T \ {x} # {}
    <3>1. PICK z \in T \ {x} : \A y \in T \ {x} : rank[y] <= rank[z]
      BY <1>2, <2>3
    <3>2. CASE rank[z] <= rank[x]
      BY <2>1, <3>1, <3>2
    <3>3. CASE rank[x] <= rank[z]
      BY <2>1, <3>1, <3>3
    <3> QED
      BY <2>1, <3>2, <3>3
  <2> QED
    BY <2>2, <2>3
<1>3. S \in Good
  <2> HIDE DEF Good
  <2> QED
    BY <1>1, <1>2, FiniteInduction
<1> QED
  BY <1>3

\* A total with one row taken out.
THEOREM TotalWithout ==
  ASSUME NEW S, IsFiniteSet(S), NEW f, IntegerOn(f, S), NEW x \in S
  PROVE  /\ Total(f, S) = Total(f, S \ {x}) + f[x]
         /\ Total(f, S \ {x}) \in Int
<1>1. IntegerOn(f, S \ {x}) /\ f[x] \in Int
  BY DEF IntegerOn
<1>2. IsFiniteSet({x}) /\ IsFiniteSet(S \ {x})
  BY FS_Subset, FS_Singleton
<1>3. S = (S \ {x}) \cup {x} /\ (S \ {x}) \cap {x} = {}
  OBVIOUS
<1>4. Total(f, S) = Total(f, S \ {x}) + Total(f, {x})
  BY <1>2, <1>3, TotalDisjoint
<1> QED
  BY <1>1, <1>2, <1>4, TotalSingleton, TotalType

\* Adding n to one row adds n to the total.
THEOREM TotalBumped ==
  ASSUME NEW S, IsFiniteSet(S), NEW f, IntegerOn(f, S), NEW x \in S, NEW n \in Int,
         NEW g, g[x] = f[x] + n, \A y \in S \ {x} : g[y] = f[y]
  PROVE  Total(g, S) = Total(f, S) + n
<1> DEFINE rest == S \ {x}
<1>1. f[x] \in Int /\ IntegerOn(g, S) /\ IntegerOn(f, rest) /\ \A y \in rest : f[y] = g[y]
  BY DEF IntegerOn
<1>2. /\ Total(f, S) = Total(f, rest) + f[x] /\ Total(f, rest) \in Int
      /\ Total(g, S) = Total(g, rest) + g[x]
  BY <1>1, TotalWithout
<1> HIDE DEF rest
<1>3. Total(f, rest) = Total(g, rest)
  BY <1>1, TotalExtensional
<1> QED
  BY <1>1, <1>2, <1>3

\* A table added up by rows and by columns.
THEOREM TotalExchange ==
  ASSUME NEW S, IsFiniteSet(S), NEW T, IsFiniteSet(T), NEW a,
         \A s \in S : \A t \in T : a[s][t] \in Int
  PROVE  Total([s \in S |-> Total(a[s], T)], S) =
           Total([t \in T |-> Total([s \in S |-> a[s][t]], S)], T)
<1> DEFINE row == [s \in S |-> Total(a[s], T)]
           column(t) == [s \in S |-> a[s][t]]
           sums(R) == [t \in T |-> Total(column(t), R)]
           Good == {R \in SUBSET S : Total(row, R) = Total(sums(R), T)}
<1>1. {} \in Good
  <2>1. Total(row, {}) = 0
    BY TotalZero
  <2>2. \A t \in T : sums({})[t] = 0
    BY TotalZero
  <2> HIDE DEF row, sums
  <2>3. Total(sums({}), T) = 0
    BY <2>2, TotalZero
  <2> QED
    BY <2>1, <2>3
<1>2. \A t \in T : IntegerOn(column(t), S)
  BY DEF IntegerOn
<1>3. \A s \in S : IntegerOn(a[s], T) /\ row[s] = Total(a[s], T) /\ row[s] \in Int
  BY TotalType DEF IntegerOn
<1>4. ASSUME NEW R \in SUBSET S, NEW x \in R, R \ {x} \in Good
      PROVE  R \in Good
  <2>1. IsFiniteSet(R) /\ IsFiniteSet(R \ {x}) /\ R \ {x} \in SUBSET S /\ x \in S
    BY FS_Subset
  <2>2. IntegerOn(row, R)
    <3> HIDE DEF row
    <3> QED
      BY <1>3 DEF IntegerOn
  <2>3. Total(row, R) = Total(row, R \ {x}) + row[x]
    <3> HIDE DEF row
    <3> QED
      BY <2>1, <2>2, TotalWithout
  <2>4. ASSUME NEW t \in T
        PROVE  /\ sums(R)[t] = sums(R \ {x})[t] + a[x][t]
               /\ sums(R \ {x})[t] \in Int
    <3>1. IntegerOn(column(t), R) /\ column(t)[x] = a[x][t]
      BY <2>1 DEF IntegerOn
    <3>2. sums(R)[t] = Total(column(t), R) /\ sums(R \ {x})[t] = Total(column(t), R \ {x})
      OBVIOUS
    <3> HIDE DEF column, sums
    <3> QED
      BY <2>1, <3>1, <3>2, TotalWithout
  <2>5. Total(sums(R), T) = Total(sums(R \ {x}), T) + Total(a[x], T)
    <3> HIDE DEF sums
    <3>1. IntegerOn(sums(R \ {x}), T) /\ IntegerOn(a[x], T)
      BY <1>3, <2>1, <2>4 DEF IntegerOn
    <3> QED
      BY <2>4, <3>1, TotalAdd
  <2>6. Total(row, R \ {x}) = Total(sums(R \ {x}), T)
    BY <1>4
  <2> HIDE DEF row, sums
  <2> QED
    BY <1>3, <2>1, <2>3, <2>5, <2>6
<1>5. S \in Good
  <2> HIDE DEF Good
  <2> QED
    BY <1>1, <1>4, FiniteInduction
<1> QED
  BY <1>5

-----------------------------------------------------------------------------
(* Rows supplied in the order of their rank *)

\* What the rows of lower rank have.
Ahead(f, S, rank, x) == Total(f, {y \in S : rank[y] < rank[x]})

\* How much of the first q units comes from row x.
Supplied(f, S, rank, x, q) ==
  Smaller(Ahead(f, S, rank, x) + f[x], q) - Smaller(Ahead(f, S, rank, x), q)

\* What comes before a row is a natural number, and a row supplies at most what
\* it has.
THEOREM SuppliedType ==
  ASSUME NEW S, IsFiniteSet(S), NEW f, NaturalOn(f, S), NEW rank, NEW x \in S, NEW q \in Nat
  PROVE  /\ Ahead(f, S, rank, x) \in Nat
         /\ Supplied(f, S, rank, x, q) \in 0 .. f[x]
<1> DEFINE B == {y \in S : rank[y] < rank[x]}
<1>1. IsFiniteSet(B) /\ NaturalOn(f, B) /\ f[x] \in Nat
  BY FS_Subset DEF NaturalOn
<1>2. Ahead(f, S, rank, x) \in Nat
  BY <1>1, TotalNatural DEF Ahead
<1> QED
  BY <1>1, <1>2 DEF Supplied, Smaller

\* Rows asked in the order of their rank supply together what was asked for, or
\* all they have.
THEOREM SuppliedTotal ==
  ASSUME NEW S, IsFiniteSet(S), NEW f, NaturalOn(f, S), NEW rank, IntegerOn(rank, S),
         \A x, y \in S : rank[x] = rank[y] => x = y,
         NEW q \in Nat, NEW g, \A x \in S : g[x] = Supplied(f, S, rank, x, q)
  PROVE  Total(g, S) = Smaller(Total(f, S), q)
<1> DEFINE Closed(T) == \A x \in T : \A y \in S : rank[y] < rank[x] => y \in T
           Good == {T \in SUBSET S : Closed(T) => Total(g, T) = Smaller(Total(f, T), q)}
<1>1. {} \in Good
  <2>1. Total(g, {}) = 0 /\ Total(f, {}) = 0
    BY TotalZero
  <2> QED
    BY <2>1 DEF Smaller
<1>2. IntegerOn(f, S) /\ IntegerOn(g, S)
  <2>1. \A x \in S : f[x] \in Nat
    BY DEF NaturalOn
  <2>2. ASSUME NEW x \in S PROVE g[x] \in 0 .. f[x]
    <3>1. Supplied(f, S, rank, x, q) \in 0 .. f[x]
      BY SuppliedType
    <3> QED
      BY <3>1
  <2> QED
    BY <2>1, <2>2 DEF IntegerOn
<1>3. \A x \in S : rank[x] \in Int /\ f[x] \in Nat
  BY DEF IntegerOn, NaturalOn
<1>4. ASSUME NEW T \in SUBSET S, T # {}, Closed(T),
             \A x \in T : Closed(T \ {x}) => Total(g, T \ {x}) = Smaller(Total(f, T \ {x}), q)
      PROVE  Total(g, T) = Smaller(Total(f, T), q)
  <2>1. IsFiniteSet(T) /\ IntegerOn(f, T) /\ IntegerOn(g, T) /\ IntegerOn(rank, T)
    BY <1>2, FS_Subset DEF IntegerOn
  <2>2. PICK x \in T : \A y \in T : rank[y] <= rank[x]
    BY <1>4, <2>1, LastRow
  <2>3. {y \in S : rank[y] < rank[x]} = T \ {x}
    BY <1>3, <1>4, <2>2
  <2>4. Closed(T \ {x})
    BY <1>3, <1>4, <2>2
  <2>5. Total(g, T \ {x}) = Smaller(Total(f, T \ {x}), q)
    BY <1>4, <2>4
  <2>6. g[x] = Smaller(Total(f, T \ {x}) + f[x], q) - Smaller(Total(f, T \ {x}), q)
    BY <2>3 DEF Supplied, Ahead
  <2>7. /\ Total(f, T) = Total(f, T \ {x}) + f[x]
        /\ Total(g, T) = Total(g, T \ {x}) + g[x]
        /\ Total(f, T \ {x}) \in Int
    BY <2>1, TotalWithout
  <2> QED
    BY <1>3, <2>5, <2>6, <2>7 DEF Smaller
<1>5. ASSUME NEW T \in SUBSET S, T # {}, \A x \in T : T \ {x} \in Good
      PROVE  T \in Good
  <2>1. \A x \in T : Closed(T \ {x}) => Total(g, T \ {x}) = Smaller(Total(f, T \ {x}), q)
    BY <1>5
  <2> HIDE DEF Closed
  <2> QED
    BY <1>4, <1>5, <2>1
<1>6. S \in Good
  <2> HIDE DEF Good
  <2> QED
    BY <1>1, <1>5, FiniteInduction
<1> QED
  BY <1>6

\* A column times a number adds up to that number times the sum.
LEMMA TotalScaled ==
  ASSUME NEW S, IsFiniteSet(S), NEW f, IntegerOn(f, S), NEW c \in Int
  PROVE  Total([x \in S |-> c * f[x]], S) = c * Total(f, S)
<1> DEFINE g == [x \in S |-> c * f[x]]
           Good == {T \in SUBSET S : Total(g, T) = c * Total(f, T)}
<1>1. {} \in Good
  BY TotalZero
<1>2. ASSUME NEW T \in SUBSET S, T # {}, \A x \in T : T \ {x} \in Good PROVE T \in Good
  <2>1. PICK x \in T : TRUE
    BY <1>2
  <2>2. IsFiniteSet(T) /\ IntegerOn(f, T) /\ IntegerOn(g, T) /\ g[x] = c * f[x]
    BY FS_Subset DEF IntegerOn
  <2>3. Total(g, T \ {x}) = c * Total(f, T \ {x})
    BY <1>2
  <2> HIDE DEF g
  <2>4. PICK k \in Int, a \in Int : k = Total(f, T \ {x}) /\ a = f[x] /\ Total(f, T) = k + a
    BY <2>2, TotalWithout DEF IntegerOn
  <2>5. Total(g, T) = Total(g, T \ {x}) + g[x]
    BY <2>2, TotalWithout
  <2>6. c * (k + a) = c * k + c * a
    OBVIOUS
  <2> QED
    BY <2>2, <2>3, <2>4, <2>5, <2>6
<1>3. S \in Good
  <2> HIDE DEF Good
  <2> QED
    BY <1>1, <1>2, FiniteInduction
<1> QED
  BY <1>3

-----------------------------------------------------------------------------

\* What holds of 0, and of n + 1 when it holds of n, holds of every number.
LEMMA NumbersInduction ==
  ASSUME NEW Good, 0 \in Good, \A n \in Nat : n \in Good => n + 1 \in Good
  PROVE  Nat \subseteq Good
<1> SUFFICES ASSUME NEW m \in Nat, m \notin Good PROVE FALSE
  OBVIOUS
<1> DEFINE Bad == {n \in 0 .. m : n \notin Good}
           rank == [n \in Bad |-> -n]
<1>1. IsFiniteSet(Bad) /\ m \in Bad
  <2>1. IsFiniteSet(0 .. m)
    BY FS_Interval
  <2>2. Bad \subseteq 0 .. m /\ m \in Bad
    OBVIOUS
  <2> HIDE DEF Bad
  <2> QED BY <2>1, <2>2, FS_Subset
<1>2. IntegerOn(rank, Bad)
  BY DEF IntegerOn
<1>3. PICK n \in Bad : \A k \in Bad : rank[k] <= rank[n]
  <2> HIDE DEF rank, Bad
  <2> QED BY <1>1, <1>2, LastRow
<1>4. \A k \in Bad : n <= k
  BY <1>3
<1>5. n # 0 /\ n - 1 \in 0 .. m /\ n - 1 \notin Bad
  BY <1>4
<1> QED BY <1>5

=============================================================================
