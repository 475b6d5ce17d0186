----------------------------- MODULE StockProofs -----------------------------
(***************************************************************************)
(* What the stock operations keep true for every set of lots, orders and   *)
(* cartons, and for overlapping requests: the tables stay typed, every     *)
(* reservation stays backed by units on the shelf, and the movements never *)
(* claim more stock than a lot shows.                                      *)
(***************************************************************************)
EXTENDS Stock, FiniteSetTheorems, WellFoundedInduction, NaturalsInduction, TLAPS

(***************************************************************************)
(* Allocation: what Total and Greedy are bounded by.                       *)
(***************************************************************************)
\* A set of natural numbers that is not empty has a least element.
LEMMA LeastNat ==
    ASSUME NEW T \in SUBSET Nat, T # {}
    PROVE  \E m \in T : \A n \in T : m <= n
  <1> DEFINE R == {ss \in Nat \X Nat : ss[1] < ss[2]}
  <1>1. IsWellFoundedOn(R, Nat)
    <2>1. OpToRel(<, Nat) = R
      BY DEF OpToRel
    <2> QED BY <2>1, NatLessThanWellFounded
  <1>2. PICK m \in T : \A n \in T : ~ (<<n, m>> \in R)
    BY <1>1, WFMin
  <1>3. ASSUME NEW n \in T PROVE m <= n
    <2>1. m \in Nat /\ n \in Nat
      OBVIOUS
    <2>2. ~ (n < m)
      BY <1>2, <2>1
    <2> QED BY <2>1, <2>2
  <1> QED  BY <1>3

\* Below a bound it has a greatest one.
LEMMA GreatestNat ==
    ASSUME NEW b \in Nat, NEW T \in SUBSET (0 .. b), T # {}
    PROVE  \E m \in T : \A n \in T : n <= m
  <1> DEFINE U == {b - n : n \in T}
  <1>1. U \in SUBSET Nat /\ U # {}
    <2>1. \A n \in T : b - n \in Nat
      OBVIOUS
    <2>2. PICK t \in T : TRUE
      OBVIOUS
    <2>3. b - t \in U
      OBVIOUS
    <2> QED BY <2>1, <2>3
  <1>2. \E u \in U : \A v \in U : u <= v
    <2> HIDE DEF U
    <2> QED BY <1>1, LeastNat
  <1>3. PICK m \in T : \A n \in T : b - m <= b - n
    BY <1>2
  <1>4. ASSUME NEW n \in T PROVE n <= m
    BY <1>3
  <1> QED  BY <1>4

\* A sum of quantities over a finite set is a natural number.
LEMMA TotalNat ==
    ASSUME NEW S, IsFiniteSet(S), NEW f \in [S -> Units]
    PROVE  IsFiniteSet(UnitsOf(f)) /\ Total(f) \in Nat
  <1>1. IsFiniteSet(1 .. MaxUnits)
    BY FS_Interval, MaxUnitsAssumption
  <1>2. IsFiniteSet(S \X (1 .. MaxUnits))
    BY <1>1, FS_Product
  <1>3. UnitsOf(f) \in SUBSET (S \X (1 .. MaxUnits))
    BY DEF UnitsOf
  <1>4. IsFiniteSet(UnitsOf(f))
    BY <1>2, <1>3, FS_Subset
  <1> QED  BY <1>4, FS_CardinalityType DEF Total

\* Smaller terms make a smaller sum.
LEMMA TotalMonotone ==
    ASSUME NEW S, IsFiniteSet(S), NEW f \in [S -> Units], NEW g \in [S -> Units],
           \A x \in S : g[x] <= f[x]
    PROVE  Total(g) <= Total(f)
  <1>1. UnitsOf(g) \in SUBSET UnitsOf(f)
    BY MaxUnitsAssumption DEF UnitsOf, Units
  <1>2. IsFiniteSet(UnitsOf(f))
    BY TotalNat
  <1> QED  BY <1>1, <1>2, FS_Subset DEF Total

\* The units between two counts of one element.
LEMMA Column ==
    ASSUME NEW x, NEW a \in Nat, NEW b \in Nat, a <= b
    PROVE  /\ IsFiniteSet({x} \X (a + 1 .. b))
           /\ Cardinality({x} \X (a + 1 .. b)) = b - a
  <1>1. IsFiniteSet(a + 1 .. b) /\ Cardinality(a + 1 .. b) = b - a
    <2>1. a + 1 \in Int /\ b \in Int
      OBVIOUS
    <2>2. /\ IsFiniteSet(a + 1 .. b)
          /\ Cardinality(a + 1 .. b) = IF a + 1 > b THEN 0 ELSE b - (a + 1) + 1
      BY <2>1, FS_Interval
    <2> QED BY <2>2
  <1>2. IsFiniteSet({x}) /\ Cardinality({x}) = 1
    BY FS_Singleton
  <1> DEFINE I == a + 1 .. b
  <1>3. IsFiniteSet(I) /\ Cardinality(I) = b - a
    BY <1>1
  <1> HIDE DEF I
  <1>4. /\ IsFiniteSet({x} \X I)
        /\ Cardinality({x} \X I) = Cardinality({x}) * Cardinality(I)
    BY <1>2, <1>3, FS_Product
  <1>5. Cardinality({x} \X I) = b - a
    BY <1>2, <1>3, <1>4
  <1> QED  BY <1>4, <1>5 DEF I

\* When no term grows and the one at x falls to at most f[x] - t, the sum falls
\* by t at least.
LEMMA TotalDrop ==
    ASSUME NEW S, IsFiniteSet(S), NEW f \in [S -> Units], NEW g \in [S -> Units],
           \A y \in S : g[y] <= f[y],
           NEW x \in S, NEW t \in Nat, g[x] <= f[x] - t
    PROVE  Total(g) <= Total(f) - t
  <1> DEFINE C == {x} \X (f[x] - t + 1 .. f[x])
  <1>0. f[x] \in Nat /\ g[x] \in Nat /\ f[x] - t \in Nat /\ f[x] <= MaxUnits
    BY MaxUnitsAssumption DEF Units
  <1>1. IsFiniteSet(C) /\ Cardinality(C) = t
    <2> DEFINE lo == f[x] - t
    <2>1. lo \in Nat /\ lo <= f[x] /\ f[x] - lo = t
      BY <1>0
    <2>2. C = {x} \X (lo + 1 .. f[x])
      OBVIOUS
    <2> HIDE DEF lo, C
    <2> QED BY <1>0, <2>1, <2>2, Column
  <1>2. C \subseteq UnitsOf(f)
    BY <1>0, MaxUnitsAssumption DEF UnitsOf, Units
  <1>3. UnitsOf(g) \in SUBSET (UnitsOf(f) \ C)
    <2>1. ASSUME NEW u \in UnitsOf(g) PROVE u \in UnitsOf(f) /\ u \notin C
      BY <1>0, MaxUnitsAssumption DEF UnitsOf, Units
    <2> QED BY <2>1
  <1>4. IsFiniteSet(UnitsOf(f)) /\ Cardinality(UnitsOf(f)) \in Nat
    BY TotalNat DEF Total
  <1>5. UnitsOf(f) \cap C = C
    BY <1>2
  <1>6. /\ IsFiniteSet(UnitsOf(f) \ C)
        /\ Cardinality(UnitsOf(f) \ C) = Cardinality(UnitsOf(f)) - t
    <2> HIDE DEF C
    <2> QED BY <1>1, <1>4, <1>5, FS_Difference
  <1>7. Cardinality(UnitsOf(g)) <= Cardinality(UnitsOf(f) \ C)
    BY <1>3, <1>6, FS_Subset
  <1> QED  BY <1>6, <1>7 DEF Total

\* When only the term at x grows, by t, the sum grows by t at most.
LEMMA TotalRaise ==
    ASSUME NEW S, IsFiniteSet(S), NEW f \in [S -> Units], NEW g \in [S -> Units],
           NEW x \in S, NEW t \in Nat, g[x] = f[x] + t,
           \A y \in S \ {x} : g[y] = f[y]
    PROVE  Total(g) <= Total(f) + t
  <1> DEFINE C == {x} \X (f[x] + 1 .. g[x])
  <1>0. f[x] \in Nat /\ g[x] \in Nat /\ g[x] - f[x] = t /\ f[x] <= g[x]
    BY MaxUnitsAssumption DEF Units
  <1>1. IsFiniteSet(C) /\ Cardinality(C) = t
    BY <1>0, Column
  <1>2. UnitsOf(g) \in SUBSET (UnitsOf(f) \cup C)
    <2>1. ASSUME NEW u \in UnitsOf(g) PROVE u \in UnitsOf(f) \cup C
      <3>1. u \in S \X (1 .. MaxUnits) /\ u[2] <= g[u[1]]
        BY DEF UnitsOf
      <3>2. CASE u[1] = x
        BY <1>0, <3>1, <3>2, MaxUnitsAssumption DEF UnitsOf, Units
      <3>3. CASE u[1] # x
        BY <3>1, <3>3 DEF UnitsOf
      <3> QED BY <3>2, <3>3
    <2> QED BY <2>1
  <1>3. IsFiniteSet(UnitsOf(f)) /\ Cardinality(UnitsOf(f)) \in Nat
    BY TotalNat DEF Total
  <1>4. IsFiniteSet(UnitsOf(f) \cap C) /\ Cardinality(UnitsOf(f) \cap C) \in Nat
    BY <1>3, FS_Intersection, FS_CardinalityType
  <1>5. /\ IsFiniteSet(UnitsOf(f) \cup C)
        /\ Cardinality(UnitsOf(f) \cup C) <= Cardinality(UnitsOf(f)) + t
    <2> HIDE DEF C
    <2>1. /\ IsFiniteSet(UnitsOf(f) \cup C)
          /\ Cardinality(UnitsOf(f) \cup C)
                = Cardinality(UnitsOf(f)) + Cardinality(C) - Cardinality(UnitsOf(f) \cap C)
      BY <1>1, <1>3, FS_Union
    <2> QED BY <2>1, <1>1, <1>3, <1>4
  <1>6. Cardinality(UnitsOf(g)) <= Cardinality(UnitsOf(f) \cup C)
    BY <1>2, <1>5, FS_Subset
  <1>7. Cardinality(UnitsOf(f) \cup C) \in Nat /\ Cardinality(UnitsOf(g)) \in Nat
    BY <1>5, FS_CardinalityType, TotalNat DEF Total
  <1> QED  BY <1>3, <1>5, <1>6, <1>7 DEF Total

\* A term is at most the sum.
LEMMA TermBelowTotal ==
    ASSUME NEW S, IsFiniteSet(S), NEW f \in [S -> Units], NEW x \in S
    PROVE  f[x] <= Total(f)
  <1> DEFINE g == [f EXCEPT ![x] = 0]
  <1>1. g \in [S -> Units] /\ \A y \in S : g[y] <= f[y]
    BY MaxUnitsAssumption DEF Units
  <1>2. f[x] \in Nat /\ g[x] <= f[x] - f[x]
    BY MaxUnitsAssumption DEF Units
  <1> HIDE DEF g
  <1>3. Total(g) <= Total(f) - f[x]
    BY <1>1, <1>2, TotalDrop
  <1> QED  BY <1>1, <1>2, <1>3, TotalNat

\* A sum whose terms go, one to one, under terms of another is at most it.
LEMMA TotalEmbed ==
    ASSUME NEW S, IsFiniteSet(S), NEW f \in [S -> Units],
           NEW T, NEW g \in [T -> Units], NEW h \in [T -> S],
           \A x, y \in T : h[x] = h[y] => x = y,
           \A x \in T : g[x] <= f[h[x]]
    PROVE  Total(g) <= Total(f)
  <1> DEFINE e == [u \in UnitsOf(g) |-> <<h[u[1]], u[2]>>]
  <1>1. ASSUME NEW u \in UnitsOf(g)
        PROVE  /\ u[1] \in T /\ u[2] \in 1 .. MaxUnits /\ u = <<u[1], u[2]>>
               /\ <<h[u[1]], u[2]>> \in UnitsOf(f)
    BY MaxUnitsAssumption DEF UnitsOf, Units
  <1>2. e \in [UnitsOf(g) -> UnitsOf(f)]
    BY <1>1
  <1>3. ASSUME NEW u \in UnitsOf(g), NEW v \in UnitsOf(g), e[u] = e[v]
        PROVE  u = v
    <2>1. h[u[1]] = h[v[1]] /\ u[2] = v[2]
      BY <1>3
    <2> QED BY <1>1, <2>1
  <1>4. e \in Injection(UnitsOf(g), UnitsOf(f))
    <2> HIDE DEF e
    <2> QED BY <1>2, <1>3 DEF Injection, IsInjective
  <1>5. IsFiniteSet(UnitsOf(f))
    BY TotalNat
  <1>6. Cardinality(UnitsOf(g)) <= Cardinality(UnitsOf(f))
    <2> HIDE DEF e
    <2> QED BY <1>4, <1>5, FS_Injection
  <1> QED  BY <1>6 DEF Total

\* A sum of zeros is zero, and a sum of zero has only zeros.
LEMMA TotalZero ==
    ASSUME NEW S, IsFiniteSet(S), NEW f \in [S -> Units]
    PROVE  Total(f) = 0 <=> \A x \in S : f[x] = 0
  <1>1. UnitsOf(f) = {} <=> \A x \in S : f[x] = 0
    <2>1. ASSUME NEW x \in S, f[x] # 0 PROVE <<x, f[x]>> \in UnitsOf(f)
      BY <2>1, MaxUnitsAssumption DEF UnitsOf, Units
    <2>2. ASSUME NEW u \in UnitsOf(f) PROVE u[1] \in S /\ f[u[1]] # 0
      BY MaxUnitsAssumption DEF UnitsOf, Units
    <2> QED BY <2>1, <2>2
  <1>2. IsFiniteSet(UnitsOf(f))
    BY TotalNat
  <1> QED  BY <1>1, <1>2, FS_EmptySet DEF Total

\* What an element gives to a greedy draw is between nothing and all it has.
LEMMA GreedyWithin ==
    ASSUME NEW S, IsFiniteSet(S), NEW avail \in [S -> Units], NEW rank,
           NEW q \in Nat
    PROVE  /\ Greedy(avail, rank, q) \in [S -> Units]
           /\ \A x \in S : Greedy(avail, rank, q)[x] <= avail[x]
  <1> DEFINE before(x) == [y \in S |-> IF rank[y] < rank[x] THEN avail[y] ELSE 0]
             ahead(x) == Total(before(x))
             give(x) == IF q <= ahead(x) THEN 0 ELSE Smaller(avail[x], q - ahead(x))
  <1>1. Greedy(avail, rank, q) = [x \in S |-> give(x)]
    BY DEF Greedy
  <1>2. ASSUME NEW x \in S PROVE give(x) \in Units /\ give(x) <= avail[x]
    <2>1. before(x) \in [S -> Units]
      BY MaxUnitsAssumption DEF Units
    <2> HIDE DEF before
    <2>2. ahead(x) \in Nat
      BY <2>1, TotalNat
    <2> HIDE DEF ahead
    <2> QED BY <2>2, MaxUnitsAssumption DEF Smaller, Units
  <1> HIDE DEF give
  <1> QED  BY <1>1, <1>2

\* A sum whose terms that count go, one to one, to the terms that count of
\* another is equal to it.
LEMMA TotalCarried ==
    ASSUME NEW S, IsFiniteSet(S), NEW f \in [S -> Units],
           NEW T, IsFiniteSet(T), NEW g \in [T -> Units], NEW h \in [T -> S],
           \A x \in T : g[x] > 0 => g[x] = f[h[x]],
           \A x, y \in T : g[x] > 0 /\ g[y] > 0 /\ h[x] = h[y] => x = y,
           \A s \in S : f[s] > 0 => \E x \in T : h[x] = s /\ g[x] > 0
    PROVE  Total(g) = Total(f)
  <1> DEFINE e == [u \in UnitsOf(g) |-> <<h[u[1]], u[2]>>]
  <1>1. ASSUME NEW u \in UnitsOf(g)
        PROVE  /\ u[1] \in T /\ u[2] \in 1 .. MaxUnits /\ u = <<u[1], u[2]>>
               /\ g[u[1]] > 0 /\ u[2] <= g[u[1]]
    BY MaxUnitsAssumption DEF UnitsOf, Units
  <1>2. ASSUME NEW u \in UnitsOf(g) PROVE <<h[u[1]], u[2]>> \in UnitsOf(f)
    <2>1. h[u[1]] \in S /\ u[2] <= f[h[u[1]]]
      BY <1>1
    <2> QED BY <1>1, <2>1 DEF UnitsOf
  <1>3. e \in [UnitsOf(g) -> UnitsOf(f)]
    BY <1>2
  <1>4. ASSUME NEW u \in UnitsOf(g), NEW v \in UnitsOf(g), e[u] = e[v]
        PROVE  u = v
    <2>1. h[u[1]] = h[v[1]] /\ u[2] = v[2]
      BY <1>4
    <2> QED BY <1>1, <2>1
  <1>5. ASSUME NEW w \in UnitsOf(f) PROVE \E u \in UnitsOf(g) : e[u] = w
    <2>1. w[1] \in S /\ w[2] \in 1 .. MaxUnits /\ w = <<w[1], w[2]>> /\ w[2] <= f[w[1]]
      BY DEF UnitsOf
    <2>2. f[w[1]] > 0
      BY <2>1, MaxUnitsAssumption DEF Units
    <2>3. PICK x \in T : h[x] = w[1] /\ g[x] > 0
      BY <2>1, <2>2
    <2>4. <<x, w[2]>> \in UnitsOf(g)
      BY <2>1, <2>3 DEF UnitsOf
    <2>5. e[<<x, w[2]>>] = w
      BY <2>1, <2>3, <2>4
    <2> QED BY <2>4, <2>5
  <1>6. e \in Bijection(UnitsOf(g), UnitsOf(f))
    <2> HIDE DEF e
    <2> QED BY <1>3, <1>4, <1>5 DEF Bijection, Injection, IsInjective, Surjection
  <1>7. IsFiniteSet(UnitsOf(g))
    BY TotalNat
  <1>8. Cardinality(UnitsOf(f)) = Cardinality(UnitsOf(g))
    <2>1. ExistsBijection(UnitsOf(g), UnitsOf(f))
      BY <1>6 DEF ExistsBijection
    <2> QED BY <1>7, <2>1, FS_Bijection
  <1> QED  BY <1>8 DEF Total

\* A sum of sums, term by term.
LEMMA TotalSum ==
    ASSUME NEW S, IsFiniteSet(S), NEW f \in [S -> Units], NEW g \in [S -> Units],
           NEW t \in [S -> Units], \A x \in S : f[x] = g[x] + t[x]
    PROVE  Total(f) = Total(g) + Total(t)
  <1> DEFINE D == UnitsOf(f) \ UnitsOf(g)
             e == [u \in UnitsOf(t) |-> <<u[1], g[u[1]] + u[2]>>]
  <1>1. ASSUME NEW x \in S
        PROVE  /\ f[x] \in Nat /\ g[x] \in Nat /\ t[x] \in Nat
               /\ f[x] <= MaxUnits /\ f[x] = g[x] + t[x]
    BY MaxUnitsAssumption DEF Units
  <1>2. ASSUME NEW u \in UnitsOf(t)
        PROVE  /\ u[1] \in S /\ u[2] \in 1 .. MaxUnits /\ u = <<u[1], u[2]>>
               /\ <<u[1], g[u[1]] + u[2]>> \in D
    <2>1. u[1] \in S /\ u[2] \in 1 .. MaxUnits /\ u = <<u[1], u[2]>> /\ u[2] <= t[u[1]]
      BY DEF UnitsOf
    <2>2. /\ g[u[1]] + u[2] \in 1 .. MaxUnits /\ g[u[1]] + u[2] <= f[u[1]]
          /\ ~ (g[u[1]] + u[2] <= g[u[1]])
      BY <1>1, <2>1, MaxUnitsAssumption
    <2> QED BY <2>1, <2>2 DEF UnitsOf
  <1>3. e \in [UnitsOf(t) -> D]
    BY <1>2
  <1>4. ASSUME NEW u \in UnitsOf(t), NEW v \in UnitsOf(t), e[u] = e[v]
        PROVE  u = v
    <2>1. u[1] = v[1] /\ g[u[1]] + u[2] = g[v[1]] + v[2]
      BY <1>4
    <2>2. g[v[1]] = g[u[1]] /\ u[1] \in S /\ u[2] \in Nat /\ v[2] \in Nat
      <3> HIDE DEF D, e
      <3>1. g[v[1]] = g[u[1]]
        BY <2>1
      <3>2. u[1] \in S /\ u[2] \in 1 .. MaxUnits /\ v[2] \in 1 .. MaxUnits
        BY <1>2
      <3> QED BY <3>1, <3>2, MaxUnitsAssumption
    <2>3. u[2] = v[2]
      <3>1. PICK n \in Nat : n = g[u[1]]
        BY <1>1, <2>2
      <3>2. n + u[2] = n + v[2]
        BY <2>1, <2>2, <3>1
      <3> QED BY <2>2, <3>2
    <2> QED BY <1>2, <2>1, <2>3
  <1>5. ASSUME NEW w \in D PROVE \E u \in UnitsOf(t) : e[u] = w
    <2>1. /\ w[1] \in S /\ w[2] \in 1 .. MaxUnits /\ w = <<w[1], w[2]>>
          /\ w[2] <= f[w[1]] /\ ~ (w[2] <= g[w[1]])
      BY DEF UnitsOf
    <2>2. w[2] - g[w[1]] \in 1 .. MaxUnits /\ w[2] - g[w[1]] <= t[w[1]]
          /\ g[w[1]] + (w[2] - g[w[1]]) = w[2]
      BY <1>1, <2>1, MaxUnitsAssumption
    <2>3. <<w[1], w[2] - g[w[1]]>> \in UnitsOf(t)
      BY <2>1, <2>2 DEF UnitsOf
    <2>4. e[<<w[1], w[2] - g[w[1]]>>] = w
      BY <2>1, <2>2, <2>3
    <2> QED BY <2>3, <2>4
  <1>6. e \in Bijection(UnitsOf(t), D)
    <2> HIDE DEF e, D
    <2> QED BY <1>3, <1>4, <1>5 DEF Bijection, Injection, IsInjective, Surjection
  <1>7. /\ IsFiniteSet(UnitsOf(t)) /\ IsFiniteSet(UnitsOf(f)) /\ IsFiniteSet(UnitsOf(g))
        /\ Cardinality(UnitsOf(t)) \in Nat /\ Cardinality(UnitsOf(f)) \in Nat
        /\ Cardinality(UnitsOf(g)) \in Nat
    BY TotalNat DEF Total
  <1>8. Cardinality(D) = Cardinality(UnitsOf(t))
    <2>1. ExistsBijection(UnitsOf(t), D)
      BY <1>6 DEF ExistsBijection
    <2> HIDE DEF D
    <2> QED BY <1>7, <2>1, FS_Bijection
  <1>9. UnitsOf(f) \cap UnitsOf(g) = UnitsOf(g)
    <2>1. ASSUME NEW u \in UnitsOf(g) PROVE u \in UnitsOf(f)
      <3>1. u \in S \X (1 .. MaxUnits) /\ u[2] <= g[u[1]] /\ u[1] \in S
        BY DEF UnitsOf
      <3>2. u[2] <= f[u[1]]
        BY <1>1, <3>1
      <3> QED BY <3>1, <3>2 DEF UnitsOf
    <2> QED BY <2>1
  <1>10. Cardinality(D) = Cardinality(UnitsOf(f)) - Cardinality(UnitsOf(g))
    <2> HIDE DEF D
    <2>1. D = UnitsOf(f) \ UnitsOf(g)
      BY DEF D
    <2>2. Cardinality(UnitsOf(f) \ UnitsOf(g))
             = Cardinality(UnitsOf(f)) - Cardinality(UnitsOf(f) \cap UnitsOf(g))
      BY <1>7, FS_Difference
    <2> QED BY <1>9, <2>1, <2>2
  <1> QED  BY <1>7, <1>8, <1>10 DEF Total

\* What the elements ahead of x hold, in the order of rank.
Ahead(avail, rank, x) == Total([y \in DOMAIN avail |-> IF rank[y] < rank[x] THEN avail[y] ELSE 0])

\* The order a greedy draw follows: elements that hold something differ in rank.
Ordered(avail, rank) ==
    \A x, y \in DOMAIN avail : avail[x] > 0 /\ avail[y] > 0 /\ rank[x] = rank[y] => x = y

LEMMA AheadFacts ==
    ASSUME NEW S, IsFiniteSet(S), NEW avail \in [S -> Units], NEW rank \in [S -> Int]
    PROVE  /\ \A x \in S : /\ Ahead(avail, rank, x) \in Nat
                           /\ Ahead(avail, rank, x) + avail[x] <= Total(avail)
           /\ \A x, y \in S : rank[y] < rank[x] =>
                 Ahead(avail, rank, y) + avail[y] <= Ahead(avail, rank, x)
  <1> DEFINE before(x) == [y \in S |-> IF rank[y] < rank[x] THEN avail[y] ELSE 0]
  <1>1. ASSUME NEW x \in S
        PROVE  /\ before(x) \in [S -> Units] /\ Ahead(avail, rank, x) = Total(before(x))
               /\ \A y \in S : before(x)[y] = IF rank[y] < rank[x] THEN avail[y] ELSE 0
               /\ avail[x] \in Nat /\ before(x)[x] = 0
               /\ \A y \in S : before(x)[y] <= avail[y]
    BY MaxUnitsAssumption DEF Ahead, Units
  <1>2. ASSUME NEW x \in S, NEW y \in S, rank[y] < rank[x]
        PROVE  \A z \in S : before(y)[z] <= before(x)[z]
    <2> SUFFICES ASSUME NEW z \in S PROVE before(y)[z] <= before(x)[z]
      OBVIOUS
    <2>1. rank[z] \in Int /\ rank[y] \in Int /\ rank[x] \in Int /\ avail[z] \in Nat
      BY MaxUnitsAssumption DEF Units
    <2>2. rank[z] < rank[y] => rank[z] < rank[x]
      BY <1>2, <2>1
    <2>3. /\ before(y)[z] = IF rank[z] < rank[y] THEN avail[z] ELSE 0
          /\ before(x)[z] = IF rank[z] < rank[x] THEN avail[z] ELSE 0
      BY <1>1
    <2> HIDE DEF before
    <2> QED BY <2>1, <2>2, <2>3
  <1> HIDE DEF before
  <1>3. Total(avail) \in Nat /\ \A x \in S : Total(before(x)) \in Nat
    BY <1>1, TotalNat
  <1>4. ASSUME NEW x \in S PROVE Total(before(x)) + avail[x] <= Total(avail)
    <2>1. before(x)[x] <= avail[x] - avail[x]
      BY <1>1
    <2>2. Total(before(x)) <= Total(avail) - avail[x]
      BY <1>1, <2>1, TotalDrop
    <2> QED BY <1>1, <1>3, <2>2
  <1>5. ASSUME NEW x \in S, NEW y \in S, rank[y] < rank[x]
        PROVE  Total(before(y)) + avail[y] <= Total(before(x))
    <2>1. before(x)[y] = avail[y]
      BY <1>1, <1>5
    <2>2. before(y)[y] <= before(x)[y] - avail[y]
      BY <1>1, <2>1
    <2>3. \A z \in S : before(y)[z] <= before(x)[z]
      BY <1>2, <1>5
    <2>4. Total(before(y)) <= Total(before(x)) - avail[y]
      BY <1>1, <2>2, <2>3, TotalDrop
    <2> QED BY <1>1, <1>3, <2>4
  <1> QED  BY <1>1, <1>3, <1>4, <1>5

\* What x gives, said by the units ahead of it.
LEMMA GreedyGives ==
    ASSUME NEW S, NEW avail \in [S -> Units], NEW rank, NEW q, NEW x \in S
    PROVE  Greedy(avail, rank, q)[x]
              = IF q <= Ahead(avail, rank, x) THEN 0
                ELSE Smaller(avail[x], q - Ahead(avail, rank, x))
  BY DEF Greedy, Ahead

\* An element that gives something leaves nothing in the elements before it.
LEMMA GreedyInOrder ==
    ASSUME NEW S, IsFiniteSet(S), NEW avail \in [S -> Units], NEW rank \in [S -> Int],
           NEW q \in Nat, NEW x \in S, NEW y \in S, rank[y] < rank[x],
           Greedy(avail, rank, q)[x] > 0
    PROVE  Greedy(avail, rank, q)[y] = avail[y]
  <1>1. /\ Ahead(avail, rank, x) \in Nat /\ Ahead(avail, rank, y) \in Nat
        /\ avail[y] \in Nat
        /\ Ahead(avail, rank, y) + avail[y] <= Ahead(avail, rank, x)
    BY AheadFacts, MaxUnitsAssumption DEF Units
  <1>2. ~ (q <= Ahead(avail, rank, x))
    BY GreedyGives
  <1>3. CASE q <= Ahead(avail, rank, y)
    BY <1>1, <1>2, <1>3
  <1>4. CASE ~ (q <= Ahead(avail, rank, y))
    <2>1. Greedy(avail, rank, q)[y] = Smaller(avail[y], q - Ahead(avail, rank, y))
      BY <1>4, GreedyGives
    <2> QED BY <1>1, <1>2, <2>1 DEF Smaller
  <1> QED  BY <1>3, <1>4

\* A greedy draw takes what it was asked for, or all there is.
LEMMA GreedyTotal ==
    ASSUME NEW S, IsFiniteSet(S), NEW avail \in [S -> Units], NEW rank \in [S -> Int],
           Ordered(avail, rank), NEW q \in Nat
    PROVE  Total(Greedy(avail, rank, q)) = Smaller(q, Total(avail))
  <1> DEFINE U == UnitsOf(avail)
             N == Total(avail)
             n == Smaller(q, N)
             give == Greedy(avail, rank, q)
             G == UnitsOf(give)
             a(x) == Ahead(avail, rank, x)
             e == [u \in U |-> a(u[1]) + u[2]]
             f == [u \in G |-> a(u[1]) + u[2]]
  <1>1. /\ \A x \in S : a(x) \in Nat /\ a(x) + avail[x] <= N
        /\ \A x, y \in S : rank[y] < rank[x] => a(y) + avail[y] <= a(x)
    BY AheadFacts
  <1>2. N \in Nat /\ IsFiniteSet(U) /\ n \in Nat /\ n <= q /\ n <= N
    BY TotalNat DEF Smaller
  <1>3. ASSUME NEW u \in U
        PROVE  /\ u[1] \in S /\ u[2] \in 1 .. MaxUnits /\ u = <<u[1], u[2]>>
               /\ u[2] <= avail[u[1]] /\ avail[u[1]] \in Nat /\ avail[u[1]] > 0
               /\ rank[u[1]] \in Int
    BY MaxUnitsAssumption DEF UnitsOf, Units
  <1> HIDE DEF a, U, N, n
  <1>4. e \in [U -> 1 .. N]
    <2>1. ASSUME NEW u \in U PROVE a(u[1]) + u[2] \in 1 .. N
      BY <1>1, <1>2, <1>3, MaxUnitsAssumption
    <2> QED BY <2>1
  <1>5. ASSUME NEW u \in U, NEW v \in U, e[u] = e[v] PROVE u = v
    <2>1. a(u[1]) + u[2] = a(v[1]) + v[2]
      BY <1>5
    <2>2. a(u[1]) \in Nat /\ a(v[1]) \in Nat /\ u[2] \in Nat /\ v[2] \in Nat
      BY <1>1, <1>3, MaxUnitsAssumption
    <2>3. u[1] = v[1]
      <3>1. ~ (rank[u[1]] < rank[v[1]])
        <4> SUFFICES ASSUME rank[u[1]] < rank[v[1]] PROVE FALSE
          OBVIOUS
        <4>1. a(u[1]) + avail[u[1]] <= a(v[1])
          BY <1>1, <1>3
        <4>2. u[2] <= avail[u[1]] /\ avail[u[1]] \in Nat /\ v[2] > 0
          BY <1>3, MaxUnitsAssumption
        <4> QED BY <2>1, <2>2, <4>1, <4>2
      <3>2. ~ (rank[v[1]] < rank[u[1]])
        <4> SUFFICES ASSUME rank[v[1]] < rank[u[1]] PROVE FALSE
          OBVIOUS
        <4>1. a(v[1]) + avail[v[1]] <= a(u[1])
          BY <1>1, <1>3
        <4>2. v[2] <= avail[v[1]] /\ avail[v[1]] \in Nat /\ u[2] > 0
          BY <1>3, MaxUnitsAssumption
        <4> QED BY <2>1, <2>2, <4>1, <4>2
      <3>3. rank[u[1]] = rank[v[1]]
        BY <1>3, <3>1, <3>2
      <3> QED BY <1>3, <3>3 DEF Ordered
    <2>4. u[2] = v[2]
      BY <2>1, <2>2, <2>3
    <2> QED BY <1>3, <2>3, <2>4
  <1>6. ASSUME NEW i \in 1 .. N PROVE \E u \in U : e[u] = i
    <2>1. e \in Injection(U, 1 .. N)
      <3> HIDE DEF e
      <3> QED BY <1>4, <1>5 DEF Injection, IsInjective
    <2>2. IsFiniteSet(1 .. N) /\ Cardinality(1 .. N) = N
      BY <1>2, FS_Interval
    <2>3. Cardinality(U) = N
      BY DEF U, N, Total
    <2>4. e \in Surjection(U, 1 .. N)
      <3> HIDE DEF e
      <3> QED BY <2>1, <2>2, <2>3, FS_Injection
    <2> HIDE DEF e
    <2> QED BY <2>4 DEF Surjection
  <1>7. give \in [S -> Units] /\ \A x \in S : give[x] <= avail[x]
    BY GreedyWithin
  <1>8. ASSUME NEW u PROVE u \in G <=> u \in U /\ a(u[1]) + u[2] <= q
    <2>1. G = {v \in S \X (1 .. MaxUnits) : v[2] <= give[v[1]]}
      BY <1>7 DEF UnitsOf
    <2>2. U = {v \in S \X (1 .. MaxUnits) : v[2] <= avail[v[1]]}
      BY DEF UnitsOf, U
    <2>3. ASSUME u \in S \X (1 .. MaxUnits)
          PROVE  u[2] <= give[u[1]] <=> u[2] <= avail[u[1]] /\ a(u[1]) + u[2] <= q
      <3> DEFINE x == u[1]
                 i == u[2]
      <3>1. x \in S /\ i \in 1 .. MaxUnits /\ i \in Nat /\ i > 0
        BY <2>3, MaxUnitsAssumption
      <3>2. a(x) \in Nat /\ avail[x] \in Nat
        BY <1>1, <3>1, MaxUnitsAssumption DEF Units
      <3>3. give[x] = IF q <= a(x) THEN 0 ELSE Smaller(avail[x], q - a(x))
        BY <3>1, GreedyGives DEF a
      <3> HIDE DEF give, x, i
      <3>4. i <= give[x] <=> i <= avail[x] /\ a(x) + i <= q
        BY <3>1, <3>2, <3>3 DEF Smaller
      <3> QED BY <3>4 DEF x, i
    <2> HIDE DEF give, G
    <2> QED BY <2>1, <2>2, <2>3
  <1> HIDE DEF give, G
  <1>9. f \in [G -> 1 .. n]
    <2>1. ASSUME NEW u \in G PROVE a(u[1]) + u[2] \in 1 .. n
      <3>1. u \in U /\ a(u[1]) + u[2] <= q
        BY <1>8
      <3>2. a(u[1]) + u[2] \in 1 .. N
        BY <1>4, <3>1
      <3> QED BY <1>2, <3>1, <3>2 DEF n, Smaller
    <2> QED BY <2>1
  <1>10. ASSUME NEW u \in G, NEW v \in G, f[u] = f[v] PROVE u = v
    <2>1. u \in U /\ v \in U
      BY <1>8
    <2>2. e[u] = e[v]
      BY <1>10, <2>1
    <2> HIDE DEF e, f
    <2> QED BY <1>5, <2>1, <2>2
  <1>11. ASSUME NEW i \in 1 .. n PROVE \E u \in G : f[u] = i
    <2>1. i \in 1 .. N /\ i <= q
      BY <1>2
    <2>2. PICK u \in U : e[u] = i
      BY <1>6, <2>1
    <2>3. a(u[1]) + u[2] = i
      BY <2>2
    <2>4. u \in G
      BY <1>8, <2>1, <2>3
    <2> QED BY <2>3, <2>4
  <1>12. f \in Bijection(G, 1 .. n)
    <2> HIDE DEF f
    <2> QED BY <1>9, <1>10, <1>11 DEF Bijection, Injection, IsInjective, Surjection
  <1>13. IsFiniteSet(G)
    BY <1>7, TotalNat DEF G
  <1>14. Cardinality(G) = n
    <2>1. ExistsBijection(G, 1 .. n)
      BY <1>12 DEF ExistsBijection
    <2>2. Cardinality(1 .. n) = Cardinality(G)
      BY <1>13, <2>1, FS_Bijection
    <2>3. Cardinality(1 .. n) = n
      BY <1>2, FS_Interval
    <2> QED BY <2>2, <2>3
  <1> QED  BY <1>14 DEF G, give, Total, n, N

(***************************************************************************)
(* The invariant, and the tables.                                          *)
(***************************************************************************)

LotTable == [Lot -> [status: LotStatus, on_hand: Units, reserved: Units]]
MovedTable == [Lot -> Int]
RowTable == [Lot -> [Order \X Slot -> Units]]
LineTable == [Order -> [Product -> [quantity: Units, reserved: Units, prepared: Units]]]
OrderTable == [Order -> OrderStatus]
CartonTable ==
    [Carton -> [status: CartonStatus, shipment: Order \cup {None}, items: [Lot -> Units]]]

\* The movements of a lot never add up to more than it shows.
Explained(d) == \A l \in Lot : d.moved[l] <= d.lot[l].on_hand
\* A lot not yet received has no reservation, a carton not yet made no content.
LotsClean(d) == \A l \in Lot : d.lot[l].status = "absent" => d.lot[l].reserved = 0
CartonsClean(d) == \A c \in Carton : d.carton[c].status = "absent" => d.carton[c].items = NoItems

\* What every operation keeps of the tables, and of the snapshot that a
\* rollback of prepare_order restores.
Good(d) ==
    d \in Tables /\ Backed(d) /\ Explained(d) /\ LotsClean(d) /\ CartonsClean(d)

IInv ==
    /\ TypeOK
    /\ Good(db)
    /\ txn # None => Good(txn.saved)

\* The tables, one by one.
LEMMA TablesAre ==
    /\ Tables = [lot: LotTable, moved: MovedTable, rows: RowTable, line: LineTable,
                 order: OrderTable, carton: CartonTable]
    /\ \A d \in Tables : /\ d.lot \in LotTable /\ d.moved \in MovedTable
                         /\ d.rows \in RowTable /\ d.line \in LineTable
                         /\ d.order \in OrderTable /\ d.carton \in CartonTable
  BY DEF Tables, LotTable, MovedTable, RowTable, LineTable, OrderTable, CartonTable

\* A lot of good tables: its counters are quantities, in order.
LEMMA LotFacts ==
    ASSUME NEW d, Good(d), NEW l \in Lot
    PROVE  /\ d.lot[l].on_hand \in Nat /\ d.lot[l].reserved \in Nat
           /\ d.lot[l].on_hand <= MaxUnits
           /\ d.lot[l].reserved <= d.lot[l].on_hand
           /\ d.moved[l] \in Int /\ d.moved[l] <= d.lot[l].on_hand
           /\ d.rows[l] \in [Order \X Slot -> Units]
           /\ Total(d.rows[l]) \in Nat
           /\ Total(d.rows[l]) <= d.lot[l].reserved
  <1>1. d.lot \in LotTable /\ d.moved \in MovedTable /\ d.rows \in RowTable
    BY TablesAre DEF Good
  <1>2. d.rows[l] \in [Order \X Slot -> Units]
    BY <1>1 DEF RowTable
  <1>3. IsFiniteSet(Order \X Slot)
    BY ConstantsAssumption, FS_Product
  <1>4. Total(d.rows[l]) \in Nat
    BY <1>2, <1>3, TotalNat
  <1>5. /\ d.lot[l].on_hand \in Units /\ d.lot[l].reserved \in Units /\ d.moved[l] \in Int
    BY <1>1 DEF LotTable, MovedTable
  <1> QED  BY <1>2, <1>4, <1>5, MaxUnitsAssumption DEF Good, Backed, Explained, Units

\* consume_stock and reserve_stock_for_order draw from a lot at most what is
\* neither reserved nor gone.
LEMMA FefoTakeWithin ==
    ASSUME NEW d, Good(d), NEW p \in Product, NEW q \in Nat
    PROVE  /\ FefoTake(d, p, q) \in [Lot -> Units]
           /\ \A l \in Lot :
                 /\ FefoTake(d, p, q)[l] <= d.lot[l].on_hand - d.lot[l].reserved
                 /\ d.lot[l].status = "absent" => FefoTake(d, p, q)[l] = 0
  <1> DEFINE avail == FefoAvailable(d, p)
  <1>1. ASSUME NEW l \in Lot
        PROVE  /\ avail[l] \in Units /\ avail[l] <= d.lot[l].on_hand - d.lot[l].reserved
               /\ d.lot[l].status = "absent" => avail[l] = 0
    BY LotFacts, MaxUnitsAssumption DEF FefoAvailable, Units
  <1>2. avail \in [Lot -> Units]
    BY <1>1 DEF FefoAvailable
  <1>3. IsFiniteSet(Lot)
    BY ConstantsAssumption
  <1>4. /\ Greedy(avail, FefoRank, q) \in [Lot -> Units]
        /\ \A l \in Lot : Greedy(avail, FefoRank, q)[l] <= avail[l]
    <2> HIDE DEF avail
    <2> QED BY <1>2, <1>3, GreedyWithin
  <1>5. FefoTake(d, p, q) = Greedy(avail, FefoRank, q)
    BY DEF FefoTake
  <1>6. ASSUME NEW l \in Lot
        PROVE  /\ FefoTake(d, p, q)[l] <= d.lot[l].on_hand - d.lot[l].reserved
               /\ d.lot[l].status = "absent" => FefoTake(d, p, q)[l] = 0
    <2> HIDE DEF avail
    <2>1. FefoTake(d, p, q)[l] \in Nat /\ avail[l] \in Nat
      BY <1>2, <1>4, <1>5, MaxUnitsAssumption DEF Units
    <2>2. d.lot[l].on_hand \in Nat /\ d.lot[l].reserved \in Nat
      BY LotFacts
    <2> QED BY <1>1, <1>4, <1>5, <2>1, <2>2
  <1> HIDE DEF avail
  <1> QED  BY <1>4, <1>5, <1>6

\* consume_stock keeps the tables good.
LEMMA ConsumeStockGood ==
    ASSUME NEW d, Good(d), NEW p \in Product, NEW q \in Nat
    PROVE  Good(ConsumeStock(d, p, q))
  <1> DEFINE take == FefoTake(d, p, q)
             lot == [l \in Lot |-> [d.lot[l] EXCEPT !.on_hand = @ - take[l]]]
             moved == [l \in Lot |-> d.moved[l] - take[l]]
             e == [d EXCEPT !.lot = lot, !.moved = moved]
  <1>1. ASSUME NEW l \in Lot
        PROVE  /\ take[l] \in Nat
               /\ take[l] <= d.lot[l].on_hand - d.lot[l].reserved
    BY FefoTakeWithin, MaxUnitsAssumption DEF Units
  <1>2. ConsumeStock(d, p, q) = e
    BY DEF ConsumeStock
  <1> HIDE DEF take
  <1>3. d \in Tables /\ d.lot \in LotTable /\ d.moved \in MovedTable /\ CartonsClean(d)
    BY TablesAre DEF Good
  <1>4. ASSUME NEW l \in Lot
        PROVE  /\ lot[l] \in [status: LotStatus, on_hand: Units, reserved: Units]
               /\ lot[l].reserved = d.lot[l].reserved /\ lot[l].status = d.lot[l].status
               /\ lot[l].on_hand = d.lot[l].on_hand - take[l]
               /\ moved[l] = d.moved[l] - take[l]
               /\ moved[l] \in Int /\ moved[l] <= lot[l].on_hand
               /\ lot[l].reserved <= lot[l].on_hand
    <2>1. /\ d.lot[l].on_hand \in Nat /\ d.lot[l].reserved \in Nat /\ d.moved[l] \in Int
          /\ d.lot[l].on_hand <= MaxUnits /\ d.lot[l].reserved <= d.lot[l].on_hand
          /\ d.moved[l] <= d.lot[l].on_hand
      BY LotFacts
    <2>2. d.lot[l] \in [status: LotStatus, on_hand: Units, reserved: Units]
      BY <1>3 DEF LotTable
    <2>3. d.lot[l].on_hand - take[l] \in Units
      BY <1>1, <2>1, MaxUnitsAssumption DEF Units
    <2>4. /\ lot[l] \in [status: LotStatus, on_hand: Units, reserved: Units]
          /\ lot[l].reserved = d.lot[l].reserved /\ lot[l].status = d.lot[l].status
          /\ lot[l].on_hand = d.lot[l].on_hand - take[l]
          /\ moved[l] = d.moved[l] - take[l]
      BY <2>2, <2>3
    <2> QED BY <1>1, <2>1, <2>4
  <1>5. lot \in LotTable /\ moved \in MovedTable
    BY <1>4 DEF LotTable, MovedTable
  <1> HIDE DEF lot, moved
  <1>6. e \in Tables /\ e.lot = lot /\ e.moved = moved /\ e.rows = d.rows /\ e.carton = d.carton
    BY <1>3, <1>5, TablesAre
  <1> HIDE DEF e
  <1>7. Backed(e) /\ Explained(e) /\ LotsClean(e)
    BY <1>4, <1>6, LotFacts DEF Good, Backed, Explained, LotsClean
  <1> QED  BY <1>2, <1>3, <1>6, <1>7 DEF Good, CartonsClean

\* The row whose copy of the lot is saved last: what it gives is what the lot
\* loses, and no other lot row is needed to bound it.
LEMMA LastSaved ==
    ASSUME NEW tie \in TieBreak, NEW take \in [Lot \X Slot -> Units], NEW l \in Lot
    PROVE  \/ /\ WrittenBack(take, RowRank(tie), l) = 0
              /\ \A k \in Slot : take[<<l, k>>] = 0
           \/ \E k \in Slot : /\ WrittenBack(take, RowRank(tie), l) = take[<<l, k>>]
                             /\ take[<<l, k>>] > 0
  <1> DEFINE rank == RowRank(tie)
             touched == {r \in Lot \X Slot : r[1] = l /\ take[r] > 0}
  <1>1. CASE touched = {}
    <2>1. \A k \in Slot : <<l, k>> \in Lot \X Slot /\ take[<<l, k>>] \in Nat
      BY MaxUnitsAssumption DEF Units
    <2>2. \A k \in Slot : ~ (take[<<l, k>>] > 0)
      BY <1>1
    <2> QED BY <1>1, <2>1, <2>2 DEF WrittenBack
  <1>2. CASE touched # {}
    <2> DEFINE base == ReleaseRank[l] * Cardinality(Slot)
               ranks == {rank[r] - base : r \in touched}
    <2>1. Cardinality(Slot) \in Nat /\ base \in Nat
      BY ConstantsAssumption, FS_CardinalityType
    <2>2. ASSUME NEW r \in touched
          PROVE  rank[r] = base + tie[r[2]] /\ tie[r[2]] \in 0 .. Cardinality(Slot) - 1
      BY DEF TieBreak, RowRank
    <2> HIDE DEF base, rank
    <2>3. \A r \in touched : rank[r] \in Nat /\ rank[r] - base \in 0 .. Cardinality(Slot)
      BY <2>1, <2>2
    <2>4. ranks \in SUBSET (0 .. Cardinality(Slot)) /\ ranks # {}
      BY <1>2, <2>3
    <2>5. \E m \in ranks : \A n \in ranks : n <= m
      <3> HIDE DEF ranks
      <3> QED BY <2>1, <2>4, GreatestNat
    <2>6. PICK m \in touched : \A n \in touched : rank[n] - base <= rank[m] - base
      BY <2>5
    <2>7. \A n \in touched : rank[n] <= rank[m]
      BY <2>1, <2>3, <2>6
    <2> DEFINE last == CHOOSE r \in touched : \A s \in touched : rank[s] <= rank[r]
    <2>8. last \in touched
      <3> HIDE DEF touched
      <3> QED BY <2>6, <2>7
    <2>9. WrittenBack(take, rank, l) = take[last]
      BY <1>2 DEF WrittenBack
    <2> HIDE DEF last
    <2>10. last[2] \in Slot /\ last = <<l, last[2]>> /\ take[last] > 0
      BY <2>8
    <2> QED BY <2>9, <2>10 DEF rank
  <1> QED  BY <1>1, <1>2

\* Drawing q units from the rows of a line: no row gives more than it holds, a
\* lot loses at most what its rows gave, and its rows keep no more than what is
\* left of its reservation.
LEMMA DrawRows ==
    ASSUME NEW d, Good(d), NEW o \in Order, NEW p \in Product, NEW q \in Nat,
           NEW tie \in TieBreak, NEW take,
           take = Greedy(HeldBy(d, o, p), RowRank(tie), q), NEW l \in Lot
    PROVE  /\ LeaveRows(d, o, take)[l] \in [Order \X Slot -> Units]
           /\ WrittenBack(take, RowRank(tie), l) \in Nat
           /\ WrittenBack(take, RowRank(tie), l) <= d.lot[l].reserved
           /\ Total(LeaveRows(d, o, take)[l])
                 <= d.lot[l].reserved - WrittenBack(take, RowRank(tie), l)
           /\ Given(take, l) \in Units
           /\ WrittenBack(take, RowRank(tie), l) <= Given(take, l)
           /\ ProductOf[l] # p => Given(take, l) = 0
  <1> DEFINE held == HeldBy(d, o, p)
             old == d.rows[l]
             new == LeaveRows(d, o, take)[l]
             back == WrittenBack(take, RowRank(tie), l)
             gave == [k \in Slot |-> take[<<l, k>>]]
  <1>1. old \in [Order \X Slot -> Units] /\ Total(old) \in Nat /\ Total(old) <= d.lot[l].reserved
        /\ d.lot[l].reserved \in Nat /\ d.lot[l].reserved <= MaxUnits
    <2>1. /\ d.rows[l] \in [Order \X Slot -> Units] /\ Total(d.rows[l]) \in Nat
          /\ Total(d.rows[l]) <= d.lot[l].reserved
      BY LotFacts
    <2>2. /\ d.lot[l].on_hand \in Nat /\ d.lot[l].on_hand <= MaxUnits
          /\ d.lot[l].reserved \in Nat /\ d.lot[l].reserved <= d.lot[l].on_hand
      BY LotFacts
    <2>3. d.lot[l].reserved <= MaxUnits
      BY <2>2, MaxUnitsAssumption
    <2> QED BY <2>1, <2>2, <2>3
  <1>2. held \in [Lot \X Slot -> Units]
    <2>1. d.rows \in RowTable
      BY TablesAre DEF Good
    <2> QED BY <2>1, MaxUnitsAssumption DEF HeldBy, RowTable, Units
  <1>3. IsFiniteSet(Lot \X Slot) /\ IsFiniteSet(Order \X Slot) /\ IsFiniteSet(Slot)
    BY ConstantsAssumption, FS_Product
  <1>4. /\ take \in [Lot \X Slot -> Units]
        /\ \A r \in Lot \X Slot : take[r] <= held[r]
    <2> HIDE DEF held
    <2>1. take = Greedy(held, RowRank(tie), q)
      BY DEF held
    <2> QED BY <1>2, <1>3, <2>1, GreedyWithin
  <1>5. ASSUME NEW k \in Slot
        PROVE  /\ <<l, k>> \in Lot \X Slot /\ <<o, k>> \in Order \X Slot
               /\ take[<<l, k>>] \in Nat /\ take[<<l, k>>] <= MaxUnits
               /\ old[<<o, k>>] \in Nat /\ old[<<o, k>>] <= MaxUnits
               /\ take[<<l, k>>] <= old[<<o, k>>]
               /\ ProductOf[l] # p => take[<<l, k>>] = 0
    <2>1. held[<<l, k>>] = IF ProductOf[l] = p THEN old[<<o, k>>] ELSE 0
      BY DEF HeldBy
    <2>2. take[<<l, k>>] \in Units /\ old[<<o, k>>] \in Units /\ take[<<l, k>>] <= held[<<l, k>>]
      BY <1>1, <1>4
    <2> QED BY <2>1, <2>2, MaxUnitsAssumption DEF Units
  <1>6. ASSUME NEW s \in Order \X Slot
        PROVE  /\ new[s] = IF s[1] = o THEN old[s] - take[<<l, s[2]>>] ELSE old[s]
               /\ new[s] \in Units /\ new[s] <= old[s]
    <2>1. new[s] = IF s[1] = o THEN old[s] - take[<<l, s[2]>>] ELSE old[s]
      BY DEF LeaveRows
    <2>2. s = <<s[1], s[2]>> /\ s[2] \in Slot /\ old[s] \in Nat /\ old[s] <= MaxUnits
      BY <1>1, MaxUnitsAssumption DEF Units
    <2>3. take[<<l, s[2]>>] \in Nat /\ (s[1] = o => take[<<l, s[2]>>] <= old[s])
      BY <1>5, <2>2
    <2> HIDE DEF new, old
    <2> QED BY <2>1, <2>2, <2>3, MaxUnitsAssumption DEF Units
  <1>7. new \in [Order \X Slot -> Units]
    <2>1. new = [s \in Order \X Slot |->
                    IF s[1] = o THEN old[s] - take[<<l, s[2]>>] ELSE old[s]]
      BY DEF LeaveRows
    <2> HIDE DEF new, old
    <2> QED BY <1>6, <2>1
  <1>8. gave \in [Slot -> Units] /\ \A k \in Slot : gave[k] = take[<<l, k>>]
    <2>1. \A k \in Slot : take[<<l, k>>] \in Units
      BY <1>4
    <2> QED BY <2>1
  <1>9. Total(gave) \in Nat /\ Total(gave) <= Total(old)
    <2> DEFINE h == [k \in Slot |-> <<o, k>>]
    <2>1. /\ h \in [Slot -> Order \X Slot]
          /\ \A j, k \in Slot : h[j] = h[k] => j = k
          /\ \A k \in Slot : gave[k] <= old[h[k]]
      BY <1>5
    <2> HIDE DEF h, gave, old
    <2> QED BY <1>1, <1>3, <1>8, <2>1, TotalEmbed, TotalNat
  <1>10. Total(gave) \in Units
    BY <1>1, <1>9, MaxUnitsAssumption DEF Units
  <1>11. ProductOf[l] # p => Total(gave) = 0
    <2>1. SUFFICES ASSUME ProductOf[l] # p PROVE Total(gave) = 0
      OBVIOUS
    <2>2. \A k \in Slot : gave[k] = 0
      BY <1>5, <1>8, <2>1
    <2> HIDE DEF gave
    <2>3. Total(gave) = 0 <=> \A k \in Slot : gave[k] = 0
      BY <1>3, <1>8, TotalZero
    <2> QED BY <2>2, <2>3
  <1>12. Given(take, l) = Total(gave)
    BY DEF Given
  <1>13. CASE back = 0
    <2>1. Total(new) <= Total(old)
      <3> HIDE DEF new, old
      <3> QED BY <1>1, <1>3, <1>6, <1>7, TotalMonotone
    <2>2. Total(new) \in Nat
      <3> HIDE DEF new
      <3> QED BY <1>3, <1>7, TotalNat
    <2> HIDE DEF new, old, gave, back
    <2>3. Total(new) <= d.lot[l].reserved - back /\ back <= d.lot[l].reserved /\ back \in Nat
      BY <1>1, <1>13, <2>1, <2>2
    <2> QED BY <1>7, <1>9, <1>10, <1>11, <1>13, <1>12, <2>3 DEF new, back
  <1>14. CASE back # 0
    <2>1. PICK k \in Slot : back = take[<<l, k>>]
      BY <1>4, <1>14, LastSaved
    <2>2. back \in Nat /\ back <= old[<<o, k>>] /\ <<o, k>> \in Order \X Slot
          /\ new[<<o, k>>] <= old[<<o, k>>] - back
      <3>1. new[<<o, k>>] = old[<<o, k>>] - take[<<l, k>>]
        BY <1>5, <1>6
      <3> HIDE DEF new, old, back
      <3> QED BY <1>5, <2>1, <3>1
    <2>3. Total(new) <= Total(old) - back
      <3> HIDE DEF new, old, back
      <3> QED BY <1>1, <1>3, <1>6, <1>7, <2>2, TotalDrop
    <2>4. old[<<o, k>>] <= Total(old)
      <3> HIDE DEF old
      <3> QED BY <1>1, <1>3, <2>2, TermBelowTotal
    <2>5. back <= Total(gave)
      <3> HIDE DEF gave
      <3> QED BY <1>3, <1>8, <2>1, TermBelowTotal
    <2>6. Total(new) \in Nat /\ old[<<o, k>>] \in Nat
      <3> HIDE DEF new
      <3> QED BY <1>3, <1>5, <1>7, TotalNat
    <2> HIDE DEF new, old, gave, back
    <2>7. Total(new) <= d.lot[l].reserved - back /\ back <= d.lot[l].reserved
      BY <1>1, <2>2, <2>3, <2>4, <2>6
    <2> QED BY <1>7, <1>10, <1>11, <1>12, <2>2, <2>5, <2>7 DEF new, back
  <1> QED  BY <1>13, <1>14

\* release_reserved_stock keeps the tables good, whatever the row order.
LEMMA ReleaseGood ==
    ASSUME NEW d, Good(d), NEW o \in Order, NEW p \in Product, NEW q \in Nat,
           NEW tie \in TieBreak
    PROVE  Good(ReleaseReserved(d, o, p, q, tie))
  <1> DEFINE take == Greedy(HeldBy(d, o, p), RowRank(tie), q)
             back(l) == WrittenBack(take, RowRank(tie), l)
             rows == LeaveRows(d, o, take)
             lot == [l \in Lot |-> [d.lot[l] EXCEPT !.reserved = IF @ < back(l) THEN 0 ELSE @ - back(l)]]
             line == [d.line EXCEPT ![o][p].reserved = IF @ < q THEN 0 ELSE @ - q]
             e == [d EXCEPT !.rows = rows, !.lot = lot, !.line = line]
  <1>1. ReleaseReserved(d, o, p, q, tie) = e
    BY DEF ReleaseReserved
  <1>2. /\ d \in Tables /\ d.lot \in LotTable /\ d.line \in LineTable /\ CartonsClean(d)
        /\ Explained(d) /\ LotsClean(d)
    BY TablesAre DEF Good
  <1> HIDE DEF take
  <1>3. ASSUME NEW l \in Lot
        PROVE  /\ rows[l] \in [Order \X Slot -> Units]
               /\ lot[l] \in [status: LotStatus, on_hand: Units, reserved: Units]
               /\ lot[l].on_hand = d.lot[l].on_hand
               /\ lot[l].status = "absent" => lot[l].reserved = 0
               /\ Total(rows[l]) <= lot[l].reserved /\ lot[l].reserved <= lot[l].on_hand
    <2>1. /\ rows[l] \in [Order \X Slot -> Units] /\ back(l) \in Nat /\ back(l) <= d.lot[l].reserved
          /\ Total(rows[l]) <= d.lot[l].reserved - back(l)
      BY DrawRows DEF take
    <2>2. /\ d.lot[l].on_hand \in Nat /\ d.lot[l].reserved \in Nat
          /\ d.lot[l].on_hand <= MaxUnits /\ d.lot[l].reserved <= d.lot[l].on_hand
      BY LotFacts
    <2>3. d.lot[l] \in [status: LotStatus, on_hand: Units, reserved: Units]
      BY <1>2 DEF LotTable
    <2> HIDE DEF back, rows
    <2>4. ~ (d.lot[l].reserved < back(l)) /\ d.lot[l].reserved - back(l) \in Units
      BY <2>1, <2>2, MaxUnitsAssumption DEF Units
    <2>5. lot[l] = [d.lot[l] EXCEPT !.reserved = d.lot[l].reserved - back(l)]
      BY <2>4
    <2> HIDE DEF lot
    <2>6. /\ lot[l] \in [status: LotStatus, on_hand: Units, reserved: Units]
          /\ lot[l].on_hand = d.lot[l].on_hand /\ lot[l].status = d.lot[l].status
          /\ lot[l].reserved = d.lot[l].reserved - back(l)
      BY <2>3, <2>4, <2>5
    <2>7. lot[l].status = "absent" => lot[l].reserved = 0
      <3>1. d.lot[l].status = "absent" => d.lot[l].reserved = 0
        BY <1>2 DEF LotsClean
      <3> HIDE DEF lot
      <3> QED BY <2>1, <2>2, <2>6, <3>1
    <2> QED BY <2>1, <2>2, <2>6, <2>7
  <1>4. lot \in LotTable
    BY <1>3 DEF LotTable
  <1>5. rows \in RowTable
    BY <1>3 DEF RowTable, LeaveRows
  <1>6. line \in LineTable
    BY <1>2, MaxUnitsAssumption DEF LineTable, Units
  <1> HIDE DEF rows, lot, line
  <1>7. /\ e \in Tables /\ e.lot = lot /\ e.rows = rows /\ e.moved = d.moved
        /\ e.carton = d.carton
    BY <1>2, <1>4, <1>5, <1>6, TablesAre
  <1> HIDE DEF e
  <1>8. Backed(e) /\ Explained(e) /\ LotsClean(e) /\ CartonsClean(e)
    BY <1>2, <1>3, <1>7 DEF Backed, Explained, LotsClean, CartonsClean
  <1> QED  BY <1>1, <1>7, <1>8 DEF Good

\* pack_carton_from_reserved into a carton that holds nothing of the product,
\* for at most what the line still lacks, keeps the tables good.
LEMMA PackReservedGood ==
    ASSUME NEW d, Good(d), NEW o \in Order, NEW p \in Product, NEW q \in Nat,
           NEW tie \in TieBreak, NEW c \in Carton, q <= Remaining(d, o, p),
           \A l \in Lot : ProductOf[l] = p => d.carton[c].items[l] = 0
    PROVE  Good(PackReserved(d, o, p, q, tie, c))
  <1> DEFINE take == Greedy(HeldBy(d, o, p), RowRank(tie), q)
             back(l) == WrittenBack(take, RowRank(tie), l)
             rows == LeaveRows(d, o, take)
             lot == [l \in Lot |-> [d.lot[l] EXCEPT !.reserved = @ - back(l), !.on_hand = @ - back(l)]]
             moved == [l \in Lot |-> d.moved[l] - Given(take, l)]
             now == d.line[o][p]
             new == [quantity |-> now.quantity,
                     reserved |-> IF now.reserved < q THEN 0 ELSE now.reserved - q,
                     prepared |-> now.prepared + q]
             line == [d.line EXCEPT ![o][p] = new]
             items == [l \in Lot |-> d.carton[c].items[l] + Given(take, l)]
             carton == [d.carton EXCEPT ![c] = [status |-> "assigned", shipment |-> o,
                                                items |-> items]]
             e == [d EXCEPT !.rows = rows, !.lot = lot, !.moved = moved, !.line = line,
                            !.carton = carton]
  <1>2. /\ d \in Tables /\ d.lot \in LotTable /\ d.line \in LineTable /\ CartonsClean(d)
        /\ d.carton \in CartonTable /\ d.moved \in MovedTable /\ LotsClean(d)
    BY TablesAre DEF Good
  <1>1. PackReserved(d, o, p, q, tie, c) = e
    BY DEF PackReserved
  <1> HIDE DEF take
  <1>3. ASSUME NEW l \in Lot
        PROVE  /\ rows[l] \in [Order \X Slot -> Units]
               /\ lot[l] \in [status: LotStatus, on_hand: Units, reserved: Units]
               /\ Total(rows[l]) <= lot[l].reserved /\ lot[l].reserved <= lot[l].on_hand
               /\ moved[l] \in Int /\ moved[l] <= lot[l].on_hand
               /\ items[l] \in Units
               /\ lot[l].status = "absent" => lot[l].reserved = 0
    <2>1. /\ rows[l] \in [Order \X Slot -> Units] /\ back(l) \in Nat /\ back(l) <= d.lot[l].reserved
          /\ Total(rows[l]) <= d.lot[l].reserved - back(l)
          /\ Given(take, l) \in Units /\ back(l) <= Given(take, l)
          /\ ProductOf[l] # p => Given(take, l) = 0
      <3>1. take = Greedy(HeldBy(d, o, p), RowRank(tie), q)
        BY DEF take
      <3> QED BY <3>1, DrawRows
    <2>2. /\ d.lot[l].on_hand \in Nat /\ d.lot[l].reserved \in Nat
          /\ d.lot[l].on_hand <= MaxUnits /\ d.lot[l].reserved <= d.lot[l].on_hand
          /\ d.moved[l] \in Int /\ d.moved[l] <= d.lot[l].on_hand
      BY LotFacts
    <2>3. d.lot[l] \in [status: LotStatus, on_hand: Units, reserved: Units]
      BY <1>2 DEF LotTable
    <2>4. d.carton[c].items[l] \in Units
      BY <1>2 DEF CartonTable
    <2> HIDE DEF back, rows
    <2>5. /\ d.lot[l].reserved - back(l) \in Units /\ d.lot[l].on_hand - back(l) \in Units
          /\ moved[l] = d.moved[l] - Given(take, l) /\ Given(take, l) \in Nat
      BY <2>1, <2>2, MaxUnitsAssumption DEF Units
    <2>6. d.carton[c].items[l] = 0 \/ Given(take, l) = 0
      BY <2>1
    <2>7. items[l] \in Units
      BY <2>1, <2>4, <2>6, MaxUnitsAssumption DEF Units
    <2>8. lot[l] = [d.lot[l] EXCEPT !.reserved = d.lot[l].reserved - back(l),
                                    !.on_hand = d.lot[l].on_hand - back(l)]
      OBVIOUS
    <2> HIDE DEF lot, moved, items
    <2>9. /\ lot[l] \in [status: LotStatus, on_hand: Units, reserved: Units]
          /\ lot[l].on_hand = d.lot[l].on_hand - back(l) /\ lot[l].status = d.lot[l].status
          /\ lot[l].reserved = d.lot[l].reserved - back(l)
      BY <2>3, <2>5, <2>8
    <2>10. lot[l].status = "absent" => lot[l].reserved = 0
      <3>1. d.lot[l].status = "absent" => d.lot[l].reserved = 0
        BY <1>2 DEF LotsClean
      <3> HIDE DEF lot
      <3> QED BY <2>1, <2>2, <2>9, <3>1
    <2> QED BY <2>1, <2>2, <2>5, <2>7, <2>9, <2>10
  <1>4. lot \in LotTable /\ moved \in MovedTable /\ items \in [Lot -> Units]
    BY <1>3 DEF LotTable, MovedTable
  <1>5. rows \in RowTable
    BY <1>3 DEF RowTable, LeaveRows
  <1>6. line \in LineTable
    <2>1. now \in [quantity: Units, reserved: Units, prepared: Units]
      BY <1>2 DEF LineTable
    <2>2. new \in [quantity: Units, reserved: Units, prepared: Units]
      BY <2>1, MaxUnitsAssumption DEF Remaining, Units
    <2> HIDE DEF new
    <2> QED BY <1>2, <2>2 DEF LineTable
  <1> HIDE DEF rows, lot, line, moved, items, new, now
  <1>7. carton \in CartonTable /\ carton[c].status = "assigned"
        /\ \A b \in Carton \ {c} : carton[b] = d.carton[b]
    BY <1>2, <1>4 DEF CartonTable, CartonStatus
  <1> HIDE DEF carton
  <1>8. /\ e \in Tables /\ e.lot = lot /\ e.rows = rows /\ e.moved = moved
        /\ e.carton = carton
    BY <1>2, <1>4, <1>5, <1>6, <1>7, TablesAre
  <1> HIDE DEF e
  <1>9. Backed(e) /\ Explained(e) /\ LotsClean(e)
    BY <1>3, <1>8 DEF Backed, Explained, LotsClean
  <1>10. CartonsClean(e)
    BY <1>2, <1>7, <1>8 DEF CartonsClean
  <1> QED  BY <1>1, <1>8, <1>9, <1>10 DEF Good

\* reserve_stock_for_order keeps the tables good.
LEMMA ReserveGood ==
    ASSUME NEW d, Good(d), NEW o \in Order, RowsFit(d, o)
    PROVE  /\ Good(Reserve(d, o))
           /\ Reserve(d, o).line = [d.line EXCEPT ![o] = [p \in Product |->
                  [d.line[o][p] EXCEPT !.reserved = @ + Needed(d, o, p)]]]
           /\ Reserve(d, o).carton = d.carton
  <1> DEFINE take == ReserveTake(d, o)
             slot(l) == CHOOSE k \in FreeSlots(d, o, l) : TRUE
             rows == [l \in Lot |-> IF take[l] = 0 THEN d.rows[l]
                                    ELSE [d.rows[l] EXCEPT ![<<o, slot(l)>>] = take[l]]]
             lot == [l \in Lot |-> [d.lot[l] EXCEPT !.reserved = @ + take[l]]]
             mine == [p \in Product |-> [d.line[o][p] EXCEPT !.reserved = @ + Needed(d, o, p)]]
             line == [d.line EXCEPT ![o] = mine]
             order == [d.order EXCEPT ![o] = "reserved"]
             e == [d EXCEPT !.rows = rows, !.lot = lot, !.line = line, !.order = order]
  <1>1. Reserve(d, o) = e
    BY DEF Reserve
  <1>2. /\ d \in Tables /\ d.lot \in LotTable /\ d.line \in LineTable /\ CartonsClean(d)
        /\ d.order \in OrderTable /\ d.rows \in RowTable /\ Explained(d)
        /\ LotsClean(d)
    BY TablesAre DEF Good
  <1>3. ASSUME NEW p \in Product
        PROVE  /\ Needed(d, o, p) \in Nat
               /\ mine[p] \in [quantity: Units, reserved: Units, prepared: Units]
    <2>1. d.line[o][p] \in [quantity: Units, reserved: Units, prepared: Units]
      BY <1>2 DEF LineTable
    <2>2. Needed(d, o, p) \in Nat /\ d.line[o][p].reserved + Needed(d, o, p) \in Units
      BY <2>1, MaxUnitsAssumption DEF Needed, Units
    <2> QED BY <2>1, <2>2
  <1>4. ASSUME NEW l \in Lot
        PROVE  /\ take[l] \in Nat /\ take[l] <= MaxUnits
               /\ take[l] <= d.lot[l].on_hand - d.lot[l].reserved
               /\ d.lot[l].status = "absent" => take[l] = 0
    <2> DEFINE drawn == FefoTake(d, ProductOf[l], Needed(d, o, ProductOf[l]))
    <2>1. ProductOf[l] \in Product
      BY ConstantsAssumption
    <2>2. take[l] = drawn[l]
      BY DEF ReserveTake
    <2>3. /\ drawn[l] \in Units
          /\ drawn[l] <= d.lot[l].on_hand - d.lot[l].reserved
          /\ d.lot[l].status = "absent" => drawn[l] = 0
      <3>1. Needed(d, o, ProductOf[l]) \in Nat
        BY <1>3, <2>1
      <3> QED BY <2>1, <3>1, FefoTakeWithin
    <2> HIDE DEF drawn, take
    <2> QED BY <2>2, <2>3, MaxUnitsAssumption DEF Units
  <1>5. ASSUME NEW l \in Lot, take[l] > 0
        PROVE  /\ slot(l) \in Slot /\ d.rows[l][<<o, slot(l)>>] = 0
    BY <1>5 DEF RowsFit, FreeSlots
  <1> HIDE DEF take, slot
  <1>6. ASSUME NEW l \in Lot
        PROVE  /\ rows[l] \in [Order \X Slot -> Units]
               /\ lot[l] \in [status: LotStatus, on_hand: Units, reserved: Units]
               /\ lot[l].on_hand = d.lot[l].on_hand
               /\ lot[l].status = "absent" => lot[l].reserved = 0
               /\ Total(rows[l]) <= lot[l].reserved /\ lot[l].reserved <= lot[l].on_hand
    <2>1. /\ d.lot[l].on_hand \in Nat /\ d.lot[l].reserved \in Nat
          /\ d.lot[l].on_hand <= MaxUnits /\ d.lot[l].reserved <= d.lot[l].on_hand
          /\ d.rows[l] \in [Order \X Slot -> Units] /\ Total(d.rows[l]) \in Nat
          /\ Total(d.rows[l]) <= d.lot[l].reserved
      BY LotFacts
    <2>2. d.lot[l] \in [status: LotStatus, on_hand: Units, reserved: Units]
      BY <1>2 DEF LotTable
    <2>3. d.lot[l].reserved + take[l] \in Units
      BY <1>4, <2>1, MaxUnitsAssumption DEF Units
    <2>4. /\ lot[l] \in [status: LotStatus, on_hand: Units, reserved: Units]
          /\ lot[l].on_hand = d.lot[l].on_hand /\ lot[l].status = d.lot[l].status
          /\ lot[l].reserved = d.lot[l].reserved + take[l]
      BY <2>2, <2>3
    <2>5. rows[l] \in [Order \X Slot -> Units] /\ Total(rows[l]) <= Total(d.rows[l]) + take[l]
      <3>1. CASE take[l] = 0
        BY <2>1, <3>1
      <3>2. CASE take[l] # 0
        <4> DEFINE x == <<o, slot(l)>>
        <4>1. x \in Order \X Slot /\ d.rows[l][x] = 0 /\ take[l] \in Units
          <5>1. take[l] > 0 /\ take[l] \in Units
            BY <1>4, <3>2, MaxUnitsAssumption DEF Units
          <5>2. slot(l) \in Slot /\ d.rows[l][<<o, slot(l)>>] = 0
            BY <1>5, <5>1
          <5> QED BY <5>1, <5>2
        <4>2. rows[l] = [d.rows[l] EXCEPT ![x] = take[l]]
          BY <3>2
        <4> HIDE DEF x, rows
        <4>3. /\ rows[l] \in [Order \X Slot -> Units] /\ rows[l][x] = d.rows[l][x] + take[l]
              /\ \A y \in (Order \X Slot) \ {x} : rows[l][y] = d.rows[l][y]
          BY <1>4, <2>1, <4>1, <4>2
        <4>4. IsFiniteSet(Order \X Slot)
          BY ConstantsAssumption, FS_Product
        <4> QED BY <1>4, <2>1, <4>1, <4>3, <4>4, TotalRaise
      <3> QED BY <3>1, <3>2
    <2>6. Total(rows[l]) \in Nat
      <3>1. IsFiniteSet(Order \X Slot)
        BY ConstantsAssumption, FS_Product
      <3> HIDE DEF rows
      <3> QED BY <2>5, <3>1, TotalNat
    <2> HIDE DEF rows, lot
    <2>7. lot[l].status = "absent" => lot[l].reserved = 0
      <3>1. d.lot[l].status = "absent" => d.lot[l].reserved = 0
        BY <1>2 DEF LotsClean
      <3>2. d.lot[l].status = "absent" => take[l] = 0
        BY <1>4
      <3>3. lot[l].status = d.lot[l].status /\ lot[l].reserved = d.lot[l].reserved + take[l]
        BY <2>4
      <3> HIDE DEF lot
      <3> QED BY <3>1, <3>2, <3>3
    <2> QED BY <1>4, <2>1, <2>4, <2>5, <2>6, <2>7
  <1>7. lot \in LotTable
    BY <1>6 DEF LotTable
  <1>8. rows \in RowTable
    BY <1>6 DEF RowTable
  <1>9. line \in LineTable
    <2>1. mine \in [Product -> [quantity: Units, reserved: Units, prepared: Units]]
      BY <1>3
    <2> HIDE DEF mine
    <2> QED BY <1>2, <2>1 DEF LineTable
  <1>10. order \in OrderTable
    BY <1>2 DEF OrderTable, OrderStatus
  <1> HIDE DEF rows, lot, line, order
  <1>11. /\ e \in Tables /\ e.lot = lot /\ e.rows = rows /\ e.moved = d.moved
         /\ e.carton = d.carton /\ e.line = line
    BY <1>2, <1>7, <1>8, <1>9, <1>10, TablesAre
  <1> HIDE DEF e
  <1>12. Backed(e) /\ Explained(e) /\ LotsClean(e) /\ CartonsClean(e)
    BY <1>2, <1>6, <1>11 DEF Backed, Explained, LotsClean, CartonsClean
  <1> QED  BY <1>1, <1>11, <1>12 DEF Good, line, mine

\* A change of cartons, of lines or of order statuses alone keeps good tables
\* good, when no carton without a code gets content.
LEMMA CartonsGood ==
    ASSUME NEW d, Good(d), NEW carton \in CartonTable,
           \A c \in Carton : carton[c].status = "absent" => carton[c].items = NoItems
    PROVE  Good([d EXCEPT !.carton = carton])
  <1> DEFINE e == [d EXCEPT !.carton = carton]
  <1>1. /\ e \in Tables /\ e.carton = carton /\ e.lot = d.lot /\ e.moved = d.moved
        /\ e.rows = d.rows
    BY TablesAre DEF Good
  <1> HIDE DEF e
  <1>2. Backed(e) /\ Explained(e) /\ LotsClean(e) /\ CartonsClean(e)
    BY <1>1 DEF Good, Backed, Explained, LotsClean, CartonsClean
  <1> QED  BY <1>1, <1>2 DEF Good, e

LEMMA LinesGood ==
    ASSUME NEW d, Good(d), NEW line \in LineTable
    PROVE  Good([d EXCEPT !.line = line])
  <1> DEFINE e == [d EXCEPT !.line = line]
  <1>1. /\ e \in Tables /\ e.carton = d.carton /\ e.lot = d.lot /\ e.moved = d.moved
        /\ e.rows = d.rows
    BY TablesAre DEF Good
  <1> HIDE DEF e
  <1>2. Backed(e) /\ Explained(e) /\ LotsClean(e) /\ CartonsClean(e)
    BY <1>1 DEF Good, Backed, Explained, LotsClean, CartonsClean
  <1> QED  BY <1>1, <1>2 DEF Good, e

LEMMA OrdersGood ==
    ASSUME NEW d, Good(d), NEW o \in Order, NEW status \in OrderStatus
    PROVE  Good([d EXCEPT !.order[o] = status])
  <1> DEFINE e == [d EXCEPT !.order[o] = status]
  <1>0. [d.order EXCEPT ![o] = status] \in OrderTable
    BY TablesAre DEF Good, OrderTable
  <1>1. /\ e \in Tables /\ e.carton = d.carton /\ e.lot = d.lot /\ e.moved = d.moved
        /\ e.rows = d.rows
    BY <1>0, TablesAre DEF Good
  <1> HIDE DEF e
  <1>2. Backed(e) /\ Explained(e) /\ LotsClean(e) /\ CartonsClean(e)
    BY <1>1 DEF Good, Backed, Explained, LotsClean, CartonsClean
  <1> QED  BY <1>1, <1>2 DEF Good, e

\* The kinds of requests, by what their clerk does next.
LEMMA RequestKinds ==
    ASSUME NEW r \in RequestState
    PROVE  /\ r.pc = "reserving" => r \in ReserveState
           /\ r.pc = "editing" => r \in EditState
           /\ r.pc \in {"saved", "orphan", "short"} => r \in SavedLine
           /\ r.pc = "read" => r \in AddLineState
  BY DEF RequestState, AddLineState, SavedLine, ReserveState, EditState

LEMMA HeldRequest ==
    ASSUME NEW r \in RequestState, r.pc \in {"reserving", "editing"}
    PROVE  r.order \in Order /\ r.lines \in LineCopies
  BY RequestKinds DEF ReserveState, EditState

\* The tables with the lines a request read are good tables too.
LEMMA SeenGood ==
    ASSUME NEW d, Good(d), NEW r, r.order \in Order, r.lines \in LineCopies
    PROVE  /\ Good(Seen(d, r))
           /\ Seen(d, r).line = [d.line EXCEPT ![r.order] = r.lines]
           /\ Seen(d, r).line[r.order] = r.lines
           /\ Seen(d, r).lot = d.lot /\ Seen(d, r).moved = d.moved /\ Seen(d, r).rows = d.rows
           /\ Seen(d, r).order = d.order /\ Seen(d, r).carton = d.carton
  <1> DEFINE line == [d.line EXCEPT ![r.order] = r.lines]
  <1>1. d \in Tables /\ d.line \in LineTable
    BY TablesAre DEF Good
  <1>2. line \in LineTable /\ line[r.order] = r.lines
    BY <1>1 DEF LineTable, LineCopies
  <1>3. Seen(d, r) = [d EXCEPT !.line = line]
    BY DEF Seen
  <1> HIDE DEF line
  <1> QED  BY <1>1, <1>2, <1>3, LinesGood, TablesAre DEF line

\* What a reservation saves: rows, lots and status as they are now, of each line
\* it reserved for its own reserved_quantity.
LEMMA ReserveSeenGood ==
    ASSUME NEW d, Good(d), NEW r, r.order \in Order, r.lines \in LineCopies,
           RowsFit(Seen(d, r), r.order)
    PROVE  LET held == Reserve(Seen(d, r), r.order)
               e == ReserveSeen(d, r)
           IN  /\ Good(e) /\ Good(held)
               /\ e.lot = held.lot /\ e.moved = held.moved /\ e.rows = held.rows
               /\ e.order = held.order /\ e.carton = d.carton
               /\ \A o \in Order \ {r.order} : e.line[o] = d.line[o]
               /\ \A p \in Product :
                     /\ e.line[r.order][p].quantity = d.line[r.order][p].quantity
                     /\ e.line[r.order][p].prepared = d.line[r.order][p].prepared
                     /\ e.line[r.order][p].reserved =
                           IF p \in Wanted(d, r)
                           THEN r.lines[p].reserved + Needed(Seen(d, r), r.order, p)
                           ELSE d.line[r.order][p].reserved
  <1> DEFINE o == r.order
             s == Seen(d, r)
             held == Reserve(s, o)
             mine == [p \in Product |-> IF p \in Wanted(d, r)
                          THEN [d.line[o][p] EXCEPT !.reserved = held.line[o][p].reserved]
                          ELSE d.line[o][p]]
             line == [d.line EXCEPT ![o] = mine]
  <1>1. /\ Good(s) /\ s.line = [d.line EXCEPT ![o] = r.lines] /\ s.line[o] = r.lines
        /\ s.carton = d.carton
    BY SeenGood
  <1>2. /\ d.line \in LineTable /\ d.line[o] \in LineCopies
    BY TablesAre DEF Good, LineTable, LineCopies
  <1>3. /\ Good(held) /\ held.carton = d.carton
        /\ held.line = [s.line EXCEPT ![o] = [p \in Product |->
                           [s.line[o][p] EXCEPT !.reserved = @ + Needed(s, o, p)]]]
    <2> HIDE DEF s
    <2> QED BY <1>1, ReserveGood DEF s
  <1>4. held.line \in LineTable /\ held.line[o] \in LineCopies
    <2> HIDE DEF held
    <2> QED BY <1>3, TablesAre DEF Good, LineTable, LineCopies
  <1>5. ASSUME NEW p \in Product
        PROVE  held.line[o][p].reserved = r.lines[p].reserved + Needed(s, o, p)
    <2>1. held.line[o] = [q \in Product |->
              [s.line[o][q] EXCEPT !.reserved = @ + Needed(s, o, q)]]
      <3> HIDE DEF held, s
      <3>1. s.line \in LineTable
        BY <1>1, TablesAre DEF Good
      <3> QED BY <1>3, <3>1 DEF LineTable
    <2>2. r.lines[p] \in [quantity: Units, reserved: Units, prepared: Units]
      BY DEF LineCopies
    <2> HIDE DEF held, s
    <2> QED BY <1>1, <2>1, <2>2
  <1>6. held.line = [d.line EXCEPT ![o] = held.line[o]]
    <2> HIDE DEF held, s
    <2> QED BY <1>1, <1>2, <1>3 DEF LineTable
  <1>7. ASSUME NEW p \in Product
        PROVE  /\ mine[p] \in [quantity: Units, reserved: Units, prepared: Units]
               /\ mine[p].quantity = d.line[o][p].quantity
               /\ mine[p].prepared = d.line[o][p].prepared
               /\ mine[p].reserved = IF p \in Wanted(d, r)
                                     THEN r.lines[p].reserved + Needed(s, o, p)
                                     ELSE d.line[o][p].reserved
    <2>1. /\ d.line[o][p] \in [quantity: Units, reserved: Units, prepared: Units]
          /\ held.line[o][p] \in [quantity: Units, reserved: Units, prepared: Units]
      <3> HIDE DEF held, s
      <3> QED BY <1>2, <1>4 DEF LineCopies
    <2> HIDE DEF held, s
    <2> QED BY <1>5, <2>1
  <1>8. line \in LineTable /\ line[o] = mine /\ \A x \in Order \ {o} : line[x] = d.line[x]
    <2>1. mine \in LineCopies
      <3> QED BY <1>7 DEF LineCopies
    <2> HIDE DEF mine
    <2> QED BY <1>2, <2>1 DEF LineTable, LineCopies
  <1>9. ReserveSeen(d, r) = [held EXCEPT !.line = line]
    <2>1. ReserveSeen(d, r) = [held EXCEPT !.line[o] = mine]
      BY DEF ReserveSeen
    <2>2. [held.line EXCEPT ![o] = mine] = line
      <3> HIDE DEF held, mine
      <3> QED BY <1>2, <1>6 DEF LineTable
    <2> HIDE DEF held, mine, line
    <2> QED BY <2>1, <2>2
  <1> HIDE DEF held, line, mine
  <1>10. /\ Good(ReserveSeen(d, r)) /\ ReserveSeen(d, r).line = line
         /\ ReserveSeen(d, r).lot = held.lot /\ ReserveSeen(d, r).moved = held.moved
         /\ ReserveSeen(d, r).rows = held.rows /\ ReserveSeen(d, r).order = held.order
         /\ ReserveSeen(d, r).carton = held.carton
    BY <1>3, <1>8, <1>9, LinesGood, TablesAre DEF Good
  <1> QED  BY <1>3, <1>7, <1>8, <1>10 DEF held

\* What a pack saves: rows, lots and carton as they are now, of its line the
\* quantities counted from the copy.
LEMMA PackSeenGood ==
    ASSUME NEW d, Good(d), NEW r, r.order \in Order, r.lines \in LineCopies,
           NEW p \in Product, NEW q \in Nat, NEW tie \in TieBreak, NEW c \in Carton,
           q <= Remaining(Seen(d, r), r.order, p), d.carton[c].status = "absent"
    PROVE  LET packed == PackReserved(Seen(d, r), r.order, p, q, tie, c)
               e == PackSeen(d, r, p, q, tie, c)
           IN  /\ Good(e) /\ Good(packed)
               /\ e.lot = packed.lot /\ e.moved = packed.moved /\ e.rows = packed.rows
               /\ e.order = d.order /\ e.carton = packed.carton
               /\ \A o \in Order \ {r.order} : e.line[o] = d.line[o]
               /\ \A x \in Product \ {p} : e.line[r.order][x] = d.line[r.order][x]
               /\ e.line[r.order][p].quantity = d.line[r.order][p].quantity
               /\ e.line[r.order][p].prepared = r.lines[p].prepared + q
               /\ e.line[r.order][p].reserved =
                     IF r.lines[p].reserved < q THEN 0 ELSE r.lines[p].reserved - q
  <1> DEFINE o == r.order
             s == Seen(d, r)
             packed == PackReserved(s, o, p, q, tie, c)
             saved == packed.line[o][p]
             mine == [d.line[o][p] EXCEPT !.reserved = saved.reserved, !.prepared = saved.prepared]
             line == [d.line EXCEPT ![o][p] = mine]
  <1>1. /\ Good(s) /\ s.line = [d.line EXCEPT ![o] = r.lines] /\ s.line[o] = r.lines
        /\ s.carton = d.carton /\ s.order = d.order
    BY SeenGood
  <1>2. d.line \in LineTable /\ d.line[o] \in LineCopies
    BY TablesAre DEF Good, LineTable, LineCopies
  <1>3. \A l \in Lot : s.carton[c].items[l] = 0
    BY <1>1 DEF Good, CartonsClean, NoItems
  <1>4. Good(packed)
    <2> HIDE DEF s
    <2> QED BY <1>1, <1>3, PackReservedGood DEF s
  <1>5. /\ packed.order = d.order
        /\ packed.line = [s.line EXCEPT ![o][p] = [quantity |-> @.quantity,
                             reserved |-> IF @.reserved < q THEN 0 ELSE @.reserved - q,
                             prepared |-> @.prepared + q]]
    <2>1. s \in Tables
      BY <1>1 DEF Good
    <2> HIDE DEF s
    <2> QED BY <1>1, <2>1 DEF PackReserved, Tables
  <1>6. packed.line \in LineTable
    <2> HIDE DEF packed
    <2> QED BY <1>4, TablesAre DEF Good
  <1>7. /\ saved \in [quantity: Units, reserved: Units, prepared: Units]
        /\ saved.prepared = r.lines[p].prepared + q
        /\ saved.reserved = IF r.lines[p].reserved < q THEN 0 ELSE r.lines[p].reserved - q
    <2>1. s.line \in LineTable
      BY <1>1, TablesAre DEF Good
    <2>2. saved = [quantity |-> s.line[o][p].quantity,
                   reserved |-> IF s.line[o][p].reserved < q THEN 0 ELSE s.line[o][p].reserved - q,
                   prepared |-> s.line[o][p].prepared + q]
      <3> HIDE DEF s, packed
      <3> QED BY <1>5, <2>1 DEF LineTable
    <2>3. saved \in [quantity: Units, reserved: Units, prepared: Units]
      <3> HIDE DEF s, packed
      <3> QED BY <1>6 DEF LineTable
    <2> HIDE DEF s, packed
    <2> QED BY <1>1, <2>2, <2>3
  <1>8. /\ mine \in [quantity: Units, reserved: Units, prepared: Units]
        /\ mine.quantity = d.line[o][p].quantity /\ mine.reserved = saved.reserved
        /\ mine.prepared = saved.prepared
    <2> HIDE DEF packed
    <2>1. d.line[o][p] \in [quantity: Units, reserved: Units, prepared: Units]
      BY <1>2 DEF LineCopies
    <2> HIDE DEF saved
    <2> QED BY <1>7, <2>1
  <1>9. /\ line \in LineTable /\ line[o][p] = mine
        /\ \A x \in Order \ {o} : line[x] = d.line[x]
        /\ \A x \in Product \ {p} : line[o][x] = d.line[o][x]
    <2> HIDE DEF mine
    <2> QED BY <1>2, <1>8 DEF LineTable, LineCopies
  <1>10. PackSeen(d, r, p, q, tie, c) = [packed EXCEPT !.line = line]
    <2>1. PackSeen(d, r, p, q, tie, c) = [packed EXCEPT !.line[o] =
              [d.line[o] EXCEPT ![p].reserved = saved.reserved, ![p].prepared = saved.prepared]]
      BY DEF PackSeen
    <2>2. [d.line[o] EXCEPT ![p].reserved = saved.reserved, ![p].prepared = saved.prepared]
            = [d.line[o] EXCEPT ![p] = mine]
      <3> HIDE DEF saved
      <3> QED BY <1>2 DEF LineCopies
    <2>3. \A x \in Order \ {o} : packed.line[x] = d.line[x]
      <3> HIDE DEF s, packed
      <3> QED BY <1>1, <1>2, <1>5 DEF LineTable
    <2>4. [packed.line EXCEPT ![o] = [d.line[o] EXCEPT ![p] = mine]] = line
      <3> HIDE DEF packed, saved, mine
      <3> QED BY <1>2, <1>6, <2>3 DEF LineTable
    <2> HIDE DEF packed, saved, mine, line
    <2> QED BY <2>1, <2>2, <2>4
  <1> HIDE DEF packed, line, mine, saved
  <1>11. LET e == PackSeen(d, r, p, q, tie, c)
         IN  /\ Good(e) /\ e.line = line /\ e.lot = packed.lot /\ e.moved = packed.moved
             /\ e.rows = packed.rows /\ e.order = packed.order /\ e.carton = packed.carton
    BY <1>4, <1>9, <1>10, LinesGood, TablesAre DEF Good
  <1> QED  BY <1>4, <1>5, <1>7, <1>8, <1>9, <1>11 DEF packed

\* A change of one lot that keeps its counters in order keeps good tables good.
LEMMA LotGood ==
    ASSUME NEW d, Good(d), NEW l \in Lot, NEW m \in Int,
           NEW new \in [status: LotStatus, on_hand: Units, reserved: Units],
           m <= new.on_hand, new.reserved <= new.on_hand,
           new.reserved = d.lot[l].reserved, new.status # "absent"
    PROVE  Good([d EXCEPT !.lot[l] = new, !.moved[l] = m])
  <1> DEFINE lot == [d.lot EXCEPT ![l] = new]
             moved == [d.moved EXCEPT ![l] = m]
             e == [d EXCEPT !.lot = lot, !.moved = moved]
  <1>1. /\ d.lot \in LotTable /\ d.moved \in MovedTable
        /\ lot \in LotTable /\ moved \in MovedTable
        /\ lot[l] = new /\ moved[l] = m
        /\ \A k \in Lot \ {l} : lot[k] = d.lot[k] /\ moved[k] = d.moved[k]
    BY TablesAre DEF Good, LotTable, MovedTable
  <1>2. [d EXCEPT !.lot[l] = new, !.moved[l] = m] = e
    OBVIOUS
  <1> HIDE DEF lot, moved
  <1>3. /\ e \in Tables /\ e.carton = d.carton /\ e.lot = lot /\ e.moved = moved
        /\ e.rows = d.rows
    BY <1>1, TablesAre DEF Good
  <1> HIDE DEF e
  <1>4. ASSUME NEW k \in Lot
        PROVE  /\ Total(e.rows[k]) <= e.lot[k].reserved /\ e.lot[k].reserved <= e.lot[k].on_hand
               /\ e.moved[k] <= e.lot[k].on_hand
               /\ e.lot[k].status = "absent" => e.lot[k].reserved = 0
    <2>1. CASE k = l
      BY <1>1, <1>3, <2>1, LotFacts
    <2>2. CASE k # l
      BY <1>1, <1>3, <2>2 DEF Good, Backed, Explained, LotsClean
    <2> QED BY <2>1, <2>2
  <1>5. CartonsClean(e)
    BY <1>3 DEF Good, CartonsClean
  <1>6. Good(e)
    BY <1>3, <1>4, <1>5 DEF Good, Backed, Explained, LotsClean
  <1> QED  BY <1>2, <1>6

\* The steps of stock.py on lots.
LEMMA LotSteps ==
    ASSUME IInv, StockStep
    PROVE  Good(db')
  <1>0. Good(db) /\ db \in Tables /\ db.lot \in LotTable /\ db.moved \in MovedTable
    BY TablesAre DEF IInv, Good
  <1>1. ASSUME NEW l \in Lot, NEW q \in Units, NEW st \in LotStatus, ReceiveStock(l, q, st)
        PROVE  Good(db')
    <2> DEFINE new == [status |-> st, on_hand |-> q, reserved |-> 0]
    <2>1. /\ new \in [status: LotStatus, on_hand: Units, reserved: Units]
          /\ new.on_hand = q /\ new.reserved = 0 /\ new.status # "absent" /\ q \in Nat
      BY <1>1, MaxUnitsAssumption DEF ReceiveStock, Units
    <2>2. db.lot[l].reserved = 0
      BY <1>0, <1>1 DEF ReceiveStock, Good, LotsClean
    <2>3. db' = [db EXCEPT !.lot[l] = new, !.moved[l] = q]
      BY <1>1 DEF ReceiveStock
    <2>4. q \in Int /\ q <= new.on_hand /\ new.reserved <= new.on_hand
      BY <2>1
    <2> HIDE DEF new
    <2> QED BY <1>0, <2>1, <2>2, <2>3, <2>4, LotGood
  <1>2. ASSUME NEW l \in Lot, ReleaseQuarantine(l) PROVE Good(db')
    <2> DEFINE new == [db.lot[l] EXCEPT !.status = "available"]
    <2>1. db.lot[l] \in [status: LotStatus, on_hand: Units, reserved: Units]
      BY <1>0 DEF LotTable
    <2>2. /\ new \in [status: LotStatus, on_hand: Units, reserved: Units]
          /\ new.on_hand = db.lot[l].on_hand /\ new.reserved = db.lot[l].reserved
          /\ new.status # "absent"
      BY <2>1 DEF LotStatus
    <2>3. db' = [db EXCEPT !.lot[l] = new, !.moved[l] = db.moved[l]]
      BY <1>0, <1>2 DEF ReleaseQuarantine, Tables
    <2> HIDE DEF new
    <2>4. /\ db.moved[l] \in Int /\ db.moved[l] <= new.on_hand
          /\ new.reserved <= new.on_hand
      BY <1>0, <2>2, LotFacts
    <2> QED BY <1>0, <2>2, <2>3, <2>4, LotGood
  <1>3. ASSUME NEW l \in Lot, NEW delta \in -MaxUnits .. MaxUnits, AdjustStock(l, delta)
        PROVE  Good(db')
    <2> DEFINE new == [db.lot[l] EXCEPT !.on_hand = @ + delta]
    <2>1. db.lot[l] \in [status: LotStatus, on_hand: Units, reserved: Units]
      BY <1>0 DEF LotTable
    <2>2. /\ db.lot[l].on_hand \in Nat /\ db.lot[l].reserved \in Nat
          /\ db.lot[l].reserved <= db.lot[l].on_hand
          /\ db.moved[l] \in Int /\ db.moved[l] <= db.lot[l].on_hand
      BY <1>0, LotFacts
    <2>3. LotUnits(db, l) >= db.lot[l].on_hand /\ LotUnits(db, l) \in Int
      <3> DEFINE packed == [c \in Carton |-> db.carton[c].items[l]]
      <3>1. packed \in [Carton -> Units]
        BY <1>0, TablesAre DEF CartonTable
      <3>2. IsFiniteSet(Carton)
        BY ConstantsAssumption
      <3>3. LotUnits(db, l) = db.lot[l].on_hand + Total(packed)
        BY DEF LotUnits
      <3> HIDE DEF packed
      <3>4. Total(packed) \in Nat
        BY <3>1, <3>2, TotalNat
      <3> QED BY <2>2, <3>3, <3>4
    <2>4. /\ delta \in Int /\ db.lot[l].on_hand + delta >= 0
          /\ LotUnits(db, l) + delta <= MaxUnits
          /\ delta < 0 => db.lot[l].on_hand + delta >= db.lot[l].reserved
          /\ db.lot[l].status # "absent"
      BY <1>3, MaxUnitsAssumption DEF AdjustStock
    <2>5. db.lot[l].on_hand + delta \in Units
      BY <2>2, <2>3, <2>4, MaxUnitsAssumption DEF Units
    <2>6. /\ new \in [status: LotStatus, on_hand: Units, reserved: Units]
          /\ new.on_hand = db.lot[l].on_hand + delta /\ new.reserved = db.lot[l].reserved
          /\ new.status = db.lot[l].status
      BY <2>1, <2>5
    <2>7. db' = [db EXCEPT !.lot[l] = new, !.moved[l] = db.moved[l] + delta]
      BY <1>3 DEF AdjustStock
    <2> HIDE DEF new
    <2>8. /\ db.moved[l] + delta \in Int /\ db.moved[l] + delta <= new.on_hand
          /\ new.reserved <= new.on_hand
      BY <2>2, <2>4, <2>6
    <2> QED BY <1>0, <2>4, <2>6, <2>7, <2>8, LotGood
  <1>4. ASSUME NEW p \in Product, NEW q \in Units, StockOut(p, q) PROVE Good(db')
    BY <1>0, <1>4, ConsumeStockGood, MaxUnitsAssumption DEF StockOut, Units
  <1> QED  BY <1>1, <1>2, <1>3, <1>4 DEF StockStep

\* unpack_carton puts a carton's units back on the shelf.
LEMMA UnpackedGood ==
    ASSUME NEW d, Good(d), NEW c \in Carton, CanUnpack(d, c)
    PROVE  Good(Unpacked(d, c))
  <1> DEFINE items == d.carton[c].items
             lot == [l \in Lot |-> [d.lot[l] EXCEPT !.on_hand = @ + items[l]]]
             moved == [l \in Lot |-> d.moved[l] + items[l]]
             new == [status |-> "draft",
                     shipment |-> IF d.carton[c].status = "draft" THEN d.carton[c].shipment ELSE None,
                     items |-> NoItems]
             carton == [d.carton EXCEPT ![c] = new]
             e == [d EXCEPT !.lot = lot, !.moved = moved, !.carton = carton]
  <1>1. Unpacked(d, c) = e
    BY DEF Unpacked
  <1>2. /\ d \in Tables /\ d.lot \in LotTable /\ d.moved \in MovedTable
        /\ d.carton \in CartonTable
    BY TablesAre DEF Good
  <1>3. d.carton[c] \in [status: CartonStatus, shipment: Order \cup {None}, items: [Lot -> Units]]
    BY <1>2 DEF CartonTable
  <1>4. ASSUME NEW l \in Lot
        PROVE  /\ lot[l] \in [status: LotStatus, on_hand: Units, reserved: Units]
               /\ lot[l].reserved = d.lot[l].reserved /\ lot[l].status = d.lot[l].status
               /\ lot[l].reserved <= lot[l].on_hand
               /\ moved[l] \in Int /\ moved[l] <= lot[l].on_hand
    <2>1. /\ d.lot[l].on_hand \in Nat /\ d.lot[l].reserved \in Nat
          /\ d.lot[l].reserved <= d.lot[l].on_hand
          /\ d.moved[l] \in Int /\ d.moved[l] <= d.lot[l].on_hand
      BY LotFacts
    <2>2. items[l] \in Nat
      BY <1>3, MaxUnitsAssumption DEF Units
    <2>3. d.lot[l].on_hand + items[l] \in Units
      BY DEF CanUnpack
    <2>4. d.lot[l] \in [status: LotStatus, on_hand: Units, reserved: Units]
      BY <1>2 DEF LotTable
    <2> HIDE DEF items
    <2>5. /\ lot[l] \in [status: LotStatus, on_hand: Units, reserved: Units]
          /\ lot[l].reserved = d.lot[l].reserved /\ lot[l].status = d.lot[l].status
          /\ lot[l].on_hand = d.lot[l].on_hand + items[l]
          /\ moved[l] = d.moved[l] + items[l]
      BY <2>3, <2>4
    <2> HIDE DEF lot, moved
    <2> QED BY <2>1, <2>2, <2>5
  <1>5. lot \in LotTable /\ moved \in MovedTable
    BY <1>4 DEF LotTable, MovedTable
  <1>6. carton \in CartonTable /\ carton[c].items = NoItems
        /\ \A b \in Carton \ {c} : carton[b] = d.carton[b]
    <2>1. NoItems \in [Lot -> Units]
      BY MaxUnitsAssumption DEF NoItems, Units
    <2>2. new \in [status: CartonStatus, shipment: Order \cup {None}, items: [Lot -> Units]]
      BY <1>3, <2>1 DEF CartonStatus
    <2>3. new.items = NoItems
      OBVIOUS
    <2> HIDE DEF new
    <2> QED BY <1>2, <2>2, <2>3 DEF CartonTable
  <1> HIDE DEF lot, moved, carton
  <1>7. /\ e \in Tables /\ e.lot = lot /\ e.moved = moved /\ e.rows = d.rows
        /\ e.carton = carton
    BY <1>2, <1>5, <1>6, TablesAre
  <1> HIDE DEF e
  <1>8. Backed(e) /\ Explained(e) /\ LotsClean(e)
    BY <1>4, <1>7 DEF Good, Backed, Explained, LotsClean
  <1>9. CartonsClean(e)
    BY <1>6, <1>7 DEF Good, CartonsClean
  <1> QED  BY <1>1, <1>7, <1>8, <1>9 DEF Good

\* The steps on cartons.
LEMMA CartonSteps ==
    ASSUME IInv, CartonStep
    PROVE  Good(db')
  <1> DEFINE CartonRow == [status: CartonStatus, shipment: Order \cup {None}, items: [Lot -> Units]]
  <1>0. /\ Good(db) /\ db \in Tables /\ db.carton \in CartonTable
        /\ \A c \in Carton : db.carton[c] \in CartonRow
    BY TablesAre DEF IInv, Good, CartonTable
  <1>1. ASSUME NEW d, Good(d), NEW c \in Carton, NEW new \in CartonRow,
               new.status = "absent" => new.items = NoItems
        PROVE  Good([d EXCEPT !.carton[c] = new])
    <2> DEFINE carton == [d.carton EXCEPT ![c] = new]
    <2>1. /\ carton \in CartonTable
          /\ \A b \in Carton : carton[b].status = "absent" => carton[b].items = NoItems
      BY <1>1, TablesAre DEF CartonTable, Good, CartonsClean
    <2>2. [d EXCEPT !.carton[c] = new] = [d EXCEPT !.carton = carton]
      OBVIOUS
    <2> HIDE DEF carton
    <2> QED BY <1>1, <2>1, <2>2, CartonsGood
  <1>2. NoItems \in [Lot -> Units]
    BY MaxUnitsAssumption DEF NoItems, Units
  <1>3. ASSUME NEW c \in Carton, NEW p \in Product, NEW q \in Units,
               NEW s \in Order \cup {None}, PackCarton(c, p, q, s)
        PROVE  Good(db')
    <2> DEFINE take == FefoTake(db, p, q)
               items == [l \in Lot |-> db.carton[c].items[l] + take[l]]
               new == [status |-> PackedStatus(db, c, s), shipment |-> PreparedShipment(db, c, s),
                       items |-> items]
               f == ConsumeStock(db, p, q)
    <2>1. Good(f) /\ f.carton = db.carton
      <3>1. q \in Nat
        BY MaxUnitsAssumption DEF Units
      <3>2. Good(f)
        BY <1>0, <3>1, ConsumeStockGood
      <3>3. f.carton = db.carton
        BY <1>0 DEF ConsumeStock, Tables
      <3> QED BY <3>2, <3>3
    <2>2. items \in [Lot -> Units]
      BY <1>3 DEF PackCarton
    <2>3. PackedStatus(db, c, s) \in CartonStatus /\ PackedStatus(db, c, s) # "absent"
      BY <1>0 DEF PackedStatus, CartonStatus
    <2>4. PreparedShipment(db, c, s) \in Order \cup {None}
      BY <1>0 DEF PreparedShipment
    <2>5. new \in CartonRow /\ new.status # "absent"
      BY <2>2, <2>3, <2>4
    <2>6. db' = [f EXCEPT !.carton[c] = new]
      BY <1>3, <2>1 DEF PackCarton
    <2> HIDE DEF new, f
    <2> QED BY <1>1, <2>1, <2>5, <2>6
  <1>4. ASSUME NEW c \in Carton, UnpackCarton(c) PROVE Good(db')
    BY <1>0, <1>4, UnpackedGood DEF UnpackCarton
  <1>5. ASSUME NEW c \in Carton, DeleteCarton(c) PROVE Good(db')
    <2> DEFINE f == IF db.carton[c].items # NoItems THEN Unpacked(db, c) ELSE db
               new == [status |-> "absent", shipment |-> None, items |-> NoItems]
    <2>1. Good(f)
      BY <1>0, <1>5, UnpackedGood DEF DeleteCarton
    <2>2. new \in CartonRow /\ new.items = NoItems
      BY <1>2 DEF CartonStatus
    <2>3. db' = [f EXCEPT !.carton[c] = new]
      BY <1>5 DEF DeleteCarton
    <2> HIDE DEF new, f
    <2> QED BY <1>1, <2>1, <2>2, <2>3
  <1>6. ASSUME NEW c \in Carton, NEW st \in CartonStatus, UpdateCartonStatus(c, st)
        PROVE  Good(db')
    <2> DEFINE new == [db.carton[c] EXCEPT !.status = st]
    <2>1. new \in CartonRow /\ new.status = st /\ st # "absent"
      BY <1>0, <1>6 DEF UpdateCartonStatus
    <2>2. db' = [db EXCEPT !.carton[c] = new]
      BY <1>6 DEF UpdateCartonStatus
    <2> HIDE DEF new
    <2> QED BY <1>0, <1>1, <2>1, <2>2
  <1> QED  BY <1>3, <1>4, <1>5, <1>6 DEF CartonStep

\* The tables d that create_public_order and create_portal_order reserve from, the
\* lines just written; the chosen cartons are added after it.
PlacedFrom(d, o, demand) ==
    /\ Good(d) /\ StockCovers(d, o) /\ RowsFit(d, o)
    /\ d.lot = db.lot /\ d.moved = db.moved /\ d.rows = db.rows
    /\ d.line = [db.line EXCEPT ![o] = [p \in Product |->
                    [quantity |-> demand[p], reserved |-> 0, prepared |-> 0]]]
    /\ db'.lot = Reserve(d, o).lot /\ db'.moved = Reserve(d, o).moved
    /\ db'.rows = Reserve(d, o).rows
    /\ \A c \in Carton : db'.carton[c].items = db.carton[c].items
    /\ \A x \in Order \ {o} : /\ db'.line[x] = Reserve(d, o).line[x]
                             /\ db'.order[x] = db.order[x]
    /\ db'.order[o] # "absent"
    /\ \A p \in Product : \E n \in Nat :
          /\ db'.line[o][p].reserved = Reserve(d, o).line[o][p].reserved
          /\ db'.line[o][p].quantity = demand[p] + n
          /\ db'.line[o][p].prepared = n

LEMMA PlacedOrder ==
    ASSUME IInv, NEW o \in Order, NEW demand \in [Product -> Units], NEW ready \in SUBSET Carton,
           PlaceOrder(o, demand, ready)
    PROVE  Good(db') /\ \E d \in Tables : PlacedFrom(d, o, demand)
  <1>0. Good(db) /\ db \in Tables /\ db.line \in LineTable /\ db.carton \in CartonTable
    BY TablesAre DEF IInv, Good
  <1> DEFINE mine == [p \in Product |-> [quantity |-> demand[p], reserved |-> 0, prepared |-> 0]]
             ordered == [db EXCEPT !.line[o] = mine]
             held == Reserve(ordered, o)
             inCartons == [p \in Product |->
                 Total([x \in ready \X Lot |->
                     IF ProductOf[x[2]] = p THEN db.carton[x[1]].items[x[2]] ELSE 0])]
             counted == [p \in Product |->
                 [held.line[o][p] EXCEPT !.quantity = @ + inCartons[p],
                                         !.prepared = @ + inCartons[p]]]
             line == [held.line EXCEPT ![o] = counted]
             carton == [c \in Carton |-> IF c \notin ready THEN held.carton[c]
                          ELSE [db.carton[c] EXCEPT !.status = "assigned", !.shipment = o]]
             counts == [held EXCEPT !.line = line]
             placed == [counts EXCEPT !.carton = carton]
  <1>1. /\ RowsFit(ordered, o) /\ StockCovers(ordered, o)
        /\ \A p \in Product : demand[p] + inCartons[p] \in Units
        /\ db' = IF OrderDone(placed, o) /\ \E p \in Product : placed.line[o][p].quantity > 0
                 THEN [placed EXCEPT !.order[o] = "ready"] ELSE placed
    BY DEF PlaceOrder
  <1>2. mine \in [Product -> [quantity: Units, reserved: Units, prepared: Units]]
    BY MaxUnitsAssumption DEF Units
  <1>3. [db.line EXCEPT ![o] = mine] \in LineTable
    <2> HIDE DEF mine
    <2> QED BY <1>0, <1>2 DEF LineTable
  <1>4. ordered = [db EXCEPT !.line = [db.line EXCEPT ![o] = mine]]
    OBVIOUS
  <1>5. Good(ordered)
    <2> HIDE DEF ordered, mine
    <2> QED BY <1>0, <1>3, <1>4, LinesGood
  <1>6. ordered.line[o] = mine /\ ordered.carton = db.carton
    BY <1>0 DEF Tables, LineTable
  <1>7. /\ Good(held) /\ held.carton = db.carton
        /\ held.line[o] = [p \in Product |->
               [mine[p] EXCEPT !.reserved = @ + Needed(ordered, o, p)]]
    <2>1. ordered.line \in LineTable
      BY <1>5, TablesAre DEF Good
    <2> HIDE DEF ordered
    <2>2. /\ Good(held) /\ held.carton = ordered.carton
          /\ held.line = [ordered.line EXCEPT ![o] = [p \in Product |->
                [ordered.line[o][p] EXCEPT !.reserved = @ + Needed(ordered, o, p)]]]
      BY <1>1, <1>5, ReserveGood
    <2> HIDE DEF held
    <2>3. held.line[o] = [p \in Product |->
              [ordered.line[o][p] EXCEPT !.reserved = @ + Needed(ordered, o, p)]]
      BY <2>1, <2>2 DEF LineTable
    <2> HIDE DEF mine
    <2> QED BY <1>6, <2>2, <2>3
  <1>8. ASSUME NEW p \in Product
        PROVE  /\ inCartons[p] \in Nat /\ inCartons[p] \in Units
               /\ counted[p] \in [quantity: Units, reserved: Units, prepared: Units]
               /\ counted[p].reserved = held.line[o][p].reserved
               /\ counted[p].quantity = demand[p] + inCartons[p]
               /\ counted[p].prepared = inCartons[p]
    <2> DEFINE inLots == [x \in ready \X Lot |->
                   IF ProductOf[x[2]] = p THEN db.carton[x[1]].items[x[2]] ELSE 0]
    <2>1. inLots \in [ready \X Lot -> Units]
      BY <1>0, MaxUnitsAssumption DEF CartonTable, Units
    <2>2. IsFiniteSet(ready \X Lot)
      BY ConstantsAssumption, FS_Subset, FS_Product
    <2>3. inCartons[p] = Total(inLots)
      OBVIOUS
    <2> HIDE DEF inLots
    <2>4. inCartons[p] \in Nat
      BY <2>1, <2>2, <2>3, TotalNat
    <2>5. demand[p] \in Units /\ demand[p] + inCartons[p] \in Units
      BY <1>1
    <2>6. held.line \in LineTable
      BY <1>7, TablesAre DEF Good
    <2>7. held.line[o][p] \in [quantity: Units, reserved: Units, prepared: Units]
      BY <2>6 DEF LineTable
    <2>8. held.line[o][p].quantity = demand[p] /\ held.line[o][p].prepared = 0
      <3> HIDE DEF held, ordered
      <3> QED BY <1>7
    <2> HIDE DEF held, inCartons
    <2>9. inCartons[p] \in Units
      BY <2>4, <2>5, MaxUnitsAssumption DEF Units
    <2>10. counted[p] = [held.line[o][p] EXCEPT !.quantity = demand[p] + inCartons[p],
                                                !.prepared = inCartons[p]]
      <3>1. held.line[o][p].prepared + inCartons[p] = inCartons[p]
        BY <2>4, <2>8
      <3>2. held.line[o][p].quantity + inCartons[p] = demand[p] + inCartons[p]
        BY <2>8
      <3> QED BY <3>1, <3>2
    <2> HIDE DEF counted
    <2> QED BY <2>4, <2>5, <2>7, <2>9, <2>10
  <1>9. line \in LineTable
    <2>1. held.line \in LineTable
      BY <1>7, TablesAre DEF Good
    <2>2. counted \in [Product -> [quantity: Units, reserved: Units, prepared: Units]]
      BY <1>8
    <2> HIDE DEF counted, held
    <2> QED BY <2>1, <2>2 DEF LineTable
  <1>10. /\ carton \in CartonTable
         /\ \A c \in Carton : carton[c].status = "absent" => carton[c].items = NoItems
    <2>1. held.carton \in CartonTable /\ CartonsClean(held)
      BY <1>7, TablesAre DEF Good
    <2>2. \A c \in Carton : carton[c] \in
            [status: CartonStatus, shipment: Order \cup {None}, items: [Lot -> Units]]
      <3> HIDE DEF held
      <3> QED BY <1>0, <2>1 DEF CartonTable, CartonStatus
    <2>3. \A c \in Carton : carton[c].status = "absent" => carton[c].items = NoItems
      <3> HIDE DEF held
      <3> QED BY <1>0, <2>1 DEF CartonTable, CartonsClean
    <2>4. carton \in CartonTable
      <3> HIDE DEF held
      <3> QED BY <2>2 DEF CartonTable
    <2> QED BY <2>3, <2>4
  <1>11. Good(counts)
    <2> HIDE DEF line, held
    <2> QED BY <1>7, <1>9, LinesGood
  <1>12. Good(placed)
    <2> HIDE DEF carton, counts
    <2> QED BY <1>10, <1>11, CartonsGood
  <1>13. /\ placed \in Tables /\ placed.lot = held.lot /\ placed.moved = held.moved
         /\ placed.rows = held.rows /\ placed.line = line /\ placed.carton = carton
         /\ placed.order = held.order
    <2>1. held \in Tables
      BY <1>7 DEF Good
    <2> HIDE DEF held, line, carton
    <2> QED BY <1>9, <1>10, <2>1, TablesAre
  <1> HIDE DEF placed
  <1>14. Good([placed EXCEPT !.order[o] = "ready"])
    BY <1>12, OrdersGood DEF OrderStatus
  <1>15. Good(db')
    BY <1>1, <1>12, <1>14
  <1>16. /\ db'.lot = placed.lot /\ db'.moved = placed.moved /\ db'.rows = placed.rows
         /\ db'.line = placed.line /\ db'.carton = placed.carton
         /\ db'.order \in {placed.order, [placed.order EXCEPT ![o] = "ready"]}
    BY <1>1, <1>13 DEF Tables
  <1>17. /\ ordered \in Tables /\ ordered.lot = db.lot /\ ordered.moved = db.moved
         /\ ordered.rows = db.rows /\ ordered.line = [db.line EXCEPT ![o] = mine]
         /\ ordered.order = db.order /\ ordered.order \in OrderTable
    <2>1. ordered \in Tables
      BY <1>5 DEF Good
    <2>2. db.order \in OrderTable
      BY <1>0, TablesAre
    <2> HIDE DEF mine
    <2> QED BY <1>0, <2>1, <2>2, <1>3, TablesAre
  <1>18. held.order = [db.order EXCEPT ![o] = "reserved"]
    <2> HIDE DEF ordered
    <2> QED BY <1>17, TablesAre DEF Reserve, Tables
  <1>19. /\ db'.order[o] # "absent"
         /\ \A x \in Order \ {o} : db'.order[x] = db.order[x]
    <2>1. db'.order \in {held.order, [held.order EXCEPT ![o] = "ready"]} /\ db.order \in OrderTable
      BY <1>13, <1>16, <1>17
    <2> HIDE DEF held
    <2> QED BY <1>18, <2>1 DEF OrderTable
  <1>20. \A c \in Carton : db'.carton[c].items = db.carton[c].items
    <2>1. ASSUME NEW c \in Carton PROVE carton[c].items = db.carton[c].items
      <3>1. db.carton[c] \in [status: CartonStatus, shipment: Order \cup {None}, items: [Lot -> Units]]
        BY <1>0 DEF CartonTable
      <3> HIDE DEF held
      <3> QED BY <1>7, <3>1
    <2> HIDE DEF carton
    <2> QED BY <1>13, <1>16, <2>1
  <1>21. /\ \A x \in Order \ {o} : db'.line[x] = held.line[x]
         /\ db'.line[o] = counted
    <2>1. held.line \in LineTable
      BY <1>7, TablesAre DEF Good
    <2> HIDE DEF held, counted
    <2> QED BY <1>13, <1>16, <2>1 DEF LineTable
  <1>22. \A p \in Product : \E n \in Nat :
            /\ db'.line[o][p].reserved = held.line[o][p].reserved
            /\ db'.line[o][p].quantity = demand[p] + n
            /\ db'.line[o][p].prepared = n
    <2> TAKE p \in Product
    <2>1. /\ inCartons[p] \in Nat
          /\ db'.line[o][p].reserved = held.line[o][p].reserved
          /\ db'.line[o][p].quantity = demand[p] + inCartons[p]
          /\ db'.line[o][p].prepared = inCartons[p]
      <3> HIDE DEF counted, held, inCartons
      <3> QED BY <1>8, <1>21
    <2> HIDE DEF counted, held, inCartons
    <2> QED BY <2>1
  <1>23. /\ Good(ordered) /\ StockCovers(ordered, o) /\ RowsFit(ordered, o) /\ ordered \in Tables
         /\ ordered.lot = db.lot /\ ordered.moved = db.moved /\ ordered.rows = db.rows
         /\ ordered.line = [db.line EXCEPT ![o] = mine]
         /\ db'.lot = held.lot /\ db'.moved = held.moved /\ db'.rows = held.rows
    BY <1>1, <1>5, <1>13, <1>16, <1>17
  <1> HIDE DEF ordered
  <1> QED BY <1>15, <1>19, <1>20, <1>21, <1>22, <1>23 DEF PlacedFrom

\* The steps on orders and on the shipment edit page.
LEMMA OrderSteps ==
    ASSUME IInv, OrderStep
    PROVE  Good(db')
  <1>0. Good(db) /\ db \in Tables /\ db.line \in LineTable /\ db.carton \in CartonTable
    BY TablesAre DEF IInv, Good
  <1>1. ASSUME NEW o \in Order, CreateOrder(o) PROVE Good(db')
    BY <1>0, <1>1, OrdersGood DEF CreateOrder, OrderStatus
  <1>3. ASSUME NEW o \in Order, NEW demand \in [Product -> Units], NEW ready \in SUBSET Carton,
               PlaceOrder(o, demand, ready)
        PROVE  Good(db')
    BY <1>3, PlacedOrder
  <1>5. ASSUME NEW o \in Order, NEW c \in Carton, EditRemoveCarton(o, c) \/ EditAddCarton(o, c)
        PROVE  Good(db')
    <2>1. PICK st \in CartonStatus, s \in Order \cup {None} :
              /\ st = "absent" => db.carton[c].status = "absent"
              /\ db' = [db EXCEPT !.carton[c].status = st, !.carton[c].shipment = s]
      <3>1. CASE EditRemoveCarton(o, c)
        BY <1>0, <3>1 DEF EditRemoveCarton, CartonTable, CartonStatus
      <3>2. CASE EditAddCarton(o, c)
        BY <3>2 DEF EditAddCarton, CartonStatus
      <3> QED BY <1>5, <3>1, <3>2
    <2> DEFINE carton == [db.carton EXCEPT ![c] = [db.carton[c] EXCEPT !.status = st, !.shipment = s]]
    <2>2. db' = [db EXCEPT !.carton = carton]
      BY <1>0, <2>1 DEF Tables
    <2>3. /\ carton \in CartonTable
          /\ \A b \in Carton : carton[b].status = "absent" => carton[b].items = NoItems
      BY <1>0, <2>1 DEF CartonTable, Good, CartonsClean
    <2> HIDE DEF carton
    <2> QED BY <1>0, <2>2, <2>3, CartonsGood
  <1> QED  BY <1>1, <1>3, <1>5 DEF OrderStep

\* A new content of the tables outside prepare_order keeps the invariant.
LEMMA TablesStep ==
    ASSUME IInv, Good(db'), txn = None, txn' = txn,
           gate' \in [Order -> GateState], request' \in [Clerk -> RequestState]
    PROVE  IInv'
  BY DEF IInv, TypeOK, Good

\* What a carton holds of a product.
LEMMA CartonSum ==
    ASSUME NEW d, Good(d), NEW c \in Carton, NEW p \in Product
    PROVE  LET inLots == [l \in Lot |-> IF ProductOf[l] = p THEN d.carton[c].items[l] ELSE 0]
           IN  /\ inLots \in [Lot -> Units] /\ CartonUnits(d, c, p) = Total(inLots)
               /\ Total(inLots) \in Nat /\ CartonUnits(d, c, p) \in Nat
  <1> DEFINE inLots == [l \in Lot |-> IF ProductOf[l] = p THEN d.carton[c].items[l] ELSE 0]
  <1>1. d.carton \in CartonTable
    BY TablesAre DEF Good
  <1>2. inLots \in [Lot -> Units]
    BY <1>1, MaxUnitsAssumption DEF CartonTable, Units
  <1>3. CartonUnits(d, c, p) = Total(inLots)
    BY DEF CartonUnits
  <1> HIDE DEF inLots
  <1>4. Total(inLots) \in Nat
    BY <1>2, ConstantsAssumption, TotalNat
  <1> QED BY <1>2, <1>3, <1>4 DEF inLots

\* One turn of assign_ready_cartons_to_order: the tables d have the carton and the
\* line written, then the reservation the carton stands for is released.
AssignedFrom(d, c, p, tie) ==
    /\ Good(d) /\ d.lot = db.lot /\ d.moved = db.moved /\ d.rows = db.rows
    /\ d.order = db.order
    /\ d.line = [db.line EXCEPT ![txn.order][p].prepared = @ + CartonUnits(db, c, p)]
    /\ db' = IF db.line[txn.order][p].reserved > 0
             THEN ReleaseReserved(d, txn.order, p, CartonUnits(db, c, p), tie) ELSE d

LEMMA AssignedCarton ==
    ASSUME IInv, NEW c \in Carton, NEW p \in Product, NEW tie \in TieBreak,
           AssignReadyCarton(c, p, tie)
    PROVE  /\ Good(db') /\ txn.order \in Order
           /\ CartonUnits(db, c, p) \in Nat
           /\ CartonUnits(db, c, p) <= Remaining(db, txn.order, p)
           /\ CanReleaseFor(txn.order, p, CartonUnits(db, c, p))
           /\ \E d \in Tables : AssignedFrom(d, c, p, tie)
  <1> DEFINE o == txn.order
             q == CartonUnits(db, c, p)
             carton == [db.carton EXCEPT ![c] =
                           [db.carton[c] EXCEPT !.status = "assigned", !.shipment = o]]
             line == [db.line EXCEPT ![o][p].prepared = @ + q]
             taken == [db EXCEPT !.carton = carton]
             assigned == [taken EXCEPT !.line = line]
  <1>0. /\ Good(db) /\ db \in Tables /\ db.line \in LineTable /\ db.carton \in CartonTable
    BY TablesAre DEF IInv, Good
  <1>1. txn # None /\ o \in Order
    BY DEF AssignReadyCarton, IInv, TypeOK, PrepareState
  <1>2. /\ db' = IF db.line[o][p].reserved > 0
                 THEN ReleaseReserved(assigned, o, p, q, tie) ELSE assigned
        /\ CanReleaseFor(o, p, q)
    BY <1>0 DEF AssignReadyCarton, Tables
  <1>3. q \in Nat /\ q <= Remaining(db, o, p)
    <2>1. q \in Nat
      BY <1>0, CartonSum
    <2>2. CartonProducts(db, c) = {p} /\ Assignable(o, c)
      BY DEF AssignReadyCarton, NextReadyCarton
    <2> QED BY <2>1, <2>2 DEF Assignable
  <1>4. carton \in CartonTable
        /\ \A b \in Carton : carton[b].status = "absent" => carton[b].items = NoItems
    BY <1>0, <1>1 DEF CartonTable, CartonStatus, Good, CartonsClean
  <1>5. line \in LineTable
    <2>1. db.line[o][p] \in [quantity: Units, reserved: Units, prepared: Units]
      BY <1>0, <1>1 DEF LineTable
    <2> HIDE DEF q
    <2>2. db.line[o][p].prepared + q \in Units
      BY <1>3, <2>1, MaxUnitsAssumption DEF Remaining, Units
    <2> QED BY <1>0, <1>1, <2>1, <2>2 DEF LineTable
  <1>6. Good(taken)
    <2> HIDE DEF carton
    <2> QED BY <1>0, <1>4, CartonsGood
  <1>7. Good(assigned)
    <2> HIDE DEF line, taken
    <2> QED BY <1>5, <1>6, LinesGood
  <1>8. /\ assigned \in Tables /\ assigned.lot = db.lot /\ assigned.moved = db.moved
        /\ assigned.rows = db.rows /\ assigned.order = db.order /\ assigned.line = line
    <2>1. assigned \in Tables
      BY <1>7 DEF Good
    <2> HIDE DEF line, carton
    <2> QED BY <1>0, <2>1 DEF Tables
  <1>9. Good(db')
    <2> HIDE DEF assigned, q, o
    <2> QED BY <1>1, <1>2, <1>3, <1>7, ReleaseGood
  <1> HIDE DEF assigned
  <1> QED BY <1>1, <1>2, <1>3, <1>7, <1>8, <1>9 DEF AssignedFrom

\* The steps of prepare_order.
LEMMA PrepareSteps ==
    ASSUME IInv, PrepareStep
    PROVE  IInv'
  <1>0. /\ Good(db) /\ db \in Tables /\ db.line \in LineTable /\ db.carton \in CartonTable
        /\ gate \in [Order -> GateState] /\ request \in [Clerk -> RequestState]
        /\ txn \in {None} \cup PrepareState
    BY TablesAre DEF IInv, Good, TypeOK
  <1>1. ASSUME Good(db'), txn' \in {None} \cup PrepareState, UNCHANGED <<gate, request>>,
               txn' # None => Good(txn'.saved)
        PROVE  IInv'
    BY <1>0, <1>1 DEF IInv, TypeOK, Good
  <1>2. txn # None =>
          /\ txn \in PrepareState /\ txn.order \in Order /\ txn.saved \in Tables
          /\ Good(txn.saved)
    BY <1>0 DEF PrepareState, IInv
  <1>3. ASSUME NEW c \in Carton, NEW p \in Product
        PROVE  LET inLots == [l \in Lot |-> IF ProductOf[l] = p THEN db.carton[c].items[l] ELSE 0]
               IN  /\ inLots \in [Lot -> Units] /\ CartonUnits(db, c, p) = Total(inLots)
                   /\ Total(inLots) \in Nat
    BY <1>0, CartonSum
  <1>4. ASSUME NEW o \in Order, PrepareBegin(o) PROVE IInv'
    <2>1. /\ db' = db /\ UNCHANGED <<gate, request>>
          /\ txn' = [order |-> o, stage |-> "assign", bin |-> None, saved |-> db]
      BY <1>4 DEF PrepareBegin
    <2>2. txn' \in PrepareState /\ txn'.saved = db
      BY <1>0, <2>1 DEF PrepareState
    <2> QED BY <1>0, <1>1, <2>1, <2>2
  <1>5. ASSUME NEW c \in Carton, NEW p \in Product, NEW tie \in TieBreak,
               AssignReadyCarton(c, p, tie)
        PROVE  IInv'
    <2>1. txn # None /\ UNCHANGED <<gate, request, txn>>
      BY <1>5 DEF AssignReadyCarton
    <2> QED BY <1>0, <1>1, <1>2, <1>5, <2>1, AssignedCarton
  <1>6. ASSUME StartPacking PROVE IInv'
    <2>1. /\ txn # None /\ UNCHANGED <<db, gate, request>>
          /\ txn' = [txn EXCEPT !.stage = "pack"]
      BY <1>6 DEF StartPacking
    <2>2. txn' \in PrepareState /\ txn'.saved = txn.saved
      BY <1>2, <2>1 DEF PrepareState
    <2> QED BY <1>0, <1>1, <1>2, <2>1, <2>2
  <1>7. ASSUME NEW p \in Product, NEW q \in Units, NEW c \in Carton, NEW tie \in TieBreak,
               PackBinEntry(p, q, c, tie)
        PROVE  IInv'
    <2>1. /\ txn # None /\ UNCHANGED <<gate, request>> /\ txn' = [txn EXCEPT !.bin = c]
          /\ q <= Remaining(db, txn.order, p)
          /\ db.carton[c].status = "absent" \/ CartonUnits(db, c, p) = 0
          /\ db' = PackReserved(db, txn.order, p, q, tie, c)
      BY <1>7 DEF PackBinEntry
    <2>2. txn' \in PrepareState /\ txn'.saved = txn.saved
      BY <1>2, <2>1 DEF PrepareState
    <2>3. ASSUME NEW l \in Lot, ProductOf[l] = p PROVE db.carton[c].items[l] = 0
      <3>1. CASE db.carton[c].status = "absent"
        BY <1>0, <3>1 DEF Good, CartonsClean, NoItems
      <3>2. CASE CartonUnits(db, c, p) = 0
        <4> DEFINE inLots == [m \in Lot |-> IF ProductOf[m] = p THEN db.carton[c].items[m] ELSE 0]
        <4>1. inLots \in [Lot -> Units] /\ Total(inLots) = 0
          BY <1>3, <3>2
        <4>2. inLots[l] = db.carton[c].items[l]
          BY <2>3
        <4> HIDE DEF inLots
        <4>3. \A m \in Lot : inLots[m] = 0
          BY <4>1, ConstantsAssumption, TotalZero
        <4> QED BY <4>2, <4>3
      <3> QED BY <2>1, <3>1, <3>2
    <2>4. q \in Nat
      BY MaxUnitsAssumption DEF Units
    <2>5. Good(db')
      BY <1>0, <1>2, <2>1, <2>3, <2>4, PackReservedGood
    <2> QED BY <1>1, <1>2, <2>1, <2>2, <2>5
  <1>8. ASSUME PrepareFinish PROVE IInv'
    <2>1. /\ txn # None /\ UNCHANGED <<gate, request>> /\ txn' = None
          /\ db' = [db EXCEPT !.order[txn.order] = "ready"]
      BY <1>8 DEF PrepareFinish
    <2>2. Good(db')
      BY <1>0, <1>2, <2>1, OrdersGood DEF OrderStatus
    <2> QED BY <1>1, <2>1, <2>2
  <1>9. ASSUME PackingErrors \/ ReservationShort PROVE IInv'
    <2>1. /\ txn # None /\ UNCHANGED <<gate, request>> /\ txn' = None /\ db' = txn.saved
      BY <1>9 DEF PackingErrors, ReservationShort, Rollback
    <2> QED BY <1>1, <1>2, <2>1
  <1> QED  BY <1>4, <1>5, <1>6, <1>7, <1>8, <1>9 DEF PrepareStep

\* What tracking does to a shipment.
LEMMA ShipmentSteps ==
    ASSUME IInv, ShipmentStep
    PROVE  IInv'
  <1>0. /\ Good(db) /\ db \in Tables /\ db.carton \in CartonTable
        /\ gate \in [Order -> GateState] /\ request \in [Clerk -> RequestState]
    BY TablesAre DEF IInv, Good, TypeOK
  <1>1. ASSUME NEW o \in Order, NEW from, NEW to \in CartonStatus, to # "absent"
        PROVE  Good(SetCartons(o, from, to))
    <2> DEFINE carton == [c \in Carton |->
                   IF db.carton[c].shipment = o /\ db.carton[c].status \in from
                   THEN [db.carton[c] EXCEPT !.status = to] ELSE db.carton[c]]
    <2>1. SetCartons(o, from, to) = [db EXCEPT !.carton = carton]
      BY DEF SetCartons
    <2>2. /\ carton \in CartonTable
          /\ \A c \in Carton : carton[c].status = "absent" => carton[c].items = NoItems
      BY <1>0, <1>1 DEF CartonTable, Good, CartonsClean
    <2> HIDE DEF carton
    <2> QED BY <1>0, <2>1, <2>2, CartonsGood
  <1>2. ASSUME NEW o \in Order, NEW g \in GateState PROVE [gate EXCEPT ![o] = g] \in [Order -> GateState]
    BY <1>0
  <1>3. ASSUME NEW o \in Order, ShipmentPlanned(o) PROVE IInv'
    BY <1>0, <1>2, <1>3, TablesStep DEF ShipmentPlanned, GateState
  <1>4. ASSUME NEW o \in Order, ShipmentShipped(o) PROVE IInv'
    BY <1>0, <1>1, <1>2, <1>4, TablesStep DEF ShipmentShipped, GateState, CartonStatus
  <1>5. ASSUME NEW o \in Order, ShipmentDisputed(o) PROVE IInv'
    BY <1>0, <1>2, <1>5, TablesStep DEF ShipmentDisputed, GateState
  <1>6. ASSUME NEW o \in Order, DisputeResolved(o) PROVE IInv'
    BY <1>0, <1>1, <1>2, <1>6, TablesStep DEF DisputeResolved, GateState, CartonStatus
  <1> QED  BY <1>3, <1>4, <1>5, <1>6 DEF ShipmentStep

\* The steps of the requests on orders, a crash included.
LEMMA RequestSteps ==
    ASSUME IInv, RequestStart \/ RequestStep \/ \E k \in Clerk : RequestCrash(k)
    PROVE  IInv'
  <1>0. /\ Good(db) /\ db \in Tables /\ db.line \in LineTable /\ db.rows \in RowTable
        /\ gate \in [Order -> GateState] /\ request \in [Clerk -> RequestState]
    BY TablesAre DEF IInv, Good, TypeOK
  <1>1. Idle \in RequestState /\ Idle \in [pc: {"idle"}]
    BY DEF Idle, RequestState
  <1>2. ASSUME NEW k \in Clerk, NEW new \in RequestState, txn = None, Good(db'),
               UNCHANGED <<gate, txn>>, request' = [request EXCEPT ![k] = new]
        PROVE  IInv'
    BY <1>0, <1>2, TablesStep
  <1>3. ASSUME NEW o \in Order, NEW p \in Product, NEW n \in Units
        PROVE  Good([db EXCEPT !.line[o][p].quantity = n])
    <2> DEFINE line == [db.line EXCEPT ![o][p].quantity = n]
    <2>1. line \in LineTable
      <3>1. db.line[o] \in [Product -> [quantity: Units, reserved: Units, prepared: Units]]
        BY <1>0 DEF LineTable
      <3>2. [db.line[o][p] EXCEPT !.quantity = n]
              \in [quantity: Units, reserved: Units, prepared: Units]
        BY <3>1
      <3>3. [db.line[o] EXCEPT ![p].quantity = n]
              \in [Product -> [quantity: Units, reserved: Units, prepared: Units]]
        BY <3>1, <3>2
      <3> QED BY <1>0, <3>3 DEF LineTable
    <2>2. [db EXCEPT !.line[o][p].quantity = n] = [db EXCEPT !.line = line]
      OBVIOUS
    <2> HIDE DEF line
    <2>3. Good([db EXCEPT !.line = line])
      BY <1>0, <2>1, LinesGood
    <2> QED BY <2>2, <2>3
  <1>4. ASSUME NEW k \in Clerk, NEW o \in Order, NEW p \in Product, NEW q \in Units,
               AddLineRead(k, o, p, q)
        PROVE  IInv'
    <2> DEFINE new == [pc |-> "read", order |-> o, product |-> p,
                       previous |-> db.line[o][p].quantity,
                       quantity |-> db.line[o][p].quantity + q]
    <2>1. new \in RequestState
      BY <1>0, <1>4 DEF AddLineRead, RequestState, AddLineState, LineTable
    <2>2. /\ txn = None /\ UNCHANGED <<db, gate, txn>> /\ request' = [request EXCEPT ![k] = new]
      BY <1>4 DEF AddLineRead
    <2> HIDE DEF new
    <2> QED BY <1>0, <1>2, <2>1, <2>2
  <1>5. ASSUME NEW k \in Clerk, AddLineSave(k) PROVE IInv'
    <2> DEFINE a == request[k]
               new == [pc |-> "saved", order |-> a.order, product |-> a.product,
                       previous |-> a.previous]
    <2>1. /\ txn = None /\ UNCHANGED <<gate, txn>> /\ a.pc = "read"
          /\ db' = [db EXCEPT !.line[a.order][a.product].quantity = a.quantity]
          /\ request' = [request EXCEPT ![k] = new]
      BY <1>0, <1>5 DEF AddLineSave
    <2>2. /\ a.order \in Order /\ a.product \in Product /\ a.previous \in Units
          /\ a.quantity \in Units
      BY <1>0, <2>1 DEF RequestState, AddLineState, SavedLine, ReserveState, EditState
    <2>3. Good(db')
      BY <1>3, <2>1, <2>2
    <2>4. new \in RequestState
      BY <2>2 DEF RequestState, AddLineState, SavedLine
    <2> HIDE DEF new
    <2> QED BY <1>2, <2>1, <2>3, <2>4
  <1>6. ASSUME NEW k \in Clerk, NEW o \in Order, NEW line \in SavedLine \cup [pc: {"idle"}],
               ReadLines(k, o, line)
        PROVE  IInv'
    <2> DEFINE copies == [p \in Product |-> [db.line[o][p] EXCEPT !.prepared = 0]]
               new == [pc |-> "reserving", order |-> o, lines |-> copies, lost |-> {},
                       line |-> line]
    <2>1. copies \in LineCopies
      <3>1. 0 \in Units
        BY MaxUnitsAssumption DEF Units
      <3>2. ASSUME NEW p \in Product
            PROVE  copies[p] \in [quantity: Units, reserved: Units, prepared: Units]
        <4>1. db.line[o][p] \in [quantity: Units, reserved: Units, prepared: Units]
          BY <1>0 DEF LineTable
        <4> QED BY <3>1, <4>1
      <3> QED BY <3>2 DEF LineCopies
    <2>2. new \in RequestState
      <3> HIDE DEF copies
      <3> QED BY <2>1 DEF RequestState, ReserveState
    <2>3. /\ txn = None /\ UNCHANGED <<db, gate, txn>> /\ request' = [request EXCEPT ![k] = new]
      BY <1>6 DEF ReadLines
    <2> HIDE DEF new
    <2> QED BY <1>0, <1>2, <2>2, <2>3
  <1>10. ASSUME NEW k \in Clerk, NEW o \in Order, ReserveOrder(k, o) PROVE IInv'
    BY <1>1, <1>6, <1>10 DEF ReserveOrder
  <1>11. ASSUME NEW k \in Clerk, AddLineReserve(k) PROVE IInv'
    <2>1. request[k] \in SavedLine /\ ReadLines(k, request[k].order, request[k])
      BY <1>0, <1>11, RequestKinds DEF AddLineReserve
    <2>2. request[k].order \in Order
      BY <2>1 DEF SavedLine
    <2> QED BY <1>6, <2>1, <2>2
  <1>12. ASSUME NEW k \in Clerk, NEW o \in Order, EditRead(k, o) PROVE IInv'
    <2> DEFINE new == [pc |-> "editing", order |-> o, lines |-> db.line[o], lost |-> {}]
    <2>1. new \in RequestState
      <3>1. db.line[o] \in LineCopies
        BY <1>0 DEF LineTable, LineCopies
      <3> QED BY <3>1 DEF RequestState, EditState
    <2>2. /\ txn = None /\ UNCHANGED <<db, gate, txn>> /\ request' = [request EXCEPT ![k] = new]
      BY <1>12 DEF EditRead
    <2> HIDE DEF new
    <2> QED BY <1>0, <1>2, <2>1, <2>2
  <1>13. ASSUME NEW k \in Clerk, ReserveCommit(k) PROVE IInv'
    <2>1. /\ txn = None /\ UNCHANGED <<gate, txn>> /\ request[k].pc = "reserving"
          /\ RowsFit(Seen(db, request[k]), request[k].order) /\ db' = ReserveSeen(db, request[k])
          /\ request' = [request EXCEPT ![k] = Idle]
      BY <1>13 DEF ReserveCommit
    <2>2. request[k].order \in Order /\ request[k].lines \in LineCopies
      BY <1>0, <2>1, HeldRequest
    <2>3. Good(db')
      BY <1>0, <2>1, <2>2, ReserveSeenGood
    <2> QED BY <1>1, <1>2, <2>1, <2>3
  <1>14. ASSUME NEW k \in Clerk, ReserveShort(k) PROVE IInv'
    <2> DEFINE r == request[k]
               new == IF r.line.pc = "saved" THEN [r.line EXCEPT !.pc = "short"] ELSE Idle
    <2>1. /\ txn = None /\ UNCHANGED <<db, gate, txn>> /\ r.pc = "reserving"
          /\ request' = [request EXCEPT ![k] = new]
      BY <1>14 DEF ReserveShort
    <2>2. r.line \in SavedLine \cup [pc: {"idle"}]
      BY <1>0, <2>1, RequestKinds DEF ReserveState
    <2>3. new \in RequestState
      <3>1. CASE r.line.pc = "saved"
        <4>1. r.line \in SavedLine
          BY <2>2, <3>1
        <4> HIDE DEF r
        <4> QED BY <3>1, <4>1 DEF RequestState, AddLineState, SavedLine
      <3>2. CASE r.line.pc # "saved"
        BY <1>1, <3>2
      <3> QED BY <3>1, <3>2
    <2> HIDE DEF new
    <2> QED BY <1>0, <1>2, <2>1, <2>3
  <1>15. ASSUME NEW k \in Clerk, ReserveLost(k) \/ EditRefused(k) PROVE IInv'
    BY <1>0, <1>1, <1>2, <1>15 DEF ReserveLost, EditRefused
  <1>16. ASSUME NEW k \in Clerk, NEW p \in Product, NEW q \in Units, NEW c \in Carton,
                NEW tie \in TieBreak, EditPackReserved(k, p, q, c, tie)
         PROVE  IInv'
    <2>1. /\ txn = None /\ UNCHANGED <<gate, txn>> /\ request[k].pc = "editing"
          /\ q <= Remaining(Seen(db, request[k]), request[k].order, p)
          /\ db.carton[c].status = "absent"
          /\ db' = PackSeen(db, request[k], p, q, tie, c)
          /\ request' = [request EXCEPT ![k] = Idle]
      BY <1>16 DEF EditPackReserved
    <2>2. request[k].order \in Order /\ request[k].lines \in LineCopies /\ q \in Nat
      BY <1>0, <2>1, HeldRequest, MaxUnitsAssumption DEF Units
    <2>3. Good(db')
      BY <1>0, <2>1, <2>2, PackSeenGood
    <2> QED BY <1>1, <1>2, <2>1, <2>3
  <1>7. ASSUME NEW o \in Order, NEW p \in Product PROVE Good(DeleteLine(o, p))
    <2> DEFINE none == [quantity |-> 0, reserved |-> 0, prepared |-> 0]
               line == [db.line EXCEPT ![o][p] = none]
               rows == [l \in Lot |-> [s \in Order \X Slot |->
                           IF s[1] = o /\ ProductOf[l] = p THEN 0 ELSE db.rows[l][s]]]
               cut == [db EXCEPT !.line = line]
               e == [cut EXCEPT !.rows = rows]
    <2>1. DeleteLine(o, p) = e
      BY DEF DeleteLine
    <2>2. line \in LineTable
      <3>1. none \in [quantity: Units, reserved: Units, prepared: Units]
        BY MaxUnitsAssumption DEF Units
      <3> HIDE DEF none
      <3> QED BY <1>0, <3>1 DEF LineTable
    <2>3. Good(cut) /\ cut.rows = db.rows
      <3>1. cut.rows = db.rows
        BY <1>0 DEF Tables
      <3> HIDE DEF line
      <3> QED BY <1>0, <2>2, <3>1, LinesGood
    <2>4. ASSUME NEW l \in Lot
          PROVE  rows[l] \in [Order \X Slot -> Units] /\ Total(rows[l]) <= Total(db.rows[l])
      <3>1. db.rows[l] \in [Order \X Slot -> Units]
        BY <1>0 DEF RowTable
      <3>2. /\ rows[l] \in [Order \X Slot -> Units]
            /\ \A s \in Order \X Slot : rows[l][s] <= db.rows[l][s]
        BY <3>1, MaxUnitsAssumption DEF Units
      <3>3. IsFiniteSet(Order \X Slot)
        BY ConstantsAssumption, FS_Product
      <3> HIDE DEF rows
      <3> QED BY <3>1, <3>2, <3>3, TotalMonotone
    <2>5. rows \in RowTable
      BY <2>4 DEF RowTable
    <2> HIDE DEF rows, cut
    <2>6. /\ e \in Tables /\ e.rows = rows /\ e.lot = cut.lot /\ e.moved = cut.moved
          /\ e.carton = cut.carton
      BY <2>3, <2>5, TablesAre DEF Good
    <2> HIDE DEF e
    <2>7. ASSUME NEW l \in Lot
          PROVE  Total(e.rows[l]) <= e.lot[l].reserved /\ e.lot[l].reserved <= e.lot[l].on_hand
      <3>1. /\ Total(cut.rows[l]) \in Nat /\ cut.lot[l].reserved \in Nat
            /\ Total(cut.rows[l]) <= cut.lot[l].reserved
            /\ cut.lot[l].reserved <= cut.lot[l].on_hand
        BY <2>3, LotFacts
      <3>2. IsFiniteSet(Order \X Slot)
        BY ConstantsAssumption, FS_Product
      <3>3. Total(rows[l]) \in Nat
        BY <2>4, <3>2, TotalNat
      <3> QED BY <2>3, <2>4, <2>6, <3>1, <3>3
    <2>8. Good(e)
      BY <2>3, <2>6, <2>7 DEF Good, Backed, Explained, LotsClean, CartonsClean
    <2> QED BY <2>1, <2>8
  <1>17. ASSUME NEW r \in RequestState, NEW p \in Product PROVE WithoutLine(r, p) \in RequestState
    <2>1. ASSUME NEW a \in SavedLine \cup [pc: {"idle"}]
          PROVE  Orphaned(a, p) \in SavedLine \cup [pc: {"idle"}]
      <3>1. CASE a \in SavedLine
        BY <3>1 DEF Orphaned, SavedLine
      <3>2. CASE a \in [pc: {"idle"}]
        BY <3>2 DEF Orphaned
      <3> QED BY <3>1, <3>2
    <2>2. CASE r.pc = "reserving"
      <3>1. r \in ReserveState /\ r.line \in SavedLine \cup [pc: {"idle"}]
        BY <2>2, RequestKinds DEF ReserveState
      <3>2. Orphaned(r.line, p) \in SavedLine \cup [pc: {"idle"}]
        BY <2>1, <3>1
      <3>3. WithoutLine(r, p) = [r EXCEPT !.lost = @ \cup {p}, !.line = Orphaned(r.line, p)]
        BY <2>2, <3>1 DEF WithoutLine, ReserveState
      <3> DEFINE line == Orphaned(r.line, p)
      <3>4. [r EXCEPT !.lost = @ \cup {p}, !.line = line] \in ReserveState
        <4>1. line \in SavedLine \cup [pc: {"idle"}]
          BY <3>2
        <4> HIDE DEF line
        <4> QED BY <3>1, <4>1 DEF ReserveState
      <3> QED BY <3>3, <3>4 DEF RequestState
    <2>3. CASE r.pc = "editing"
      <3>1. r \in EditState
        BY <2>3, RequestKinds
      <3>2. WithoutLine(r, p) = [r EXCEPT !.lost = @ \cup {p}]
        BY <2>3 DEF WithoutLine
      <3> QED BY <3>1, <3>2 DEF RequestState, EditState
    <2>4. CASE r.pc \in {"read", "short"} /\ r.product = p
      BY <1>1, <2>4 DEF WithoutLine
    <2>5. CASE ~ (r.pc \in {"reserving", "editing"}) /\ ~ (r.pc \in {"read", "short"} /\ r.product = p)
      <3>1. WithoutLine(r, p) = Orphaned(r, p)
        BY <2>5 DEF WithoutLine
      <3>2. CASE r.pc = "saved"
        <4>1. r \in SavedLine
          BY <3>2, RequestKinds
        <4> QED BY <3>1, <3>2, <4>1 DEF Orphaned, SavedLine, RequestState, AddLineState
      <3>3. CASE r.pc # "saved"
        BY <3>1, <3>3 DEF Orphaned
      <3> QED BY <3>2, <3>3
    <2> QED BY <2>2, <2>3, <2>4, <2>5
  <1>8. ASSUME NEW k \in Clerk, AddLineUndo(k) PROVE IInv'
    <2> DEFINE a == request[k]
    <2>1. txn = None /\ UNCHANGED <<gate, txn>> /\ a.pc = "short"
      BY <1>8 DEF AddLineUndo
    <2>2. a.order \in Order /\ a.product \in Product /\ a.previous \in Units
      BY <1>0, <2>1, RequestKinds DEF SavedLine
    <2>3. CASE /\ db' = [db EXCEPT !.line[a.order][a.product].quantity = a.previous]
               /\ request' = [request EXCEPT ![k] = Idle]
      <3>1. Good(db')
        BY <1>3, <2>2, <2>3
      <3> QED BY <1>1, <1>2, <2>1, <2>3, <3>1
    <2>4. CASE /\ db' = DeleteLine(a.order, a.product)
               /\ request' = LineGone(k, a.order, a.product)
      <3>1. Good(db')
        BY <1>7, <2>2, <2>4
      <3>2. ASSUME NEW j \in Clerk
            PROVE  LineGone(k, a.order, a.product)[j] \in RequestState
        BY <1>0, <1>1, <1>17, <2>2 DEF LineGone
      <3>3. request' \in [Clerk -> RequestState]
        BY <2>4, <3>2 DEF LineGone
      <3> QED BY <1>0, <2>1, <3>1, <3>3, TablesStep
    <2> QED BY <1>8, <2>3, <2>4 DEF AddLineUndo
  <1>9. ASSUME NEW k \in Clerk, RequestCrash(k) PROVE IInv'
    BY <1>0, <1>1, <1>2, <1>9 DEF RequestCrash
  <1> QED  BY <1>4, <1>5, <1>8, <1>9, <1>10, <1>11, <1>12, <1>13, <1>14, <1>15, <1>16
           DEF RequestStart, RequestStep

\* The empty tables.
LEMMA InitGood ==
    ASSUME Init
    PROVE  IInv
  <1>1. NoItems \in [Lot -> Units] /\ 0 \in Units
    BY MaxUnitsAssumption DEF NoItems, Units
  <1>2. /\ db.lot \in LotTable /\ db.moved \in MovedTable /\ db.rows \in RowTable
        /\ db.line \in LineTable /\ db.order \in OrderTable /\ db.carton \in CartonTable
    BY <1>1 DEF Init, LotTable, MovedTable, RowTable, LineTable, OrderTable, CartonTable,
                LotStatus, OrderStatus, CartonStatus
  <1>3. db \in Tables
    BY <1>2, TablesAre DEF Init
  <1>4. ASSUME NEW l \in Lot
        PROVE  /\ Total(db.rows[l]) = 0 /\ db.lot[l].reserved = 0 /\ db.lot[l].on_hand = 0
               /\ db.moved[l] = 0
    <2>1. IsFiniteSet(Order \X Slot)
      BY ConstantsAssumption, FS_Product
    <2>2. /\ db.rows[l] \in [Order \X Slot -> Units]
          /\ \A s \in Order \X Slot : db.rows[l][s] = 0
      BY <1>2 DEF Init, RowTable
    <2>3. Total(db.rows[l]) = 0
      BY <2>1, <2>2, TotalZero
    <2> QED BY <2>3 DEF Init
  <1>5. Good(db)
    <2>1. Backed(db) /\ Explained(db) /\ LotsClean(db)
      BY <1>4 DEF Backed, Explained, LotsClean
    <2>2. CartonsClean(db)
      BY DEF Init, CartonsClean
    <2> QED BY <1>3, <2>1, <2>2 DEF Good
  <1>6. /\ gate \in [Order -> GateState] /\ request \in [Clerk -> RequestState] /\ txn = None
    BY DEF Init, GateState, RequestState, Idle
  <1> QED  BY <1>3, <1>5, <1>6 DEF IInv, TypeOK

\* Every step keeps the invariant, requests overlapping or not.
LEMMA OverlapKeeps == IInv /\ [Overlap]_vars => IInv'
  <1> SUFFICES ASSUME IInv, [Overlap]_vars PROVE IInv'
    OBVIOUS
  <1>0. gate \in [Order -> GateState] /\ request \in [Clerk -> RequestState]
    BY DEF IInv, TypeOK
  <1>1. CASE StockStep
    <2>1. txn = None /\ UNCHANGED <<gate, request, txn>>
      <3>1. Quiet
        BY <1>1, ZenonT(30) DEF StockStep, ReceiveStock, ReleaseQuarantine, AdjustStock, StockOut
      <3> QED BY <3>1 DEF Quiet
    <2> QED BY <1>0, <1>1, <2>1, LotSteps, TablesStep
  <1>2. CASE CartonStep
    <2>1. txn = None /\ UNCHANGED <<gate, request, txn>>
      BY <1>2 DEF CartonStep, PackCarton, UnpackCarton, DeleteCarton, UpdateCartonStatus, Quiet
    <2> QED BY <1>0, <1>2, <2>1, CartonSteps, TablesStep
  <1>3. CASE OrderStep
    <2>1. txn = None /\ UNCHANGED <<gate, request, txn>>
      <3>1. ASSUME NEW o \in Order, NEW demand \in [Product -> Units],
                   NEW ready \in SUBSET Carton, PlaceOrder(o, demand, ready)
            PROVE  Quiet
        BY <3>1, ZenonT(30) DEF PlaceOrder
      <3>2. Quiet
        BY <1>3, <3>1, ZenonT(30) DEF OrderStep, CreateOrder, EditRemoveCarton, EditAddCarton
      <3> QED BY <3>2 DEF Quiet
    <2> QED BY <1>0, <1>3, <2>1, OrderSteps, TablesStep
  <1>4. CASE PrepareStep
    BY <1>4, PrepareSteps
  <1>5. CASE ShipmentStep
    BY <1>5, ShipmentSteps
  <1>6. CASE RequestStart \/ RequestStep \/ \E k \in Clerk : RequestCrash(k)
    BY <1>6, RequestSteps
  <1>7. CASE UNCHANGED vars
    BY <1>7 DEF vars, IInv, TypeOK
  <1> QED  BY <1>1, <1>2, <1>3, <1>4, <1>5, <1>6, <1>7 DEF Overlap, OtherStep

THEOREM OverlapInvariant == OverlapSpec => []IInv
  <1> QED  BY InitGood, OverlapKeeps, PTL DEF OverlapSpec

\* Requests that run one at a time are requests that may overlap: what holds of
\* OverlapSpec holds of Spec.
THEOREM OneAtATime == Spec => OverlapSpec
  <1>1. [Next]_vars => [Overlap]_vars
    BY DEF Next, Overlap
  <1> QED  BY <1>1, PTL DEF Spec, OverlapSpec

\* Every table holds what its columns may hold, whatever requests overlap and
\* wherever a worker dies.
THEOREM TypeCorrect == OverlapSpec => []TypeOK
  <1>1. IInv => TypeOK
    BY DEF IInv
  <1> QED  BY <1>1, OverlapInvariant, PTL

\* What the rows of reserve_stock_for_order promise is on the shelf: no adjust,
\* stock out, pack or rollback takes a reserved unit, for any lots and orders.
THEOREM ReservationsStayBacked == OverlapSpec => []ReservationsBacked
  <1>1. IInv => ReservationsBacked
    BY DEF IInv, Good, ReservationsBacked
  <1> QED  BY <1>1, OverlapInvariant, PTL

\* The stale lot copies of release and consume only ever leave a lot too many
\* units: its movements never claim more than it shows.
THEOREM MovementsStayBelow == OverlapSpec => []MovementsNeverExceedStock
  <1>1. IInv => MovementsNeverExceedStock
    <2>1. ASSUME IInv, NEW l \in Lot PROVE db.lot[l].on_hand - db.moved[l] >= 0
      <3>1. /\ db.lot[l].on_hand \in Nat /\ db.moved[l] \in Int
            /\ db.moved[l] <= db.lot[l].on_hand
        BY <2>1, LotFacts DEF IInv
      <3> QED BY <3>1
    <2> QED BY <2>1 DEF MovementsNeverExceedStock, Drift
  <1> QED  BY <1>1, OverlapInvariant, PTL

\* The commits of a reservation and of a shipment edit, from the tables they see.
LEMMA ReserveCommits ==
    ASSUME IInv, NEW k \in Clerk, ReserveCommit(k)
    PROVE  /\ request[k].order \in Order /\ request[k].lines \in LineCopies
           /\ request[k].pc = "reserving" /\ request'[k] = Idle
           /\ txn = None /\ txn' = None /\ db' = ReserveSeen(db, request[k])
           /\ Good(Seen(db, request[k])) /\ Seen(db, request[k]).lot = db.lot
           /\ Seen(db, request[k]).moved = db.moved
           /\ StockCovers(Seen(db, request[k]), request[k].order)
           /\ RowsFit(Seen(db, request[k]), request[k].order)
           /\ db'.lot = Reserve(Seen(db, request[k]), request[k].order).lot
           /\ db'.moved = Reserve(Seen(db, request[k]), request[k].order).moved
  <1>0. Good(db) /\ request \in [Clerk -> RequestState]
    BY DEF IInv, TypeOK
  <1>1. /\ request[k].pc = "reserving" /\ request' = [request EXCEPT ![k] = Idle]
        /\ txn = None /\ txn' = None /\ db' = ReserveSeen(db, request[k])
        /\ StockCovers(Seen(db, request[k]), request[k].order)
        /\ RowsFit(Seen(db, request[k]), request[k].order)
    BY DEF ReserveCommit
  <1>2. request[k].order \in Order /\ request[k].lines \in LineCopies
    BY <1>0, <1>1, HeldRequest
  <1>3. /\ db'.lot = Reserve(Seen(db, request[k]), request[k].order).lot
        /\ db'.moved = Reserve(Seen(db, request[k]), request[k].order).moved
    BY <1>0, <1>1, <1>2, ReserveSeenGood
  <1> QED  BY <1>0, <1>1, <1>2, <1>3, SeenGood

LEMMA EditPacks ==
    ASSUME IInv, NEW k \in Clerk, NEW p \in Product, NEW q \in Units, NEW c \in Carton,
           NEW tie \in TieBreak, EditPackReserved(k, p, q, c, tie)
    PROVE  /\ request[k].order \in Order /\ request[k].lines \in LineCopies
           /\ request[k].pc = "editing" /\ request'[k] = Idle
           /\ q \in Nat /\ q > 0 /\ q <= HeldUnits(db, request[k].order, p)
           /\ q <= Remaining(Seen(db, request[k]), request[k].order, p)
           /\ db.carton[c].status = "absent"
           /\ txn = None /\ txn' = None
           /\ db' = PackSeen(db, request[k], p, q, tie, c)
           /\ Good(Seen(db, request[k])) /\ Seen(db, request[k]).lot = db.lot
           /\ Seen(db, request[k]).moved = db.moved /\ Seen(db, request[k]).rows = db.rows
           /\ db'.lot = PackReserved(Seen(db, request[k]), request[k].order, p, q, tie, c).lot
           /\ db'.moved = PackReserved(Seen(db, request[k]), request[k].order, p, q, tie, c).moved
  <1>0. Good(db) /\ request \in [Clerk -> RequestState]
    BY DEF IInv, TypeOK
  <1>1. /\ request[k].pc = "editing" /\ request' = [request EXCEPT ![k] = Idle]
        /\ txn = None /\ txn' = None /\ db' = PackSeen(db, request[k], p, q, tie, c)
        /\ q > 0 /\ q <= HeldUnits(db, request[k].order, p)
        /\ q <= Remaining(Seen(db, request[k]), request[k].order, p)
        /\ db.carton[c].status = "absent"
    BY DEF EditPackReserved
  <1>2. request[k].order \in Order /\ request[k].lines \in LineCopies /\ q \in Nat
    BY <1>0, <1>1, HeldRequest, MaxUnitsAssumption DEF Units
  <1>3. /\ db'.lot = PackReserved(Seen(db, request[k]), request[k].order, p, q, tie, c).lot
        /\ db'.moved = PackReserved(Seen(db, request[k]), request[k].order, p, q, tie, c).moved
    BY <1>0, <1>1, <1>2, PackSeenGood
  <1> QED  BY <1>0, <1>1, <1>2, <1>3, SeenGood

\* Two rows of one line share lot l.
SharedLot(d, l) ==
    \E o \in Order, j, k \in Slot :
        j # k /\ d.rows[l][<<o, j>>] > 0 /\ d.rows[l][<<o, k>>] > 0

\* What a step inside prepare_order may do to the drifts.
DriftsUp(d, e) ==
    \A l \in Lot : /\ Drift(d, l) <= Drift(e, l)
                   /\ Drift(d, l) < Drift(e, l) => SharedLot(d, l)

LEMMA DriftTyped ==
    ASSUME NEW d, Good(d), NEW l \in Lot
    PROVE  Drift(d, l) \in Int /\ Drift(d, l) >= 0
  BY LotFacts DEF Drift

\* Tables whose lots kept their units and their movements.
LEMMA SameLotsDrift ==
    ASSUME NEW d, Good(d), NEW e,
           \A l \in Lot : e.lot[l].on_hand = d.lot[l].on_hand /\ e.moved[l] = d.moved[l]
    PROVE  DriftsUp(d, e)
  <1>1. ASSUME NEW l \in Lot PROVE Drift(e, l) = Drift(d, l) /\ Drift(d, l) \in Int
    BY DriftTyped DEF Drift
  <1> QED  BY <1>1 DEF DriftsUp

\* Units that leave a lot, or come back, with their movement.
LEMMA MovedWithUnits ==
    ASSUME NEW d, Good(d), NEW e, NEW t \in [Lot -> Int],
           \A l \in Lot : /\ e.lot[l].on_hand = d.lot[l].on_hand + t[l]
                          /\ e.moved[l] = d.moved[l] + t[l]
    PROVE  DriftsUp(d, e)
  <1>1. ASSUME NEW l \in Lot PROVE Drift(e, l) = Drift(d, l) /\ Drift(d, l) \in Int
    <2>1. /\ d.lot[l].on_hand \in Int /\ d.moved[l] \in Int /\ t[l] \in Int
      BY LotFacts
    <2>2. Drift(d, l) \in Int
      BY DriftTyped
    <2> QED BY <2>1, <2>2 DEF Drift
  <1> QED  BY <1>1 DEF DriftsUp

\* The rows drawn from, and the order of them.
LEMMA DrawnRows ==
    ASSUME NEW d, Good(d), NEW o \in Order, NEW p \in Product, NEW q \in Nat,
           NEW tie \in TieBreak, NEW take,
           take = Greedy(HeldBy(d, o, p), RowRank(tie), q)
    PROVE  /\ HeldBy(d, o, p) \in [Lot \X Slot -> Units]
           /\ take \in [Lot \X Slot -> Units]
           /\ \A r \in Lot \X Slot : take[r] <= HeldBy(d, o, p)[r]
           /\ IsFiniteSet(Lot \X Slot)
  <1>1. d.rows \in RowTable
    BY TablesAre DEF Good
  <1>2. HeldBy(d, o, p) \in [Lot \X Slot -> Units]
    BY <1>1, MaxUnitsAssumption DEF HeldBy, RowTable, Units
  <1>3. IsFiniteSet(Lot \X Slot)
    BY ConstantsAssumption, FS_Product
  <1> QED  BY <1>2, <1>3, GreedyWithin

LEMMA PackedDrift ==
    ASSUME NEW d, Good(d), NEW o \in Order, NEW p \in Product, NEW q \in Nat,
           NEW tie \in TieBreak, NEW c \in Carton
    PROVE  DriftsUp(d, PackReserved(d, o, p, q, tie, c))
  <1> DEFINE take == Greedy(HeldBy(d, o, p), RowRank(tie), q)
             e == PackReserved(d, o, p, q, tie, c)
             back(l) == WrittenBack(take, RowRank(tie), l)
  <1>1. d.lot \in LotTable /\ d.moved \in MovedTable /\ d \in Tables
    BY TablesAre DEF Good
  <1>2. ASSUME NEW l \in Lot
        PROVE  /\ e.lot[l].on_hand = d.lot[l].on_hand - back(l)
               /\ e.moved[l] = d.moved[l] - Given(take, l)
    <2> HIDE DEF take
    <2>1. /\ e.lot = [m \in Lot |-> [d.lot[m] EXCEPT !.reserved = @ - back(m), !.on_hand = @ - back(m)]]
          /\ e.moved = [m \in Lot |-> d.moved[m] - Given(take, m)]
      BY <1>1 DEF PackReserved, Tables, take
    <2>2. d.lot[l] \in [status: LotStatus, on_hand: Units, reserved: Units]
      BY <1>1 DEF LotTable
    <2> HIDE DEF e, back
    <2> QED BY <2>1, <2>2
  <1> HIDE DEF take, e
  <1>3. /\ take \in [Lot \X Slot -> Units]
        /\ \A r \in Lot \X Slot : take[r] <= HeldBy(d, o, p)[r]
    BY DrawnRows DEF take
  <1>4. ASSUME NEW l \in Lot, NEW k \in Slot, take[<<l, k>>] > 0 PROVE d.rows[l][<<o, k>>] > 0
    <2>1. HeldBy(d, o, p)[<<l, k>>] = IF ProductOf[l] = p THEN d.rows[l][<<o, k>>] ELSE 0
      BY DEF HeldBy
    <2>2. d.rows \in RowTable
      BY TablesAre DEF Good
    <2>3. take[<<l, k>>] \in Nat /\ d.rows[l][<<o, k>>] \in Nat
          /\ take[<<l, k>>] <= HeldBy(d, o, p)[<<l, k>>]
      BY <1>3, <2>2, MaxUnitsAssumption DEF Units, RowTable
    <2> QED BY <1>4, <2>1, <2>3
  <1>5. ASSUME NEW l \in Lot
        PROVE  /\ back(l) \in Nat /\ Given(take, l) \in Nat /\ back(l) <= Given(take, l)
    BY DrawRows, MaxUnitsAssumption DEF take, Units
  <1>6. ASSUME NEW l \in Lot, back(l) < Given(take, l) PROVE SharedLot(d, l)
    <2> DEFINE gave == [k \in Slot |-> take[<<l, k>>]]
               none == [k \in Slot |-> 0]
    <2>1. /\ gave \in [Slot -> Units] /\ none \in [Slot -> Units] /\ IsFiniteSet(Slot)
          /\ Given(take, l) = Total(gave)
      BY <1>3, ConstantsAssumption, MaxUnitsAssumption DEF Given, Units
    <2>2. Total(none) = 0
      BY <2>1, TotalZero
    <2>3. Total(gave) = 0 <=> \A k \in Slot : gave[k] = 0
      <3> HIDE DEF gave
      <3> QED BY <2>1, TotalZero
    <2>4. ~ \A k \in Slot : take[<<l, k>>] = 0
      BY <1>5, <1>6, <2>1, <2>3
    <2>5. PICK k \in Slot : back(l) = take[<<l, k>>] /\ take[<<l, k>>] > 0
      BY <1>3, <2>4, LastSaved
    <2>6. ~ \A j \in Slot \ {k} : gave[j] = none[j]
      <3> SUFFICES ASSUME \A j \in Slot \ {k} : gave[j] = none[j] PROVE FALSE
        OBVIOUS
      <3>1. back(l) \in Nat /\ gave[k] = none[k] + back(l)
        BY <1>5, <2>5
      <3> HIDE DEF gave, none, back
      <3>2. Total(gave) <= Total(none) + back(l)
        BY <2>1, <3>1, TotalRaise
      <3> QED BY <1>5, <1>6, <2>1, <2>2, <3>2
    <2>7. PICK j \in Slot : j # k /\ take[<<l, j>>] # 0
      BY <2>6
    <2>8. take[<<l, j>>] > 0
      <3>1. take[<<l, j>>] \in Units
        BY <1>3
      <3> QED BY <2>7, <3>1, MaxUnitsAssumption DEF Units
    <2> QED BY <1>4, <2>5, <2>7, <2>8 DEF SharedLot
  <1> HIDE DEF back
  <1>7. ASSUME NEW l \in Lot
        PROVE  Drift(d, l) <= Drift(e, l) /\ (Drift(d, l) < Drift(e, l) => SharedLot(d, l))
    <2>1. d.lot[l].on_hand \in Int /\ d.moved[l] \in Int
      BY LotFacts
    <2>2. /\ Drift(d, l) = d.lot[l].on_hand - d.moved[l]
          /\ Drift(e, l) = (d.lot[l].on_hand - back(l)) - (d.moved[l] - Given(take, l))
      BY <1>2 DEF Drift
    <2>3. /\ Drift(d, l) <= Drift(e, l)
          /\ Drift(d, l) < Drift(e, l) => back(l) < Given(take, l)
      BY <1>5, <2>1, <2>2
    <2> QED BY <1>6, <2>3
  <1> QED  BY <1>7 DEF DriftsUp, e

LEMMA ReleasedDrift ==
    ASSUME NEW d, Good(d), NEW o \in Order, NEW p \in Product, NEW q \in Nat,
           NEW tie \in TieBreak
    PROVE  DriftsUp(d, ReleaseReserved(d, o, p, q, tie))
  <1> DEFINE take == Greedy(HeldBy(d, o, p), RowRank(tie), q)
             e == ReleaseReserved(d, o, p, q, tie)
             back(l) == WrittenBack(take, RowRank(tie), l)
  <1>1. d.lot \in LotTable /\ d \in Tables
    BY TablesAre DEF Good
  <1>2. /\ e.lot = [l \in Lot |-> [d.lot[l] EXCEPT !.reserved = IF @ < back(l) THEN 0 ELSE @ - back(l)]]
        /\ e.moved = d.moved
    BY <1>1 DEF ReleaseReserved, Tables
  <1>3. \A l \in Lot : d.lot[l] \in [status: LotStatus, on_hand: Units, reserved: Units]
    BY <1>1 DEF LotTable
  <1> HIDE DEF e, back
  <1>4. \A l \in Lot : e.lot[l].on_hand = d.lot[l].on_hand /\ e.moved[l] = d.moved[l]
    BY <1>2, <1>3
  <1> QED  BY <1>4, SameLotsDrift DEF e

LEMMA ReservedDrift ==
    ASSUME NEW d, Good(d), NEW o \in Order
    PROVE  /\ \A l \in Lot : /\ Reserve(d, o).lot[l].on_hand = d.lot[l].on_hand
                             /\ Reserve(d, o).moved[l] = d.moved[l]
  <1> DEFINE e == Reserve(d, o)
             take == ReserveTake(d, o)
  <1>1. d.lot \in LotTable /\ d \in Tables
    BY TablesAre DEF Good
  <1>2. /\ e.lot = [l \in Lot |-> [d.lot[l] EXCEPT !.reserved = @ + take[l]]]
        /\ e.moved = d.moved
    BY <1>1 DEF Reserve, Tables
  <1>3. \A l \in Lot : d.lot[l] \in [status: LotStatus, on_hand: Units, reserved: Units]
    BY <1>1 DEF LotTable
  <1> HIDE DEF e, take
  <1>4. \A l \in Lot : e.lot[l].on_hand = d.lot[l].on_hand /\ e.moved[l] = d.moved[l]
    BY <1>2, <1>3
  <1> QED  BY <1>4 DEF e

LEMMA ConsumedDrift ==
    ASSUME NEW d, Good(d), NEW p \in Product, NEW q \in Nat
    PROVE  /\ DriftsUp(d, ConsumeStock(d, p, q))
           /\ \A l \in Lot : /\ ConsumeStock(d, p, q).lot[l].on_hand
                                   = d.lot[l].on_hand - FefoTake(d, p, q)[l]
                             /\ ConsumeStock(d, p, q).lot[l].reserved = d.lot[l].reserved
                             /\ ConsumeStock(d, p, q).moved[l] = d.moved[l] - FefoTake(d, p, q)[l]
  <1> DEFINE e == ConsumeStock(d, p, q)
             take == FefoTake(d, p, q)
             t == [l \in Lot |-> -take[l]]
  <1>1. d.lot \in LotTable /\ d \in Tables
    BY TablesAre DEF Good
  <1>2. /\ e.lot = [l \in Lot |-> [d.lot[l] EXCEPT !.on_hand = @ - take[l]]]
        /\ e.moved = [l \in Lot |-> d.moved[l] - take[l]]
    BY <1>1 DEF ConsumeStock, Tables
  <1>3. \A l \in Lot : d.lot[l] \in [status: LotStatus, on_hand: Units, reserved: Units]
    BY <1>1 DEF LotTable
  <1>4. \A l \in Lot : take[l] \in Nat
    BY FefoTakeWithin, MaxUnitsAssumption DEF Units
  <1> HIDE DEF e, take
  <1>5. ASSUME NEW l \in Lot
        PROVE  /\ e.lot[l].on_hand = d.lot[l].on_hand - take[l]
               /\ e.lot[l].reserved = d.lot[l].reserved
               /\ e.moved[l] = d.moved[l] - take[l]
               /\ t[l] \in Int /\ t[l] = -take[l]
               /\ d.lot[l].on_hand \in Int /\ d.moved[l] \in Int
    <2>1. d.lot[l].on_hand \in Int /\ d.moved[l] \in Int
      BY LotFacts
    <2> QED BY <1>2, <1>3, <1>4, <2>1
  <1>6. t \in [Lot -> Int]
    BY <1>5
  <1> HIDE DEF t
  <1>7. ASSUME NEW l \in Lot
        PROVE e.lot[l].on_hand = d.lot[l].on_hand + t[l] /\ e.moved[l] = d.moved[l] + t[l]
    BY <1>4, <1>5
  <1>8. DriftsUp(d, e)
    BY <1>6, <1>7, MovedWithUnits
  <1> QED  BY <1>5, <1>8 DEF e, take

LEMMA UnpackedDrift ==
    ASSUME NEW d, Good(d), NEW c \in Carton
    PROVE  /\ DriftsUp(d, Unpacked(d, c))
           /\ \A l \in Lot : /\ Unpacked(d, c).lot[l].on_hand = d.lot[l].on_hand + d.carton[c].items[l]
                             /\ Unpacked(d, c).lot[l].reserved = d.lot[l].reserved
                             /\ d.carton[c].items[l] \in Nat
  <1> DEFINE e == Unpacked(d, c)
             t == d.carton[c].items
  <1>1. d.lot \in LotTable /\ d \in Tables /\ d.carton \in CartonTable
    BY TablesAre DEF Good
  <1>2. /\ e.lot = [l \in Lot |-> [d.lot[l] EXCEPT !.on_hand = @ + t[l]]]
        /\ e.moved = [l \in Lot |-> d.moved[l] + t[l]]
    BY <1>1 DEF Unpacked, Tables
  <1>3. \A l \in Lot : d.lot[l] \in [status: LotStatus, on_hand: Units, reserved: Units]
    BY <1>1 DEF LotTable
  <1>4. t \in [Lot -> Units] /\ t \in [Lot -> Int] /\ \A l \in Lot : t[l] \in Nat
    <2>1. t \in [Lot -> Units]
      BY <1>1 DEF CartonTable
    <2> HIDE DEF t
    <2>2. \A l \in Lot : t[l] \in Nat
      BY <2>1, MaxUnitsAssumption DEF Units
    <2> QED BY <2>1, <2>2
  <1> HIDE DEF e, t
  <1>5. \A l \in Lot : /\ e.lot[l].on_hand = d.lot[l].on_hand + t[l] /\ e.moved[l] = d.moved[l] + t[l]
                       /\ e.lot[l].reserved = d.lot[l].reserved
    BY <1>2, <1>3
  <1>6. DriftsUp(d, e)
    BY <1>4, <1>5, MovedWithUnits
  <1> QED  BY <1>4, <1>5, <1>6 DEF e, t

\* The steps that touch no lot.
RequestPaper(k) ==
    \/ AddLineSave(k) \/ AddLineReserve(k) \/ AddLineUndo(k)
    \/ ReserveShort(k) \/ ReserveLost(k) \/ EditRefused(k) \/ RequestCrash(k)
PaperStep ==
    \/ \E c \in Carton, st \in CartonStatus : UpdateCartonStatus(c, st)
    \/ \E o \in Order : CreateOrder(o) \/ PrepareBegin(o)
    \/ \E o \in Order, c \in Carton : EditRemoveCarton(o, c) \/ EditAddCarton(o, c)
    \/ StartPacking \/ PrepareFinish
    \/ ShipmentStep
    \/ RequestStart
    \/ \E k \in Clerk : RequestPaper(k)

LEMMA PaperKeepsLots ==
    ASSUME IInv, PaperStep
    PROVE  db'.lot = db.lot /\ db'.moved = db.moved
  <1>0. db \in Tables
    BY DEF IInv, TypeOK
  <1>1. ASSUME NEW c \in Carton, NEW st \in CartonStatus, UpdateCartonStatus(c, st)
        PROVE  db'.lot = db.lot /\ db'.moved = db.moved
    BY <1>0, <1>1 DEF UpdateCartonStatus, Tables
  <1>2. ASSUME NEW o \in Order, CreateOrder(o) \/ PrepareBegin(o)
        PROVE  db'.lot = db.lot /\ db'.moved = db.moved
    BY <1>0, <1>2 DEF CreateOrder, PrepareBegin, Tables
  <1>3. ASSUME NEW o \in Order, NEW c \in Carton, EditRemoveCarton(o, c) \/ EditAddCarton(o, c)
        PROVE  db'.lot = db.lot /\ db'.moved = db.moved
    BY <1>0, <1>3 DEF EditRemoveCarton, EditAddCarton, Tables
  <1>4. CASE StartPacking \/ PrepareFinish
    BY <1>0, <1>4 DEF StartPacking, PrepareFinish, Tables
  <1>5. CASE ShipmentStep
    BY <1>0, <1>5 DEF ShipmentStep, ShipmentPlanned, ShipmentShipped, ShipmentDisputed,
                      DisputeResolved, SetCartons, Tables
  <1>6. CASE RequestStart
    BY <1>6 DEF RequestStart, ReserveOrder, ReadLines, EditRead, AddLineRead
  <1>7. ASSUME NEW k \in Clerk, RequestPaper(k)
        PROVE  db'.lot = db.lot /\ db'.moved = db.moved
    <2>1. CASE AddLineSave(k)
      BY <1>0, <2>1 DEF AddLineSave, Tables
    <2>2. CASE AddLineUndo(k)
      BY <1>0, <2>2 DEF AddLineUndo, DeleteLine, Tables
    <2>3. CASE \/ AddLineReserve(k) \/ ReserveShort(k) \/ ReserveLost(k) \/ EditRefused(k)
               \/ RequestCrash(k)
      BY <2>3 DEF AddLineReserve, ReadLines, ReserveShort, ReserveLost, EditRefused, RequestCrash
    <2> QED BY <1>7, <2>1, <2>2, <2>3 DEF RequestPaper
  <1> QED  BY <1>1, <1>2, <1>3, <1>4, <1>5, <1>6, <1>7 DEF PaperStep

\* The tables that prepare_order may come back to never drifted further than those
\* it works on.
DriftInv == txn # None => \A l \in Lot : Drift(txn.saved, l) <= Drift(db, l)

LEMMA DriftSteps ==
    ASSUME IInv, DriftInv, Overlap
    PROVE  /\ DriftInv'
           /\ \A l \in Lot : Drift(db, l) < Drift(db', l) => SharedLot(db, l)
  <1>0. /\ Good(db) /\ db \in Tables /\ db.lot \in LotTable /\ db.moved \in MovedTable
        /\ db.carton \in CartonTable
    BY TablesAre DEF IInv, Good
  <1>1. IInv'
    BY OverlapKeeps DEF vars
  <1>2. Good(db')
    BY <1>1 DEF IInv
  <1>3. ASSUME DriftsUp(db, db'), txn' # None => txn # None /\ txn'.saved = txn.saved
        PROVE  /\ DriftInv'
               /\ \A l \in Lot : Drift(db, l) < Drift(db', l) => SharedLot(db, l)
    <2>1. ASSUME txn' # None, NEW l \in Lot PROVE Drift(txn'.saved, l) <= Drift(db', l)
      <3>1. /\ Drift(txn.saved, l) <= Drift(db, l) /\ Drift(db, l) <= Drift(db', l)
            /\ Good(txn.saved) /\ txn'.saved = txn.saved
        BY <1>3, <2>1 DEF DriftInv, DriftsUp, IInv
      <3>2. Drift(txn.saved, l) \in Int /\ Drift(db, l) \in Int /\ Drift(db', l) \in Int
        BY <1>0, <1>2, <3>1, DriftTyped
      <3> QED BY <3>1, <3>2
    <2> QED BY <1>3, <2>1 DEF DriftInv, DriftsUp
  <1>4. ASSUME NEW p \in Product, NEW q \in Units PROVE q \in Nat
    BY MaxUnitsAssumption DEF Units
  <1>5. CASE PaperStep
    <2>1. db'.lot = db.lot /\ db'.moved = db.moved
      BY <1>5, PaperKeepsLots
    <2>2. DriftsUp(db, db')
      BY <1>0, <2>1, SameLotsDrift
    <2>3. CASE \E o \in Order : PrepareBegin(o)
      <3>1. txn' # None => txn'.saved = db' /\ db' = db
        BY <2>3 DEF PrepareBegin
      <3>2. \A l \in Lot : Drift(db, l) \in Int
        BY <1>0, DriftTyped
      <3>3. DriftInv'
        BY <3>1, <3>2 DEF DriftInv
      <3> QED BY <2>2, <3>3 DEF DriftsUp
    <2>4. CASE ~ \E o \in Order : PrepareBegin(o)
      <3>1. txn' = txn \/ txn' = None \/ (txn # None /\ txn'.saved = txn.saved)
        <4>1. CASE StartPacking
          <5>1. txn \in PrepareState /\ txn # None
            BY <4>1 DEF StartPacking, IInv, TypeOK
          <5>2. txn' = [txn EXCEPT !.stage = "pack"]
            BY <4>1 DEF StartPacking
          <5> QED BY <5>1, <5>2 DEF PrepareState
        <4>2. CASE PrepareFinish
          BY <4>2 DEF PrepareFinish
        <4>3. CASE ShipmentStep
          BY <4>3 DEF ShipmentStep, ShipmentPlanned, ShipmentShipped, ShipmentDisputed,
                      DisputeResolved
        <4>4. CASE RequestStart \/ \E k \in Clerk : RequestPaper(k)
          BY <4>4 DEF RequestStart, ReserveOrder, ReadLines, EditRead, AddLineRead,
                      RequestPaper, AddLineSave, AddLineReserve, AddLineUndo, ReserveShort,
                      ReserveLost, EditRefused, RequestCrash
        <4>5. CASE \/ \E c \in Carton, st \in CartonStatus : UpdateCartonStatus(c, st)
                   \/ \E o \in Order : CreateOrder(o)
                   \/ \E o \in Order, c \in Carton : EditRemoveCarton(o, c) \/ EditAddCarton(o, c)
          BY <4>5 DEF UpdateCartonStatus, CreateOrder, EditRemoveCarton, EditAddCarton, Quiet
        <4> QED BY <1>5, <2>4, <4>1, <4>2, <4>3, <4>4, <4>5 DEF PaperStep
      <3> QED BY <1>3, <2>2, <3>1
    <2> QED BY <2>3, <2>4
  <1>6. ASSUME NEW l \in Lot, NEW q \in Units, NEW st \in LotStatus, ReceiveStock(l, q, st)
        PROVE  /\ DriftInv'
               /\ \A m \in Lot : Drift(db, m) < Drift(db', m) => SharedLot(db, m)
    <2>1. txn' = None
      BY <1>6 DEF ReceiveStock, Quiet
    <2>2. ASSUME NEW m \in Lot PROVE ~ (Drift(db, m) < Drift(db', m))
      <3>1. /\ db'.lot = [db.lot EXCEPT ![l] = [status |-> st, on_hand |-> q, reserved |-> 0]]
            /\ db'.moved = [db.moved EXCEPT ![l] = q]
        BY <1>0, <1>6 DEF ReceiveStock, Tables
      <3>2. q \in Nat
        BY MaxUnitsAssumption DEF Units
      <3>3. CASE m = l
        <4>1. db'.lot[m].on_hand = q /\ db'.moved[m] = q
          BY <1>0, <3>1, <3>3 DEF LotTable, MovedTable
        <4>2. Drift(db', m) = 0 /\ Drift(db, m) \in Int /\ Drift(db, m) >= 0
          BY <1>0, <3>2, <4>1, DriftTyped DEF Drift
        <4> QED BY <4>2
      <3>4. CASE m # l
        <4>1. db'.lot[m].on_hand = db.lot[m].on_hand /\ db'.moved[m] = db.moved[m]
          BY <1>0, <3>1, <3>4 DEF LotTable, MovedTable
        <4>2. Drift(db', m) = Drift(db, m) /\ Drift(db, m) \in Int
          BY <1>0, <4>1, DriftTyped DEF Drift
        <4> QED BY <4>2
      <3> QED BY <3>3, <3>4
    <2> QED BY <2>1, <2>2 DEF DriftInv
  <1>7. ASSUME NEW l \in Lot, ReleaseQuarantine(l)
        PROVE  DriftsUp(db, db') /\ txn' = None
    <2>1. /\ db'.lot = [db.lot EXCEPT ![l] = [db.lot[l] EXCEPT !.status = "available"]]
          /\ db'.moved = db.moved /\ txn' = None
      BY <1>0, <1>7 DEF ReleaseQuarantine, Quiet, Tables
    <2>2. \A m \in Lot : db'.lot[m].on_hand = db.lot[m].on_hand /\ db'.moved[m] = db.moved[m]
      BY <1>0, <2>1 DEF LotTable
    <2> QED BY <1>0, <2>1, <2>2, SameLotsDrift
  <1>8. ASSUME NEW l \in Lot, NEW delta \in -MaxUnits .. MaxUnits, AdjustStock(l, delta)
        PROVE  DriftsUp(db, db') /\ txn' = None
    <2>1. /\ db'.lot = [db.lot EXCEPT ![l] = [db.lot[l] EXCEPT !.on_hand = @ + delta]]
          /\ db'.moved = [db.moved EXCEPT ![l] = @ + delta] /\ txn' = None
      BY <1>0, <1>8 DEF AdjustStock, Quiet, Tables
    <2>2. delta \in Int
      BY MaxUnitsAssumption
    <2>3. ASSUME NEW m \in Lot PROVE Drift(db', m) = Drift(db, m) /\ Drift(db, m) \in Int
      <3>1. db.lot[m].on_hand \in Int /\ db.moved[m] \in Int /\ Drift(db, m) \in Int
        BY <1>0, LotFacts, DriftTyped
      <3>2. /\ db'.lot[m].on_hand = IF m = l THEN db.lot[m].on_hand + delta ELSE db.lot[m].on_hand
            /\ db'.moved[m] = IF m = l THEN db.moved[m] + delta ELSE db.moved[m]
        BY <1>0, <2>1 DEF LotTable, MovedTable
      <3> QED BY <2>2, <3>1, <3>2 DEF Drift
    <2> QED BY <2>1, <2>3 DEF DriftsUp
  <1>9. ASSUME NEW p \in Product, NEW q \in Units, StockOut(p, q)
        PROVE  DriftsUp(db, db') /\ txn' = None
    BY <1>0, <1>4, <1>9, ConsumedDrift DEF StockOut, Quiet
  <1>10. ASSUME NEW c \in Carton, NEW p \in Product, NEW q \in Units, NEW s \in Order \cup {None},
                PackCarton(c, p, q, s)
         PROVE  DriftsUp(db, db') /\ txn' = None
    <2> DEFINE e == ConsumeStock(db, p, q)
    <2>1. db'.lot = e.lot /\ db'.moved = e.moved /\ txn' = None
      <3>1. e \in Tables
        BY <1>0, <1>4, ConsumeStockGood DEF Good
      <3> HIDE DEF e
      <3> QED BY <1>10, <3>1 DEF PackCarton, Quiet, Tables, e
    <2>2. DriftsUp(db, e)
      BY <1>0, <1>4, ConsumedDrift
    <2> HIDE DEF e
    <2> QED BY <2>1, <2>2 DEF DriftsUp, Drift
  <1>11. ASSUME NEW c \in Carton, UnpackCarton(c) \/ DeleteCarton(c)
         PROVE  DriftsUp(db, db') /\ txn' = None
    <2> DEFINE e == Unpacked(db, c)
    <2>1. txn' = None /\ (CanUnpack(db, c) => Good(e)) /\ DriftsUp(db, e)
      BY <1>0, <1>11, UnpackedGood, UnpackedDrift DEF UnpackCarton, DeleteCarton, Quiet
    <2>2. CASE UnpackCarton(c)
      BY <2>1, <2>2 DEF UnpackCarton
    <2>3. CASE DeleteCarton(c) /\ db.carton[c].items # NoItems
      <3>1. db'.lot = e.lot /\ db'.moved = e.moved
        <4>1. e \in Tables
          BY <2>1, <2>3 DEF DeleteCarton, Good
        <4> HIDE DEF e
        <4> QED BY <2>3, <4>1 DEF DeleteCarton, Tables, e
      <3> HIDE DEF e
      <3> QED BY <2>1, <3>1 DEF DriftsUp, Drift
    <2>4. CASE DeleteCarton(c) /\ db.carton[c].items = NoItems
      <3>1. db'.lot = db.lot /\ db'.moved = db.moved
        BY <1>0, <2>4 DEF DeleteCarton, Tables
      <3> QED BY <1>0, <2>1, <3>1, SameLotsDrift
    <2> QED BY <1>11, <2>2, <2>3, <2>4
  <1>12. ASSUME NEW k \in Clerk, ReserveCommit(k) PROVE DriftsUp(db, db') /\ txn' = None
    <2> DEFINE s == Seen(db, request[k])
               o == request[k].order
    <2>1. /\ Good(s) /\ s.lot = db.lot /\ s.moved = db.moved /\ txn' = None /\ o \in Order
          /\ db'.lot = Reserve(s, o).lot /\ db'.moved = Reserve(s, o).moved
      BY <1>12, ReserveCommits
    <2> HIDE DEF s, o
    <2>2. \A l \in Lot : db'.lot[l].on_hand = db.lot[l].on_hand /\ db'.moved[l] = db.moved[l]
      BY <2>1, ReservedDrift
    <2> QED BY <1>0, <2>1, <2>2, SameLotsDrift
  <1>13. ASSUME NEW o \in Order, NEW demand \in [Product -> Units], NEW ready \in SUBSET Carton,
                PlaceOrder(o, demand, ready)
         PROVE  DriftsUp(db, db') /\ txn' = None
    <2>1. PICK d \in Tables : PlacedFrom(d, o, demand)
      BY <1>13, PlacedOrder
    <2>2. txn' = None
      BY <1>13 DEF PlaceOrder, Quiet
    <2>3. \A l \in Lot : db'.lot[l].on_hand = db.lot[l].on_hand /\ db'.moved[l] = db.moved[l]
      BY <2>1, ReservedDrift DEF PlacedFrom
    <2> QED BY <1>0, <2>2, <2>3, SameLotsDrift
  <1>14. ASSUME NEW k \in Clerk, NEW p \in Product, NEW q \in Units, NEW c \in Carton,
                NEW tie \in TieBreak, EditPackReserved(k, p, q, c, tie)
         PROVE  DriftsUp(db, db') /\ txn' = None
    <2> DEFINE s == Seen(db, request[k])
               o == request[k].order
    <2>1. /\ Good(s) /\ s.lot = db.lot /\ s.moved = db.moved /\ s.rows = db.rows /\ txn' = None
          /\ o \in Order /\ q \in Nat
          /\ db'.lot = PackReserved(s, o, p, q, tie, c).lot
          /\ db'.moved = PackReserved(s, o, p, q, tie, c).moved
      BY <1>14, EditPacks
    <2> HIDE DEF s, o
    <2>2. DriftsUp(s, PackReserved(s, o, p, q, tie, c))
      BY <2>1, PackedDrift
    <2> QED BY <2>1, <2>2 DEF DriftsUp, Drift, SharedLot
  <1>15. ASSUME NEW c \in Carton, NEW p \in Product, NEW tie \in TieBreak,
                AssignReadyCarton(c, p, tie)
         PROVE  DriftsUp(db, db') /\ txn' = txn /\ txn # None
    <2>1. PICK d \in Tables : AssignedFrom(d, c, p, tie)
      BY <1>15, AssignedCarton
    <2>2. DriftsUp(d, db')
      <3>0. Good(d) /\ txn.order \in Order /\ CartonUnits(db, c, p) \in Nat
        BY <1>15, <2>1, AssignedCarton DEF AssignedFrom
      <3>1. CASE db' = d
        BY <3>0, <3>1, SameLotsDrift
      <3>2. CASE db' = ReleaseReserved(d, txn.order, p, CartonUnits(db, c, p), tie)
        BY <3>0, <3>2, ReleasedDrift
      <3> QED BY <2>1, <3>1, <3>2 DEF AssignedFrom
    <2>3. txn' = txn /\ txn # None
      BY <1>15 DEF AssignReadyCarton
    <2> QED BY <2>1, <2>2, <2>3 DEF DriftsUp, Drift, SharedLot, AssignedFrom
  <1>16. ASSUME NEW p \in Product, NEW q \in Units, NEW c \in Carton, NEW tie \in TieBreak,
                PackBinEntry(p, q, c, tie)
         PROVE  DriftsUp(db, db') /\ txn # None /\ txn'.saved = txn.saved
    <2>1. txn \in PrepareState /\ txn # None /\ txn' = [txn EXCEPT !.bin = c]
      BY <1>16 DEF PackBinEntry, IInv, TypeOK
    <2>2. txn.order \in Order /\ txn'.saved = txn.saved
      BY <2>1 DEF PrepareState
    <2> QED BY <1>0, <1>4, <1>16, <2>1, <2>2, PackedDrift DEF PackBinEntry
  <1>17. CASE PackingErrors \/ ReservationShort
    <2>1. txn # None /\ txn' = None /\ db' = txn.saved
      BY <1>17 DEF PackingErrors, ReservationShort, Rollback
    <2>2. ASSUME NEW l \in Lot PROVE ~ (Drift(db, l) < Drift(db', l))
      <3>1. Drift(db', l) <= Drift(db, l) /\ Good(txn.saved)
        BY <2>1 DEF DriftInv, IInv
      <3>2. Drift(db', l) \in Int /\ Drift(db, l) \in Int
        BY <1>0, <1>2, DriftTyped
      <3> QED BY <3>1, <3>2
    <2> QED BY <2>1, <2>2 DEF DriftInv
  <1>19. CASE StockStep
    BY <1>3, <1>6, <1>7, <1>8, <1>9, <1>19 DEF StockStep
  <1>20. CASE CartonStep
    BY <1>3, <1>5, <1>10, <1>11, <1>20 DEF CartonStep, PaperStep
  <1>21. CASE OrderStep
    BY <1>3, <1>5, <1>13, <1>21 DEF OrderStep, PaperStep
  <1>22. CASE PrepareStep
    BY <1>3, <1>5, <1>15, <1>16, <1>17, <1>22 DEF PrepareStep, PaperStep
  <1>23. CASE ShipmentStep \/ RequestStart
    BY <1>5, <1>23 DEF PaperStep
  <1>24. CASE RequestStep \/ \E k \in Clerk : RequestCrash(k)
    BY <1>3, <1>5, <1>12, <1>14, <1>24 DEF RequestStep, PaperStep, RequestPaper
  <1> QED  BY <1>19, <1>20, <1>21, <1>22, <1>23, <1>24 DEF Overlap, OtherStep

\* A lot drifts further from its movements only where two rows of one line share
\* it, whatever requests overlap: two stale copies of the lot are saved.
THEOREM OnlySharedLotsGain == OverlapSpec => OnlySharedLotsDrift
  <1>1. Init => DriftInv
    BY DEF Init, DriftInv
  <1>2. IInv /\ DriftInv /\ [Overlap]_vars => DriftInv'
    <2>1. CASE UNCHANGED vars
      BY <2>1 DEF vars, DriftInv, Drift
    <2> QED BY <2>1, DriftSteps
  <1>3. IInv /\ DriftInv /\ [Overlap]_vars =>
          [\A l \in Lot : Drift(db, l)' > Drift(db, l) =>
              \E o \in Order, j, k \in Slot :
                 j # k /\ db.rows[l][<<o, j>>] > 0 /\ db.rows[l][<<o, k>>] > 0]_vars
    <2> SUFFICES ASSUME IInv, DriftInv, Overlap, NEW l \in Lot, Drift(db, l)' > Drift(db, l)
                 PROVE  SharedLot(db, l)
      BY DEF SharedLot
    <2>1. Drift(db, l) < Drift(db', l)
      <3>1. IInv'
        BY OverlapKeeps DEF vars
      <3>2. Drift(db, l) \in Int /\ Drift(db', l) \in Int
        BY <3>1, DriftTyped DEF IInv
      <3>3. Drift(db, l)' = Drift(db', l)
        BY DEF Drift
      <3> QED BY <3>2, <3>3
    <2> QED BY <2>1, DriftSteps
  <1> QED  BY <1>1, <1>2, <1>3, OverlapInvariant, PTL DEF OverlapSpec, OnlySharedLotsDrift

\* The free units of the lots of a product.
LEMMA FefoUnits ==
    ASSUME NEW d, Good(d), NEW p \in Product
    PROVE  /\ FefoAvailable(d, p) \in [Lot -> Units]
           /\ \A l \in Lot : FefoAvailable(d, p)[l]
                 = IF ProductOf[l] = p /\ d.lot[l].status = "available" THEN Free(d, l) ELSE 0
           /\ \A l \in Lot : Free(d, l) \in Nat
  <1>1. ASSUME NEW l \in Lot
        PROVE  /\ FefoAvailable(d, p)[l] \in Units
               /\ FefoAvailable(d, p)[l]
                    = IF ProductOf[l] = p /\ d.lot[l].status = "available" THEN Free(d, l) ELSE 0
               /\ Free(d, l) \in Nat
    BY LotFacts, MaxUnitsAssumption DEF FefoAvailable, Units, Free
  <1> QED  BY <1>1 DEF FefoAvailable

\* Units taken from a lot leave none in the available lots that expire sooner.
LEMMA TakenInOrder ==
    ASSUME NEW d, Good(d), NEW p \in Product, NEW q \in Nat, NEW l \in Lot, NEW m \in Lot,
           ProductOf[l] = p, ProductOf[m] = p, FefoRank[m] < FefoRank[l],
           d.lot[m].status = "available", FefoTake(d, p, q)[l] > 0
    PROVE  FefoTake(d, p, q)[m] = Free(d, m)
  <1> DEFINE avail == FefoAvailable(d, p)
  <1>1. avail \in [Lot -> Units] /\ avail[m] = Free(d, m)
    BY FefoUnits
  <1>2. FefoRank \in [Lot -> Int] /\ IsFiniteSet(Lot)
    BY ConstantsAssumption
  <1>3. FefoTake(d, p, q) = Greedy(avail, FefoRank, q)
    BY DEF FefoTake
  <1> HIDE DEF avail
  <1> QED  BY <1>1, <1>2, <1>3, GreedyInOrder

\* A step from d to e that takes free units does so soonest expiry first.
TakesInOrder(d, e) ==
    \A l, m \in Lot :
        /\ ProductOf[l] = ProductOf[m] /\ FefoRank[m] < FefoRank[l]
        /\ d.lot[m].status = "available" /\ d.lot[l].status = "available"
        /\ Free(e, l) < Free(d, l)
        => Free(e, m) = 0

LEMMA ConsumedInOrder ==
    ASSUME NEW d, Good(d), NEW p \in Product, NEW q \in Nat
    PROVE  TakesInOrder(d, ConsumeStock(d, p, q))
  <1> DEFINE e == ConsumeStock(d, p, q)
             take == FefoTake(d, p, q)
  <1>1. ASSUME NEW l \in Lot
        PROVE  /\ Free(e, l) = Free(d, l) - take[l] /\ take[l] \in Nat /\ Free(d, l) \in Nat
               /\ ProductOf[l] # p => take[l] = 0
    <2>1. /\ e.lot[l].on_hand = d.lot[l].on_hand - take[l]
          /\ e.lot[l].reserved = d.lot[l].reserved
      BY ConsumedDrift
    <2>2. take[l] \in Nat
      BY FefoTakeWithin, MaxUnitsAssumption DEF Units
    <2>3. d.lot[l].on_hand \in Int /\ d.lot[l].reserved \in Int
      BY LotFacts
    <2>4. ProductOf[l] # p => take[l] = 0
      <3>1. /\ FefoAvailable(d, p) \in [Lot -> Units]
            /\ ProductOf[l] # p => FefoAvailable(d, p)[l] = 0
        BY FefoUnits
      <3>2. take = Greedy(FefoAvailable(d, p), FefoRank, q)
        BY DEF FefoTake
      <3>3. take[l] <= FefoAvailable(d, p)[l]
        BY <3>1, <3>2, ConstantsAssumption, GreedyWithin
      <3> HIDE DEF take
      <3> QED BY <2>2, <3>1, <3>3
    <2> HIDE DEF e, take
    <2>5. Free(e, l) = Free(d, l) - take[l] /\ Free(d, l) \in Int
      BY <2>1, <2>2, <2>3 DEF Free
    <2> QED BY <2>2, <2>4, <2>5, FefoUnits
  <1>2. ASSUME NEW l \in Lot, NEW m \in Lot, ProductOf[l] = ProductOf[m],
               FefoRank[m] < FefoRank[l], d.lot[m].status = "available",
               Free(e, l) < Free(d, l)
        PROVE  Free(e, m) = 0
    <2> HIDE DEF e, take
    <2>1. take[l] > 0
      BY <1>1, <1>2
    <2>2. ProductOf[l] = p /\ ProductOf[m] = p
      BY <1>1, <1>2, <2>1
    <2>3. take[m] = Free(d, m)
      BY <1>2, <2>1, <2>2, TakenInOrder DEF take
    <2> QED BY <1>1, <2>3
  <1> HIDE DEF e
  <1> QED  BY <1>2 DEF TakesInOrder, e

LEMMA ReservedFree ==
    ASSUME NEW d, Good(d), NEW o \in Order, NEW l \in Lot
    PROVE  /\ ReserveTake(d, o)[l] \in Nat /\ Free(d, l) \in Nat
           /\ Free(Reserve(d, o), l) = Free(d, l) - ReserveTake(d, o)[l]
           /\ Needed(d, o, ProductOf[l]) \in Nat
           /\ ReserveTake(d, o)[l] = FefoTake(d, ProductOf[l], Needed(d, o, ProductOf[l]))[l]
  <1> DEFINE e == Reserve(d, o)
             take == ReserveTake(d, o)
             n == Needed(d, o, ProductOf[l])
  <1>1. d.lot \in LotTable /\ d \in Tables /\ d.line \in LineTable /\ ProductOf[l] \in Product
    BY TablesAre, ConstantsAssumption DEF Good
  <1>2. e.lot = [m \in Lot |-> [d.lot[m] EXCEPT !.reserved = @ + take[m]]]
    BY <1>1 DEF Reserve, Tables
  <1>3. n \in Nat
    <2>1. d.line[o][ProductOf[l]] \in [quantity: Units, reserved: Units, prepared: Units]
      BY <1>1 DEF LineTable
    <2> QED BY <2>1, MaxUnitsAssumption DEF Needed, Units
  <1>4. take[l] = FefoTake(d, ProductOf[l], n)[l]
    BY DEF ReserveTake
  <1> HIDE DEF n, take, e
  <1>5. take[l] \in Nat
    BY <1>1, <1>3, <1>4, FefoTakeWithin, MaxUnitsAssumption DEF Units
  <1>6. d.lot[l] \in [status: LotStatus, on_hand: Units, reserved: Units]
    BY <1>1 DEF LotTable
  <1>7. d.lot[l].on_hand \in Int /\ d.lot[l].reserved \in Int
    BY LotFacts
  <1>8. e.lot[l].on_hand = d.lot[l].on_hand /\ e.lot[l].reserved = d.lot[l].reserved + take[l]
    BY <1>2, <1>6
  <1>9. Free(e, l) = Free(d, l) - take[l]
    BY <1>5, <1>7, <1>8 DEF Free
  <1>10. Free(d, l) \in Nat
    BY <1>1, FefoUnits
  <1> QED  BY <1>3, <1>4, <1>5, <1>9, <1>10 DEF e, take, n

LEMMA ReservedInOrder ==
    ASSUME NEW d, Good(d), NEW o \in Order
    PROVE  TakesInOrder(d, Reserve(d, o))
  <1> DEFINE e == Reserve(d, o)
             take == ReserveTake(d, o)
  <1>1. ASSUME NEW l \in Lot, NEW m \in Lot, ProductOf[l] = ProductOf[m],
               FefoRank[m] < FefoRank[l], d.lot[m].status = "available",
               Free(e, l) < Free(d, l)
        PROVE  Free(e, m) = 0
    <2> DEFINE p == ProductOf[l]
               n == Needed(d, o, p)
    <2>1. /\ take[l] \in Nat /\ Free(d, l) \in Nat /\ Free(e, l) = Free(d, l) - take[l]
          /\ n \in Nat /\ take[l] = FefoTake(d, p, n)[l] /\ p \in Product
      BY ReservedFree, ConstantsAssumption
    <2>2. /\ take[m] \in Nat /\ Free(d, m) \in Nat /\ Free(e, m) = Free(d, m) - take[m]
          /\ take[m] = FefoTake(d, p, n)[m]
      BY <1>1, ReservedFree
    <2> HIDE DEF e, take, n
    <2>3. FefoTake(d, p, n)[l] > 0
      BY <1>1, <2>1
    <2>4. FefoTake(d, p, n)[m] = Free(d, m)
      BY <1>1, <2>1, <2>3, TakenInOrder
    <2> QED BY <2>2, <2>4
  <1> HIDE DEF e
  <1> QED  BY <1>1 DEF TakesInOrder, e

\* The three ways a request treats the free units of available lots: it takes none,
\* it takes them soonest expiry first, or it reserves and packs nothing.
KeepsFree(d, e) ==
    \A l \in Lot : d.lot[l].status = "available" => ~ (Free(e, l) < Free(d, l))
NothingHeld(d, e) ==
    \A l \in Lot : /\ ~ (e.lot[l].reserved > d.lot[l].reserved)
                   /\ \A c \in Carton : ~ (e.carton[c].items[l] > d.carton[c].items[l])

LEMMA PackedFree ==
    ASSUME NEW d, Good(d), NEW o \in Order, NEW p \in Product, NEW q \in Nat,
           NEW tie \in TieBreak, NEW c \in Carton, NEW l \in Lot
    PROVE  Free(PackReserved(d, o, p, q, tie, c), l) = Free(d, l) /\ Free(d, l) \in Nat
  <1> DEFINE take == Greedy(HeldBy(d, o, p), RowRank(tie), q)
             e == PackReserved(d, o, p, q, tie, c)
             back(m) == WrittenBack(take, RowRank(tie), m)
  <1>1. d.lot \in LotTable /\ d \in Tables
    BY TablesAre DEF Good
  <1>2. back(l) \in Nat
    BY DrawRows
  <1> HIDE DEF take
  <1>3. e.lot = [m \in Lot |-> [d.lot[m] EXCEPT !.reserved = @ - back(m), !.on_hand = @ - back(m)]]
    BY <1>1 DEF PackReserved, Tables, take
  <1>4. d.lot[l] \in [status: LotStatus, on_hand: Units, reserved: Units]
    BY <1>1 DEF LotTable
  <1> HIDE DEF e, back
  <1>5. e.lot[l].on_hand = d.lot[l].on_hand - back(l) /\ e.lot[l].reserved = d.lot[l].reserved - back(l)
    BY ZenonT(30), <1>3, <1>4
  <1>6. d.lot[l].on_hand \in Nat /\ d.lot[l].reserved \in Nat /\ d.lot[l].reserved <= d.lot[l].on_hand
    BY LotFacts
  <1> QED  BY <1>2, <1>5, <1>6 DEF Free, e

LEMMA FefoSteps ==
    ASSUME IInv, Overlap, txn = None
    PROVE  KeepsFree(db, db') \/ TakesInOrder(db, db') \/ NothingHeld(db, db')
  <1>0. /\ Good(db) /\ db \in Tables /\ db.lot \in LotTable /\ db.carton \in CartonTable
    BY TablesAre DEF IInv, Good
  <1>1. ASSUME NEW l \in Lot PROVE Free(db, l) \in Int
    BY <1>0, LotFacts DEF Free
  <1>2. ASSUME NEW q \in Units PROVE q \in Nat
    BY MaxUnitsAssumption DEF Units
  <1>3. CASE PaperStep
    <2>1. db'.lot = db.lot
      BY <1>3, PaperKeepsLots
    <2> QED BY <1>1, <2>1 DEF KeepsFree, Free
  <1>4. ASSUME NEW l \in Lot, NEW q \in Units, NEW st \in LotStatus, ReceiveStock(l, q, st)
        PROVE  KeepsFree(db, db')
    <2>1. /\ db'.lot = [db.lot EXCEPT ![l] = [status |-> st, on_hand |-> q, reserved |-> 0]]
          /\ db.lot[l].status = "absent"
      BY <1>0, <1>4 DEF ReceiveStock, Tables
    <2>2. ASSUME NEW m \in Lot, db.lot[m].status = "available" PROVE Free(db', m) = Free(db, m)
      <3>1. db'.lot[m] = db.lot[m]
        BY <1>0, <2>1, <2>2 DEF LotTable
      <3> QED BY <3>1 DEF Free
    <2> QED BY <1>1, <2>2 DEF KeepsFree
  <1>5. ASSUME NEW l \in Lot, ReleaseQuarantine(l) PROVE KeepsFree(db, db')
    <2>1. db'.lot = [db.lot EXCEPT ![l] = [db.lot[l] EXCEPT !.status = "available"]]
      BY <1>0, <1>5 DEF ReleaseQuarantine, Quiet, Tables
    <2>2. \A m \in Lot : db'.lot[m].on_hand = db.lot[m].on_hand
                         /\ db'.lot[m].reserved = db.lot[m].reserved
      BY <1>0, <2>1 DEF LotTable
    <2> QED BY <1>1, <2>2 DEF KeepsFree, Free
  <1>6. ASSUME NEW l \in Lot, NEW delta \in -MaxUnits .. MaxUnits, AdjustStock(l, delta)
        PROVE  NothingHeld(db, db')
    <2>1. /\ db'.lot = [db.lot EXCEPT ![l] = [db.lot[l] EXCEPT !.on_hand = @ + delta]]
          /\ db'.carton = db.carton
      BY <1>0, <1>6 DEF AdjustStock, Quiet, Tables
    <2>2. \A m \in Lot : db'.lot[m].reserved = db.lot[m].reserved /\ db.lot[m].reserved \in Nat
      BY <1>0, <2>1, LotFacts DEF LotTable
    <2>3. \A m \in Lot, c \in Carton : db.carton[c].items[m] \in Nat
      BY <1>0, MaxUnitsAssumption DEF CartonTable, Units
    <2> QED BY <2>1, <2>2, <2>3 DEF NothingHeld
  <1>7. ASSUME NEW p \in Product, NEW q \in Units, StockOut(p, q) PROVE TakesInOrder(db, db')
    BY <1>0, <1>2, <1>7, ConsumedInOrder DEF StockOut
  <1>8. ASSUME NEW c \in Carton, NEW p \in Product, NEW q \in Units, NEW s \in Order \cup {None},
               PackCarton(c, p, q, s)
        PROVE  TakesInOrder(db, db')
    <2> DEFINE e == ConsumeStock(db, p, q)
    <2>1. TakesInOrder(db, e) /\ e \in Tables
      BY <1>0, <1>2, ConsumedInOrder, ConsumeStockGood DEF Good
    <2>2. db'.lot = e.lot
      <3> HIDE DEF e
      <3> QED BY <1>8, <2>1 DEF PackCarton, Tables, e
    <2> HIDE DEF e
    <2> QED BY <2>1, <2>2 DEF TakesInOrder, Free
  <1>9. ASSUME NEW c \in Carton, UnpackCarton(c) \/ DeleteCarton(c) PROVE KeepsFree(db, db')
    <2> DEFINE e == Unpacked(db, c)
    <2>1. ASSUME NEW l \in Lot PROVE ~ (Free(e, l) < Free(db, l))
      <3>1. /\ e.lot[l].on_hand = db.lot[l].on_hand + db.carton[c].items[l]
            /\ e.lot[l].reserved = db.lot[l].reserved /\ db.carton[c].items[l] \in Nat
            /\ db.lot[l].on_hand \in Nat /\ db.lot[l].reserved \in Nat
        BY <1>0, UnpackedDrift, LotFacts
      <3> HIDE DEF e
      <3> QED BY <3>1 DEF Free
    <2>2. db'.lot = e.lot \/ db'.lot = db.lot
      <3>1. CASE UnpackCarton(c)
        BY <3>1 DEF UnpackCarton
      <3>2. CASE DeleteCarton(c) /\ db.carton[c].items # NoItems
        <4>1. e \in Tables
          BY <1>0, <3>2, UnpackedGood DEF DeleteCarton, Good
        <4> HIDE DEF e
        <4> QED BY <3>2, <4>1 DEF DeleteCarton, Tables, e
      <3>3. CASE DeleteCarton(c) /\ db.carton[c].items = NoItems
        BY <1>0, <3>3 DEF DeleteCarton, Tables
      <3> QED BY <1>9, <3>1, <3>2, <3>3
    <2> HIDE DEF e
    <2> QED BY <1>1, <2>1, <2>2 DEF KeepsFree, Free
  <1>10. ASSUME NEW k \in Clerk, ReserveCommit(k) PROVE TakesInOrder(db, db')
    <2> DEFINE s == Seen(db, request[k])
               o == request[k].order
    <2>1. Good(s) /\ s.lot = db.lot /\ o \in Order /\ db'.lot = Reserve(s, o).lot
      BY <1>10, ReserveCommits
    <2> HIDE DEF s, o
    <2>2. TakesInOrder(s, Reserve(s, o))
      BY <2>1, ReservedInOrder
    <2> QED BY <2>1, <2>2 DEF TakesInOrder, Free
  <1>11. ASSUME NEW o \in Order, NEW demand \in [Product -> Units], NEW ready \in SUBSET Carton,
                PlaceOrder(o, demand, ready)
         PROVE  TakesInOrder(db, db')
    <2>1. PICK d \in Tables : PlacedFrom(d, o, demand)
      BY <1>11, PlacedOrder
    <2>2. TakesInOrder(d, Reserve(d, o)) /\ d.lot = db.lot /\ db'.lot = Reserve(d, o).lot
      BY <2>1, ReservedInOrder DEF PlacedFrom
    <2> QED BY <2>2 DEF TakesInOrder, Free
  <1>12. ASSUME NEW k \in Clerk, NEW p \in Product, NEW q \in Units, NEW c \in Carton,
                NEW tie \in TieBreak, EditPackReserved(k, p, q, c, tie)
         PROVE  KeepsFree(db, db')
    <2> DEFINE s == Seen(db, request[k])
               o == request[k].order
    <2>1. /\ Good(s) /\ s.lot = db.lot /\ o \in Order /\ q \in Nat
          /\ db'.lot = PackReserved(s, o, p, q, tie, c).lot
      BY <1>12, EditPacks
    <2> HIDE DEF s, o
    <2>2. \A l \in Lot : Free(PackReserved(s, o, p, q, tie, c), l) = Free(s, l)
      BY <2>1, PackedFree
    <2>3. \A l \in Lot : Free(db', l) = Free(db, l)
      BY <2>1, <2>2 DEF Free
    <2> QED BY <1>1, <2>3 DEF KeepsFree
  <1>14. CASE StockStep
    BY <1>4, <1>5, <1>6, <1>7, <1>14 DEF StockStep
  <1>15. CASE CartonStep
    BY <1>3, <1>8, <1>9, <1>15 DEF CartonStep, PaperStep
  <1>16. CASE OrderStep
    BY <1>3, <1>11, <1>16 DEF OrderStep, PaperStep
  <1>17. CASE PrepareStep
    <2>1. \E o \in Order : PrepareBegin(o)
      BY <1>17 DEF PrepareStep, AssignReadyCarton, PackBinEntry, StartPacking, PrepareFinish,
                   PackingErrors, ReservationShort
    <2> QED BY <1>3, <2>1 DEF PaperStep
  <1>18. CASE ShipmentStep \/ RequestStart
    BY <1>3, <1>18 DEF PaperStep
  <1>19. CASE RequestStep \/ \E k \in Clerk : RequestCrash(k)
    BY <1>3, <1>10, <1>12, <1>19 DEF RequestStep, PaperStep, RequestPaper
  <1> QED  BY <1>14, <1>15, <1>16, <1>17, <1>18, <1>19 DEF Overlap, OtherStep

\* First expired, first out, whatever requests overlap: a step outside prepare_order
\* that packs or reserves free units of a lot leaves none in an available lot of the
\* product that expires sooner.
THEOREM SoonestLotsGoFirst == OverlapSpec => FefoRespected
  <1>1. IInv /\ [Overlap]_vars =>
          [\A l, m \in Lot :
              /\ txn = None
              /\ ProductOf[l] = ProductOf[m] /\ FefoRank[m] < FefoRank[l]
              /\ db.lot[m].status = "available"
              /\ db.lot[l].status = "available" /\ Free(db, l)' < Free(db, l)
              /\ \/ db'.lot[l].reserved > db.lot[l].reserved
                 \/ \E c \in Carton : db'.carton[c].items[l] > db.carton[c].items[l]
              => Free(db, m)' = 0]_vars
    <2> SUFFICES ASSUME IInv, Overlap, txn = None, NEW l \in Lot, NEW m \in Lot,
                        ProductOf[l] = ProductOf[m], FefoRank[m] < FefoRank[l],
                        db.lot[m].status = "available", db.lot[l].status = "available",
                        Free(db, l)' < Free(db, l),
                        \/ db'.lot[l].reserved > db.lot[l].reserved
                        \/ \E c \in Carton : db'.carton[c].items[l] > db.carton[c].items[l]
                 PROVE  Free(db, m)' = 0
      OBVIOUS
    <2>1. Free(db, l)' = Free(db', l) /\ Free(db, m)' = Free(db', m)
      BY DEF Free
    <2>2. CASE KeepsFree(db, db')
      BY <2>1, <2>2 DEF KeepsFree
    <2>3. CASE TakesInOrder(db, db')
      BY <2>1, <2>3 DEF TakesInOrder
    <2>4. CASE NothingHeld(db, db')
      BY <2>4 DEF NothingHeld
    <2> QED BY <2>2, <2>3, <2>4, FefoSteps
  <1> QED  BY <1>1, OverlapInvariant, PTL DEF OverlapSpec, FefoRespected

\* What is left of n when q is taken and a shortage gives zero.
Left(n, q) == IF n < q THEN 0 ELSE n - q

\* A rank that counts lots by blocks of c, one place each, tells the blocks apart.
LEMMA BlocksApart ==
    ASSUME NEW a \in Nat, NEW b \in Nat, NEW c \in Nat, NEW t \in Nat, NEW u \in Nat,
           t < c, u < c, a * c + t = b * c + u
    PROVE  a = b /\ t = u
  <1>1. ASSUME NEW x \in Nat, NEW y \in Nat, x < y PROVE x * c + c <= y * c
    <2>1. PICK k \in Nat : y = x + 1 + k
      <3>1. y - x - 1 \in Nat /\ y = x + 1 + (y - x - 1)
        BY <1>1
      <3> QED BY <3>1
    <2>2. y * c = x * c + c + k * c /\ k * c \in Nat /\ x * c \in Nat
      BY <2>1
    <2> QED BY <2>2
  <1>2. a * c \in Nat /\ b * c \in Nat
    OBVIOUS
  <1>3. ~ a < b
    <2> SUFFICES ASSUME a < b PROVE FALSE
      OBVIOUS
    <2>1. a * c + c <= b * c
      BY <1>1
    <2> QED BY <1>2, <2>1
  <1>4. ~ b < a
    <2> SUFFICES ASSUME b < a PROVE FALSE
      OBVIOUS
    <2>1. b * c + c <= a * c
      BY <1>1
    <2> QED BY <1>2, <2>1
  <1>5. a = b
    BY <1>3, <1>4
  <1> QED  BY <1>2, <1>5

\* The rows of a line, and the lots of a product, come in a total order.
LEMMA RowsOrdered ==
    ASSUME NEW d, Good(d), NEW o \in Order, NEW p \in Product, NEW tie \in TieBreak
    PROVE  /\ HeldBy(d, o, p) \in [Lot \X Slot -> Units]
           /\ RowRank(tie) \in [Lot \X Slot -> Int]
           /\ IsFiniteSet(Lot \X Slot)
           /\ Ordered(HeldBy(d, o, p), RowRank(tie))
  <1>1. HeldBy(d, o, p) \in [Lot \X Slot -> Units] /\ IsFiniteSet(Lot \X Slot)
    <2>1. d.rows \in RowTable
      BY TablesAre DEF Good
    <2>2. HeldBy(d, o, p) \in [Lot \X Slot -> Units]
      BY <2>1, MaxUnitsAssumption DEF HeldBy, RowTable, Units
    <2> QED BY <2>2, ConstantsAssumption, FS_Product
  <1>2. Cardinality(Slot) \in Nat
    BY ConstantsAssumption, FS_CardinalityType
  <1>3. ASSUME NEW r \in Lot \X Slot
        PROVE  /\ ReleaseRank[r[1]] \in Nat /\ tie[r[2]] \in Nat /\ tie[r[2]] < Cardinality(Slot)
               /\ RowRank(tie)[r] = ReleaseRank[r[1]] * Cardinality(Slot) + tie[r[2]]
               /\ RowRank(tie)[r] \in Int
    <2>1. ReleaseRank[r[1]] \in Nat
      BY ConstantsAssumption
    <2>2. tie[r[2]] \in 0 .. Cardinality(Slot) - 1
      BY DEF TieBreak
    <2>3. RowRank(tie)[r] = ReleaseRank[r[1]] * Cardinality(Slot) + tie[r[2]]
      BY DEF RowRank
    <2>4. tie[r[2]] \in Nat /\ tie[r[2]] < Cardinality(Slot)
      BY <1>2, <2>2
    <2>5. ReleaseRank[r[1]] * Cardinality(Slot) \in Int
      BY <1>2, <2>1
    <2> QED BY <2>1, <2>3, <2>4, <2>5
  <1>4. RowRank(tie) \in [Lot \X Slot -> Int]
    BY <1>3 DEF RowRank
  <1>5. ASSUME NEW r \in Lot \X Slot, NEW s \in Lot \X Slot, HeldBy(d, o, p)[r] > 0,
               HeldBy(d, o, p)[s] > 0, RowRank(tie)[r] = RowRank(tie)[s]
        PROVE  r = s
    <2>1. ProductOf[r[1]] = p /\ ProductOf[s[1]] = p
      BY <1>5 DEF HeldBy
    <2>2. ReleaseRank[r[1]] = ReleaseRank[s[1]] /\ tie[r[2]] = tie[s[2]]
      <3> DEFINE a == ReleaseRank[r[1]]
                 b == ReleaseRank[s[1]]
                 t == tie[r[2]]
                 u == tie[s[2]]
                 c == Cardinality(Slot)
      <3>1. /\ a \in Nat /\ t \in Nat /\ t < c /\ b \in Nat /\ u \in Nat /\ u < c /\ c \in Nat
            /\ a * c + t = b * c + u
        BY <1>2, <1>3, <1>5
      <3> HIDE DEF a, b, t, u, c
      <3>2. a = b /\ t = u
        BY <3>1, BlocksApart
      <3> QED BY <3>2 DEF a, b, t, u
    <2>3. r[1] = s[1]
      BY <2>1, <2>2, ConstantsAssumption
    <2>4. r[2] = s[2]
      BY <2>2 DEF TieBreak
    <2> QED BY <2>3, <2>4
  <1>6. DOMAIN HeldBy(d, o, p) = Lot \X Slot
    BY DEF HeldBy
  <1>7. Ordered(HeldBy(d, o, p), RowRank(tie))
    BY <1>5, <1>6 DEF Ordered
  <1> QED  BY <1>1, <1>4, <1>7

LEMMA LotsOrdered ==
    ASSUME NEW d, Good(d), NEW p \in Product
    PROVE  Ordered(FefoAvailable(d, p), FefoRank)
  <1>1. ASSUME NEW l \in Lot, FefoAvailable(d, p)[l] > 0 PROVE ProductOf[l] = p
    BY <1>1 DEF FefoAvailable
  <1>2. DOMAIN FefoAvailable(d, p) = Lot
    BY DEF FefoAvailable
  <1> QED  BY <1>1, <1>2, ConstantsAssumption DEF Ordered

LEMMA HeldFacts ==
    ASSUME NEW d, Good(d), NEW o \in Order, NEW p \in Product
    PROVE  /\ HeldUnits(d, o, p) \in Nat
           /\ HeldBy(d, o, p) \in [Lot \X Slot -> Units]
           /\ d.line[o][p] \in [quantity: Units, reserved: Units, prepared: Units]
           /\ d.line[o][p].quantity \in Nat /\ d.line[o][p].reserved \in Nat
           /\ d.line[o][p].prepared \in Nat
  <1>1. d.rows \in RowTable /\ d.line \in LineTable
    BY TablesAre DEF Good
  <1>2. HeldBy(d, o, p) \in [Lot \X Slot -> Units]
    BY <1>1, MaxUnitsAssumption DEF HeldBy, RowTable, Units
  <1>3. HeldUnits(d, o, p) \in Nat
    BY <1>2, ConstantsAssumption, FS_Product, TotalNat DEF HeldUnits
  <1>4. d.line[o][p] \in [quantity: Units, reserved: Units, prepared: Units]
    BY <1>1 DEF LineTable
  <1>5. \A u \in Units : u \in Nat
    BY MaxUnitsAssumption DEF Units
  <1> QED  BY <1>2, <1>3, <1>4, <1>5

\* Drawing q units from the rows of a line leaves what is left, and the rows of the
\* other lines.
LEMMA RowsLeft ==
    ASSUME NEW d, Good(d), NEW o \in Order, NEW p \in Product, NEW q \in Nat,
           NEW tie \in TieBreak, NEW e,
           e.rows = LeaveRows(d, o, Greedy(HeldBy(d, o, p), RowRank(tie), q)),
           NEW x \in Order, NEW z \in Product
    PROVE  HeldUnits(e, x, z) = IF x = o /\ z = p THEN Left(HeldUnits(d, o, p), q)
                                ELSE HeldUnits(d, x, z)
  <1> DEFINE held == HeldBy(d, o, p)
             take == Greedy(held, RowRank(tie), q)
             f == HeldBy(d, x, z)
             g == HeldBy(e, x, z)
  <1>1. /\ held \in [Lot \X Slot -> Units] /\ RowRank(tie) \in [Lot \X Slot -> Int]
        /\ IsFiniteSet(Lot \X Slot) /\ Ordered(held, RowRank(tie))
    BY RowsOrdered
  <1>2. f \in [Lot \X Slot -> Units] /\ d.rows \in RowTable
    BY HeldFacts, TablesAre DEF Good
  <1> HIDE DEF held
  <1>3. take \in [Lot \X Slot -> Units] /\ \A r \in Lot \X Slot : take[r] <= held[r]
    BY <1>1, GreedyWithin
  <1>4. Total(take) = Smaller(q, Total(held))
    BY <1>1, GreedyTotal
  <1>5. e.rows = LeaveRows(d, o, take)
    BY DEF held
  <1> HIDE DEF take
  <1>6. ASSUME NEW r \in Lot \X Slot
        PROVE  /\ g[r] = IF x = o THEN f[r] - (IF ProductOf[r[1]] = z THEN take[r] ELSE 0) ELSE f[r]
               /\ ProductOf[r[1]] # p => take[r] = 0
               /\ x = o /\ z = p => f[r] = held[r]
               /\ f[r] \in Nat /\ take[r] \in Nat /\ held[r] \in Nat /\ take[r] <= held[r]
    <2>1. PICK l \in Lot, k \in Slot : r = <<l, k>>
      OBVIOUS
    <2>2. e.rows[l][<<x, k>>] = IF x = o THEN d.rows[l][<<x, k>>] - take[<<l, k>>]
                                ELSE d.rows[l][<<x, k>>]
      BY <1>5 DEF LeaveRows
    <2>3. /\ g[r] = IF ProductOf[l] = z THEN e.rows[l][<<x, k>>] ELSE 0
          /\ f[r] = IF ProductOf[l] = z THEN d.rows[l][<<x, k>>] ELSE 0
          /\ held[r] = IF ProductOf[l] = p THEN d.rows[l][<<o, k>>] ELSE 0
      BY <2>1 DEF HeldBy, held
    <2>4. f[r] \in Nat /\ take[r] \in Nat /\ held[r] \in Nat
      BY <1>1, <1>2, <1>3, MaxUnitsAssumption DEF Units
    <2>5. take[r] <= held[r]
      BY <1>3
    <2>6. ProductOf[r[1]] # p => take[r] = 0
      BY <2>1, <2>3, <2>4, <2>5
    <2> HIDE DEF f, g
    <2> QED BY <2>1, <2>2, <2>3, <2>4, <2>5, <2>6
  <1>7. HeldUnits(e, x, z) = Total(g) /\ HeldUnits(d, x, z) = Total(f)
    BY DEF HeldUnits
  <1>8. DOMAIN g = Lot \X Slot /\ DOMAIN f = Lot \X Slot /\ g = [r \in Lot \X Slot |-> g[r]]
        /\ f = [r \in Lot \X Slot |-> f[r]]
    BY DEF HeldBy
  <1> HIDE DEF f, g
  <1>9. CASE ~ (x = o /\ z = p)
    <2>1. \A r \in Lot \X Slot : g[r] = f[r]
      BY <1>6, <1>9
    <2>2. g = f
      BY <1>8, <2>1
    <2> QED BY <1>7, <1>9, <2>2
  <1>10. CASE x = o /\ z = p
    <2>1. \A r \in Lot \X Slot : g[r] = f[r] - take[r] /\ f[r] = held[r] /\ take[r] <= f[r]
      BY <1>6, <1>10
    <2>2. f = held
      BY <1>10 DEF f, held
    <2>3. g \in [Lot \X Slot -> Units]
      <3>1. \A r \in Lot \X Slot : g[r] \in Units
        BY <1>2, <1>6, <2>1, MaxUnitsAssumption DEF Units
      <3> QED BY <1>8, <3>1
    <2>4. \A r \in Lot \X Slot : f[r] = g[r] + take[r]
      BY <1>6, <2>1
    <2>5. Total(f) = Total(g) + Total(take)
      BY <1>1, <1>2, <1>3, <2>3, <2>4, TotalSum
    <2>6. Total(f) \in Nat /\ Total(g) \in Nat
      BY <1>1, <1>2, <2>3, TotalNat
    <2>7. HeldUnits(d, o, p) = Total(f)
      BY <1>7, <1>10
    <2> QED BY <1>4, <1>7, <1>10, <2>2, <2>5, <2>6, <2>7 DEF Left, Smaller
  <1> QED  BY <1>9, <1>10

\* A lot that is not of the product gives nothing; the lots of the product give what
\* is asked, when they have it.
LEMMA FefoTakesAll ==
    ASSUME NEW d, Good(d), NEW p \in Product, NEW q \in Nat, q <= Total(FefoAvailable(d, p))
    PROVE  /\ FefoTake(d, p, q) \in [Lot -> Units] /\ Total(FefoTake(d, p, q)) = q
           /\ \A l \in Lot : ProductOf[l] # p => FefoTake(d, p, q)[l] = 0
  <1> DEFINE avail == FefoAvailable(d, p)
             take == FefoTake(d, p, q)
  <1>1. /\ avail \in [Lot -> Units] /\ FefoRank \in [Lot -> Int] /\ IsFiniteSet(Lot)
        /\ Ordered(avail, FefoRank) /\ take = Greedy(avail, FefoRank, q)
        /\ \A l \in Lot : ProductOf[l] # p => avail[l] = 0
    BY FefoUnits, LotsOrdered, ConstantsAssumption DEF FefoTake
  <1>2. q <= Total(avail)
    OBVIOUS
  <1> HIDE DEF avail, take
  <1>3. Total(take) = Smaller(q, Total(avail)) /\ Total(avail) \in Nat
    BY <1>1, GreedyTotal, TotalNat
  <1>4. take \in [Lot -> Units] /\ \A l \in Lot : take[l] <= avail[l]
    BY <1>1, GreedyWithin
  <1>5. ASSUME NEW l \in Lot, ProductOf[l] # p PROVE take[l] = 0
    <2>1. take[l] \in Nat
      BY <1>4, MaxUnitsAssumption DEF Units
    <2> QED BY <1>1, <1>4, <1>5, <2>1
  <1> QED  BY <1>2, <1>3, <1>4, <1>5 DEF Smaller, take

\* reserve_stock_for_order writes one row for each lot that gives units: the rows of
\* a line then hold the line's missing units too.
LEMMA RowsAdded ==
    ASSUME NEW d, Good(d), NEW o \in Order, StockCovers(d, o), RowsFit(d, o),
           NEW x \in Order, NEW z \in Product
    PROVE  HeldUnits(Reserve(d, o), x, z)
              = IF x = o THEN HeldUnits(d, o, z) + Needed(d, o, z) ELSE HeldUnits(d, x, z)
  <1> DEFINE e == Reserve(d, o)
             take == ReserveTake(d, o)
             slot == [l \in Lot |-> CHOOSE k \in FreeSlots(d, o, l) : TRUE]
             n == Needed(d, o, z)
             ofz == FefoTake(d, z, n)
             f == HeldBy(d, x, z)
             g == HeldBy(e, x, z)
             added == [r \in Lot \X Slot |->
                         IF ProductOf[r[1]] = z /\ take[r[1]] # 0 /\ r[2] = slot[r[1]]
                         THEN take[r[1]] ELSE 0]
  <1>1. d \in Tables /\ d.rows \in RowTable /\ f \in [Lot \X Slot -> Units] /\ n \in Nat
    <2>1. Needed(d, o, z) \in Nat
      BY HeldFacts DEF Needed
    <2> QED BY <2>1, HeldFacts, TablesAre DEF Good
  <1>2. /\ ofz \in [Lot -> Units] /\ Total(ofz) = n
        /\ \A l \in Lot : ProductOf[l] # z => ofz[l] = 0
    BY <1>1, FefoTakesAll DEF StockCovers
  <1>3. \A l \in Lot : ProductOf[l] = z => take[l] = ofz[l]
    BY DEF ReserveTake
  <1>4. \A l \in Lot : take[l] # 0 => slot[l] \in Slot /\ d.rows[l][<<o, slot[l]>>] = 0
    <2>1. \A l \in Lot : take[l] # 0 => FreeSlots(d, o, l) # {}
      BY ReservedFree DEF RowsFit
    <2>2. \A l \in Lot : take[l] # 0 => slot[l] \in FreeSlots(d, o, l)
      BY <2>1
    <2> HIDE DEF slot, take
    <2> QED BY <2>2 DEF FreeSlots
  <1>5. e.rows = [l \in Lot |-> IF take[l] = 0 THEN d.rows[l]
                                ELSE [d.rows[l] EXCEPT ![<<o, slot[l]>>] = take[l]]]
    BY <1>1 DEF Reserve, Tables
  <1>6. IsFiniteSet(Lot \X Slot) /\ IsFiniteSet(Lot)
    BY ConstantsAssumption, FS_Product
  <1> HIDE DEF take, slot, e, ofz, n
  <1>7. ASSUME NEW r \in Lot \X Slot
        PROVE  /\ g[r] = IF x = o THEN f[r] + added[r] ELSE f[r]
               /\ f[r] \in Nat /\ added[r] \in Units /\ added[r] \in Nat
               /\ added[r] > 0 => f[r] = 0 \/ x # o
    <2>1. PICK l \in Lot, k \in Slot : r = <<l, k>>
      OBVIOUS
    <2>2. d.rows[l] \in [Order \X Slot -> Units] /\ d.rows[l][<<x, k>>] \in Nat
      <3>1. d.rows[l] \in [Order \X Slot -> Units]
        BY <1>1 DEF RowTable
      <3>2. <<x, k>> \in Order \X Slot
        OBVIOUS
      <3> HIDE DEF f, g, added
      <3>3. d.rows[l][<<x, k>>] \in Units
        BY <3>1, <3>2
      <3> QED BY <3>1, <3>3, MaxUnitsAssumption DEF Units
    <2>3. /\ g[r] = IF ProductOf[l] = z THEN e.rows[l][<<x, k>>] ELSE 0
          /\ f[r] = IF ProductOf[l] = z THEN d.rows[l][<<x, k>>] ELSE 0
          /\ added[r] = IF ProductOf[l] = z /\ take[l] # 0 /\ k = slot[l] THEN take[l] ELSE 0
      BY <2>1 DEF HeldBy
    <2>4. e.rows[l][<<x, k>>] = IF take[l] # 0 /\ x = o /\ k = slot[l] THEN take[l]
                                ELSE d.rows[l][<<x, k>>]
      <3> DEFINE y == <<o, slot[l]>>
                 w == <<x, k>>
      <3>1. w \in Order \X Slot /\ (w = y <=> x = o /\ k = slot[l])
        OBVIOUS
      <3>2. e.rows[l] = IF take[l] = 0 THEN d.rows[l] ELSE [d.rows[l] EXCEPT ![y] = take[l]]
        BY <1>5
      <3> HIDE DEF y, w
      <3>3. e.rows[l][w] = IF take[l] # 0 /\ w = y THEN take[l] ELSE d.rows[l][w]
        BY <2>2, <3>1, <3>2
      <3> QED BY <3>1, <3>3 DEF w
    <2>5. ProductOf[l] = z => take[l] \in Units /\ take[l] \in Nat
      BY <1>2, <1>3, MaxUnitsAssumption DEF Units
    <2>6. take[l] # 0 /\ k = slot[l] => d.rows[l][<<o, k>>] = 0
      BY <1>4
    <2>7. 0 \in Units
      BY MaxUnitsAssumption DEF Units
    <2> HIDE DEF f, g, added
    <2> QED BY <2>1, <2>2, <2>3, <2>4, <2>5, <2>6, <2>7
  <1>8. HeldUnits(e, x, z) = Total(g) /\ HeldUnits(d, x, z) = Total(f)
    BY DEF HeldUnits
  <1>9. DOMAIN g = Lot \X Slot /\ g = [r \in Lot \X Slot |-> g[r]]
        /\ f = [r \in Lot \X Slot |-> f[r]] /\ added = [r \in Lot \X Slot |-> added[r]]
    BY DEF HeldBy
  <1>10. Total(added) = Total(ofz)
    <2> DEFINE h == [r \in Lot \X Slot |-> r[1]]
    <2>1. h \in [Lot \X Slot -> Lot]
      OBVIOUS
    <2>2. ASSUME NEW r \in Lot \X Slot, added[r] > 0
          PROVE  added[r] = ofz[h[r]] /\ r[2] = slot[r[1]] /\ h[r] = r[1]
      BY <1>3, <2>2
    <2>3. ASSUME NEW l \in Lot, ofz[l] > 0
          PROVE  \E r \in Lot \X Slot : h[r] = l /\ added[r] > 0
      <3>1. ofz[l] \in Nat /\ ProductOf[l] = z /\ take[l] = ofz[l] /\ take[l] # 0
        BY <1>2, <1>3, <2>3, MaxUnitsAssumption DEF Units
      <3>2. slot[l] \in Slot
        BY <1>4, <3>1
      <3>3. <<l, slot[l]>> \in Lot \X Slot /\ h[<<l, slot[l]>>] = l /\ added[<<l, slot[l]>>] = ofz[l]
        BY <3>1, <3>2
      <3> QED BY <2>3, <3>3
    <2>4. ASSUME NEW r \in Lot \X Slot, NEW s \in Lot \X Slot, added[r] > 0, added[s] > 0, h[r] = h[s]
          PROVE  r = s
      BY <2>2, <2>4
    <2>5. added \in [Lot \X Slot -> Units]
      BY <1>7, <1>9
    <2>6. /\ \A r \in Lot \X Slot : added[r] > 0 => added[r] = ofz[h[r]]
          /\ \A r, s \in Lot \X Slot : added[r] > 0 /\ added[s] > 0 /\ h[r] = h[s] => r = s
          /\ \A l \in Lot : ofz[l] > 0 => \E r \in Lot \X Slot : h[r] = l /\ added[r] > 0
      BY <2>2, <2>3, <2>4
    <2>7. ofz \in [Lot -> Units]
      BY <1>2
    <2> HIDE DEF h, added, f, g
    <2> QED BY <1>6, <2>1, <2>5, <2>6, <2>7, TotalCarried
  <1> HIDE DEF f, g, added
  <1>11. CASE x # o
    <2>1. g = f
      BY <1>7, <1>9, <1>11
    <2> QED BY <1>8, <1>11, <2>1 DEF e
  <1>12. CASE x = o
    <2>1. added \in [Lot \X Slot -> Units]
      BY <1>7, <1>9
    <2>2. g \in [Lot \X Slot -> Units]
      <3>1. ASSUME NEW r \in Lot \X Slot PROVE g[r] \in Units
        <4>1. g[r] = f[r] \/ g[r] = added[r]
          BY <1>7, <1>12
        <4> QED BY <1>1, <1>7, <4>1
      <3> QED BY <1>9, <3>1
    <2>3. \A r \in Lot \X Slot : g[r] = f[r] + added[r]
      BY <1>7, <1>12
    <2>4. Total(g) = Total(f) + Total(added)
      BY <1>1, <1>6, <2>1, <2>2, <2>3, TotalSum
    <2>5. HeldUnits(e, x, z) = HeldUnits(d, x, z) + n
      BY <1>2, <1>8, <1>10, <2>4
    <2>6. HeldUnits(Reserve(d, o), x, z) = HeldUnits(d, x, z) + Needed(d, o, z)
      BY <2>5 DEF e, n
    <2> QED BY <1>12, <2>6
  <1> QED  BY <1>11, <1>12

\* An order not yet made reserves nothing.
Blank(d) ==
    \A o \in Order : d.order[o] = "absent" =>
        \A p \in Product : d.line[o][p].reserved = 0 /\ HeldUnits(d, o, p) = 0

\* Lines that count their rows in d count them in e.
CountsKept(d, e) == \A o \in Order, p \in Product : Counted(d, o, p) => Counted(e, o, p)
Settles(d, e) == Blank(e) /\ CountsKept(d, e)

\* Tables that promise what d promises.
SamePromises(d, e) ==
    /\ e.rows = d.rows
    /\ \A o \in Order : e.order[o] = "absent" => d.order[o] = "absent"
    /\ \A o \in Order, p \in Product : e.line[o][p].reserved = d.line[o][p].reserved

LEMMA PromisesKept ==
    ASSUME NEW d, NEW e, Blank(d), SamePromises(d, e)
    PROVE  Settles(d, e)
  <1>1. \A o \in Order, p \in Product : HeldUnits(e, o, p) = HeldUnits(d, o, p)
    BY DEF SamePromises, HeldUnits, HeldBy
  <1> QED  BY <1>1 DEF Settles, CountsKept, Counted, Blank, SamePromises

\* What release_reserved_stock, pack_carton_from_reserved and reserve_stock_for_order
\* write of the lines.
LEMMA ReleasedLines ==
    ASSUME NEW d, Good(d), NEW o \in Order, NEW p \in Product, NEW q \in Nat, NEW tie \in TieBreak
    PROVE  LET e == ReleaseReserved(d, o, p, q, tie)
           IN  /\ e.rows = LeaveRows(d, o, Greedy(HeldBy(d, o, p), RowRank(tie), q))
               /\ e.order = d.order
               /\ \A x \in Order, z \in Product :
                     e.line[x][z] = IF x = o /\ z = p
                                    THEN [d.line[o][p] EXCEPT !.reserved = Left(@, q)]
                                    ELSE d.line[x][z]
  <1>1. d \in Tables /\ d.line \in LineTable
    BY TablesAre DEF Good
  <1>2. /\ ReleaseReserved(d, o, p, q, tie).rows
              = LeaveRows(d, o, Greedy(HeldBy(d, o, p), RowRank(tie), q))
        /\ ReleaseReserved(d, o, p, q, tie).order = d.order
        /\ ReleaseReserved(d, o, p, q, tie).line = [d.line EXCEPT ![o][p].reserved = Left(@, q)]
    BY <1>1 DEF ReleaseReserved, Tables, Left
  <1> QED  BY <1>1, <1>2 DEF LineTable

LEMMA PackedLines ==
    ASSUME NEW d, Good(d), NEW o \in Order, NEW p \in Product, NEW q \in Nat, NEW tie \in TieBreak,
           NEW c \in Carton
    PROVE  LET e == PackReserved(d, o, p, q, tie, c)
           IN  /\ e.rows = LeaveRows(d, o, Greedy(HeldBy(d, o, p), RowRank(tie), q))
               /\ e.order = d.order
               /\ \A x \in Order, z \in Product :
                     e.line[x][z] = IF x = o /\ z = p
                                    THEN [quantity |-> d.line[o][p].quantity,
                                          reserved |-> Left(d.line[o][p].reserved, q),
                                          prepared |-> d.line[o][p].prepared + q]
                                    ELSE d.line[x][z]
  <1>1. d \in Tables /\ d.line \in LineTable
    BY TablesAre DEF Good
  <1>2. /\ PackReserved(d, o, p, q, tie, c).rows
              = LeaveRows(d, o, Greedy(HeldBy(d, o, p), RowRank(tie), q))
        /\ PackReserved(d, o, p, q, tie, c).order = d.order
        /\ PackReserved(d, o, p, q, tie, c).line
              = [d.line EXCEPT ![o][p] = [quantity |-> @.quantity,
                                          reserved |-> Left(@.reserved, q),
                                          prepared |-> @.prepared + q]]
    BY <1>1 DEF PackReserved, Tables, Left
  <1> QED  BY <1>1, <1>2 DEF LineTable

LEMMA ReservedOrder ==
    ASSUME NEW d, Good(d), NEW o \in Order
    PROVE  Reserve(d, o).order = [d.order EXCEPT ![o] = "reserved"]
  <1>1. d \in Tables
    BY DEF Good
  <1> QED  BY <1>1 DEF Reserve, Tables

LEMMA ReservedLines ==
    ASSUME NEW d, Good(d), NEW o \in Order, RowsFit(d, o), NEW x \in Order, NEW z \in Product
    PROVE  /\ Reserve(d, o).line[x][z].quantity = d.line[x][z].quantity
           /\ Reserve(d, o).line[x][z].prepared = d.line[x][z].prepared
           /\ x = o => Reserve(d, o).line[x][z].reserved = d.line[x][z].reserved + Needed(d, o, z)
           /\ x # o => Reserve(d, o).line[x][z].reserved = d.line[x][z].reserved
  <1>1. d \in Tables /\ d.line \in LineTable
    BY TablesAre DEF Good
  <1> DEFINE line == Reserve(d, o).line
  <1>2. line = [d.line EXCEPT ![o] = [p \in Product |->
                  [d.line[o][p] EXCEPT !.reserved = @ + Needed(d, o, p)]]]
    BY ReserveGood
  <1> HIDE DEF line
  <1>3. d.line[x][z] \in [quantity: Units, reserved: Units, prepared: Units]
    BY <1>1 DEF LineTable
  <1>4. line[x][z] = IF x = o THEN [d.line[x][z] EXCEPT !.reserved = @ + Needed(d, o, z)]
                     ELSE d.line[x][z]
    BY <1>1, <1>2 DEF LineTable
  <1>5. /\ line[x][z].quantity = d.line[x][z].quantity
        /\ line[x][z].prepared = d.line[x][z].prepared
        /\ x = o => line[x][z].reserved = d.line[x][z].reserved + Needed(d, o, z)
        /\ x # o => line[x][z].reserved = d.line[x][z].reserved
    BY <1>3, <1>4
  <1> QED  BY <1>5 DEF line

\* Units taken from the rows of a line, and from what it counts.
LEMMA TakenSettles ==
    ASSUME NEW d, Good(d), Blank(d), NEW o \in Order, NEW p \in Product, NEW q \in Nat,
           NEW tie \in TieBreak, NEW e,
           e.rows = LeaveRows(d, o, Greedy(HeldBy(d, o, p), RowRank(tie), q)),
           e.order = d.order,
           \A x \in Order, z \in Product :
              e.line[x][z].reserved = IF x = o /\ z = p THEN Left(d.line[o][p].reserved, q)
                                      ELSE d.line[x][z].reserved
    PROVE  Settles(d, e)
  <1>1. ASSUME NEW x \in Order, NEW z \in Product
        PROVE  /\ HeldUnits(e, x, z) = IF x = o /\ z = p THEN Left(HeldUnits(d, o, p), q)
                                       ELSE HeldUnits(d, x, z)
               /\ HeldUnits(d, x, z) \in Nat /\ d.line[x][z].reserved \in Nat
    BY RowsLeft, HeldFacts
  <1>2. Blank(e)
    BY <1>1 DEF Blank, Left
  <1>3. CountsKept(d, e)
    BY <1>1 DEF CountsKept, Counted
  <1> QED  BY <1>2, <1>3 DEF Settles

LEMMA ReleaseSettles ==
    ASSUME NEW d, Good(d), Blank(d), NEW o \in Order, NEW p \in Product, NEW q \in Nat,
           NEW tie \in TieBreak
    PROVE  Settles(d, ReleaseReserved(d, o, p, q, tie))
  <1> DEFINE e == ReleaseReserved(d, o, p, q, tie)
  <1>1. /\ e.rows = LeaveRows(d, o, Greedy(HeldBy(d, o, p), RowRank(tie), q))
        /\ e.order = d.order
        /\ \A x \in Order, z \in Product :
              e.line[x][z] = IF x = o /\ z = p
                             THEN [d.line[o][p] EXCEPT !.reserved = Left(@, q)] ELSE d.line[x][z]
    BY ReleasedLines
  <1> HIDE DEF e
  <1>2. \A x \in Order, z \in Product :
           d.line[x][z] \in [quantity: Units, reserved: Units, prepared: Units]
    BY HeldFacts
  <1>3. \A x \in Order, z \in Product :
           e.line[x][z].reserved = IF x = o /\ z = p THEN Left(d.line[o][p].reserved, q)
                                   ELSE d.line[x][z].reserved
    BY <1>1, <1>2
  <1>4. Settles(d, e)
    BY <1>1, <1>3, TakenSettles
  <1> QED  BY <1>4 DEF e

LEMMA PackSettles ==
    ASSUME NEW d, Good(d), Blank(d), NEW o \in Order, NEW p \in Product, NEW q \in Nat,
           NEW tie \in TieBreak, NEW c \in Carton
    PROVE  Settles(d, PackReserved(d, o, p, q, tie, c))
  <1> DEFINE e == PackReserved(d, o, p, q, tie, c)
  <1>1. /\ e.rows = LeaveRows(d, o, Greedy(HeldBy(d, o, p), RowRank(tie), q))
        /\ e.order = d.order
        /\ \A x \in Order, z \in Product :
              e.line[x][z] = IF x = o /\ z = p
                             THEN [quantity |-> d.line[o][p].quantity,
                                   reserved |-> Left(d.line[o][p].reserved, q),
                                   prepared |-> d.line[o][p].prepared + q]
                             ELSE d.line[x][z]
    BY PackedLines
  <1> HIDE DEF e
  <1>2. \A x \in Order, z \in Product :
           e.line[x][z].reserved = IF x = o /\ z = p THEN Left(d.line[o][p].reserved, q)
                                   ELSE d.line[x][z].reserved
    BY <1>1
  <1>3. Settles(d, e)
    BY <1>1, <1>2, TakenSettles
  <1> QED  BY <1>3 DEF e

LEMMA ReserveCounts ==
    ASSUME NEW d, Good(d), NEW o \in Order, StockCovers(d, o), RowsFit(d, o)
    PROVE  CountsKept(d, Reserve(d, o))
  <1> DEFINE e == Reserve(d, o)
  <1>1. ASSUME NEW x \in Order, NEW z \in Product, Counted(d, x, z) PROVE Counted(e, x, z)
    <2>1. /\ x = o => e.line[x][z].reserved = d.line[x][z].reserved + Needed(d, o, z)
          /\ x # o => e.line[x][z].reserved = d.line[x][z].reserved
      BY ReservedLines
    <2>2. HeldUnits(e, x, z) = IF x = o THEN HeldUnits(d, o, z) + Needed(d, o, z)
                               ELSE HeldUnits(d, x, z)
      BY RowsAdded
    <2>3. d.line[x][z].reserved = HeldUnits(d, x, z)
      BY <1>1 DEF Counted
    <2> HIDE DEF e
    <2> QED BY <2>1, <2>2, <2>3 DEF Counted
  <1> HIDE DEF e
  <1> QED  BY <1>1 DEF CountsKept, e

\* What a request sees that holds copies of the lines.
Reads(d, r) == Good(d) /\ r.order \in Order /\ r.lines \in LineCopies
SeenFacts(d, r) ==
    /\ Good(Seen(d, r)) /\ Seen(d, r).line[r.order] = r.lines
    /\ Seen(d, r).rows = d.rows /\ Seen(d, r).order = d.order

LEMMA ReadsSeen ==
    ASSUME NEW d, NEW r, Reads(d, r)
    PROVE  SeenFacts(d, r)
  <1>1. Good(d) /\ r.order \in Order /\ r.lines \in LineCopies
    BY DEF Reads
  <1>2. /\ Good(Seen(d, r))
        /\ Seen(d, r).line = [d.line EXCEPT ![r.order] = r.lines]
        /\ Seen(d, r).line[r.order] = r.lines
        /\ Seen(d, r).lot = d.lot /\ Seen(d, r).moved = d.moved /\ Seen(d, r).rows = d.rows
        /\ Seen(d, r).order = d.order /\ Seen(d, r).carton = d.carton
    BY <1>1, SeenGood
  <1> QED  BY <1>2 DEF SeenFacts

LEMMA PackedRows ==
    ASSUME NEW d, Good(d), NEW o \in Order, NEW p \in Product, NEW q \in Nat, NEW tie \in TieBreak,
           NEW c \in Carton
    PROVE  PackReserved(d, o, p, q, tie, c).rows
              = LeaveRows(d, o, Greedy(HeldBy(d, o, p), RowRank(tie), q))
  <1>1. d \in Tables
    BY DEF Good
  <1> QED  BY <1>1 DEF PackReserved, Tables

LEMMA PacksSeen ==
    ASSUME NEW d, NEW r, Reads(d, r), NEW p \in Product, NEW q \in Nat, NEW tie \in TieBreak,
           NEW c \in Carton
    PROVE  PackReserved(Seen(d, r), r.order, p, q, tie, c).rows
              = LeaveRows(Seen(d, r), r.order,
                          Greedy(HeldBy(Seen(d, r), r.order, p), RowRank(tie), q))
  <1>1. Good(Seen(d, r)) /\ r.order \in Order
    BY ReadsSeen DEF SeenFacts, Reads
  <1> DEFINE s == Seen(d, r)
             o == r.order
  <1> HIDE DEF s, o
  <1>2. Good(s) /\ o \in Order
    BY <1>1 DEF s, o
  <1>3. PackReserved(s, o, p, q, tie, c).rows
           = LeaveRows(s, o, Greedy(HeldBy(s, o, p), RowRank(tie), q))
    BY <1>2, PackedRows
  <1> QED  BY <1>3 DEF s, o

\* A reservation adds the rows that the lines it read lack; a line it reserved for
\* counts them when the copy counted the rows there were.
LEMMA ReserveSeenCounts ==
    ASSUME NEW d, Good(d), Blank(d), NEW r, r.order \in Order, r.lines \in LineCopies,
           StockCovers(Seen(d, r), r.order), RowsFit(Seen(d, r), r.order)
    PROVE  /\ Blank(ReserveSeen(d, r))
           /\ \A x \in Order, z \in Product :
                 \/ x = r.order /\ r.lines[z].reserved # d.line[x][z].reserved
                 \/ Counted(d, x, z) => Counted(ReserveSeen(d, r), x, z)
  <1> DEFINE s == Seen(d, r)
             o == r.order
             held == Reserve(s, o)
             e == ReserveSeen(d, r)
  <1>1. /\ Good(s) /\ s.rows = d.rows /\ s.order = d.order /\ s.line[o] = r.lines /\ o \in Order
        /\ StockCovers(s, o) /\ RowsFit(s, o)
    <2>1. Reads(d, r)
      BY DEF Reads
    <2>2. SeenFacts(d, r)
      BY <2>1, ReadsSeen
    <2> QED BY <2>2 DEF SeenFacts
  <1>2. /\ e.rows = held.rows /\ e.order = held.order
        /\ \A x \in Order \ {o} : e.line[x] = d.line[x]
        /\ \A z \in Product :
              e.line[o][z].reserved = IF z \in Wanted(d, r)
                                      THEN r.lines[z].reserved + Needed(s, o, z)
                                      ELSE d.line[o][z].reserved
    BY ReserveSeenGood
  <1>3. \A z \in Product : z \notin Wanted(d, r) => ~ (Needed(s, o, z) > 0)
    BY DEF Wanted
  <1> HIDE DEF s, o
  <1>4. held.order = [d.order EXCEPT ![o] = "reserved"] /\ d.order \in OrderTable
    BY <1>1, ReservedOrder, TablesAre DEF Good
  <1>5. ASSUME NEW x \in Order, NEW z \in Product
        PROVE  /\ HeldUnits(held, x, z) = IF x = o THEN HeldUnits(s, o, z) + Needed(s, o, z)
                                          ELSE HeldUnits(s, x, z)
               /\ Needed(s, o, z) \in Nat
    BY <1>1, RowsAdded, HeldFacts DEF Needed
  <1> HIDE DEF held, e
  <1>6. ASSUME NEW x \in Order, NEW z \in Product
        PROVE  /\ HeldUnits(e, x, z) = IF x = o THEN HeldUnits(d, x, z) + Needed(s, o, z)
                                       ELSE HeldUnits(d, x, z)
               /\ HeldUnits(d, x, z) \in Nat
    <2>1. HeldUnits(e, x, z) = HeldUnits(held, x, z) /\ HeldUnits(s, x, z) = HeldUnits(d, x, z)
      BY <1>1, <1>2 DEF HeldUnits, HeldBy
    <2>2. HeldUnits(d, x, z) \in Nat
      BY HeldFacts
    <2> QED BY <1>5, <2>1, <2>2
  <1>7. Blank(e)
    <2>1. ASSUME NEW x \in Order, e.order[x] = "absent"
          PROVE  x # o /\ d.order[x] = "absent"
      BY <1>2, <1>4, <2>1 DEF OrderTable
    <2> QED BY <1>2, <1>6, <2>1 DEF Blank
  <1>8. ASSUME NEW x \in Order, NEW z \in Product, Counted(d, x, z),
               ~ (x = o /\ r.lines[z].reserved # d.line[x][z].reserved)
        PROVE  Counted(e, x, z)
    <2>1. CASE x # o
      BY <1>2, <1>6, <1>8, <2>1 DEF Counted
    <2>2. CASE x = o /\ z \in Wanted(d, r)
      BY <1>2, <1>6, <1>8, <2>2 DEF Counted
    <2>3. CASE x = o /\ z \notin Wanted(d, r)
      <3>1. Needed(s, o, z) = 0
        BY <1>3, <1>5, <2>3
      <3> QED BY <1>2, <1>6, <1>8, <2>3, <3>1 DEF Counted
    <2> QED BY <2>1, <2>2, <2>3
  <1> QED  BY <1>7, <1>8 DEF e, o

\* A pack takes rows of the line it read; the line counts what is left when the copy
\* counted the rows there were.
LEMMA PackSeenCounts ==
    ASSUME NEW d, Good(d), Blank(d), NEW r, r.order \in Order, r.lines \in LineCopies,
           NEW p \in Product, NEW q \in Nat, NEW tie \in TieBreak, NEW c \in Carton, q > 0,
           q <= HeldUnits(d, r.order, p),
           q <= Remaining(Seen(d, r), r.order, p), d.carton[c].status = "absent"
    PROVE  /\ Blank(PackSeen(d, r, p, q, tie, c))
           /\ \A x \in Order, z \in Product :
                 \/ x = r.order /\ r.lines[z].reserved # d.line[x][z].reserved
                 \/ Counted(d, x, z) => Counted(PackSeen(d, r, p, q, tie, c), x, z)
  <1> DEFINE s == Seen(d, r)
             o == r.order
             packed == PackReserved(s, o, p, q, tie, c)
             e == PackSeen(d, r, p, q, tie, c)
  <1>1. /\ Good(s) /\ s.rows = d.rows /\ s.order = d.order /\ s.line[o] = r.lines /\ o \in Order
    <2>1. Reads(d, r)
      BY DEF Reads
    <2>2. SeenFacts(d, r)
      BY <2>1, ReadsSeen
    <2> QED BY <2>2 DEF SeenFacts
  <1>2. /\ e.rows = packed.rows /\ e.order = d.order
        /\ \A x \in Order \ {o} : e.line[x] = d.line[x]
        /\ \A z \in Product \ {p} : e.line[o][z] = d.line[o][z]
        /\ e.line[o][p].reserved = Left(r.lines[p].reserved, q)
    BY PackSeenGood DEF Left
  <1>3. r.lines[p].reserved \in Nat /\ q <= HeldUnits(d, o, p)
    BY MaxUnitsAssumption DEF LineCopies, Units
  <1> HIDE DEF s, o
  <1>4. packed.rows = LeaveRows(s, o, Greedy(HeldBy(s, o, p), RowRank(tie), q))
    <2>1. Reads(d, r)
      BY DEF Reads
    <2> QED BY <2>1, PacksSeen DEF s, o
  <1> HIDE DEF packed, e
  <1>5. ASSUME NEW x \in Order, NEW z \in Product
        PROVE  /\ HeldUnits(e, x, z) = IF x = o /\ z = p THEN Left(HeldUnits(d, o, p), q)
                                       ELSE HeldUnits(d, x, z)
               /\ HeldUnits(d, x, z) \in Nat
    <2>1. e.rows = LeaveRows(s, o, Greedy(HeldBy(s, o, p), RowRank(tie), q))
      BY <1>2, <1>4
    <2>2. HeldUnits(e, x, z) = IF x = o /\ z = p THEN Left(HeldUnits(s, o, p), q)
                               ELSE HeldUnits(s, x, z)
      BY <1>1, <2>1, RowsLeft
    <2>3. HeldUnits(s, x, z) = HeldUnits(d, x, z) /\ HeldUnits(s, o, p) = HeldUnits(d, o, p)
      BY <1>1 DEF HeldUnits, HeldBy
    <2>4. HeldUnits(d, x, z) \in Nat
      BY HeldFacts
    <2> QED BY <2>2, <2>3, <2>4
  <1>6. Blank(e)
    <2>1. ASSUME NEW x \in Order, e.order[x] = "absent", NEW z \in Product
          PROVE  e.line[x][z].reserved = 0 /\ HeldUnits(e, x, z) = 0
      <3>1. d.line[x][z].reserved = 0 /\ HeldUnits(d, x, z) = 0 /\ HeldUnits(d, x, p) = 0
        BY <1>2, <2>1 DEF Blank
      <3>2. x # o
        BY <1>3, <3>1
      <3> QED BY <1>2, <1>5, <3>1, <3>2
    <2> QED BY <2>1 DEF Blank
  <1>7. ASSUME NEW x \in Order, NEW z \in Product, Counted(d, x, z),
               ~ (x = o /\ r.lines[z].reserved # d.line[x][z].reserved)
        PROVE  Counted(e, x, z)
    <2>1. CASE x = o /\ z = p
      BY <1>2, <1>5, <1>7, <2>1 DEF Counted
    <2>2. CASE ~ (x = o /\ z = p)
      <3>1. e.line[x][z] = d.line[x][z]
        BY <1>2, <2>2
      <3> QED BY <1>5, <1>7, <2>2, <3>1 DEF Counted
    <2> QED BY <2>1, <2>2
  <1> QED  BY <1>6, <1>7 DEF e, o

\* A deleted line leaves nothing.
LEMMA DeletedSettles ==
    ASSUME IInv, Blank(db), NEW o \in Order, NEW p \in Product
    PROVE  LET e == DeleteLine(o, p)
           IN  /\ Settles(db, e) /\ e.order = db.order
               /\ \A x \in Order, z \in Product :
                     e.line[x][z] = IF x = o /\ z = p
                                    THEN [quantity |-> 0, reserved |-> 0, prepared |-> 0]
                                    ELSE db.line[x][z]
  <1> DEFINE e == DeleteLine(o, p)
  <1>1. Good(db) /\ db \in Tables /\ db.line \in LineTable /\ db.rows \in RowTable
    BY TablesAre DEF IInv, Good
  <1>2. /\ e.order = db.order
        /\ e.line = [db.line EXCEPT ![o][p] = [quantity |-> 0, reserved |-> 0, prepared |-> 0]]
        /\ e.rows = [l \in Lot |-> [s \in Order \X Slot |->
                       IF s[1] = o /\ ProductOf[l] = p THEN 0 ELSE db.rows[l][s]]]
    BY <1>1 DEF DeleteLine, Tables
  <1> HIDE DEF e
  <1>3. \A x \in Order, z \in Product :
           e.line[x][z] = IF x = o /\ z = p THEN [quantity |-> 0, reserved |-> 0, prepared |-> 0]
                          ELSE db.line[x][z]
    BY <1>1, <1>2 DEF LineTable
  <1>4. ASSUME NEW x \in Order, NEW z \in Product
        PROVE  HeldUnits(e, x, z) = IF x = o /\ z = p THEN 0 ELSE HeldUnits(db, x, z)
    <2> DEFINE f == HeldBy(db, x, z)
               g == HeldBy(e, x, z)
    <2>1. ASSUME NEW r \in Lot \X Slot PROVE g[r] = IF x = o /\ z = p THEN 0 ELSE f[r]
      <3>1. PICK l \in Lot, k \in Slot : r = <<l, k>>
        OBVIOUS
      <3>2. e.rows[l][<<x, k>>] = IF x = o /\ ProductOf[l] = p THEN 0 ELSE db.rows[l][<<x, k>>]
        BY <1>2
      <3>3. /\ g[r] = IF ProductOf[l] = z THEN e.rows[l][<<x, k>>] ELSE 0
            /\ f[r] = IF ProductOf[l] = z THEN db.rows[l][<<x, k>>] ELSE 0
        BY <3>1 DEF HeldBy
      <3> HIDE DEF f, g
      <3> QED BY <3>2, <3>3
    <2>2. /\ g = [r \in Lot \X Slot |-> g[r]] /\ f = [r \in Lot \X Slot |-> f[r]]
          /\ HeldUnits(e, x, z) = Total(g) /\ HeldUnits(db, x, z) = Total(f)
      BY DEF HeldBy, HeldUnits
    <2> HIDE DEF f, g
    <2>3. CASE x = o /\ z = p
      <3>1. g \in [Lot \X Slot -> Units] /\ \A r \in Lot \X Slot : g[r] = 0
        BY <2>1, <2>2, <2>3, MaxUnitsAssumption DEF Units
      <3> QED BY <2>2, <2>3, <3>1, ConstantsAssumption, FS_Product, TotalZero
    <2>4. CASE ~ (x = o /\ z = p)
      <3>1. g = f
        BY <2>1, <2>2, <2>4
      <3> QED BY <2>2, <2>4, <3>1
    <2> QED BY <2>3, <2>4
  <1>5. Settles(db, e)
    BY <1>2, <1>3, <1>4 DEF Settles, CountsKept, Counted, Blank
  <1> QED  BY <1>2, <1>3, <1>5 DEF e

\* The requests on stock and on cartons write no reservation, line or order.
LEMMA ShelvesOnly ==
    ASSUME IInv, StockStep \/ CartonStep
    PROVE  db'.rows = db.rows /\ db'.line = db.line /\ db'.order = db.order /\ txn' = txn
  <1>0. Good(db) /\ db \in Tables
    BY DEF IInv, Good
  <1>1. CASE StockStep
    BY <1>0, <1>1 DEF StockStep, ReceiveStock, ReleaseQuarantine, AdjustStock, StockOut,
                      ConsumeStock, Quiet, Tables
  <1>2. ASSUME NEW c \in Carton, NEW p \in Product, NEW q \in Units, NEW s \in Order \cup {None},
               PackCarton(c, p, q, s)
        PROVE  db'.rows = db.rows /\ db'.line = db.line /\ db'.order = db.order /\ txn' = txn
    <2> DEFINE e == ConsumeStock(db, p, q)
    <2>1. e \in Tables
      BY <1>0, ConsumeStockGood, MaxUnitsAssumption DEF Good, Units
    <2>2. e.rows = db.rows /\ e.line = db.line /\ e.order = db.order
      BY <1>0 DEF ConsumeStock, Tables
    <2>3. db'.rows = e.rows /\ db'.line = e.line /\ db'.order = e.order /\ txn' = txn
      <3> HIDE DEF e
      <3> QED BY <1>2, <2>1 DEF PackCarton, Quiet, Tables, e
    <2> QED BY <2>2, <2>3
  <1>3. ASSUME NEW c \in Carton, UnpackCarton(c) \/ DeleteCarton(c)
        PROVE  db'.rows = db.rows /\ db'.line = db.line /\ db'.order = db.order /\ txn' = txn
    <2> DEFINE e == Unpacked(db, c)
    <2>1. e.rows = db.rows /\ e.line = db.line /\ e.order = db.order
      BY <1>0 DEF Unpacked, Tables
    <2>2. CASE UnpackCarton(c)
      BY <2>1, <2>2 DEF UnpackCarton, Quiet
    <2>3. CASE DeleteCarton(c) /\ db.carton[c].items # NoItems
      <3>1. e \in Tables
        BY <1>0, <2>3, UnpackedGood DEF DeleteCarton, Good
      <3>2. db'.rows = e.rows /\ db'.line = e.line /\ db'.order = e.order /\ txn' = txn
        <4> HIDE DEF e
        <4> QED BY <2>3, <3>1 DEF DeleteCarton, Quiet, Tables, e
      <3> QED BY <2>1, <3>2
    <2>4. CASE DeleteCarton(c) /\ db.carton[c].items = NoItems
      BY <1>0, <2>4 DEF DeleteCarton, Quiet, Tables
    <2> QED BY <1>3, <2>2, <2>3, <2>4
  <1>4. ASSUME NEW c \in Carton, NEW st \in CartonStatus, UpdateCartonStatus(c, st)
        PROVE  db'.rows = db.rows /\ db'.line = db.line /\ db'.order = db.order /\ txn' = txn
    BY <1>0, <1>4 DEF UpdateCartonStatus, Quiet, Tables
  <1> QED  BY <1>1, <1>2, <1>3, <1>4 DEF CartonStep

\* The requests on paper that keep the rows and what the lines count as reserved:
\* all of them but the undo of a new line.
LEMMA PaperKeepsPromises ==
    ASSUME IInv, PaperStep
    PROVE  \/ SamePromises(db, db')
           \/ \E o \in Order, p \in Product : db' = DeleteLine(o, p)
  <1>0. /\ db \in Tables /\ db.line \in LineTable /\ db.order \in OrderTable
    BY TablesAre DEF IInv, TypeOK
  <1>1. ASSUME db'.rows = db.rows, db'.line = db.line, db'.order = db.order
        PROVE  SamePromises(db, db')
    BY <1>1 DEF SamePromises
  <1>2. ASSUME NEW c \in Carton, NEW st \in CartonStatus, UpdateCartonStatus(c, st)
        PROVE  SamePromises(db, db')
    BY <1>0, <1>1, <1>2 DEF UpdateCartonStatus, Tables
  <1>3. ASSUME NEW o \in Order, CreateOrder(o) PROVE SamePromises(db, db')
    <2>1. db'.rows = db.rows /\ db'.line = db.line /\ db'.order = [db.order EXCEPT ![o] = "draft"]
      BY <1>0, <1>3 DEF CreateOrder, Tables
    <2> QED BY <1>0, <2>1 DEF SamePromises, OrderTable
  <1>4. ASSUME NEW o \in Order, PrepareBegin(o) PROVE SamePromises(db, db')
    BY <1>1, <1>4 DEF PrepareBegin
  <1>5. ASSUME NEW o \in Order, NEW c \in Carton, EditRemoveCarton(o, c) \/ EditAddCarton(o, c)
        PROVE  SamePromises(db, db')
    BY <1>0, <1>1, <1>5 DEF EditRemoveCarton, EditAddCarton, Tables
  <1>6. CASE StartPacking
    BY <1>1, <1>6 DEF StartPacking
  <1>7. CASE PrepareFinish
    <2>1. /\ db'.rows = db.rows /\ db'.line = db.line
          /\ db'.order = [db.order EXCEPT ![txn.order] = "ready"]
      BY <1>0, <1>7 DEF PrepareFinish, Tables
    <2> QED BY <1>0, <2>1 DEF SamePromises, OrderTable
  <1>8. CASE ShipmentStep
    BY <1>0, <1>1, <1>8 DEF ShipmentStep, ShipmentPlanned, ShipmentShipped, ShipmentDisputed,
                            DisputeResolved, SetCartons, Tables
  <1>9. CASE RequestStart
    BY <1>1, <1>9 DEF RequestStart, ReserveOrder, ReadLines, EditRead, AddLineRead
  <1>10. ASSUME NEW o, NEW p, NEW n, db' = [db EXCEPT !.line[o][p].quantity = n]
         PROVE  SamePromises(db, db')
    <2>1. /\ db'.rows = db.rows /\ db'.order = db.order
          /\ db'.line = [db.line EXCEPT ![o][p].quantity = n]
      BY <1>0, <1>10 DEF Tables
    <2>2. ASSUME NEW x \in Order, NEW z \in Product
          PROVE  db'.line[x][z].reserved = db.line[x][z].reserved
      BY <1>0, <2>1 DEF LineTable
    <2> QED BY <2>1, <2>2 DEF SamePromises
  <1>11. ASSUME NEW k \in Clerk, AddLineSave(k) PROVE SamePromises(db, db')
    BY <1>10, <1>11 DEF AddLineSave
  <1>12. ASSUME NEW k \in Clerk, AddLineUndo(k)
         PROVE  \/ SamePromises(db, db')
                \/ \E o \in Order, p \in Product : db' = DeleteLine(o, p)
    <2> DEFINE a == request[k]
    <2>1. a.order \in Order /\ a.product \in Product
      <3>1. a \in RequestState /\ a.pc = "short"
        BY <1>12 DEF AddLineUndo, IInv, TypeOK
      <3> HIDE DEF a
      <3> QED BY <3>1, RequestKinds DEF SavedLine
    <2>2. \/ db' = [db EXCEPT !.line[a.order][a.product].quantity = a.previous]
          \/ db' = DeleteLine(a.order, a.product)
      BY <1>12 DEF AddLineUndo
    <2> HIDE DEF a
    <2>3. CASE db' = [db EXCEPT !.line[a.order][a.product].quantity = a.previous]
      BY <1>10, <2>3
    <2>4. CASE db' = DeleteLine(a.order, a.product)
      BY <2>1, <2>4
    <2> QED BY <2>2, <2>3, <2>4
  <1>13. ASSUME NEW k \in Clerk,
                AddLineReserve(k) \/ ReserveShort(k) \/ ReserveLost(k) \/ EditRefused(k)
                    \/ RequestCrash(k)
         PROVE  SamePromises(db, db')
    BY <1>1, <1>13 DEF AddLineReserve, ReadLines, ReserveShort, ReserveLost, EditRefused,
                       RequestCrash
  <1> QED  BY <1>2, <1>3, <1>4, <1>5, <1>6, <1>7, <1>8, <1>9, <1>11, <1>12, <1>13
              DEF PaperStep, RequestPaper

\* No request on an order starts, goes on or dies inside prepare_order.
LEMMA RequestsOutside ==
    ASSUME RequestStart \/ RequestStep \/ \E k \in Clerk : RequestCrash(k)
    PROVE  txn = None /\ txn' = None
  <1>1. CASE RequestStart
    BY <1>1 DEF RequestStart, ReserveOrder, ReadLines, EditRead, AddLineRead
  <1>2. ASSUME NEW k \in Clerk,
               \/ AddLineSave(k) \/ AddLineReserve(k) \/ AddLineUndo(k)
               \/ ReserveCommit(k) \/ ReserveShort(k) \/ ReserveLost(k)
               \/ EditRefused(k) \/ RequestCrash(k)
        PROVE  txn = None /\ txn' = None
    <2>1. CASE AddLineSave(k) \/ AddLineReserve(k) \/ AddLineUndo(k)
      BY <2>1 DEF AddLineSave, AddLineReserve, ReadLines, AddLineUndo
    <2>2. CASE ReserveCommit(k) \/ ReserveShort(k) \/ ReserveLost(k)
      BY <2>2 DEF ReserveCommit, ReserveShort, ReserveLost
    <2>3. CASE EditRefused(k) \/ RequestCrash(k)
      BY <2>3 DEF EditRefused, RequestCrash
    <2> QED BY <1>2, <2>1, <2>2, <2>3
  <1>3. ASSUME NEW k \in Clerk, NEW p \in Product, NEW q \in Units, NEW c \in Carton,
               NEW tie \in TieBreak, EditPackReserved(k, p, q, c, tie)
        PROVE  txn = None /\ txn' = None
    BY <1>3 DEF EditPackReserved
  <1> QED  BY <1>1, <1>2, <1>3 DEF RequestStep

\* What prepare_order keeps to come back to.
LEMMA SavedTables ==
    ASSUME IInv, Overlap
    PROVE  \/ \E o \in Order : PrepareBegin(o)
           \/ txn' = None
           \/ txn # None /\ txn'.saved = txn.saved /\ txn'.order = txn.order
  <1>1. CASE StockStep \/ CartonStep \/ OrderStep
    <2>1. CASE StockStep
      BY <2>1 DEF StockStep, ReceiveStock, ReleaseQuarantine, AdjustStock, StockOut, Quiet
    <2>2. CASE CartonStep
      BY <2>2 DEF CartonStep, PackCarton, UnpackCarton, DeleteCarton, UpdateCartonStatus, Quiet
    <2>3. CASE OrderStep
      <3>1. CASE \E o \in Order : CreateOrder(o)
        BY <3>1 DEF CreateOrder, Quiet
      <3>2. ASSUME NEW o \in Order, NEW demand \in [Product -> Units], NEW ready \in SUBSET Carton,
                   PlaceOrder(o, demand, ready)
            PROVE  txn' = None
        BY <3>2 DEF PlaceOrder, Quiet
      <3>3. CASE \E o \in Order, c \in Carton : EditRemoveCarton(o, c) \/ EditAddCarton(o, c)
        BY <3>3 DEF EditRemoveCarton, EditAddCarton, Quiet
      <3> QED BY <2>3, <3>1, <3>2, <3>3 DEF OrderStep
    <2> QED BY <1>1, <2>1, <2>2, <2>3
  <1>2. CASE PrepareStep
    <2>1. txn # None => txn \in PrepareState
      BY DEF IInv, TypeOK
    <2>2. CASE \E c \in Carton, p \in Product, tie \in TieBreak : AssignReadyCarton(c, p, tie)
      BY <2>2 DEF AssignReadyCarton
    <2>3. ASSUME NEW p \in Product, NEW q \in Units, NEW c \in Carton, NEW tie \in TieBreak,
                 PackBinEntry(p, q, c, tie)
          PROVE  txn # None /\ txn'.saved = txn.saved /\ txn'.order = txn.order
      <3>1. txn # None /\ txn' = [txn EXCEPT !.bin = c]
        BY <2>3 DEF PackBinEntry
      <3> QED BY <2>1, <3>1 DEF PrepareState
    <2>4. CASE StartPacking
      <3>1. txn # None /\ txn' = [txn EXCEPT !.stage = "pack"]
        BY <2>4 DEF StartPacking
      <3> QED BY <2>1, <3>1 DEF PrepareState
    <2>5. CASE PrepareFinish \/ PackingErrors \/ ReservationShort
      BY <2>5 DEF PrepareFinish, PackingErrors, ReservationShort, Rollback
    <2> QED BY <1>2, <2>2, <2>3, <2>4, <2>5 DEF PrepareStep
  <1>3. CASE ShipmentStep \/ RequestStart \/ RequestStep \/ \E k \in Clerk : RequestCrash(k)
    <2>1. CASE ShipmentStep
      BY <2>1 DEF ShipmentStep, ShipmentPlanned, ShipmentShipped, ShipmentDisputed, DisputeResolved
    <2>2. CASE RequestStart \/ RequestStep \/ \E k \in Clerk : RequestCrash(k)
      BY <2>2, RequestsOutside
    <2> QED BY <1>3, <2>1, <2>2
  <1> QED  BY <1>1, <1>2, <1>3 DEF Overlap, OtherStep

\* What runs inside prepare_order is prepare_order.
LEMMA InsidePrepare ==
    ASSUME Overlap, txn # None
    PROVE  PrepareStep
  <1>1. ~ StockStep
    BY DEF StockStep, ReceiveStock, ReleaseQuarantine, AdjustStock, StockOut, Quiet
  <1>2. ~ CartonStep
    BY DEF CartonStep, PackCarton, UnpackCarton, DeleteCarton, UpdateCartonStatus, Quiet
  <1>3. ~ OrderStep
    <2>1. ASSUME NEW o \in Order, NEW demand \in [Product -> Units], NEW ready \in SUBSET Carton,
                 PlaceOrder(o, demand, ready)
          PROVE  FALSE
      BY <2>1 DEF PlaceOrder, Quiet
    <2> QED BY <2>1 DEF OrderStep, CreateOrder, EditRemoveCarton, EditAddCarton, Quiet
  <1>4. ~ ShipmentStep
    BY DEF ShipmentStep, ShipmentPlanned, ShipmentShipped, ShipmentDisputed, DisputeResolved
  <1>5. ~ (RequestStart \/ RequestStep \/ \E k \in Clerk : RequestCrash(k))
    BY RequestsOutside
  <1> QED  BY <1>1, <1>2, <1>3, <1>4, <1>5 DEF Overlap, OtherStep

\* The lines of orders not yet made are blank, and what prepare_order has done so far
\* keeps the lines counting that counted when it began.
CountInv == Blank(db) /\ (txn # None => Blank(txn.saved) /\ CountsKept(txn.saved, db))

LEMMA PlacedSettles ==
    ASSUME IInv, Blank(db), NEW o \in Order, NEW demand \in [Product -> Units],
           NEW ready \in SUBSET Carton, PlaceOrder(o, demand, ready)
    PROVE  Settles(db, db')
  <1>1. PICK d \in Tables : PlacedFrom(d, o, demand)
    BY PlacedOrder
  <1>2. Good(db) /\ db.line \in LineTable /\ db.order[o] = "absent"
    BY TablesAre DEF IInv, Good, PlaceOrder
  <1>3. /\ Good(d) /\ StockCovers(d, o) /\ RowsFit(d, o) /\ d.rows = db.rows
        /\ d.line = [db.line EXCEPT ![o] = [p \in Product |->
                        [quantity |-> demand[p], reserved |-> 0, prepared |-> 0]]]
    BY <1>1 DEF PlacedFrom
  <1>4. CountsKept(db, d)
    <2>1. ASSUME NEW x \in Order, NEW z \in Product, Counted(db, x, z) PROVE Counted(d, x, z)
      <3>1. HeldUnits(d, x, z) = HeldUnits(db, x, z)
        BY <1>3 DEF HeldUnits, HeldBy
      <3>2. db.line[x][z].reserved = HeldUnits(db, x, z) /\ (x = o => db.line[x][z].reserved = 0)
        BY <1>2, <2>1 DEF Counted, Blank
      <3>3. d.line[x][z].reserved = IF x = o THEN 0 ELSE db.line[x][z].reserved
        BY <1>2, <1>3 DEF LineTable
      <3> QED BY <3>1, <3>2, <3>3 DEF Counted
    <2> QED BY <2>1 DEF CountsKept
  <1> DEFINE e == Reserve(d, o)
  <1>5. CountsKept(d, e)
    BY <1>3, ReserveCounts
  <1>6. ASSUME NEW x \in Order, NEW z \in Product PROVE db'.line[x][z].reserved = e.line[x][z].reserved
    BY <1>1 DEF PlacedFrom
  <1>7. db'.rows = e.rows /\ db'.order[o] # "absent"
        /\ \A x \in Order \ {o} : db'.order[x] = db.order[x]
    BY <1>1 DEF PlacedFrom
  <1>8. ASSUME NEW x \in Order, x # o, NEW z \in Product
        PROVE  /\ db'.line[x][z].reserved = db.line[x][z].reserved
               /\ HeldUnits(e, x, z) = HeldUnits(db, x, z)
    <2>1. e.line[x][z].reserved = d.line[x][z].reserved /\ HeldUnits(e, x, z) = HeldUnits(d, x, z)
      <3>1. Good(d) /\ StockCovers(d, o) /\ RowsFit(d, o)
        BY <1>3
      <3> QED BY <1>8, <3>1, ReservedLines, RowsAdded
    <2>2. d.line[x][z] = db.line[x][z]
      BY <1>2, <1>3, <1>8 DEF LineTable
    <2>3. HeldUnits(d, x, z) = HeldUnits(db, x, z)
      BY <1>3 DEF HeldUnits, HeldBy
    <2> QED BY <1>6, <2>1, <2>2, <2>3
  <1> HIDE DEF e
  <1>9. ASSUME NEW x \in Order, NEW z \in Product PROVE HeldUnits(db', x, z) = HeldUnits(e, x, z)
    BY <1>7 DEF HeldUnits, HeldBy
  <1>10. CountsKept(db, db')
    BY <1>4, <1>5, <1>6, <1>9 DEF CountsKept, Counted
  <1>11. Blank(db')
    BY <1>7, <1>8, <1>9 DEF Blank
  <1> QED  BY <1>10, <1>11 DEF Settles

\* One turn of the loop over the ready cartons.
LEMMA AssignedSettles ==
    ASSUME IInv, Blank(db), NEW c \in Carton, NEW p \in Product, NEW tie \in TieBreak,
           AssignReadyCarton(c, p, tie)
    PROVE  Settles(db, db')
  <1> DEFINE q == CartonUnits(db, c, p)
             o == txn.order
  <1>1. PICK d \in Tables : AssignedFrom(d, c, p, tie)
    BY AssignedCarton
  <1>2. o \in Order /\ q \in Nat /\ db.line \in LineTable
    BY AssignedCarton, TablesAre DEF IInv, Good
  <1>3. /\ Good(d) /\ d.rows = db.rows /\ d.order = db.order
        /\ d.line = [db.line EXCEPT ![o][p].prepared = @ + q]
        /\ db' = d \/ db' = ReleaseReserved(d, o, p, q, tie)
    BY <1>1 DEF AssignedFrom
  <1> HIDE DEF o, q
  <1>4. \A x \in Order, z \in Product : d.line[x][z].reserved = db.line[x][z].reserved
    BY <1>2, <1>3 DEF LineTable
  <1>5. Settles(db, d)
    BY <1>3, <1>4, PromisesKept DEF SamePromises
  <1>6. db' = d \/ Settles(d, db')
    <2>1. Good(d) /\ Blank(d)
      BY <1>3, <1>5 DEF Settles
    <2> QED BY <1>2, <1>3, <2>1, ReleaseSettles
  <1> QED  BY <1>5, <1>6 DEF Settles, CountsKept

LEMMA PaperSettles ==
    ASSUME IInv, Blank(db), PaperStep
    PROVE  Settles(db, db')
  <1>1. CASE SamePromises(db, db')
    BY <1>1, PromisesKept
  <1>2. ASSUME NEW o \in Order, NEW p \in Product, db' = DeleteLine(o, p)
        PROVE  Settles(db, db')
    BY <1>2, DeletedSettles
  <1> QED  BY <1>1, <1>2, PaperKeepsPromises

LEMMA PrepareSettles ==
    ASSUME IInv, Blank(db), PrepareStep, ~ PackingErrors, ~ ReservationShort
    PROVE  Settles(db, db')
  <1>1. CASE PaperStep
    BY <1>1, PaperSettles
  <1>2. ASSUME NEW c \in Carton, NEW p \in Product, NEW tie \in TieBreak,
               AssignReadyCarton(c, p, tie)
        PROVE  Settles(db, db')
    BY <1>2, AssignedSettles
  <1>3. ASSUME NEW p \in Product, NEW q \in Units, NEW c \in Carton, NEW tie \in TieBreak,
               PackBinEntry(p, q, c, tie)
        PROVE  Settles(db, db')
    <2>1. txn.order \in Order /\ Good(db) /\ q \in Nat
      BY <1>3, MaxUnitsAssumption DEF PackBinEntry, IInv, TypeOK, PrepareState, Units
    <2>2. db' = PackReserved(db, txn.order, p, q, tie, c)
      BY <1>3 DEF PackBinEntry
    <2> QED BY <2>1, <2>2, PackSettles
  <1> QED  BY <1>1, <1>2, <1>3 DEF PrepareStep, PaperStep

\* A line that counted its rows before the step and not after it.
OnlyStale(d, e) ==
    \A o \in Order, p \in Product :
        Counted(d, o, p) /\ ~ Counted(e, o, p) => \E k \in Clerk : StaleSave(k, o, p)

LEMMA SettlesStale ==
    ASSUME NEW d, NEW e, Settles(d, e)
    PROVE  Blank(e) /\ OnlyStale(d, e)
  BY DEF Settles, CountsKept, OnlyStale

LEMMA ReserveStale ==
    ASSUME IInv, Blank(db), NEW k \in Clerk, ReserveCommit(k)
    PROVE  Blank(db') /\ OnlyStale(db, db')
  <1> DEFINE r == request[k]
  <1>1. /\ Good(db) /\ r.order \in Order /\ r.lines \in LineCopies
        /\ r.pc = "reserving" /\ request'[k] = Idle /\ db' = ReserveSeen(db, r)
        /\ StockCovers(Seen(db, r), r.order) /\ RowsFit(Seen(db, r), r.order)
    BY ReserveCommits DEF IInv
  <1> HIDE DEF r
  <1>2. /\ Blank(ReserveSeen(db, r))
        /\ \A x \in Order, z \in Product :
              \/ x = r.order /\ r.lines[z].reserved # db.line[x][z].reserved
              \/ Counted(db, x, z) => Counted(ReserveSeen(db, r), x, z)
    BY <1>1, ReserveSeenCounts
  <1>3. ASSUME NEW x \in Order, NEW z \in Product, Counted(db, x, z), ~ Counted(db', x, z)
        PROVE  StaleSave(k, x, z)
    <2>1. r.pc = "reserving" /\ r.order = x /\ r.lines[z].reserved # db.line[x][z].reserved
      BY <1>1, <1>2, <1>3
    <2> QED BY <1>1, <2>1 DEF StaleSave, r
  <1> QED  BY <1>1, <1>2, <1>3 DEF OnlyStale

LEMMA EditStale ==
    ASSUME IInv, Blank(db), NEW k \in Clerk, NEW p \in Product, NEW q \in Units, NEW c \in Carton,
           NEW tie \in TieBreak, EditPackReserved(k, p, q, c, tie)
    PROVE  Blank(db') /\ OnlyStale(db, db')
  <1> DEFINE r == request[k]
  <1>1. /\ Good(db) /\ r.order \in Order /\ r.lines \in LineCopies
        /\ r.pc = "editing" /\ request'[k] = Idle /\ db' = PackSeen(db, r, p, q, tie, c)
        /\ q \in Nat /\ q > 0 /\ q <= HeldUnits(db, r.order, p)
        /\ q <= Remaining(Seen(db, r), r.order, p) /\ db.carton[c].status = "absent"
    BY EditPacks DEF IInv
  <1> HIDE DEF r
  <1>2. /\ Blank(PackSeen(db, r, p, q, tie, c))
        /\ \A x \in Order, z \in Product :
              \/ x = r.order /\ r.lines[z].reserved # db.line[x][z].reserved
              \/ Counted(db, x, z) => Counted(PackSeen(db, r, p, q, tie, c), x, z)
    BY <1>1, PackSeenCounts
  <1>3. ASSUME NEW x \in Order, NEW z \in Product, Counted(db, x, z), ~ Counted(db', x, z)
        PROVE  StaleSave(k, x, z)
    <2>1. r.pc = "editing" /\ r.order = x /\ r.lines[z].reserved # db.line[x][z].reserved
      BY <1>1, <1>2, <1>3
    <2> QED BY <1>1, <2>1 DEF StaleSave, r
  <1> QED  BY <1>1, <1>2, <1>3 DEF OnlyStale

\* What requests do outside prepare_order.
LEMMA OutsideStale ==
    ASSUME IInv, Blank(db), Overlap, txn = None
    PROVE  Blank(db') /\ OnlyStale(db, db')
  <1>1. CASE PaperStep
    BY <1>1, PaperSettles, SettlesStale
  <1>2. CASE StockStep \/ CartonStep
    <2>1. SamePromises(db, db')
      BY <1>2, ShelvesOnly DEF SamePromises
    <2> QED BY <2>1, PromisesKept, SettlesStale
  <1>3. ASSUME NEW o \in Order, NEW demand \in [Product -> Units], NEW ready \in SUBSET Carton,
               PlaceOrder(o, demand, ready)
        PROVE  Blank(db') /\ OnlyStale(db, db')
    BY <1>3, PlacedSettles, SettlesStale
  <1>4. CASE OrderStep
    BY <1>1, <1>3, <1>4 DEF OrderStep, PaperStep
  <1>5. CASE PrepareStep
    <2>1. \E o \in Order : PrepareBegin(o)
      BY <1>5 DEF PrepareStep, AssignReadyCarton, StartPacking, PackBinEntry, PrepareFinish,
                  PackingErrors, ReservationShort
    <2> QED BY <1>1, <2>1 DEF PaperStep
  <1>6. CASE ShipmentStep \/ RequestStart
    BY <1>1, <1>6 DEF PaperStep
  <1>7. ASSUME NEW k \in Clerk, ReserveCommit(k) PROVE Blank(db') /\ OnlyStale(db, db')
    BY <1>7, ReserveStale
  <1>8. ASSUME NEW k \in Clerk, NEW p \in Product, NEW q \in Units, NEW c \in Carton,
               NEW tie \in TieBreak, EditPackReserved(k, p, q, c, tie)
        PROVE  Blank(db') /\ OnlyStale(db, db')
    BY <1>8, EditStale
  <1>9. CASE RequestStep \/ \E k \in Clerk : RequestCrash(k)
    BY <1>1, <1>7, <1>8, <1>9 DEF RequestStep, PaperStep, RequestPaper
  <1> QED  BY <1>2, <1>4, <1>5, <1>6, <1>9 DEF Overlap, OtherStep

LEMMA CountSteps ==
    ASSUME IInv, CountInv, Overlap
    PROVE  CountInv' /\ OnlyStale(Committed, Committed')
  <1>0. Blank(db)
    BY DEF CountInv
  <1>1. CASE txn = None /\ txn' = None
    <2>1. Blank(db') /\ OnlyStale(db, db')
      BY <1>0, <1>1, OutsideStale
    <2> QED BY <1>1, <2>1 DEF CountInv, Committed
  <1>2. CASE txn = None /\ txn' # None
    <2>1. PICK o \in Order : PrepareBegin(o)
      BY <1>2, SavedTables
    <2>2. db' = db /\ txn'.saved = db
      BY <2>1 DEF PrepareBegin
    <2>3. Committed = db /\ Committed' = db
      BY <1>2, <2>2 DEF Committed
    <2>4. CountsKept(db, db) /\ OnlyStale(db, db)
      BY DEF CountsKept, OnlyStale
    <2>5. OnlyStale(Committed, Committed')
      BY <2>3, <2>4
    <2> QED BY <1>0, <2>2, <2>4, <2>5 DEF CountInv
  <1>3. CASE txn # None
    <2>1. PrepareStep /\ Blank(txn.saved) /\ CountsKept(txn.saved, db) /\ Committed = txn.saved
      BY <1>3, InsidePrepare DEF CountInv, Committed
    <2>2. CASE PackingErrors \/ ReservationShort
      <3>1. db' = txn.saved /\ txn' = None
        BY <2>2 DEF PackingErrors, ReservationShort, Rollback
      <3>2. Committed' = txn.saved
        BY <3>1 DEF Committed
      <3>3. OnlyStale(txn.saved, txn.saved)
        BY DEF OnlyStale
      <3>4. OnlyStale(Committed, Committed')
        BY <2>1, <3>2, <3>3
      <3> QED BY <2>1, <3>1, <3>4 DEF CountInv
    <2>3. CASE ~ PackingErrors /\ ~ ReservationShort
      <3>1. Blank(db') /\ CountsKept(db, db')
        BY <1>0, <2>1, <2>3, PrepareSettles DEF Settles
      <3>2. CountsKept(txn.saved, db')
        BY <2>1, <3>1 DEF CountsKept
      <3>3. CASE txn' = None
        <4>1. Committed' = db'
          BY <3>3 DEF Committed
        <4>2. OnlyStale(txn.saved, db')
          BY <3>2 DEF CountsKept, OnlyStale
        <4>3. OnlyStale(Committed, Committed')
          BY <2>1, <4>1, <4>2
        <4> QED BY <3>1, <3>3, <4>3 DEF CountInv
      <3>4. CASE txn' # None
        <4>1. txn'.saved = txn.saved
          <5>1. ASSUME NEW o \in Order PROVE ~ PrepareBegin(o)
            BY <1>3 DEF PrepareBegin
          <5> QED BY <3>4, <5>1, SavedTables
        <4>2. Committed' = txn.saved
          BY <3>4, <4>1 DEF Committed
        <4>3. OnlyStale(txn.saved, txn.saved)
          BY DEF OnlyStale
        <4>4. OnlyStale(Committed, Committed')
          BY <2>1, <4>2, <4>3
        <4> QED BY <2>1, <3>1, <3>2, <4>1, <4>4 DEF CountInv
      <3> QED BY <3>3, <3>4
    <2> QED BY <2>2, <2>3
  <1> QED  BY <1>1, <1>2, <1>3

LEMMA BlankInit ==
    ASSUME Init
    PROVE  CountInv /\ \A o \in Order, p \in Product : Counted(db, o, p)
  <1>1. /\ db.rows = [l \in Lot |-> [s \in Order \X Slot |-> 0]]
        /\ db.line = [o \in Order |-> [p \in Product |->
                         [quantity |-> 0, reserved |-> 0, prepared |-> 0]]]
        /\ txn = None
    BY DEF Init
  <1>2. ASSUME NEW o \in Order, NEW p \in Product PROVE HeldUnits(db, o, p) = 0
    <2> DEFINE f == HeldBy(db, o, p)
    <2>1. \A r \in Lot \X Slot : f[r] = 0
      BY <1>1 DEF HeldBy
    <2>2. f = [r \in Lot \X Slot |-> f[r]]
      BY DEF HeldBy
    <2>3. HeldUnits(db, o, p) = Total(f)
      BY DEF HeldUnits
    <2> HIDE DEF f
    <2>4. f \in [Lot \X Slot -> Units]
      BY <2>1, <2>2, MaxUnitsAssumption DEF Units
    <2> QED BY <2>1, <2>3, <2>4, ConstantsAssumption, FS_Product, TotalZero
  <1>3. \A o \in Order, p \in Product : db.line[o][p].reserved = 0
    BY <1>1
  <1> QED  BY <1>1, <1>2, <1>3 DEF CountInv, Blank, Counted

LEMMA AlwaysCounting == OverlapSpec => []CountInv
  <1>1. Init => CountInv
    BY BlankInit
  <1>2. IInv /\ CountInv /\ [Overlap]_vars => CountInv'
    <2>1. CASE UNCHANGED vars
      <3>1. db' = db /\ txn' = txn
        BY <2>1 DEF vars
      <3> QED BY <3>1 DEF CountInv
    <2> QED BY <2>1, CountSteps
  <1> QED  BY <1>1, <1>2, OverlapInvariant, PTL DEF OverlapSpec

\* A line whose reserved_quantity counts its reservation rows keeps counting them, also
\* through prepare_order and its rollback, until a reservation or a shipment edit saves a
\* copy of the line that another request has made stale.
THEOREM OnlyStaleCopiesLoseCount == OverlapSpec => OnlyStaleCopiesMiscount
  <1>1. IInv /\ CountInv /\ [Overlap]_vars =>
          [\A o \in Order, p \in Product :
              Counted(Committed, o, p) /\ ~ Counted(Committed, o, p)'
              => \E k \in Clerk : StaleSave(k, o, p)]_vars
    <2> SUFFICES ASSUME IInv, CountInv, Overlap, NEW o \in Order, NEW p \in Product,
                        Counted(Committed, o, p), ~ Counted(Committed, o, p)'
                 PROVE  \E k \in Clerk : StaleSave(k, o, p)
      OBVIOUS
    <2>1. ~ Counted(Committed', o, p)
      OBVIOUS
    <2> QED BY <2>1, CountSteps DEF OnlyStale
  <1> QED  BY <1>1, OverlapInvariant, AlwaysCounting, PTL DEF OverlapSpec, OnlyStaleCopiesMiscount

\* An order that prepare_order takes has all it still lacks reserved.
Promised == {"reserved", "preparing"}
CoveredBut(d, S) ==
    \A o \in Order \ S : d.order[o] \in Promised =>
        \A p \in Product : Remaining(d, o, p) <= d.line[o][p].reserved
Covered(d) == CoveredBut(d, {})

\* Tables with the lines of d, where no other order may be prepared.
SameLines(d, e) ==
    /\ \A o \in Order : e.order[o] \in Promised => d.order[o] \in Promised
    /\ \A o \in Order, p \in Product :
          /\ e.line[o][p].quantity = d.line[o][p].quantity
          /\ e.line[o][p].reserved = d.line[o][p].reserved
          /\ e.line[o][p].prepared = d.line[o][p].prepared

LEMMA CoveredKept ==
    ASSUME NEW d, NEW e, Covered(d), SameLines(d, e)
    PROVE  Covered(e)
  BY DEF Covered, CoveredBut, SameLines, Remaining

\* Lines of o given all they lack.
LEMMA ReserveCovers ==
    ASSUME NEW d, Good(d), NEW o \in Order, CoveredBut(d, {o}), NEW e,
           e.order = [d.order EXCEPT ![o] = "reserved"],
           \A x \in Order, z \in Product :
              /\ e.line[x][z].quantity = d.line[x][z].quantity
              /\ e.line[x][z].prepared = d.line[x][z].prepared
              /\ e.line[x][z].reserved =
                    IF x = o THEN d.line[x][z].reserved + Needed(d, o, z) ELSE d.line[x][z].reserved
    PROVE  Covered(e)
  <1>1. d.order \in OrderTable
    BY TablesAre DEF Good
  <1>2. ASSUME NEW x \in Order, e.order[x] \in Promised, NEW z \in Product
        PROVE  Remaining(e, x, z) <= e.line[x][z].reserved
    <2>1. /\ d.line[x][z].quantity \in Nat /\ d.line[x][z].reserved \in Nat
          /\ d.line[x][z].prepared \in Nat
      BY HeldFacts
    <2>2. Remaining(e, x, z) = Remaining(d, x, z)
      BY DEF Remaining
    <2>3. CASE x = o
      BY <2>1, <2>2, <2>3 DEF Remaining, Needed
    <2>4. CASE x # o
      <3>1. d.order[x] \in Promised
        BY <1>1, <1>2, <2>4 DEF OrderTable
      <3> QED BY <2>2, <2>4, <3>1 DEF CoveredBut
    <2> QED BY <2>3, <2>4
  <1> QED  BY <1>2 DEF Covered, CoveredBut

\* Reserved units of one line made prepared.
LEMMA PackCovers ==
    ASSUME NEW d, Good(d), Covered(d), NEW o \in Order, NEW p \in Product, NEW q \in Nat, NEW e,
           e.order = d.order,
           \A x \in Order, z \in Product :
              /\ ~ (x = o /\ z = p) => e.line[x][z] = d.line[x][z]
              /\ x = o /\ z = p => /\ e.line[x][z].quantity = d.line[x][z].quantity
                                   /\ e.line[x][z].reserved = Left(d.line[x][z].reserved, q)
                                   /\ e.line[x][z].prepared = d.line[x][z].prepared + q
    PROVE  Covered(e)
  <1>1. ASSUME NEW x \in Order, e.order[x] \in Promised, NEW z \in Product
        PROVE  Remaining(e, x, z) <= e.line[x][z].reserved
    <2>1. /\ d.line[x][z].quantity \in Nat /\ d.line[x][z].reserved \in Nat
          /\ d.line[x][z].prepared \in Nat
      BY HeldFacts
    <2>2. Remaining(d, x, z) <= d.line[x][z].reserved
      BY <1>1 DEF Covered, CoveredBut
    <2>3. CASE x = o /\ z = p
      <3>1. /\ e.line[x][z].quantity = d.line[x][z].quantity
            /\ e.line[x][z].reserved = Left(d.line[x][z].reserved, q)
            /\ e.line[x][z].prepared = d.line[x][z].prepared + q
        BY <2>3
      <3> QED BY <2>1, <2>2, <3>1 DEF Remaining, Left
    <2>4. CASE ~ (x = o /\ z = p)
      <3>1. e.line[x][z] = d.line[x][z]
        BY <2>4
      <3> QED BY <2>2, <3>1 DEF Remaining
    <2> QED BY <2>3, <2>4
  <1> QED  BY <1>1 DEF Covered, CoveredBut

LEMMA PackCovered ==
    ASSUME NEW d, Good(d), Covered(d), NEW o \in Order, NEW p \in Product, NEW q \in Nat,
           NEW tie \in TieBreak, NEW c \in Carton
    PROVE  Covered(PackReserved(d, o, p, q, tie, c))
  <1> DEFINE e == PackReserved(d, o, p, q, tie, c)
  <1>1. /\ e.order = d.order
        /\ \A x \in Order, z \in Product :
              e.line[x][z] = IF x = o /\ z = p
                             THEN [quantity |-> d.line[o][p].quantity,
                                   reserved |-> Left(d.line[o][p].reserved, q),
                                   prepared |-> d.line[o][p].prepared + q]
                             ELSE d.line[x][z]
    BY PackedLines
  <1> HIDE DEF e
  <1>2. \A x \in Order, z \in Product :
           /\ ~ (x = o /\ z = p) => e.line[x][z] = d.line[x][z]
           /\ x = o /\ z = p => /\ e.line[x][z].quantity = d.line[x][z].quantity
                                /\ e.line[x][z].reserved = Left(d.line[x][z].reserved, q)
                                /\ e.line[x][z].prepared = d.line[x][z].prepared + q
    BY <1>1
  <1>3. Covered(e)
    BY <1>1, <1>2, PackCovers
  <1> QED  BY <1>3 DEF e

LEMMA AssignedCovered ==
    ASSUME IInv, Covered(db), NEW c \in Carton, NEW p \in Product, NEW tie \in TieBreak,
           AssignReadyCarton(c, p, tie)
    PROVE  Covered(db') /\ db'.order = db.order
  <1> DEFINE q == CartonUnits(db, c, p)
             o == txn.order
  <1>1. PICK d \in Tables : AssignedFrom(d, c, p, tie)
    BY AssignedCarton
  <1>2. o \in Order /\ q \in Nat /\ db.line \in LineTable /\ Good(db)
    BY AssignedCarton, TablesAre DEF IInv, Good
  <1>3. /\ Good(d) /\ d.order = db.order
        /\ d.line = [db.line EXCEPT ![o][p].prepared = @ + q]
        /\ db' = IF db.line[o][p].reserved > 0 THEN ReleaseReserved(d, o, p, q, tie) ELSE d
    BY <1>1 DEF AssignedFrom
  <1> HIDE DEF o, q
  <1>4. ASSUME NEW x \in Order, NEW z \in Product
        PROVE  /\ d.line[x][z].quantity = db.line[x][z].quantity
               /\ d.line[x][z].reserved = db.line[x][z].reserved
               /\ d.line[x][z].prepared = db.line[x][z].prepared + (IF x = o /\ z = p THEN q ELSE 0)
    <2> DEFINE n == db.line[o][p].prepared + q
    <2>1. d.line = [db.line EXCEPT ![o][p].prepared = n]
      BY <1>3
    <2> HIDE DEF n
    <2>2. /\ d.line[x][z].quantity = db.line[x][z].quantity
          /\ d.line[x][z].reserved = db.line[x][z].reserved
      BY <1>2, <2>1 DEF LineTable
    <2>3. d.line[x][z].prepared = IF x = o /\ z = p THEN n ELSE db.line[x][z].prepared
      BY <1>2, <2>1 DEF LineTable
    <2>4. db.line[x][z].prepared \in Nat
      BY <1>2, HeldFacts
    <2> QED BY <2>2, <2>3, <2>4 DEF n
  <1>5. ASSUME NEW x \in Order, db.order[x] \in Promised, NEW z \in Product
        PROVE  /\ db.line[x][z].quantity \in Nat /\ db.line[x][z].reserved \in Nat
               /\ db.line[x][z].prepared \in Nat
               /\ Remaining(db, x, z) <= db.line[x][z].reserved
    BY <1>2, <1>5, HeldFacts DEF Covered, CoveredBut
  <1>6. CASE db.line[o][p].reserved > 0
    <2> DEFINE e == ReleaseReserved(d, o, p, q, tie)
    <2>1. /\ e.order = d.order
          /\ \A x \in Order, z \in Product :
                e.line[x][z] = IF x = o /\ z = p
                               THEN [d.line[o][p] EXCEPT !.reserved = Left(@, q)]
                               ELSE d.line[x][z]
      <3>1. Good(d)
        BY <1>3
      <3> QED BY <1>2, <3>1, ReleasedLines
    <2> HIDE DEF e
    <2>2. ASSUME NEW x \in Order, e.order[x] \in Promised, NEW z \in Product
          PROVE  Remaining(e, x, z) <= e.line[x][z].reserved
      <3>1. d.line[x][z] \in [quantity: Units, reserved: Units, prepared: Units]
        BY <1>3, HeldFacts
      <3>2. /\ e.line[x][z].quantity = db.line[x][z].quantity
            /\ e.line[x][z].reserved = IF x = o /\ z = p THEN Left(db.line[x][z].reserved, q)
                                       ELSE db.line[x][z].reserved
            /\ e.line[x][z].prepared = db.line[x][z].prepared + (IF x = o /\ z = p THEN q ELSE 0)
        BY <1>4, <2>1, <3>1
      <3>3. db.order[x] \in Promised
        BY <1>3, <2>1, <2>2
      <3> QED BY <1>2, <1>5, <3>2, <3>3 DEF Remaining, Left
    <2>3. db' = e
      BY <1>3, <1>6 DEF e
    <2> QED BY <1>3, <2>1, <2>2, <2>3 DEF Covered, CoveredBut
  <1>7. CASE ~ (db.line[o][p].reserved > 0)
    <2>1. ASSUME NEW x \in Order, d.order[x] \in Promised, NEW z \in Product
          PROVE  Remaining(d, x, z) <= d.line[x][z].reserved
      BY <1>2, <1>3, <1>4, <1>5, <2>1 DEF Remaining
    <2> QED BY <1>3, <1>7, <2>1 DEF Covered, CoveredBut
  <1> QED  BY <1>6, <1>7

LEMMA PlacedCovered ==
    ASSUME IInv, Covered(db), NEW o \in Order, NEW demand \in [Product -> Units],
           NEW ready \in SUBSET Carton, PlaceOrder(o, demand, ready)
    PROVE  Covered(db')
  <1>1. PICK d \in Tables : PlacedFrom(d, o, demand)
    BY PlacedOrder
  <1>2. Good(db) /\ db.line \in LineTable /\ demand \in [Product -> Nat]
    BY TablesAre, MaxUnitsAssumption DEF IInv, Good, Units
  <1>3. /\ Good(d) /\ RowsFit(d, o)
        /\ d.line = [db.line EXCEPT ![o] = [p \in Product |->
                        [quantity |-> demand[p], reserved |-> 0, prepared |-> 0]]]
    BY <1>1 DEF PlacedFrom
  <1>4. ASSUME NEW z \in Product PROVE Remaining(db', o, z) <= db'.line[o][z].reserved
    <2>1. PICK n \in Nat : /\ db'.line[o][z].reserved = Reserve(d, o).line[o][z].reserved
                           /\ db'.line[o][z].quantity = demand[z] + n
                           /\ db'.line[o][z].prepared = n
      BY <1>1 DEF PlacedFrom
    <2>2. Reserve(d, o).line[o][z].reserved = d.line[o][z].reserved + Needed(d, o, z)
      <3>1. Good(d) /\ RowsFit(d, o)
        BY <1>3
      <3> QED BY <3>1, ReservedLines
    <2>3. d.line[o][z] = [quantity |-> demand[z], reserved |-> 0, prepared |-> 0]
      BY <1>2, <1>3 DEF LineTable
    <2>4. db'.line[o][z].reserved = demand[z] /\ demand[z] \in Nat
      BY <1>2, <2>1, <2>2, <2>3 DEF Needed
    <2> QED BY <2>1, <2>4 DEF Remaining
  <1>5. ASSUME NEW x \in Order, x # o, db'.order[x] \in Promised, NEW z \in Product
        PROVE  Remaining(db', x, z) <= db'.line[x][z].reserved
    <2>1. db'.line[x] = Reserve(d, o).line[x] /\ db'.order[x] = db.order[x]
      BY <1>1, <1>5 DEF PlacedFrom
    <2>2. /\ Reserve(d, o).line[x][z].quantity = d.line[x][z].quantity
          /\ Reserve(d, o).line[x][z].prepared = d.line[x][z].prepared
          /\ Reserve(d, o).line[x][z].reserved = d.line[x][z].reserved
      <3>1. Good(d) /\ RowsFit(d, o)
        BY <1>3
      <3> QED BY <1>5, <3>1, ReservedLines
    <2>3. d.line[x][z] = db.line[x][z]
      BY <1>2, <1>3, <1>5 DEF LineTable
    <2>4. Remaining(db, x, z) <= db.line[x][z].reserved
      BY <1>5, <2>1 DEF Covered, CoveredBut
    <2> QED BY <2>1, <2>2, <2>3, <2>4 DEF Remaining
  <1> QED  BY <1>4, <1>5 DEF Covered, CoveredBut

\* The tables, should the clerk of a saved line write the old quantity back.
Unsaved(d, a) == [d EXCEPT !.line[a.order][a.product].quantity = a.previous]

\* A request that has raised a line and not yet reserved for it, and the request that
\* alone is under way: what it has read is what the tables hold.
Pending(r) ==
    r.pc \in {"saved", "short"} \/ (r.pc = "reserving" /\ r.line.pc = "saved")
Fresh(d, r) ==
    /\ r.pc # "orphan"
    /\ r.pc = "read" => r.previous = d.line[r.order][r.product].quantity
    /\ r.pc \in {"saved", "short"} => Covered(Unsaved(d, r))
    /\ r.pc = "reserving" =>
          /\ r.lost = {} /\ r.line.pc \in {"idle", "saved"}
          /\ r.line.pc = "saved" => r.line.order = r.order /\ Covered(Unsaved(d, r.line))
          /\ \A p \in Product : /\ r.lines[p].quantity = d.line[r.order][p].quantity
                                /\ r.lines[p].reserved = d.line[r.order][p].reserved
    /\ r.pc = "editing" => r.lines = d.line[r.order]

\* When requests do not overlap, one clerk at most has a request under way, what it has
\* read still holds, prepare_order runs only when there is none, and all reserved orders
\* are covered but for the line that the clerk has raised and not yet reserved.
SerialInv ==
    /\ \A j, k \in Clerk : request[j].pc # "idle" /\ request[k].pc # "idle" => j = k
    /\ \A k \in Clerk : Fresh(db, request[k])
    /\ (\A k \in Clerk : ~ Pending(request[k])) => Covered(db)
    /\ txn # None => NoRequest /\ Covered(txn.saved) /\ db.order[txn.order] \in Promised

LEMMA NothingPending ==
    ASSUME SerialInv, NoRequest
    PROVE  Covered(db)
  BY DEF SerialInv, NoRequest, Pending

\* How SerialInv is shown of the state after a step.
LEMMA IdleSerial ==
    ASSUME \A k \in Clerk : request'[k].pc = "idle", Covered(db'),
           txn' # None => Covered(txn'.saved) /\ db'.order[txn'.order] \in Promised
    PROVE  SerialInv'
  <1>1. \A k \in Clerk : Fresh(db', request'[k])
    BY DEF Fresh
  <1> QED  BY <1>1 DEF SerialInv, NoRequest

LEMMA OneSerial ==
    ASSUME NEW k \in Clerk, \A j \in Clerk \ {k} : request'[j].pc = "idle", txn' = None,
           Fresh(db', request'[k]), ~ Pending(request'[k]) => Covered(db')
    PROVE  SerialInv'
  <1>1. \A j \in Clerk : Fresh(db', request'[j])
    <2>1. \A j \in Clerk \ {k} : Fresh(db', request'[j])
      BY DEF Fresh
    <2> QED BY <2>1
  <1>2. \A i, j \in Clerk : request'[i].pc # "idle" /\ request'[j].pc # "idle" => i = j
    OBVIOUS
  <1> QED  BY <1>1, <1>2 DEF SerialInv

\* The steps of every request but those that run in several steps.
LEMMA OtherCovers ==
    ASSUME IInv, Covered(db), txn # None => Covered(txn.saved), OtherStep, ~ RequestStart
    PROVE  Covered(db') /\ request' = request
  <1>0. /\ Good(db) /\ db \in Tables /\ db.order \in OrderTable
    BY TablesAre DEF IInv, Good
  <1>1. ASSUME db'.line = db.line, db'.order = db.order PROVE Covered(db')
    BY <1>1, CoveredKept DEF SameLines
  <1>2. CASE StockStep \/ CartonStep
    <2>1. ASSUME StockStep PROVE Quiet
      BY <2>1 DEF StockStep, ReceiveStock, ReleaseQuarantine, AdjustStock, StockOut
    <2>2. ASSUME CartonStep PROVE Quiet
      BY <2>2 DEF CartonStep, PackCarton, UnpackCarton, DeleteCarton, UpdateCartonStatus
    <2>3. request' = request
      BY <1>2, <2>1, <2>2 DEF Quiet
    <2> QED BY <1>1, <1>2, <2>3, ShelvesOnly
  <1>3. ASSUME NEW o \in Order, CreateOrder(o) PROVE Covered(db') /\ request' = request
    <2>1. db'.line = db.line /\ db'.order = [db.order EXCEPT ![o] = "draft"] /\ request' = request
      BY <1>0, <1>3 DEF CreateOrder, Quiet, Tables
    <2>2. SameLines(db, db')
      BY <1>0, <2>1 DEF SameLines, OrderTable, Promised
    <2> QED BY <2>1, <2>2, CoveredKept
  <1>5. ASSUME NEW o \in Order, NEW demand \in [Product -> Units], NEW ready \in SUBSET Carton,
               PlaceOrder(o, demand, ready)
        PROVE  Covered(db') /\ request' = request
    <2>1. request' = request
      BY <1>5 DEF PlaceOrder, Quiet
    <2> QED BY <1>5, <2>1, PlacedCovered
  <1>6. ASSUME NEW q \in Units PROVE q \in Nat
    BY MaxUnitsAssumption DEF Units
  <1>8. ASSUME NEW o \in Order, NEW c \in Carton, EditRemoveCarton(o, c) \/ EditAddCarton(o, c)
        PROVE  Covered(db') /\ request' = request
    BY <1>0, <1>1, <1>8 DEF EditRemoveCarton, EditAddCarton, Quiet, Tables
  <1>9. CASE \E o \in Order : PrepareBegin(o)
    BY <1>1, <1>9 DEF PrepareBegin
  <1>10. ASSUME NEW c \in Carton, NEW p \in Product, NEW tie \in TieBreak,
                AssignReadyCarton(c, p, tie)
         PROVE  Covered(db') /\ request' = request
    <2>1. request' = request
      BY <1>10 DEF AssignReadyCarton
    <2> QED BY <1>10, <2>1, AssignedCovered
  <1>11. ASSUME NEW p \in Product, NEW q \in Units, NEW c \in Carton, NEW tie \in TieBreak,
                PackBinEntry(p, q, c, tie)
         PROVE  Covered(db') /\ request' = request
    <2>1. txn.order \in Order
      BY <1>11 DEF PackBinEntry, IInv, TypeOK, PrepareState
    <2> QED BY <1>0, <1>6, <1>11, <2>1, PackCovered DEF PackBinEntry
  <1>12. CASE StartPacking
    BY <1>1, <1>12 DEF StartPacking
  <1>13. CASE PrepareFinish
    <2>1. db'.line = db.line /\ db'.order = [db.order EXCEPT ![txn.order] = "ready"]
          /\ request' = request
      BY <1>0, <1>13 DEF PrepareFinish, Tables
    <2>2. SameLines(db, db')
      BY <1>0, <2>1 DEF SameLines, OrderTable, Promised
    <2> QED BY <2>1, <2>2, CoveredKept
  <1>14. CASE PackingErrors \/ ReservationShort
    BY <1>14 DEF PackingErrors, ReservationShort, Rollback
  <1>15. CASE ShipmentStep
    BY <1>0, <1>1, <1>15 DEF ShipmentStep, ShipmentPlanned, ShipmentShipped, ShipmentDisputed,
                            DisputeResolved, SetCartons, Tables
  <1>16. CASE OrderStep
    BY <1>3, <1>5, <1>8, <1>16 DEF OrderStep
  <1>17. CASE PrepareStep
    BY <1>9, <1>10, <1>11, <1>12, <1>13, <1>14, <1>17 DEF PrepareStep
  <1> QED  BY <1>2, <1>15, <1>16, <1>17 DEF OtherStep

LEMMA ReleasedOrder ==
    ASSUME NEW d \in Tables, NEW o, NEW p, NEW q, NEW tie
    PROVE  ReleaseReserved(d, o, p, q, tie).order = d.order
  BY DEF ReleaseReserved, Tables

LEMMA PackedOrder ==
    ASSUME NEW d \in Tables, NEW o, NEW p, NEW q, NEW tie, NEW c
    PROVE  PackReserved(d, o, p, q, tie, c).order = d.order
  BY DEF PackReserved, Tables

\* prepare_order leaves the status of its order until it is done.
LEMMA TakenOrderKept ==
    ASSUME IInv, txn # None, OtherStep, txn' # None
    PROVE  db'.order = db.order
  <1>0. Good(db)
    BY DEF IInv
  <1>1. PrepareStep
    BY InsidePrepare DEF Overlap
  <1>2. ASSUME NEW c \in Carton, NEW p \in Product, NEW tie \in TieBreak, AssignReadyCarton(c, p, tie)
        PROVE  db'.order = db.order
    <2>1. PICK d \in Tables : AssignedFrom(d, c, p, tie)
      BY <1>2, AssignedCarton
    <2>2. /\ Good(d) /\ d.order = db.order /\ txn.order \in Order /\ CartonUnits(db, c, p) \in Nat
          /\ db' = d \/ db' = ReleaseReserved(d, txn.order, p, CartonUnits(db, c, p), tie)
      BY <1>2, <2>1, AssignedCarton DEF AssignedFrom
    <2>3. d \in Tables
      BY <2>2 DEF Good
    <2>4. ReleaseReserved(d, txn.order, p, CartonUnits(db, c, p), tie).order = d.order
      BY <2>3, ReleasedOrder
    <2> QED BY <2>2, <2>4
  <1>3. ASSUME NEW p \in Product, NEW q \in Units, NEW c \in Carton, NEW tie \in TieBreak,
               PackBinEntry(p, q, c, tie)
        PROVE  db'.order = db.order
    <2>1. txn.order \in Order /\ q \in Nat
      BY <1>3, MaxUnitsAssumption DEF PackBinEntry, IInv, TypeOK, PrepareState, Units
    <2>2. db' = PackReserved(db, txn.order, p, q, tie, c)
      BY <1>3 DEF PackBinEntry
    <2>3. db \in Tables
      BY <1>0 DEF Good
    <2> QED BY <2>2, <2>3, PackedOrder
  <1>4. CASE StartPacking
    BY <1>4 DEF StartPacking
  <1> QED  BY <1>1, <1>2, <1>3, <1>4 DEF PrepareStep, PrepareBegin, PrepareFinish, PackingErrors,
                                         ReservationShort, Rollback

LEMMA SerialOther ==
    ASSUME IInv, SerialInv, NoRequest, OtherStep, ~ RequestStart
    PROVE  SerialInv'
  <1>1. Covered(db) /\ (txn # None => Covered(txn.saved))
    BY NothingPending DEF SerialInv
  <1>2. Covered(db') /\ request' = request
    BY <1>1, OtherCovers
  <1>3. \A k \in Clerk : request'[k].pc = "idle"
    BY <1>2 DEF NoRequest
  <1>4. ASSUME txn' # None PROVE Covered(txn'.saved) /\ db'.order[txn'.order] \in Promised
    <2>1. CASE \E o \in Order : PrepareBegin(o)
      <3>1. PICK o \in Order : PrepareBegin(o)
        BY <2>1
      <3>2. db' = db /\ txn'.saved = db /\ txn'.order = o /\ db.order[o] \in Promised
        BY <3>1 DEF PrepareBegin, Promised
      <3> QED BY <1>1, <3>2
    <2>2. CASE txn # None /\ txn'.saved = txn.saved /\ txn'.order = txn.order
      <3>1. db'.order = db.order
        BY <1>4, <2>2, TakenOrderKept
      <3>2. db.order[txn.order] \in Promised
        BY <2>2 DEF SerialInv
      <3> QED BY <1>1, <2>2, <3>1, <3>2
    <2> QED BY <1>4, <2>1, <2>2, SavedTables DEF Overlap
  <1> QED  BY <1>2, <1>3, <1>4, IdleSerial

LEMMA SerialStart ==
    ASSUME IInv, SerialInv, NoRequest, RequestStart
    PROVE  SerialInv'
  <1>0. Good(db) /\ request \in [Clerk -> RequestState] /\ Covered(db)
    BY NothingPending DEF IInv, TypeOK
  <1>1. ASSUME NEW k \in Clerk, NEW r, request' = [request EXCEPT ![k] = r], db' = db,
               txn' = None, Fresh(db, r)
        PROVE  SerialInv'
    <2>1. request'[k] = r /\ \A j \in Clerk \ {k} : request'[j].pc = "idle"
      BY <1>0, <1>1 DEF NoRequest
    <2>2. Fresh(db', request'[k]) /\ Covered(db')
      BY <1>0, <1>1, <2>1
    <2> QED BY <1>1, <2>1, <2>2, OneSerial
  <1>2. ASSUME NEW k \in Clerk, NEW o \in Order, ReserveOrder(k, o) PROVE SerialInv'
    <2> DEFINE r == [pc |-> "reserving", order |-> o,
                     lines |-> [p \in Product |-> [db.line[o][p] EXCEPT !.prepared = 0]],
                     lost |-> {}, line |-> Idle]
    <2>1. request' = [request EXCEPT ![k] = r] /\ db' = db /\ txn' = None
      BY <1>2 DEF ReserveOrder, ReadLines
    <2>2. \A p \in Product : /\ r.lines[p].quantity = db.line[r.order][p].quantity
                             /\ r.lines[p].reserved = db.line[r.order][p].reserved
      <3>1. \A p \in Product : db.line[o][p] \in [quantity: Units, reserved: Units, prepared: Units]
        BY <1>0, HeldFacts
      <3> QED BY <3>1
    <2>3. r.pc = "reserving" /\ r.lost = {} /\ r.line.pc = "idle"
      BY DEF Idle
    <2> HIDE DEF r
    <2>4. Fresh(db, r)
      BY <2>2, <2>3 DEF Fresh
    <2> QED BY <1>1, <2>1, <2>4
  <1>3. ASSUME NEW k \in Clerk, NEW o \in Order, EditRead(k, o) PROVE SerialInv'
    <2> DEFINE r == [pc |-> "editing", order |-> o, lines |-> db.line[o], lost |-> {}]
    <2>1. request' = [request EXCEPT ![k] = r] /\ db' = db /\ txn' = None
      BY <1>3 DEF EditRead
    <2>2. r.pc = "editing" /\ r.lines = db.line[r.order]
      OBVIOUS
    <2> HIDE DEF r
    <2>3. Fresh(db, r)
      BY <2>2 DEF Fresh
    <2> QED BY <1>1, <2>1, <2>3
  <1>4. ASSUME NEW k \in Clerk, NEW o \in Order, NEW p \in Product, NEW q \in Units,
               AddLineRead(k, o, p, q)
        PROVE  SerialInv'
    <2> DEFINE r == [pc |-> "read", order |-> o, product |-> p,
                     previous |-> db.line[o][p].quantity, quantity |-> db.line[o][p].quantity + q]
    <2>1. request' = [request EXCEPT ![k] = r] /\ db' = db /\ txn' = None
      BY <1>4 DEF AddLineRead
    <2>2. r.pc = "read" /\ r.previous = db.line[r.order][r.product].quantity
      OBVIOUS
    <2> HIDE DEF r
    <2>3. Fresh(db, r)
      BY <2>2 DEF Fresh
    <2> QED BY <1>1, <2>1, <2>3
  <1> QED  BY <1>2, <1>3, <1>4 DEF RequestStart

\* What a step of the only request under way may rely on.
LEMMA SerialAlone ==
    ASSUME IInv, SerialInv, NEW k \in Clerk, request[k].pc # "idle"
    PROVE  /\ Good(db) /\ db \in Tables /\ db.line \in LineTable
           /\ request \in [Clerk -> RequestState] /\ request[k] \in RequestState
           /\ Fresh(db, request[k]) /\ \A j \in Clerk \ {k} : request[j].pc = "idle"
           /\ ~ Pending(request[k]) => Covered(db)
  <1>1. \A j \in Clerk \ {k} : request[j].pc = "idle"
    BY DEF SerialInv
  <1>2. \A j \in Clerk \ {k} : ~ Pending(request[j])
    BY <1>1 DEF Pending
  <1>3. ~ Pending(request[k]) => Covered(db)
    BY <1>2 DEF SerialInv
  <1> QED  BY <1>1, <1>3, TablesAre DEF IInv, Good, TypeOK, SerialInv

\* The other lines of a raised line are covered as they were.
LEMMA UnsavedBut ==
    ASSUME NEW d \in Tables, NEW a, a.order \in Order, Covered(Unsaved(d, a))
    PROVE  CoveredBut(d, {a.order})
  <1> DEFINE o == a.order
             p == a.product
             old == a.previous
             e == Unsaved(d, a)
  <1>1. Covered(e) /\ e = [d EXCEPT !.line[o][p].quantity = old] /\ d.line \in LineTable
    BY TablesAre DEF Unsaved
  <1> HIDE DEF o, p, old, e
  <1>2. e.order = d.order /\ e.line = [d.line EXCEPT ![o][p].quantity = old]
    BY <1>1 DEF Tables
  <1>3. \A x \in Order \ {o} : e.line[x] = d.line[x]
    BY <1>1, <1>2 DEF LineTable
  <1>4. CoveredBut(d, {o})
    BY <1>1, <1>2, <1>3 DEF Covered, CoveredBut, Remaining
  <1> QED  BY <1>4 DEF o

LEMMA SerialSave ==
    ASSUME IInv, SerialInv, NEW k \in Clerk, AddLineSave(k)
    PROVE  SerialInv'
  <1> DEFINE a == request[k]
             o == a.order
             p == a.product
             n == a.quantity
             old == a.previous
             b == [pc |-> "saved", order |-> o, product |-> p, previous |-> old]
             e == Unsaved(db', b)
  <1>1. /\ txn' = None /\ a.pc = "read" /\ request' = [request EXCEPT ![k] = b]
        /\ db' = [db EXCEPT !.line[o][p].quantity = n]
    BY DEF AddLineSave
  <1>2. /\ Good(db) /\ db \in Tables /\ db.line \in LineTable /\ request \in [Clerk -> RequestState]
        /\ a \in RequestState /\ Fresh(db, a) /\ \A j \in Clerk \ {k} : request[j].pc = "idle"
        /\ ~ Pending(a) => Covered(db)
    BY <1>1, SerialAlone
  <1>3. Covered(db) /\ old = db.line[o][p].quantity
    BY <1>1, <1>2 DEF Fresh, Pending
  <1>4. o \in Order /\ p \in Product
    <2> HIDE DEF a
    <2> QED BY <1>1, <1>2, RequestKinds DEF AddLineState, SavedLine
  <1>5. db'.line \in LineTable
    <2>1. RequestStep
      BY DEF RequestStep
    <2>2. IInv'
      BY <2>1, RequestSteps
    <2>3. db' \in Tables
      BY <2>2 DEF IInv, Good
    <2> QED BY <2>3, TablesAre
  <1>6. e = [db' EXCEPT !.line[o][p].quantity = old]
    BY DEF Unsaved
  <1>7. b.pc = "saved"
    OBVIOUS
  <1> HIDE DEF o, p, n, old, a, b, e
  <1>8. /\ db'.line = [db.line EXCEPT ![o][p].quantity = n] /\ db'.order = db.order
        /\ db' = [db EXCEPT !.line = db'.line]
    BY <1>1, <1>2 DEF Tables
  <1>9. e.order = db'.order /\ e.line = [db'.line EXCEPT ![o][p].quantity = old]
    BY <1>2, <1>6, <1>8 DEF Tables
  <1>10. ASSUME NEW x \in Order, NEW z \in Product
         PROVE  /\ e.line[x][z].quantity = db.line[x][z].quantity
                /\ e.line[x][z].reserved = db.line[x][z].reserved
                /\ e.line[x][z].prepared = db.line[x][z].prepared
    <2>1. db'.line[x][z].reserved = db.line[x][z].reserved
      BY <1>2, <1>8 DEF LineTable
    <2>2. db'.line[x][z].prepared = db.line[x][z].prepared
      BY <1>2, <1>8 DEF LineTable
    <2>3. ~ (x = o /\ z = p) => db'.line[x][z].quantity = db.line[x][z].quantity
      BY <1>2, <1>8 DEF LineTable
    <2>4. /\ e.line[x][z].quantity = IF x = o /\ z = p THEN old ELSE db'.line[x][z].quantity
          /\ e.line[x][z].reserved = db'.line[x][z].reserved
          /\ e.line[x][z].prepared = db'.line[x][z].prepared
      BY <1>5, <1>9 DEF LineTable
    <2> QED BY <1>3, <2>1, <2>2, <2>3, <2>4
  <1>11. Covered(e)
    <2>1. SameLines(db, e)
      BY <1>8, <1>9, <1>10 DEF SameLines
    <2> QED BY <1>3, <2>1, CoveredKept
  <1>12. request'[k] = b /\ \A j \in Clerk \ {k} : request'[j].pc = "idle"
    BY <1>1, <1>2
  <1>13. Fresh(db', b) /\ Pending(b)
    BY <1>7, <1>11 DEF Fresh, Pending, e
  <1> QED  BY <1>1, <1>12, <1>13, OneSerial

LEMMA SerialUndo ==
    ASSUME IInv, SerialInv, NEW k \in Clerk, AddLineUndo(k)
    PROVE  SerialInv'
  <1> DEFINE a == request[k]
             o == a.order
             p == a.product
             old == a.previous
             e == Unsaved(db, a)
  <1>1. /\ txn' = None /\ a.pc = "short"
        /\ \/ /\ db' = [db EXCEPT !.line[o][p].quantity = old]
              /\ request' = [request EXCEPT ![k] = Idle]
           \/ /\ db' = DeleteLine(o, p)
              /\ request' = LineGone(k, o, p)
    BY DEF AddLineUndo
  <1>2. /\ Good(db) /\ db \in Tables /\ db.line \in LineTable /\ request \in [Clerk -> RequestState]
        /\ a \in RequestState /\ Fresh(db, a) /\ \A j \in Clerk \ {k} : request[j].pc = "idle"
    BY <1>1, SerialAlone
  <1>3. Covered(e) /\ e = [db EXCEPT !.line[o][p].quantity = old]
    BY <1>1, <1>2 DEF Fresh, Unsaved
  <1>4. o \in Order /\ p \in Product
    <2> HIDE DEF a
    <2> QED BY <1>1, <1>2, RequestKinds DEF SavedLine
  <1> HIDE DEF o, p, old, e, a
  <1>5. CASE db' = e /\ request' = [request EXCEPT ![k] = Idle]
    <2>1. \A j \in Clerk : request'[j].pc = "idle"
      BY <1>2, <1>5 DEF Idle
    <2> QED BY <1>1, <1>3, <1>5, <2>1, IdleSerial
  <1>6. CASE db' = DeleteLine(o, p) /\ request' = LineGone(k, o, p)
    <2>1. \A j \in Clerk : request'[j].pc = "idle"
      BY <1>2, <1>6 DEF LineGone, Idle
    <2>2. /\ db'.order = db.order
          /\ db'.line = [db.line EXCEPT ![o][p] = [quantity |-> 0, reserved |-> 0, prepared |-> 0]]
      BY <1>2, <1>6 DEF DeleteLine, Tables
    <2>3. e.order = db.order /\ e.line = [db.line EXCEPT ![o][p].quantity = old]
      BY <1>2, <1>3 DEF Tables
    <2>4. ASSUME NEW x \in Order, db'.order[x] \in Promised, NEW z \in Product
          PROVE  Remaining(db', x, z) <= db'.line[x][z].reserved
      <3>1. CASE x = o /\ z = p
        <4>1. db'.line[x][z] = [quantity |-> 0, reserved |-> 0, prepared |-> 0]
          BY <1>2, <2>2, <3>1 DEF LineTable
        <4> QED BY <4>1 DEF Remaining
      <3>2. CASE ~ (x = o /\ z = p)
        <4>1. db'.line[x][z] = db.line[x][z] /\ e.line[x][z] = db.line[x][z]
          BY <1>2, <2>2, <2>3, <3>2 DEF LineTable
        <4>2. Remaining(e, x, z) <= e.line[x][z].reserved
          BY <1>3, <2>2, <2>3, <2>4 DEF Covered, CoveredBut
        <4> QED BY <4>1, <4>2 DEF Remaining
      <3> QED BY <3>1, <3>2
    <2>5. Covered(db')
      BY <2>4 DEF Covered, CoveredBut
    <2> QED BY <1>1, <2>1, <2>5, IdleSerial
  <1> QED  BY <1>1, <1>3, <1>5, <1>6

LEMMA SerialReserve ==
    ASSUME IInv, SerialInv, NEW k \in Clerk, ReserveCommit(k)
    PROVE  SerialInv'
  <1> DEFINE r == request[k]
             o == r.order
             s == Seen(db, r)
             held == Reserve(s, o)
  <1>1. /\ o \in Order /\ r.lines \in LineCopies /\ r.pc = "reserving" /\ request'[k] = Idle
        /\ txn' = None /\ db' = ReserveSeen(db, r) /\ Good(s) /\ RowsFit(s, o)
    BY ReserveCommits
  <1>2. /\ Good(db) /\ db \in Tables /\ request \in [Clerk -> RequestState] /\ r \in RequestState
        /\ Fresh(db, r) /\ \A j \in Clerk \ {k} : request[j].pc = "idle"
        /\ ~ Pending(r) => Covered(db)
    BY <1>1, SerialAlone
  <1>3. CoveredBut(db, {o})
    <2>1. CASE r.line.pc = "saved"
      <3>1. r.line.order = o /\ Covered(Unsaved(db, r.line))
        BY <1>1, <1>2, <2>1 DEF Fresh
      <3> QED BY <1>1, <1>2, <3>1, UnsavedBut
    <2>2. CASE r.line.pc # "saved"
      <3>1. Covered(db)
        BY <1>1, <1>2, <2>2 DEF Pending
      <3> QED BY <3>1 DEF Covered, CoveredBut
    <2> QED BY <2>1, <2>2
  <1>4. \A z \in Product : /\ r.lines[z].quantity = db.line[o][z].quantity
                           /\ r.lines[z].reserved = db.line[o][z].reserved
    BY <1>1, <1>2 DEF Fresh
  <1>5. s.line[o] = r.lines /\ s.order = db.order
    <2>1. SeenFacts(db, r)
      BY <1>1, <1>2, ReadsSeen DEF Reads
    <2> QED BY <2>1 DEF SeenFacts
  <1>6. \A z \in Product : Needed(s, o, z) = Needed(db, o, z)
    <2> HIDE DEF s, o
    <2> QED BY <1>4, <1>5 DEF Needed
  <1>7. /\ db'.order = held.order
        /\ \A x \in Order \ {o} : db'.line[x] = db.line[x]
        /\ \A z \in Product :
              /\ db'.line[o][z].quantity = db.line[o][z].quantity
              /\ db'.line[o][z].prepared = db.line[o][z].prepared
              /\ db'.line[o][z].reserved =
                    IF z \in Wanted(db, r) THEN r.lines[z].reserved + Needed(s, o, z)
                    ELSE db.line[o][z].reserved
    BY <1>1, <1>2, ReserveSeenGood
  <1>8. \A z \in Product : z \notin Wanted(db, r) => ~ (Needed(s, o, z) > 0)
    BY DEF Wanted
  <1> HIDE DEF s, o
  <1>9. held.order = [db.order EXCEPT ![o] = "reserved"]
    BY <1>1, <1>5, ReservedOrder
  <1> HIDE DEF held, r
  <1>10. ASSUME NEW z \in Product
         PROVE  db'.line[o][z].reserved = db.line[o][z].reserved + Needed(db, o, z)
    <2>1. Needed(db, o, z) \in Nat /\ db.line[o][z].reserved \in Nat
      BY <1>1, <1>2, HeldFacts DEF Needed
    <2>2. CASE z \in Wanted(db, r)
      BY <1>4, <1>6, <1>7, <2>2
    <2>3. CASE z \notin Wanted(db, r)
      <3>1. Needed(db, o, z) = 0
        BY <1>6, <1>8, <2>1, <2>3
      <3> QED BY <1>7, <2>1, <2>3, <3>1
    <2> QED BY <2>2, <2>3
  <1>11. \A x \in Order, z \in Product :
            /\ db'.line[x][z].quantity = db.line[x][z].quantity
            /\ db'.line[x][z].prepared = db.line[x][z].prepared
            /\ db'.line[x][z].reserved =
                  IF x = o THEN db.line[x][z].reserved + Needed(db, o, z)
                  ELSE db.line[x][z].reserved
    BY <1>7, <1>10
  <1>12. Covered(db')
    <2>1. db'.order = [db.order EXCEPT ![o] = "reserved"]
      BY <1>7, <1>9
    <2> QED BY <1>1, <1>2, <1>3, <1>11, <2>1, ReserveCovers
  <1>13. \A j \in Clerk : request'[j].pc = "idle"
    BY <1>1, <1>2 DEF ReserveCommit, Idle
  <1> QED  BY <1>1, <1>12, <1>13, IdleSerial

LEMMA SerialEdit ==
    ASSUME IInv, SerialInv, NEW k \in Clerk, NEW p \in Product, NEW q \in Units, NEW c \in Carton,
           NEW tie \in TieBreak, EditPackReserved(k, p, q, c, tie)
    PROVE  SerialInv'
  <1> DEFINE r == request[k]
             o == r.order
  <1>1. /\ o \in Order /\ r.lines \in LineCopies /\ r.pc = "editing" /\ request'[k] = Idle
        /\ q \in Nat /\ q > 0 /\ q <= Remaining(Seen(db, r), o, p)
        /\ db.carton[c].status = "absent" /\ txn' = None /\ db' = PackSeen(db, r, p, q, tie, c)
    BY EditPacks
  <1>2. /\ Good(db) /\ request \in [Clerk -> RequestState] /\ Fresh(db, r)
        /\ (\A j \in Clerk \ {k} : request[j].pc = "idle") /\ (~ Pending(r) => Covered(db))
    BY <1>1, SerialAlone
  <1>3. Covered(db) /\ r.lines = db.line[o]
    BY <1>1, <1>2 DEF Fresh, Pending
  <1>4. /\ db'.order = db.order
        /\ \A x \in Order \ {o} : db'.line[x] = db.line[x]
        /\ \A z \in Product \ {p} : db'.line[o][z] = db.line[o][z]
        /\ db'.line[o][p].quantity = db.line[o][p].quantity
        /\ db'.line[o][p].prepared = r.lines[p].prepared + q
        /\ db'.line[o][p].reserved =
              IF r.lines[p].reserved < q THEN 0 ELSE r.lines[p].reserved - q
    BY <1>1, <1>2, PackSeenGood
  <1>5. \A j \in Clerk : request'[j].pc = "idle"
    BY <1>1, <1>2 DEF EditPackReserved, Idle
  <1> HIDE DEF o, r
  <1>6. \A x \in Order, z \in Product :
           /\ ~ (x = o /\ z = p) => db'.line[x][z] = db.line[x][z]
           /\ x = o /\ z = p => /\ db'.line[x][z].quantity = db.line[x][z].quantity
                                /\ db'.line[x][z].reserved = Left(db.line[x][z].reserved, q)
                                /\ db'.line[x][z].prepared = db.line[x][z].prepared + q
    BY <1>3, <1>4 DEF Left
  <1>7. Covered(db')
    BY <1>1, <1>2, <1>3, <1>4, <1>6, PackCovers
  <1> QED  BY <1>1, <1>5, <1>7, IdleSerial

\* The requests that read again, refuse or give up.
LEMMA SerialTurns ==
    ASSUME IInv, SerialInv, NEW k \in Clerk,
           AddLineReserve(k) \/ ReserveShort(k) \/ ReserveLost(k) \/ EditRefused(k)
    PROVE  SerialInv'
  <1> DEFINE r == request[k]
  <1>1. r.pc # "idle" /\ db' = db /\ txn' = None
    BY DEF AddLineReserve, ReadLines, ReserveShort, ReserveLost, EditRefused
  <1>2. /\ Good(db) /\ request \in [Clerk -> RequestState] /\ r \in RequestState /\ Fresh(db, r)
        /\ (\A j \in Clerk \ {k} : request[j].pc = "idle") /\ (~ Pending(r) => Covered(db))
    BY <1>1, SerialAlone
  <1>3. ASSUME NEW b, request' = [request EXCEPT ![k] = b], Fresh(db, b), ~ Pending(b) => Covered(db)
        PROVE  SerialInv'
    <2>1. request'[k] = b /\ \A j \in Clerk \ {k} : request'[j].pc = "idle"
      BY <1>2, <1>3
    <2>2. Fresh(db', request'[k]) /\ (~ Pending(request'[k]) => Covered(db'))
      BY <1>1, <1>3, <2>1
    <2> QED BY <1>1, <2>1, <2>2, OneSerial
  <1>4. Fresh(db, Idle) /\ ~ Pending(Idle)
    BY DEF Fresh, Pending, Idle
  <1>5. CASE AddLineReserve(k)
    <2> DEFINE o == r.order
               b == [pc |-> "reserving", order |-> o,
                     lines |-> [p \in Product |-> [db.line[o][p] EXCEPT !.prepared = 0]],
                     lost |-> {}, line |-> r]
    <2>1. request' = [request EXCEPT ![k] = b] /\ r.pc \in {"saved", "orphan"}
      BY <1>5 DEF AddLineReserve, ReadLines
    <2>2. r.pc = "saved" /\ Covered(Unsaved(db, r))
      BY <1>2, <2>1 DEF Fresh
    <2>3. o \in Order
      <3> HIDE DEF r
      <3> QED BY <1>2, <2>2, RequestKinds DEF SavedLine
    <2> HIDE DEF r
    <2>4. \A p \in Product : /\ b.lines[p].quantity = db.line[b.order][p].quantity
                             /\ b.lines[p].reserved = db.line[b.order][p].reserved
      <3>1. \A p \in Product : db.line[o][p] \in [quantity: Units, reserved: Units, prepared: Units]
        BY <1>2, <2>3, HeldFacts
      <3> QED BY <3>1
    <2>5. b.pc = "reserving" /\ b.lost = {} /\ b.line = r /\ b.line.order = b.order
      OBVIOUS
    <2> HIDE DEF b
    <2>6. Fresh(db, b) /\ Pending(b)
      BY <2>2, <2>4, <2>5 DEF Fresh, Pending
    <2> QED BY <1>3, <2>1, <2>6
  <1>6. CASE ReserveShort(k)
    <2>1. /\ r.pc = "reserving"
          /\ request' = [request EXCEPT ![k] =
                IF r.line.pc = "saved" THEN [r.line EXCEPT !.pc = "short"] ELSE Idle]
      BY <1>6 DEF ReserveShort
    <2>2. CASE r.line.pc = "saved"
      <3> DEFINE b == [r.line EXCEPT !.pc = "short"]
      <3>1. Covered(Unsaved(db, r.line))
        BY <1>2, <2>1, <2>2 DEF Fresh
      <3>2. r.line \in SavedLine
        <4> HIDE DEF r
        <4>1. r \in ReserveState
          BY <1>2, <2>1, RequestKinds
        <4>2. r.line \in SavedLine \cup [pc: {"idle"}]
          BY <4>1 DEF ReserveState
        <4> QED BY <2>2, <4>2
      <3> HIDE DEF r
      <3>3. /\ b.pc = "short" /\ b.order = r.line.order /\ b.product = r.line.product
            /\ b.previous = r.line.previous
        BY <3>2 DEF SavedLine
      <3>4. request' = [request EXCEPT ![k] = b]
        BY <2>1, <2>2
      <3> HIDE DEF b
      <3>5. Unsaved(db, b) = Unsaved(db, r.line)
        BY <3>3 DEF Unsaved
      <3>6. Fresh(db, b) /\ Pending(b)
        BY <3>1, <3>3, <3>5 DEF Fresh, Pending
      <3> QED BY <1>3, <3>4, <3>6
    <2>3. CASE r.line.pc # "saved"
      <3>1. Covered(db) /\ request' = [request EXCEPT ![k] = Idle]
        BY <1>2, <2>1, <2>3 DEF Pending
      <3> QED BY <1>3, <1>4, <3>1
    <2> QED BY <2>2, <2>3
  <1>7. CASE ReserveLost(k)
    <2>1. r.pc = "reserving" /\ r.lost # {}
      BY <1>7 DEF ReserveLost
    <2> QED BY <1>2, <2>1 DEF Fresh
  <1>8. CASE EditRefused(k)
    <2>1. r.pc = "editing" /\ request' = [request EXCEPT ![k] = Idle]
      BY <1>8 DEF EditRefused
    <2>2. Covered(db)
      BY <1>2, <2>1 DEF Pending
    <2> QED BY <1>3, <1>4, <2>1, <2>2
  <1> QED  BY <1>5, <1>6, <1>7, <1>8

LEMMA SerialRequest ==
    ASSUME IInv, SerialInv, RequestStep
    PROVE  SerialInv'
  BY SerialSave, SerialUndo, SerialReserve, SerialEdit, SerialTurns DEF RequestStep

LEMMA AlwaysSerial == Spec => [](IInv /\ CountInv /\ SerialInv)
  <1>1. Init => SerialInv
    <2> SUFFICES ASSUME Init PROVE SerialInv
      OBVIOUS
    <2>1. \A o \in Order : db.order[o] = "absent"
      BY DEF Init
    <2>2. Covered(db)
      BY <2>1 DEF Covered, CoveredBut, Promised
    <2>3. txn = None /\ \A k \in Clerk : request[k].pc = "idle"
      BY DEF Init, Idle
    <2>4. \A k \in Clerk : Fresh(db, request[k])
      BY <2>3 DEF Fresh
    <2> QED BY <2>2, <2>3, <2>4 DEF SerialInv
  <1>2. IInv /\ SerialInv /\ [Next]_vars => SerialInv'
    <2>1. CASE UNCHANGED vars
      <3>1. db' = db /\ txn' = txn /\ request' = request
        BY <2>1 DEF vars
      <3> QED BY <3>1 DEF SerialInv, NoRequest
    <2> QED BY <2>1, SerialOther, SerialStart, SerialRequest DEF Next
  <1>3. Spec => []IInv
    BY OneAtATime, OverlapInvariant, PTL
  <1>4. Spec => []CountInv
    BY OneAtATime, AlwaysCounting, PTL
  <1> QED  BY <1>1, <1>2, <1>3, <1>4, PTL DEF Spec

\* A request that runs alone saves no stale copy.
LEMMA AloneIsFresh ==
    ASSUME IInv, SerialInv, NEW k \in Clerk, NEW o \in Order, NEW p \in Product
    PROVE  ~ StaleSave(k, o, p)
  <1> SUFFICES ASSUME StaleSave(k, o, p) PROVE FALSE
    OBVIOUS
  <1>1. /\ request[k].pc \in {"reserving", "editing"} /\ request[k].order = o
        /\ request[k].lines[p].reserved # db.line[o][p].reserved
    BY DEF StaleSave
  <1>2. Fresh(db, request[k])
    BY DEF SerialInv
  <1> QED  BY <1>1, <1>2 DEF Fresh

\* When requests do not overlap, the reserved_quantity of every line is the sum of its
\* reservation rows, inside prepare_order and its rollback too.
THEOREM LinesCountTheirRows == Spec => []LineReservationsMatch
  <1> DEFINE Counting == \A o \in Order, p \in Product : Counted(Committed, o, p)
  <1>1. Init => Counting
    BY BlankInit DEF Committed, Init
  <1>2. IInv /\ CountInv /\ SerialInv /\ Counting /\ [Next]_vars => Counting'
    <2> SUFFICES ASSUME IInv, CountInv, SerialInv, Counting, [Next]_vars,
                        NEW o \in Order, NEW p \in Product
                 PROVE  Counted(Committed', o, p)
      OBVIOUS
    <2>1. CASE UNCHANGED vars
      <3>1. Committed' = Committed
        BY <2>1 DEF vars, Committed
      <3> QED BY <3>1
    <2>2. CASE Next
      <3>1. Overlap
        BY <2>2 DEF Next, Overlap
      <3>2. OnlyStale(Committed, Committed')
        BY <3>1, CountSteps
      <3> QED BY <3>2, AloneIsFresh DEF OnlyStale
    <2> QED BY <2>1, <2>2
  <1>3. CountInv /\ Counting => LineReservationsMatch
    BY DEF CountInv, CountsKept, Committed, LineReservationsMatch
  <1> QED  BY <1>1, <1>2, <1>3, AlwaysSerial, PTL DEF Spec

\* When requests do not overlap, prepare_order never runs out of reserved units half
\* way: the rows of every line of its order cover what the line still lacks.
THEOREM PreparationHasItsUnits == Spec => []PreparationNeverShort
  <1>1. IInv /\ SerialInv /\ LineReservationsMatch => PreparationNeverShort
    <2> SUFFICES ASSUME IInv, SerialInv, LineReservationsMatch, txn # None, NEW p \in Product
                 PROVE  HeldUnits(db, txn.order, p) >= Remaining(db, txn.order, p)
      BY DEF PreparationNeverShort
    <2>1. txn.order \in Order /\ Good(db)
      BY DEF IInv, TypeOK, PrepareState
    <2>2. Covered(db) /\ db.order[txn.order] \in Promised
      <3>1. NoRequest /\ db.order[txn.order] \in Promised
        BY DEF SerialInv
      <3> QED BY <3>1, NothingPending
    <2>3. Remaining(db, txn.order, p) <= HeldUnits(db, txn.order, p)
      BY <2>1, <2>2 DEF Covered, CoveredBut, LineReservationsMatch, Counted
    <2>4. HeldUnits(db, txn.order, p) \in Nat /\ Remaining(db, txn.order, p) \in Nat
      BY <2>1, HeldFacts DEF Remaining
    <2> QED BY <2>3, <2>4
  <1> QED  BY <1>1, AlwaysSerial, LinesCountTheirRows, PTL
=============================================================================
