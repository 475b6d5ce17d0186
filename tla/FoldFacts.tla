----------------------------- MODULE FoldFacts -----------------------------
(***************************************************************************)
(* Facts about folds over finite sets. A fold is a choice of a function    *)
(* that satisfies a recursive equation: that one exists, and what a sum    *)
(* amounts to, follow from the least set on which they would fail.         *)
(***************************************************************************)
EXTENDS Integers, FiniteSets, FiniteSetsExt, FiniteSetTheorems, WellFoundedInduction,
        NaturalsInduction, TLAPS

\* A set of natural numbers that is not empty has a least element.
LEMMA LeastNat ==
    ASSUME NEW T \in SUBSET Nat, T # {}
    PROVE  \E m \in T : \A n \in T : m <= n
  <1> DEFINE R == {ss \in Nat \X Nat : ss[1] < ss[2]}
  <1>1. IsWellFoundedOn(R, Nat)
    <2>1. OpToRel(<, Nat) = R
      BY DEF OpToRel
    <2> QED BY <2>1, NatLessThanWellFounded
  <1>2. PICK m \in T : \A n \in T : ~ (<<n, m>> \in R)
    BY <1>1, WFMin
  <1>3. ASSUME NEW n \in T PROVE m <= n
    <2>1. m \in Nat /\ n \in Nat
      OBVIOUS
    <2>2. ~ (n < m)
      BY <1>2, <2>1
    <2> QED BY <2>1, <2>2
  <1> QED  BY <1>3

\* g folds step over the subsets of S that are in D.
Folds(g, D, base, step, pick) ==
    \A s \in D : g[s] = IF s = {} THEN base ELSE step[<<pick[s], g[s \ {pick[s]}]>>]
Picks(pick, S) == \A s \in SUBSET S : s # {} => pick[s] \in s

LEMMA Smaller ==
    ASSUME NEW S, IsFiniteSet(S), NEW s \in SUBSET S, NEW x \in s
    PROVE  /\ IsFiniteSet(s) /\ Cardinality(s) \in Nat \ {0} /\ s \ {x} \in SUBSET S
           /\ Cardinality(s \ {x}) = Cardinality(s) - 1
  <1>1. IsFiniteSet(s)
    BY FS_Subset
  <1>2. Cardinality(s) \in Nat /\ Cardinality(s) # 0
    BY <1>1, FS_CardinalityType, FS_EmptySet
  <1>3. Cardinality(s \ {x}) = Cardinality(s) - 1
    BY <1>1, FS_RemoveElement
  <1> QED BY <1>1, <1>2, <1>3

LEMMA FoldExists ==
    ASSUME NEW S, IsFiniteSet(S), NEW V, NEW base \in V, NEW step \in [S \X V -> V],
           NEW pick, Picks(pick, S)
    PROVE  \E g \in [SUBSET S -> V] : Folds(g, SUBSET S, base, step, pick)
  <1> DEFINE Level(n) == {s \in SUBSET S : Cardinality(s) <= n}
             T == {n \in Nat : ~ \E g \in [Level(n) -> V] : Folds(g, Level(n), base, step, pick)}
  <1>1. T = {}
    <2> SUFFICES ASSUME T # {} PROVE FALSE
      OBVIOUS
    <2>1. PICK m \in T : \A n \in T : m <= n
      <3>1. T \in SUBSET Nat
        OBVIOUS
      <3> HIDE DEF T
      <3> QED BY <3>1, LeastNat
    <2>2. PICK g : m # 0 => g \in [Level(m - 1) -> V] /\ Folds(g, Level(m - 1), base, step, pick)
      <3>1. CASE m = 0
        BY <3>1
      <3>2. CASE m # 0
        <4>1. m \in Nat
          OBVIOUS
        <4>2. m - 1 \in Nat /\ ~ (m <= m - 1)
          BY <3>2, <4>1
        <4>3. m - 1 \notin T
          <5> HIDE DEF T
          <5> QED BY <2>1, <4>2
        <4> QED BY <4>2, <4>3
      <3> QED BY <3>1, <3>2
    <2> DEFINE h == [s \in Level(m) |-> IF s = {} THEN base ELSE step[<<pick[s], g[s \ {pick[s]}]>>]]
    <2>3. ASSUME NEW s \in Level(m), s # {}
          PROVE  m # 0 /\ s \ {pick[s]} \in Level(m - 1) /\ s \ {pick[s]} \in Level(m) /\ pick[s] \in S
      <3>1. s \in SUBSET S /\ pick[s] \in s /\ m \in Nat
        BY <2>3 DEF Picks
      <3>2. /\ Cardinality(s) \in Nat \ {0} /\ s \ {pick[s]} \in SUBSET S
            /\ Cardinality(s \ {pick[s]}) = Cardinality(s) - 1
        BY <3>1, Smaller
      <3> QED BY <3>1, <3>2
    <2>4. h \in [Level(m) -> V]
      <3>1. ASSUME NEW s \in Level(m), s # {} PROVE step[<<pick[s], g[s \ {pick[s]}]>>] \in V
        <4>1. g[s \ {pick[s]}] \in V
          BY <2>2, <2>3, <3>1
        <4> QED BY <2>3, <3>1, <4>1
      <3> QED BY <3>1
    <2>5. ASSUME NEW s \in Level(m), s # {} PROVE h[s \ {pick[s]}] = g[s \ {pick[s]}]
      BY <2>2, <2>3, <2>5 DEF Folds
    <2>6. Folds(h, Level(m), base, step, pick)
      BY <2>5 DEF Folds
    <2> QED BY <2>4, <2>6
  <1>2. Cardinality(S) \in Nat
    BY FS_CardinalityType
  <1>3. Level(Cardinality(S)) = SUBSET S
    BY FS_Subset
  <1>4. Cardinality(S) \notin T
    <2> HIDE DEF T
    <2> QED BY <1>1
  <1>5. PICK g \in [Level(Cardinality(S)) -> V] : Folds(g, Level(Cardinality(S)), base, step, pick)
    <2> HIDE DEF Level
    <2> QED BY <1>2, <1>4
  <1> HIDE DEF Level
  <1> QED BY <1>3, <1>5

\* A fold stays in a set that its steps do not leave.
LEMMA FoldLands ==
    ASSUME NEW S, IsFiniteSet(S), NEW Good, NEW pick, Picks(pick, S), NEW g, g[{}] \in Good,
           \A s \in SUBSET S : s # {} /\ g[s \ {pick[s]}] \in Good => g[s] \in Good
    PROVE  g[S] \in Good
  <1> DEFINE T == {n \in Nat : \E s \in SUBSET S : Cardinality(s) = n /\ g[s] \notin Good}
  <1>1. T = {}
    <2> SUFFICES ASSUME T # {} PROVE FALSE
      OBVIOUS
    <2>1. PICK m \in T : \A n \in T : m <= n
      <3>1. T \in SUBSET Nat
        OBVIOUS
      <3> HIDE DEF T
      <3> QED BY <3>1, LeastNat
    <2>2. PICK s \in SUBSET S : Cardinality(s) = m /\ g[s] \notin Good
      BY <2>1
    <2> DEFINE x == pick[s]
    <2>3. s # {} /\ x \in s
      BY <2>2 DEF Picks
    <2>4. /\ m \in Nat \ {0} /\ s \ {x} \in SUBSET S /\ Cardinality(s \ {x}) = m - 1
      <3> HIDE DEF x
      <3> QED BY <2>2, <2>3, Smaller
    <2>5. g[s \ {x}] \in Good
      <3>1. m - 1 \notin T /\ m - 1 \in Nat
        BY <2>1, <2>4
      <3> QED BY <2>4, <3>1
    <2> QED BY <2>2, <2>3, <2>5
  <1>2. Cardinality(S) \in Nat /\ S \in SUBSET S
    BY FS_CardinalityType
  <1> QED BY <1>1, <1>2

\* A sum of sizes is the number of units they make.
Heap(size, s) == UNION {{x} \X (1 .. size[x]) : x \in s}

LEMMA HeapGrows ==
    ASSUME NEW S, IsFiniteSet(S), NEW size \in [S -> Nat], NEW x \in S, NEW s \in SUBSET S, x \notin s,
           IsFiniteSet(Heap(size, s))
    PROVE  /\ IsFiniteSet(Heap(size, s \cup {x}))
           /\ Cardinality(Heap(size, s \cup {x})) = size[x] + Cardinality(Heap(size, s))
  <1> DEFINE own == {x} \X (1 .. size[x])
  <1>1. Heap(size, s \cup {x}) = Heap(size, s) \cup own
    BY DEF Heap
  <1>2. Heap(size, s) \cap own = {}
    BY DEF Heap
  <1>3. IsFiniteSet(own) /\ Cardinality(own) = size[x]
    <2>1. IsFiniteSet({x}) /\ Cardinality({x}) = 1
      BY FS_Singleton
    <2>2. IsFiniteSet(1 .. size[x]) /\ Cardinality(1 .. size[x]) = size[x]
      BY FS_Interval
    <2>3. size[x] \in Nat
      OBVIOUS
    <2>4. IsFiniteSet(own) /\ Cardinality(own) = Cardinality({x}) * Cardinality(1 .. size[x])
      BY <2>1, <2>2, FS_Product
    <2> HIDE DEF own
    <2> QED BY <2>1, <2>2, <2>3, <2>4
  <1>4. Cardinality(Heap(size, s) \cap own) = 0
    BY <1>2, FS_EmptySet
  <1>5. Cardinality(Heap(size, s)) \in Nat
    BY FS_CardinalityType
  <1> HIDE DEF own
  <1>6. size[x] \in Nat
    OBVIOUS
  <1>7. /\ IsFiniteSet(Heap(size, s) \cup own)
        /\ Cardinality(Heap(size, s) \cup own)
              = Cardinality(Heap(size, s)) + Cardinality(own) - Cardinality(Heap(size, s) \cap own)
    BY <1>3, FS_Union
  <1>8. /\ IsFiniteSet(Heap(size, s \cup {x}))
        /\ Cardinality(Heap(size, s \cup {x})) = Cardinality(Heap(size, s) \cup own)
    BY <1>1, <1>7
  <1> QED BY <1>3, <1>4, <1>5, <1>6, <1>7, <1>8

Adds(g, S, size, pick) ==
    \A s \in SUBSET S : g[s] = IF s = {} THEN 0 ELSE size[pick[s]] + g[s \ {pick[s]}]

LEMMA FoldSums ==
    ASSUME NEW S, IsFiniteSet(S), NEW size \in [S -> Nat], NEW pick, Picks(pick, S), NEW g,
           Adds(g, S, size, pick)
    PROVE  IsFiniteSet(Heap(size, S)) /\ g[S] = Cardinality(Heap(size, S))
  <1> DEFINE Good(s) == IsFiniteSet(Heap(size, s)) /\ g[s] = Cardinality(Heap(size, s))
             T == {n \in Nat : \E s \in SUBSET S : Cardinality(s) = n /\ ~ Good(s)}
  <1>1. T = {}
    <2> SUFFICES ASSUME T # {} PROVE FALSE
      OBVIOUS
    <2>1. PICK m \in T : \A n \in T : m <= n
      <3>1. T \in SUBSET Nat
        OBVIOUS
      <3> HIDE DEF T
      <3> QED BY <3>1, LeastNat
    <2>2. PICK s \in SUBSET S : Cardinality(s) = m /\ ~ Good(s)
      BY <2>1
    <2>3. s # {}
      <3>1. Heap(size, {}) = {}
        BY DEF Heap
      <3> QED BY <2>2, <3>1, FS_EmptySet DEF Adds
    <2> DEFINE x == pick[s]
    <2>4. x \in s /\ g[s] = size[x] + g[s \ {x}]
      BY <2>3 DEF Picks, Adds
    <2>5. /\ m \in Nat \ {0} /\ s \ {x} \in SUBSET S /\ Cardinality(s \ {x}) = m - 1
      <3> HIDE DEF x, Good
      <3> QED BY <2>2, <2>4, Smaller
    <2>6. Good(s \ {x})
      <3>1. m - 1 \notin T /\ m - 1 \in Nat
        BY <2>1, <2>5
      <3> QED BY <2>5, <3>1
    <2>7. (s \ {x}) \cup {x} = s /\ x \notin s \ {x} /\ x \in S
      BY <2>4
    <2> QED BY <2>2, <2>4, <2>5, <2>6, <2>7, HeapGrows
  <1>2. Cardinality(S) \in Nat /\ S \in SUBSET S
    BY FS_CardinalityType
  <1> QED BY <1>1, <1>2

\* SumFunction adds one size after the other.
Chosen(S) == [s \in SUBSET S |-> CHOOSE x \in s : TRUE]

LEMMA ChosenPicks == ASSUME NEW S PROVE Picks(Chosen(S), S)
  BY DEF Picks, Chosen

LEMMA SumFolds ==
    ASSUME NEW S, IsFiniteSet(S), NEW size \in [S -> Int]
    PROVE  \E g \in [SUBSET S -> Int] : SumFunction(size) = g[S] /\ Adds(g, S, size, Chosen(S))
  <1> DEFINE pick == Chosen(S)
             body(g) == [s \in SUBSET S |-> IF s = {} THEN 0
                        ELSE size[CHOOSE x \in s : TRUE] + g[s \ {CHOOSE x \in s : TRUE}]]
             iter == CHOOSE g : g = body(g)
             plus == [y \in S \X Int |-> size[y[1]] + y[2]]
  <1>1. SumFunction(size) = iter[S]
    <2>1. DOMAIN size = S
      OBVIOUS
    <2> QED BY <2>1 DEF SumFunction, SumFunctionOnSet, FoldFunctionOnSet, MapThenFoldSet
  <1>2. Picks(pick, S)
    BY ChosenPicks
  <1>3. PICK h \in [SUBSET S -> Int] : Folds(h, SUBSET S, 0, plus, pick)
    <2> DEFINE V == Int
    <2>1. plus \in [S \X V -> V] /\ 0 \in V
      OBVIOUS
    <2>2. \E h \in [SUBSET S -> V] : Folds(h, SUBSET S, 0, plus, pick)
      <3> HIDE DEF plus, pick, V
      <3> QED BY <1>2, <2>1, FoldExists
    <2> QED BY <2>2
  <1>4. ASSUME NEW s \in SUBSET S, s # {}
        PROVE  pick[s] = (CHOOSE x \in s : TRUE) /\ pick[s] \in S /\ s \ {pick[s]} \in SUBSET S
    BY <1>2, <1>4 DEF Picks, Chosen
  <1>5. h = body(h)
    <2>1. ASSUME NEW s \in SUBSET S
          PROVE  h[s] = IF s = {} THEN 0
                        ELSE size[CHOOSE x \in s : TRUE] + h[s \ {CHOOSE x \in s : TRUE}]
      <3>1. CASE s = {}
        BY <1>3, <3>1 DEF Folds
      <3>2. CASE s # {}
        <4>1. h[s] = plus[<<pick[s], h[s \ {pick[s]}]>>]
          BY <1>3, <3>2 DEF Folds
        <4>2. h[s \ {pick[s]}] \in Int /\ pick[s] \in S
          BY <1>3, <1>4, <3>2
        <4>3. h[s] = size[pick[s]] + h[s \ {pick[s]}]
          <5> HIDE DEF pick
          <5> QED BY <4>1, <4>2
        <4> QED BY <1>4, <3>2, <4>3
      <3> QED BY <3>1, <3>2
    <2> QED BY <2>1
  <1>6. iter = body(iter)
    <2> HIDE DEF body
    <2> QED BY <1>5
  <1>7. ASSUME NEW s \in SUBSET S
        PROVE  iter[s] = IF s = {} THEN 0 ELSE size[pick[s]] + iter[s \ {pick[s]}]
    <2>1. iter[s] = IF s = {} THEN 0
                    ELSE size[CHOOSE x \in s : TRUE] + iter[s \ {CHOOSE x \in s : TRUE}]
      <3> HIDE DEF iter
      <3> QED BY <1>6
    <2> HIDE DEF iter
    <2> QED BY <1>4, <2>1
  <1>8. iter \in [SUBSET S -> Int]
    <2>1. iter = [s \in SUBSET S |-> iter[s]]
      <3> HIDE DEF iter
      <3> QED BY <1>6
    <2>2. ASSUME NEW s \in SUBSET S PROVE iter[s] \in Int
      <3>1. \A t \in SUBSET s : iter[t] = IF t = {} THEN 0 ELSE size[pick[t]] + iter[t \ {pick[t]}]
        BY <1>7
      <3>2. Picks(pick, s) /\ IsFiniteSet(s)
        BY <1>2, FS_Subset DEF Picks
      <3>3. iter[{}] \in Int
        <4>1. iter[{}] = 0
          <5> HIDE DEF iter, pick
          <5> QED BY <3>1
        <4> QED BY <4>1
      <3>4. ASSUME NEW t \in SUBSET s, t # {}, iter[t \ {pick[t]}] \in Int PROVE iter[t] \in Int
        <4>1. size[pick[t]] \in Int
          BY <1>4, <3>4
        <4>2. iter[t] = size[pick[t]] + iter[t \ {pick[t]}]
          <5> HIDE DEF iter, pick
          <5> QED BY <3>1, <3>4
        <4> HIDE DEF iter, pick
        <4> QED BY <3>4, <4>1, <4>2
      <3> HIDE DEF iter, pick
      <3> QED BY <3>2, <3>3, <3>4, FoldLands
    <2> HIDE DEF iter
    <2> QED BY <2>1, <2>2
  <1>9. Adds(iter, S, size, pick)
    <2> HIDE DEF iter, pick
    <2> QED BY <1>7 DEF Adds
  <1> HIDE DEF iter
  <1> QED BY <1>1, <1>8, <1>9

\* A sum of natural numbers is the size of a heap.
LEMMA SumIsHeap ==
    ASSUME NEW S, IsFiniteSet(S), NEW size \in [S -> Nat]
    PROVE  /\ IsFiniteSet(Heap(size, S)) /\ SumFunction(size) = Cardinality(Heap(size, S))
           /\ SumFunction(size) \in Nat
  <1>1. PICK g \in [SUBSET S -> Int] : SumFunction(size) = g[S] /\ Adds(g, S, size, Chosen(S))
    <2>1. size \in [S -> Int]
      OBVIOUS
    <2> QED BY <2>1, SumFolds
  <1>2. IsFiniteSet(Heap(size, S)) /\ g[S] = Cardinality(Heap(size, S))
    BY <1>1, ChosenPicks, FoldSums
  <1> QED BY <1>1, <1>2, FS_CardinalityType

\* One element more.
LEMMA SumInserts ==
    ASSUME NEW S, IsFiniteSet(S), NEW x \in S, NEW size \in [S -> Nat]
    PROVE  SumFunction(size) = size[x] + SumFunction([y \in S \ {x} |-> size[y]])
  <1> DEFINE rest == [y \in S \ {x} |-> size[y]]
  <1>1. IsFiniteSet(S \ {x}) /\ rest \in [S \ {x} -> Nat]
    BY FS_Subset
  <1>2. IsFiniteSet(Heap(rest, S \ {x})) /\ SumFunction(rest) = Cardinality(Heap(rest, S \ {x}))
    <2> HIDE DEF rest
    <2> QED BY <1>1, SumIsHeap
  <1>3. Heap(rest, S \ {x}) = Heap(size, S \ {x})
    BY DEF Heap
  <1>4. SumFunction(size) = Cardinality(Heap(size, S))
    BY SumIsHeap
  <1>5. (S \ {x}) \cup {x} = S /\ x \notin S \ {x} /\ S \ {x} \in SUBSET S
    OBVIOUS
  <1>6. Cardinality(Heap(size, (S \ {x}) \cup {x})) = size[x] + Cardinality(Heap(size, S \ {x}))
    <2>1. IsFiniteSet(Heap(size, S \ {x}))
      BY <1>2, <1>3
    <2> QED BY <1>5, <2>1, HeapGrows
  <1> QED BY <1>2, <1>3, <1>4, <1>5, <1>6

\* A sum is at most another one that has a larger term of its own for each of its terms.
LEMMA SumCompares ==
    ASSUME NEW S, NEW T, IsFiniteSet(S), IsFiniteSet(T), NEW size \in [S -> Nat], NEW tall \in [T -> Nat],
           NEW m \in [S -> T], \A x, y \in S : m[x] = m[y] => x = y,
           \A x \in S : size[x] <= tall[m[x]]
    PROVE  SumFunction(size) <= SumFunction(tall)
  <1> DEFINE up == [z \in Heap(size, S) |-> <<m[z[1]], z[2]>>]
  <1>1. /\ IsFiniteSet(Heap(size, S)) /\ SumFunction(size) = Cardinality(Heap(size, S))
        /\ IsFiniteSet(Heap(tall, T)) /\ SumFunction(tall) = Cardinality(Heap(tall, T))
    BY SumIsHeap
  <1>2. ASSUME NEW z \in Heap(size, S)
        PROVE  /\ z = <<z[1], z[2]>> /\ z[1] \in S /\ z[2] \in 1..size[z[1]]
               /\ <<m[z[1]], z[2]>> \in Heap(tall, T)
    <2>1. PICK x \in S : z \in {x} \X (1 .. size[x])
      BY DEF Heap
    <2>2. z = <<x, z[2]>> /\ z[1] = x /\ z[2] \in 1 .. size[x]
      BY <2>1
    <2>3. size[x] \in Nat /\ tall[m[x]] \in Nat /\ size[x] <= tall[m[x]] /\ m[x] \in T
      BY <2>1
    <2>4. z[2] \in 1 .. tall[m[x]]
      BY <2>2, <2>3
    <2>5. <<m[x], z[2]>> \in {m[x]} \X (1 .. tall[m[x]])
      BY <2>4
    <2>6. <<m[x], z[2]>> \in Heap(tall, T)
      BY <2>3, <2>5 DEF Heap
    <2> QED BY <2>2, <2>6
  <1>3. up \in Injection(Heap(size, S), Heap(tall, T))
    <2>1. up \in [Heap(size, S) -> Heap(tall, T)]
      BY <1>2
    <2>2. ASSUME NEW y \in Heap(size, S), NEW z \in Heap(size, S), up[y] = up[z] PROVE y = z
      <3>1. m[y[1]] = m[z[1]] /\ y[2] = z[2]
        BY <2>2
      <3>2. y[1] = z[1]
        BY <1>2, <3>1
      <3> QED BY <1>2, <3>1, <3>2
    <2> HIDE DEF up
    <2> QED BY <2>1, <2>2 DEF Injection, IsInjective
  <1>4. Cardinality(Heap(size, S)) <= Cardinality(Heap(tall, T))
    <2> HIDE DEF up
    <2> QED BY <1>1, <1>3, FS_Injection
  <1> QED BY <1>1, <1>4
-----------------------------------------------------------------------------
(***************************************************************************)
(* Sums of integers: what is gained less what is lost.                     *)
(***************************************************************************)
Whole == Int
Gains(size) == [x \in DOMAIN size |-> IF size[x] > 0 THEN size[x] ELSE 0]
Losses(size) == [x \in DOMAIN size |-> IF size[x] > 0 THEN 0 ELSE -size[x]]

LEMMA GainsLosses ==
    ASSUME NEW S, NEW size \in [S -> Whole]
    PROVE  /\ Gains(size) \in [S -> Nat] /\ Losses(size) \in [S -> Nat]
           /\ \A x \in S : size[x] = Gains(size)[x] - Losses(size)[x]
  BY DEF Gains, Losses, Whole

LEMMA IntSum ==
    ASSUME NEW S, IsFiniteSet(S), NEW size \in [S -> Whole]
    PROVE  /\ SumFunction(size) = SumFunction(Gains(size)) - SumFunction(Losses(size))
           /\ SumFunction(size) \in Whole
           /\ SumFunction(Gains(size)) \in Nat /\ SumFunction(Losses(size)) \in Nat
  <1> DEFINE up == Gains(size)  down == Losses(size)  pick == Chosen(S)
  <1>1. up \in [S -> Nat] /\ down \in [S -> Nat] /\ \A x \in S : size[x] = up[x] - down[x]
    BY GainsLosses
  <1>2. up \in [S -> Whole] /\ down \in [S -> Whole]
    BY <1>1 DEF Whole
  <1> HIDE DEF up, down, pick
  <1>3. PICK g \in [SUBSET S -> Whole] : SumFunction(size) = g[S] /\ Adds(g, S, size, pick)
    BY SumFolds DEF pick, Whole
  <1>4. PICK u \in [SUBSET S -> Whole] : SumFunction(up) = u[S] /\ Adds(u, S, up, pick)
    BY <1>2, SumFolds DEF pick, Whole
  <1>5. PICK d \in [SUBSET S -> Whole] : SumFunction(down) = d[S] /\ Adds(d, S, down, pick)
    BY <1>2, SumFolds DEF pick, Whole
  <1> DEFINE all == [s \in SUBSET S |-> g[s] - u[s] + d[s]]
  <1>6. Picks(pick, S)
    BY ChosenPicks DEF pick
  <1>7. all[{}] \in {0}
    BY <1>3, <1>4, <1>5 DEF Adds, Whole
  <1>8. ASSUME NEW s \in SUBSET S, s # {}, all[s \ {pick[s]}] \in {0} PROVE all[s] \in {0}
    <2>1. pick[s] \in S /\ s \ {pick[s]} \in SUBSET S
      BY <1>6, <1>8 DEF Picks
    <2> DEFINE x == pick[s]  t == s \ {pick[s]}
    <2>2. g[s] = size[x] + g[t] /\ u[s] = up[x] + u[t] /\ d[s] = down[x] + d[t]
      BY <1>3, <1>4, <1>5, <1>8 DEF Adds
    <2>3. g[t] - u[t] + d[t] = 0
      BY <1>8, <2>1
    <2>4. size[x] \in Int /\ up[x] \in Int /\ down[x] \in Int /\ size[x] = up[x] - down[x]
      BY <1>1, <1>2, <2>1
    <2>5. g[t] \in Int /\ u[t] \in Int /\ d[t] \in Int
      BY <2>1 DEF Whole
    <2>6. g[s] - u[s] + d[s] = 0
      <3> HIDE DEF x, t
      <3> QED BY <2>2, <2>3, <2>4, <2>5
    <2> QED BY <2>6
  <1>9. all[S] \in {0}
    <2> DEFINE Good == {0}
    <2>1. /\ all[{}] \in Good
          /\ \A s \in SUBSET S : s # {} /\ all[s \ {pick[s]}] \in Good => all[s] \in Good
      <3> HIDE DEF all
      <3> QED BY <1>7, <1>8
    <2>2. all[S] \in Good
      <3> HIDE DEF all, Good
      <3> QED BY <1>6, <2>1, FoldLands
    <2> QED BY <2>2
  <1>10. SumFunction(up) \in Nat /\ SumFunction(down) \in Nat
    BY <1>1, SumIsHeap
  <1>11. g[S] - u[S] + d[S] = 0 /\ g[S] \in Int /\ u[S] \in Int /\ d[S] \in Int
    BY <1>9 DEF Whole
  <1>12. SumFunction(size) = SumFunction(up) - SumFunction(down) /\ SumFunction(size) \in Whole
    BY <1>3, <1>4, <1>5, <1>11 DEF Whole
  <1> QED BY <1>10, <1>12 DEF up, down

\* One element more.
LessOne(rest, size, S, x) ==
    /\ IsFiniteSet(S) /\ x \in S /\ size \in [S -> Whole] /\ rest \in [S \ {x} -> Whole]
    /\ \A y \in S \ {x} : rest[y] = size[y]

LEMMA IntSumInserts ==
    ASSUME NEW S, NEW x, NEW size, NEW rest, LessOne(rest, size, S, x)
    PROVE  SumFunction(size) = size[x] + SumFunction(rest)
  <1> DEFINE up == Gains(size)  down == Losses(size)
  <1>0. /\ IsFiniteSet(S) /\ x \in S /\ size \in [S -> Whole] /\ rest \in [S \ {x} -> Whole]
        /\ \A y \in S \ {x} : rest[y] = size[y]
    BY DEF LessOne
  <1>1. IsFiniteSet(S \ {x})
    BY <1>0, FS_Subset
  <1>2. /\ Gains(rest) = [y \in S \ {x} |-> up[y]]
        /\ Losses(rest) = [y \in S \ {x} |-> down[y]]
    BY <1>0 DEF Gains, Losses
  <1>3. up \in [S -> Nat] /\ down \in [S -> Nat] /\ size[x] = up[x] - down[x]
    BY <1>0, GainsLosses
  <1>4. /\ SumFunction(rest) = SumFunction(Gains(rest)) - SumFunction(Losses(rest))
        /\ SumFunction(Gains(rest)) \in Nat /\ SumFunction(Losses(rest)) \in Nat
    BY <1>0, <1>1, IntSum
  <1>5. SumFunction(size) = SumFunction(up) - SumFunction(down)
    BY <1>0, IntSum
  <1>6. /\ SumFunction(up) = up[x] + SumFunction(Gains(rest))
        /\ SumFunction(down) = down[x] + SumFunction(Losses(rest))
    <2> HIDE DEF up, down
    <2> QED BY <1>0, <1>2, <1>3, SumInserts
  <1>7. up[x] \in Nat /\ down[x] \in Nat
    <2> HIDE DEF up, down
    <2> QED BY <1>0, <1>3
  <1> HIDE DEF up, down
  <1> QED BY <1>3, <1>4, <1>5, <1>6, <1>7

\* One element changes.
LEMMA IntSumChanges ==
    ASSUME NEW S, IsFiniteSet(S), NEW x \in S, NEW old \in [S -> Whole], NEW new \in [S -> Whole],
           \A y \in S \ {x} : new[y] = old[y]
    PROVE  SumFunction(new) = SumFunction(old) - old[x] + new[x]
  <1> DEFINE rest == [y \in S \ {x} |-> old[y]]
  <1>1. rest \in [S \ {x} -> Whole] /\ \A y \in S \ {x} : rest[y] = old[y] /\ rest[y] = new[y]
    OBVIOUS
  <1> HIDE DEF rest
  <1>2. SumFunction(old) = old[x] + SumFunction(rest)
    BY <1>1, IntSumInserts DEF LessOne
  <1>3. SumFunction(new) = new[x] + SumFunction(rest)
    BY <1>1, IntSumInserts DEF LessOne
  <1>4. SumFunction(rest) \in Int
    BY <1>1, FS_Subset, IntSum
  <1>5. old[x] \in Int /\ new[x] \in Int
    BY DEF Whole
  <1> QED BY <1>2, <1>3, <1>4, <1>5

\* The elements are named otherwise.
LEMMA IntSumRenamed ==
    ASSUME NEW S, NEW T, IsFiniteSet(S), IsFiniteSet(T), NEW size \in [S -> Whole], NEW tall \in [T -> Whole],
           NEW m \in [S -> T], NEW w \in [T -> S], \A x \in S : w[m[x]] = x, \A y \in T : m[w[y]] = y,
           \A x \in S : size[x] = tall[m[x]]
    PROVE  SumFunction(size) = SumFunction(tall)
  <1>1. /\ \A x, y \in S : m[x] = m[y] => x = y
        /\ \A x, y \in T : w[x] = w[y] => x = y
        /\ \A y \in T : tall[y] = size[w[y]]
    OBVIOUS
  <1>2. ASSUME NEW a \in [S -> Nat], NEW b \in [T -> Nat], \A x \in S : a[x] = b[m[x]]
        PROVE  SumFunction(a) = SumFunction(b)
    <2>1. \A x \in S : a[x] <= b[m[x]]
      BY <1>2
    <2>2. \A y \in T : b[y] <= a[w[y]]
      BY <1>2
    <2>3. SumFunction(a) <= SumFunction(b)
      BY <1>1, <2>1, SumCompares
    <2>4. SumFunction(b) <= SumFunction(a)
      BY <1>1, <2>2, SumCompares
    <2>5. SumFunction(a) \in Nat /\ SumFunction(b) \in Nat
      BY SumIsHeap
    <2> QED BY <2>3, <2>4, <2>5
  <1>3. /\ Gains(size) \in [S -> Nat] /\ Gains(tall) \in [T -> Nat]
        /\ \A x \in S : Gains(size)[x] = Gains(tall)[m[x]]
        /\ Losses(size) \in [S -> Nat] /\ Losses(tall) \in [T -> Nat]
        /\ \A x \in S : Losses(size)[x] = Losses(tall)[m[x]]
    BY DEF Gains, Losses, Whole
  <1>4. SumFunction(Gains(size)) = SumFunction(Gains(tall))
    BY <1>2, <1>3
  <1>5. SumFunction(Losses(size)) = SumFunction(Losses(tall))
    BY <1>2, <1>3
  <1> QED BY <1>4, <1>5, IntSum

-----------------------------------------------------------------------------
(* Induction and recursion over sets and numbers, for a set P in place of a  *)
(* predicate and a function step in place of an operator.                    *)

LEMMA CountUp ==
    ASSUME NEW P, 0 \in P, \A n \in Nat : n \in P => n + 1 \in P
    PROVE  \A n \in Nat : n \in P
  <1> DEFINE T == {n \in Nat : n \notin P}
  <1>1. T = {}
    <2> SUFFICES ASSUME T # {} PROVE FALSE
      OBVIOUS
    <2>1. PICK m \in T : \A n \in T : m <= n
      BY LeastNat
    <2>2. m \in Nat /\ m # 0 /\ m \notin P
      BY <2>1
    <2>3. m - 1 \in Nat /\ ~ (m <= m - 1) /\ (m - 1) + 1 = m
      BY <2>2
    <2>4. m - 1 \in P
      BY <2>1, <2>3
    <2> QED BY <2>2, <2>3, <2>4
  <1> QED BY <1>1

\* The sets that have fewer elements of S outside.
LEMMA FewerLeft ==
    ASSUME NEW S, IsFiniteSet(S), NEW A \in SUBSET S, NEW B \in SUBSET S, A \subseteq B, A # B
    PROVE  /\ Cardinality(S \ A) \in Nat /\ Cardinality(S \ B) \in Nat
           /\ Cardinality(S \ B) < Cardinality(S \ A)
  <1>1. IsFiniteSet(S \ A) /\ S \ B \in SUBSET (S \ A) /\ S \ B # S \ A
    BY FS_Difference
  <1>2. /\ IsFiniteSet(S \ B) /\ Cardinality(S \ B) <= Cardinality(S \ A)
        /\ Cardinality(S \ A) # Cardinality(S \ B)
    BY <1>1, FS_Subset
  <1>3. Cardinality(S \ A) \in Nat /\ Cardinality(S \ B) \in Nat
    BY <1>1, <1>2, FS_CardinalityType
  <1> QED BY <1>2, <1>3

LEMMA CountDown ==
    ASSUME NEW S, IsFiniteSet(S), NEW P,
           \A A \in SUBSET S : (\A B \in SUBSET S : A \subseteq B /\ A # B => B \in P) => A \in P
    PROVE  \A A \in SUBSET S : A \in P
  <1> DEFINE T == {n \in Nat : \E A \in SUBSET S : A \notin P /\ Cardinality(S \ A) = n}
  <1>1. T = {}
    <2> SUFFICES ASSUME T # {} PROVE FALSE
      OBVIOUS
    <2>1. PICK m \in T : \A n \in T : m <= n
      BY LeastNat
    <2>2. PICK A \in SUBSET S : A \notin P /\ Cardinality(S \ A) = m
      BY <2>1
    <2>3. ASSUME NEW B \in SUBSET S, A \subseteq B, A # B PROVE B \in P
      <3>1. Cardinality(S \ B) \in Nat /\ Cardinality(S \ B) < m /\ m \in Nat
        BY <2>2, <2>3, FewerLeft
      <3>2. PICK k : k = Cardinality(S \ B)
        OBVIOUS
      <3>3. k \in Nat /\ ~ (m <= k)
        BY <3>1, <3>2
      <3>4. k \notin T
        BY <2>1, <3>3
      <3> QED BY <3>2, <3>3, <3>4
    <2> QED BY <2>2, <2>3
  <1>2. \A A \in SUBSET S : Cardinality(S \ A) \in Nat
    BY FS_Difference, FS_CardinalityType
  <1>3. ASSUME NEW A \in SUBSET S PROVE A \in P
    <2>1. PICK k \in Nat : k = Cardinality(S \ A)
      BY <1>2
    <2>2. k \notin T
      BY <1>1
    <2> QED BY <2>1, <2>2
  <1> QED BY <1>3

\* What step makes of a set from what g has for the larger ones.
Larger(S, A, g, h) == \A B \in SUBSET S : A \subseteq B /\ A # B => g[B] = h[B]

Descends(S, V, step) ==
    /\ V # {} /\ step \in [(SUBSET S) \X [SUBSET S -> V] -> V]
    /\ \A A \in SUBSET S : \A g, h \in [SUBSET S -> V] :
          Larger(S, A, g, h) => step[<<A, g>>] = step[<<A, h>>]
Descended(g, S, V, step) == g \in [SUBSET S -> V] /\ \A A \in SUBSET S : g[A] = step[<<A, g>>]

LEMMA DownRecursion ==
    ASSUME NEW S, IsFiniteSet(S), NEW V, NEW step, Descends(S, V, step)
    PROVE  \E g : Descended(g, S, V, step)
  <1>0. PICK some : some \in V
    BY DEF Descends
  <1> DEFINE Up(g, n) == \A A \in SUBSET S : Cardinality(S \ A) < n => g[A] = step[<<A, g>>]
             P == {n \in Nat : \E g \in [SUBSET S -> V] : Up(g, n)}
  <1>1. \A A \in SUBSET S : Cardinality(S \ A) \in Nat
    BY FS_Difference, FS_CardinalityType
  <1>2. 0 \in P
    <2>1. [A \in SUBSET S |-> some] \in [SUBSET S -> V]
      BY <1>0
    <2>2. ASSUME NEW A \in SUBSET S PROVE ~ (Cardinality(S \ A) < 0)
      <3>1. PICK k \in Nat : k = Cardinality(S \ A)
        BY <1>1
      <3> QED BY <3>1
    <2>3. Up([A \in SUBSET S |-> some], 0)
      BY <2>2
    <2> QED BY <2>1, <2>3
  <1>3. ASSUME NEW n \in Nat, n \in P PROVE n + 1 \in P
    <2>1. PICK g \in [SUBSET S -> V] : Up(g, n)
      BY <1>3
    <2> DEFINE h == [A \in SUBSET S |-> IF Cardinality(S \ A) < n THEN g[A] ELSE step[<<A, g>>]]
    <2>2. h \in [SUBSET S -> V]
      <3>1. \A A \in SUBSET S : step[<<A, g>>] \in V /\ g[A] \in V
        BY <2>1 DEF Descends
      <3> QED BY <3>1
    <2>3. ASSUME NEW A \in SUBSET S, Cardinality(S \ A) < n + 1 PROVE h[A] = step[<<A, h>>]
      <3>1. ASSUME NEW B \in SUBSET S, A \subseteq B, A # B PROVE g[B] = h[B]
        <4>1. /\ Cardinality(S \ A) \in Nat /\ Cardinality(S \ B) \in Nat
              /\ Cardinality(S \ B) < Cardinality(S \ A)
          BY <3>1, FewerLeft
        <4>2. Cardinality(S \ B) < n
          BY <2>3, <4>1
        <4> QED BY <4>2
      <3>2. step[<<A, g>>] = step[<<A, h>>]
        <4>1. Larger(S, A, g, h)
          BY <3>1 DEF Larger
        <4> HIDE DEF h
        <4> QED BY <2>1, <2>2, <4>1 DEF Descends
      <3>3. h[A] = step[<<A, g>>]
        BY <2>1
      <3> QED BY <3>2, <3>3
    <2>4. Up(h, n + 1)
      <3> HIDE DEF h
      <3> QED BY <2>3
    <2> HIDE DEF h, Up
    <2> QED BY <2>2, <2>4
  <1> HIDE DEF P
  <1>4. \A n \in Nat : n \in P
    BY <1>2, <1>3, CountUp
  <1>5. Cardinality(S) \in Nat
    BY FS_CardinalityType
  <1>6. PICK g \in [SUBSET S -> V] : Up(g, Cardinality(S) + 1)
    <2>1. Cardinality(S) + 1 \in P
      BY <1>4, <1>5
    <2> QED BY <2>1 DEF P
  <1>7. ASSUME NEW A \in SUBSET S PROVE g[A] = step[<<A, g>>]
    <2>1. Cardinality(S \ A) <= Cardinality(S)
      <3>1. S \ A \in SUBSET S
        OBVIOUS
      <3> QED BY <3>1, FS_Subset
    <2>2. PICK j, k : j = Cardinality(S \ A) /\ k = Cardinality(S)
      OBVIOUS
    <2>3. j \in Nat /\ k \in Nat /\ j <= k
      BY <1>1, <1>5, <2>1, <2>2
    <2>4. Cardinality(S \ A) < Cardinality(S) + 1
      BY <2>2, <2>3
    <2> QED BY <1>6, <2>4
  <1> QED BY <1>6, <1>7 DEF Descended

\* What step makes of each number from what f has for the one before.
StepsUp(N, V, base, step) == N \in Nat /\ base \in V /\ step \in [(1 .. N) \X V -> V]

Climbs(f, N, V, base, step) ==
    /\ f \in [0 .. N -> V] /\ f[0] = base
    /\ \A n \in 1 .. N : f[n] = step[<<n, f[n - 1]>>]

LEMMA UpRecursion ==
    ASSUME NEW N, NEW V, NEW base, NEW step, StepsUp(N, V, base, step)
    PROVE  \E f : Climbs(f, N, V, base, step)
  <1>0. N \in Nat /\ base \in V /\ step \in [(1 .. N) \X V -> V]
    BY DEF StepsUp
  <1> DEFINE Upto(f, m) == f[0] = base /\ \A n \in 1 .. N : n <= m => f[n] = step[<<n, f[n - 1]>>]
             P == {m \in Nat : \E f \in [0 .. N -> V] : Upto(f, m)}
  <1>1. 0 \in P
    <2>1. [n \in 0 .. N |-> base] \in [0 .. N -> V] /\ 0 \in 0 .. N
      BY <1>0
    <2>2. Upto([n \in 0 .. N |-> base], 0)
      BY <2>1
    <2> QED BY <2>1, <2>2
  <1>2. ASSUME NEW m \in Nat, m \in P PROVE m + 1 \in P
    <2>1. PICK f \in [0 .. N -> V] : Upto(f, m)
      BY <1>2
    <2>2. CASE m + 1 \in 1 .. N
      <3> DEFINE v == step[<<m + 1, f[m]>>]
                 h == [n \in 0 .. N |-> IF n = m + 1 THEN v ELSE f[n]]
      <3>1. m \in 0 .. N /\ v \in V
        BY <1>0, <2>1, <2>2
      <3> HIDE DEF v
      <3>2. h \in [0 .. N -> V]
        BY <1>0, <2>1, <3>1
      <3>3. h[0] = base
        BY <1>0, <2>1
      <3>4. ASSUME NEW n \in 1 .. N, n <= m + 1 PROVE h[n] = step[<<n, h[n - 1]>>]
        <4>1. n - 1 \in 0 .. N /\ n \in 0 .. N /\ n - 1 # m + 1
          BY <1>0, <3>4
        <4>2. h[n - 1] = f[n - 1]
          BY <4>1
        <4>3. CASE n = m + 1
          BY <4>1, <4>2, <4>3 DEF v
        <4>4. CASE n # m + 1
          <5>1. n <= m /\ h[n] = f[n]
            BY <3>4, <4>1, <4>4
          <5> HIDE DEF h
          <5> QED BY <2>1, <4>2, <5>1
        <4> QED BY <4>3, <4>4
      <3>5. Upto(h, m + 1)
        <4> HIDE DEF h
        <4> QED BY <3>3, <3>4
      <3> HIDE DEF h, Upto
      <3> QED BY <3>2, <3>5
    <2>3. CASE m + 1 \notin 1 .. N
      <3>1. \A n \in 1 .. N : n <= m + 1 => n <= m
        BY <1>0, <2>3
      <3>2. Upto(f, m + 1)
        BY <2>1, <3>1
      <3> HIDE DEF Upto
      <3> QED BY <3>2
    <2> QED BY <2>2, <2>3
  <1> HIDE DEF P
  <1>3. N \in P
    BY <1>0, <1>1, <1>2, CountUp
  <1>4. PICK f \in [0 .. N -> V] : Upto(f, N)
    BY <1>3 DEF P
  <1>5. \A n \in 1 .. N : n <= N
    BY <1>0
  <1> QED BY <1>4, <1>5 DEF Climbs

LEMMA GrowInduct ==
    ASSUME NEW S, IsFiniteSet(S), NEW P, {} \in P,
           \A s \in SUBSET S : \A x \in S \ s : s \in P => s \cup {x} \in P
    PROVE  S \in P
  <1> DEFINE Q == {A \in SUBSET S : S \ A \in P}
  <1>1. ASSUME NEW A \in SUBSET S, \A B \in SUBSET S : A \subseteq B /\ A # B => B \in Q
        PROVE  A \in Q
    <2>1. CASE A = S
      BY <2>1
    <2>2. CASE A # S
      <3>1. PICK x \in S \ A : TRUE
        BY <2>2
      <3>2. A \cup {x} \in Q
        BY <1>1, <3>1
      <3>3. (S \ (A \cup {x})) \cup {x} = S \ A
        BY <3>1
      <3>4. x \in S \ (S \ (A \cup {x})) /\ S \ (A \cup {x}) \in SUBSET S
        BY <3>1
      <3> QED BY <3>2, <3>3, <3>4
    <2> QED BY <2>1, <2>2
  <1> HIDE DEF Q
  <1>2. {} \in Q
    BY <1>1, CountDown
  <1>3. S \ {} = S
    OBVIOUS
  <1> QED BY <1>2, <1>3 DEF Q

LEMMA SumOfNone ==
    ASSUME NEW size \in [{} -> Nat]
    PROVE  SumFunction(size) = 0
  <1>1. Heap(size, {}) = {}
    BY DEF Heap
  <1> QED BY <1>1, SumIsHeap, FS_EmptySet

Splits(size, left, right, U, S, T) ==
    /\ IsFiniteSet(S) /\ IsFiniteSet(T) /\ S \cap T = {} /\ U = S \cup T
    /\ size \in [U -> Nat] /\ left \in [S -> Nat] /\ right \in [T -> Nat]
    /\ \A x \in S : left[x] = size[x]
    /\ \A x \in T : right[x] = size[x]

LEMMA SumOfBoth ==
    ASSUME NEW S, NEW T, NEW U, NEW size, NEW left, NEW right, Splits(size, left, right, U, S, T)
    PROVE  IsFiniteSet(U) /\ SumFunction(size) = SumFunction(left) + SumFunction(right)
  <1>0. /\ IsFiniteSet(S) /\ IsFiniteSet(T) /\ S \cap T = {} /\ U = S \cup T
        /\ size \in [U -> Nat] /\ left \in [S -> Nat] /\ right \in [T -> Nat]
        /\ \A x \in S : left[x] = size[x]
        /\ \A x \in T : right[x] = size[x]
    BY DEF Splits
  <1>1. Heap(size, U) = Heap(left, S) \cup Heap(right, T) /\ Heap(left, S) \cap Heap(right, T) = {}
    BY <1>0 DEF Heap
  <1>2. /\ IsFiniteSet(Heap(left, S)) /\ SumFunction(left) = Cardinality(Heap(left, S))
        /\ SumFunction(left) \in Nat
    BY <1>0, SumIsHeap
  <1>3. /\ IsFiniteSet(Heap(right, T)) /\ SumFunction(right) = Cardinality(Heap(right, T))
        /\ SumFunction(right) \in Nat
    BY <1>0, SumIsHeap
  <1>4. IsFiniteSet(U)
    BY <1>0, FS_Union
  <1>5. SumFunction(size) = Cardinality(Heap(size, U))
    BY <1>0, <1>4, SumIsHeap
  <1>6. Cardinality(Heap(size, U)) =
            Cardinality(Heap(left, S)) + Cardinality(Heap(right, T)) - Cardinality({})
    BY <1>1, <1>2, <1>3, FS_Union
  <1>7. Cardinality({}) = 0
    BY FS_EmptySet
  <1> DEFINE a == SumFunction(left)  b == SumFunction(right)
  <1>8. SumFunction(size) = a + b - 0 /\ a \in Nat /\ b \in Nat
    BY <1>2, <1>3, <1>5, <1>6, <1>7
  <1> HIDE DEF a, b
  <1>9. SumFunction(size) = a + b
    BY <1>8
  <1> QED BY <1>4, <1>9 DEF a, b

LEMMA SumScales ==
    ASSUME NEW S, IsFiniteSet(S), NEW c \in Nat, NEW size \in [S -> Nat], NEW more \in [S -> Nat],
           \A x \in S : more[x] = c * size[x]
    PROVE  SumFunction(more) = c * SumFunction(size)
  <1> DEFINE Some(s) == [x \in s |-> size[x]]
             Many(s) == [x \in s |-> more[x]]
             P == {s \in SUBSET S : SumFunction(Many(s)) = c * SumFunction(Some(s))}
  <1>1. {} \in P
    <2>1. Some({}) \in [{} -> Nat] /\ Many({}) \in [{} -> Nat]
      OBVIOUS
    <2>2. SumFunction(Some({})) = 0 /\ SumFunction(Many({})) = 0
      <3> HIDE DEF Some, Many
      <3> QED BY <2>1, SumOfNone
    <2> QED BY <2>2
  <1>2. ASSUME NEW s \in SUBSET S, NEW x \in S \ s, s \in P PROVE s \cup {x} \in P
    <2> DEFINE t == s \cup {x}
    <2>1. /\ IsFiniteSet(t) /\ x \in t /\ t \ {x} = s /\ IsFiniteSet(s)
      BY FS_Subset
    <2>2. /\ Some(t) \in [t -> Nat] /\ Many(t) \in [t -> Nat]
          /\ Some(t)[x] = size[x] /\ Many(t)[x] = more[x]
      BY <2>1
    <2>3. \A y \in t \ {x} : Some(t)[y] = Some(s)[y] /\ Many(t)[y] = Many(s)[y]
      BY <2>1
    <2>4. Some(s) \in [s -> Nat] /\ Many(s) \in [s -> Nat]
      OBVIOUS
    <2>5. SumFunction(Many(s)) = c * SumFunction(Some(s))
      BY <1>2
    <2> HIDE DEF Some, Many, t
    <2>6. /\ SumFunction(Some(t)) = size[x] + SumFunction(Some(s))
          /\ SumFunction(Many(t)) = more[x] + SumFunction(Many(s))
      <3>1. LessOne(Some(s), Some(t), t, x) /\ LessOne(Many(s), Many(t), t, x)
        BY <2>1, <2>2, <2>3, <2>4 DEF LessOne, Whole
      <3> QED BY <2>2, <3>1, IntSumInserts
    <2> DEFINE a == size[x]  b == SumFunction(Some(s))
    <2>7. a \in Nat /\ b \in Nat /\ more[x] = c * a
      BY <2>1, <2>4, SumIsHeap
    <2> HIDE DEF a, b
    <2>8. c * a + c * b = c * (a + b)
      BY <2>7
    <2>9. SumFunction(Many(t)) = c * SumFunction(Some(t))
      BY <2>5, <2>6, <2>7, <2>8 DEF a, b
    <2> QED BY <2>9 DEF t
  <1>3. S \in P
    <2> HIDE DEF P
    <2> QED BY <1>1, <1>2, GrowInduct
  <1>4. Some(S) = size /\ Many(S) = more
    OBVIOUS
  <1> QED BY <1>3, <1>4

\* The pairs of an x of S and a member of T[x].
Spread(S, T) == UNION {{x} \X T[x] : x \in S}

Extends(new, old, t, s, x, T, v) ==
    /\ x \notin s /\ t = s \cup {x} /\ IsFiniteSet(Spread(s, T)) /\ IsFiniteSet(T[x])
    /\ v \in [T[x] -> Nat] /\ old \in [Spread(s, T) -> Nat] /\ new \in [Spread(t, T) -> Nat]
    /\ \A z \in Spread(s, T) : old[z] = new[z]
    /\ \A y \in T[x] : new[<<x, y>>] = v[y]

LEMMA SpreadGrows ==
    ASSUME NEW s, NEW T, NEW x, NEW t, NEW v, NEW old, NEW new, Extends(new, old, t, s, x, T, v)
    PROVE  IsFiniteSet(Spread(t, T)) /\ SumFunction(new) = SumFunction(old) + SumFunction(v)
  <1> PICK A, B, C : A = T[x] /\ B = Spread(s, T) /\ C = Spread(t, T)
    OBVIOUS
  <1> DEFINE own == {x} \X A
             mine == [z \in own |-> v[z[2]]]
             first == [z \in own |-> z[2]]
             back == [y \in A |-> <<x, y>>]
  <1>0. /\ x \notin s /\ t = s \cup {x} /\ IsFiniteSet(B) /\ IsFiniteSet(A)
        /\ v \in [A -> Nat] /\ old \in [B -> Nat] /\ new \in [C -> Nat]
        /\ \A z \in B : old[z] = new[z]
        /\ \A y \in A : new[<<x, y>>] = v[y]
    BY DEF Extends
  <1>1. C = B \cup own /\ B \cap own = {}
    BY <1>0 DEF Spread
  <1>2. IsFiniteSet(own)
    <2>1. IsFiniteSet({x})
      BY FS_Singleton
    <2> QED BY <1>0, <2>1, FS_Product
  <1>3. mine \in [own -> Nat] /\ \A z \in own : mine[z] = new[z]
    <2>1. \A z \in own : z = <<x, z[2]>> /\ z[2] \in A
      OBVIOUS
    <2>2. \A z \in own : v[z[2]] = new[<<x, z[2]>>]
      BY <1>0, <2>1
    <2> QED BY <1>0, <2>1, <2>2
  <1>4. SumFunction(mine) = SumFunction(v)
    <2>1. /\ first \in [own -> A] /\ back \in [A -> own]
          /\ \A z \in own : back[first[z]] = z /\ mine[z] = v[first[z]]
          /\ \A y \in A : first[back[y]] = y
      OBVIOUS
    <2>2. mine \in [own -> Whole] /\ v \in [A -> Whole]
      BY <1>0, <1>3 DEF Whole
    <2> HIDE DEF mine, own, first, back
    <2> QED BY <1>0, <1>2, <2>1, <2>2, IntSumRenamed
  <1> HIDE DEF mine, own
  <1>5. IsFiniteSet(C) /\ SumFunction(new) = SumFunction(old) + SumFunction(mine)
    <2>1. Splits(new, old, mine, C, B, own)
      BY <1>0, <1>1, <1>2, <1>3 DEF Splits
    <2> QED BY <2>1, SumOfBoth
  <1> QED BY <1>4, <1>5

LEMMA SumSpreads ==
    ASSUME NEW S, IsFiniteSet(S), NEW T, \A x \in S : IsFiniteSet(T[x]),
           NEW val, \A x \in S : val[x] \in [T[x] -> Nat]
    PROVE  /\ IsFiniteSet(Spread(S, T))
           /\ SumFunction([z \in Spread(S, T) |-> val[z[1]][z[2]]]) =
                  SumFunction([x \in S |-> SumFunction(val[x])])
  <1> DEFINE All(s) == [z \in Spread(s, T) |-> val[z[1]][z[2]]]
             Each(s) == [x \in s |-> SumFunction(val[x])]
             P == {s \in SUBSET S : IsFiniteSet(Spread(s, T)) /\ SumFunction(All(s)) = SumFunction(Each(s))}
  <1>1. \A x \in S : SumFunction(val[x]) \in Nat
    BY SumIsHeap
  <1>2. \A s \in SUBSET S : All(s) \in [Spread(s, T) -> Nat] /\ Each(s) \in [s -> Nat]
    BY <1>1 DEF Spread
  <1>3. {} \in P
    <2>1. Spread({}, T) = {}
      BY DEF Spread
    <2>2. SumFunction(All({})) = 0 /\ SumFunction(Each({})) = 0
      <3>1. All({}) \in [{} -> Nat] /\ Each({}) \in [{} -> Nat]
        BY <1>2, <2>1
      <3> HIDE DEF All, Each
      <3> QED BY <3>1, SumOfNone
    <2> HIDE DEF All, Each
    <2> QED BY <2>1, <2>2, FS_EmptySet
  <1>4. ASSUME NEW s \in SUBSET S, NEW x \in S \ s, s \in P PROVE s \cup {x} \in P
    <2>1. PICK t : t = s \cup {x}
      OBVIOUS
    <2>2. PICK old, new, one, two : old = All(s) /\ new = All(t) /\ one = Each(s) /\ two = Each(t)
      OBVIOUS
    <2>3. t \in SUBSET S /\ IsFiniteSet(t) /\ x \in t /\ t \ {x} = s
      BY <2>1, FS_Subset
    <2>4. /\ old \in [Spread(s, T) -> Nat] /\ new \in [Spread(t, T) -> Nat]
          /\ one \in [s -> Nat] /\ two \in [t -> Nat]
      BY <1>2, <2>2, <2>3
    <2>5. /\ \A z \in Spread(s, T) : old[z] = new[z]
          /\ \A y \in T[x] : new[<<x, y>>] = val[x][y]
      BY <2>1, <2>2 DEF Spread
    <2>6. two[x] = SumFunction(val[x]) /\ \A y \in t \ {x} : one[y] = two[y]
      BY <2>2, <2>3
    <2>7. IsFiniteSet(T[x]) /\ val[x] \in [T[x] -> Nat] /\ two[x] \in Nat
      BY <1>1, <2>6
    <2>8. IsFiniteSet(Spread(s, T)) /\ SumFunction(old) = SumFunction(one)
      BY <1>4, <2>2
    <2>9. IsFiniteSet(Spread(t, T)) /\ SumFunction(new) = SumFunction(old) + SumFunction(val[x])
      <3>1. Extends(new, old, t, s, x, T, val[x])
        <4> HIDE DEF All, Each, P
        <4> QED BY <2>1, <2>4, <2>5, <2>7, <2>8 DEF Extends
      <3> HIDE DEF All, Each, P
      <3> QED BY <3>1, SpreadGrows
    <2>10. SumFunction(two) = two[x] + SumFunction(one)
      <3>1. LessOne(one, two, t, x)
        BY <2>3, <2>4, <2>6 DEF LessOne, Whole
      <3> HIDE DEF All, Each, P
      <3> QED BY <3>1, IntSumInserts
    <2>11. SumFunction(one) \in Nat
      <3>1. IsFiniteSet(s)
        BY FS_Subset
      <3> QED BY <2>4, <3>1, SumIsHeap
    <2>12. SumFunction(new) = SumFunction(two)
      <3> DEFINE a == SumFunction(one)  b == two[x]
      <3>1. SumFunction(new) = a + b /\ SumFunction(two) = b + a /\ a \in Nat /\ b \in Nat
        BY <2>6, <2>7, <2>8, <2>9, <2>10, <2>11
      <3> HIDE DEF a, b
      <3> QED BY <3>1
    <2> QED BY <2>1, <2>2, <2>3, <2>9, <2>12
  <1>5. S \in P
    <2> HIDE DEF P
    <2> QED BY <1>3, <1>4, GrowInduct
  <1> QED BY <1>5

LEMMA SumOfZeros ==
    ASSUME NEW S, IsFiniteSet(S), NEW size \in [S -> Nat], \A x \in S : size[x] = 0
    PROVE  SumFunction(size) = 0
  <1>1. \A x \in S : size[x] = 0 * size[x]
    OBVIOUS
  <1>2. 0 \in Nat
    OBVIOUS
  <1>3. SumFunction(size) = 0 * SumFunction(size)
    BY <1>1, <1>2, SumScales
  <1>4. SumFunction(size) \in Nat
    BY SumIsHeap
  <1> QED BY <1>3, <1>4

\* What is zero adds nothing.
LeavesOut(part, size, T, S) ==
    /\ IsFiniteSet(S) /\ T \subseteq S /\ size \in [S -> Nat] /\ part \in [T -> Nat]
    /\ \A x \in T : part[x] = size[x]
    /\ \A x \in S \ T : size[x] = 0

LEMMA SumDropsZeros ==
    ASSUME NEW S, NEW T, NEW size, NEW part, LeavesOut(part, size, T, S)
    PROVE  SumFunction(size) = SumFunction(part)
  <1>0. /\ IsFiniteSet(S) /\ T \subseteq S /\ size \in [S -> Nat] /\ part \in [T -> Nat]
        /\ \A x \in T : part[x] = size[x]
        /\ \A x \in S \ T : size[x] = 0
    BY DEF LeavesOut
  <1>1. PICK rest : rest = [x \in S \ T |-> size[x]]
    OBVIOUS
  <1>2. rest \in [S \ T -> Nat] /\ \A x \in S \ T : rest[x] = size[x]
    BY <1>0, <1>1
  <1>3. IsFiniteSet(T) /\ IsFiniteSet(S \ T) /\ T \cap (S \ T) = {} /\ S = T \cup (S \ T)
    BY <1>0, FS_Subset
  <1>4. Splits(size, part, rest, S, T, S \ T)
    BY <1>0, <1>2, <1>3 DEF Splits
  <1>5. SumFunction(size) = SumFunction(part) + SumFunction(rest)
    BY <1>4, SumOfBoth
  <1>6. SumFunction(rest) = 0
    BY <1>0, <1>2, <1>3, SumOfZeros
  <1>7. SumFunction(part) \in Nat
    BY <1>0, <1>3, SumIsHeap
  <1> QED BY <1>5, <1>6, <1>7

LEMMA SumAdds ==
    ASSUME NEW S, IsFiniteSet(S), NEW one \in [S -> Nat], NEW two \in [S -> Nat], NEW both \in [S -> Nat],
           \A x \in S : both[x] = one[x] + two[x]
    PROVE  SumFunction(both) = SumFunction(one) + SumFunction(two)
  <1> DEFINE One(s) == [x \in s |-> one[x]]
             Two(s) == [x \in s |-> two[x]]
             Both(s) == [x \in s |-> both[x]]
             P == {s \in SUBSET S : SumFunction(Both(s)) = SumFunction(One(s)) + SumFunction(Two(s))}
  <1>1. {} \in P
    <2>1. One({}) \in [{} -> Nat] /\ Two({}) \in [{} -> Nat] /\ Both({}) \in [{} -> Nat]
      OBVIOUS
    <2>2. SumFunction(One({})) = 0 /\ SumFunction(Two({})) = 0 /\ SumFunction(Both({})) = 0
      <3> HIDE DEF One, Two, Both
      <3> QED BY <2>1, SumOfNone
    <2> HIDE DEF One, Two, Both
    <2> QED BY <2>2
  <1>2. ASSUME NEW s \in SUBSET S, NEW x \in S \ s, s \in P PROVE s \cup {x} \in P
    <2> DEFINE t == s \cup {x}
    <2>1. IsFiniteSet(t) /\ x \in t /\ t \ {x} = s /\ IsFiniteSet(s)
      BY FS_Subset
    <2>2. /\ One(t) \in [t -> Nat] /\ Two(t) \in [t -> Nat] /\ Both(t) \in [t -> Nat]
          /\ One(t)[x] = one[x] /\ Two(t)[x] = two[x] /\ Both(t)[x] = both[x]
      BY <2>1
    <2>3. \A y \in t \ {x} : One(t)[y] = One(s)[y] /\ Two(t)[y] = Two(s)[y] /\ Both(t)[y] = Both(s)[y]
      BY <2>1
    <2>4. One(s) \in [s -> Nat] /\ Two(s) \in [s -> Nat] /\ Both(s) \in [s -> Nat]
      OBVIOUS
    <2>5. SumFunction(Both(s)) = SumFunction(One(s)) + SumFunction(Two(s))
      BY <1>2
    <2> HIDE DEF One, Two, Both, t
    <2>6. /\ SumFunction(One(t)) = one[x] + SumFunction(One(s))
          /\ SumFunction(Two(t)) = two[x] + SumFunction(Two(s))
          /\ SumFunction(Both(t)) = both[x] + SumFunction(Both(s))
      <3>1. LessOne(One(s), One(t), t, x) /\ LessOne(Two(s), Two(t), t, x) /\ LessOne(Both(s), Both(t), t, x)
        BY <2>1, <2>2, <2>3, <2>4 DEF LessOne, Whole
      <3> QED BY <2>2, <3>1, IntSumInserts
    <2>7. PICK a, b, c, d : a = one[x] /\ b = two[x] /\ c = SumFunction(One(s)) /\ d = SumFunction(Two(s))
      OBVIOUS
    <2>8. a \in Nat /\ b \in Nat /\ c \in Nat /\ d \in Nat /\ both[x] = a + b
      BY <2>1, <2>4, <2>7, SumIsHeap
    <2>9. SumFunction(Both(t)) = SumFunction(One(t)) + SumFunction(Two(t))
      BY <2>5, <2>6, <2>7, <2>8
    <2> QED BY <2>9 DEF t
  <1>3. S \in P
    <2> HIDE DEF P
    <2> QED BY <1>1, <1>2, GrowInduct
  <1>4. One(S) = one /\ Two(S) = two /\ Both(S) = both
    OBVIOUS
  <1> QED BY <1>3, <1>4

\* A sum over the numbers up to N, when F adds them up.
AddsUp(F, size, N) ==
    /\ N \in Nat /\ size \in [1 .. N -> Nat] /\ F \in [0 .. N -> Nat] /\ F[0] = 0
    /\ \A n \in 1 .. N : F[n] = F[n - 1] + size[n]

LEMMA SumUpTo ==
    ASSUME NEW N, NEW size, NEW F, AddsUp(F, size, N)
    PROVE  SumFunction(size) = F[N]
  <1>0. /\ N \in Nat /\ size \in [1 .. N -> Nat] /\ F \in [0 .. N -> Nat] /\ F[0] = 0
        /\ \A n \in 1 .. N : F[n] = F[n - 1] + size[n]
    BY DEF AddsUp
  <1> DEFINE Upto(n) == [i \in 1 .. n |-> size[i]]
             P == {n \in Nat : n <= N => SumFunction(Upto(n)) = F[n]}
  <1>1. 0 \in P
    <2>1. Upto(0) \in [{} -> Nat]
      OBVIOUS
    <2>2. SumFunction(Upto(0)) = 0
      <3> HIDE DEF Upto
      <3> QED BY <2>1, SumOfNone
    <2> HIDE DEF Upto
    <2> QED BY <1>0, <2>2
  <1>2. ASSUME NEW n \in Nat, n \in P PROVE n + 1 \in P
    <2> SUFFICES ASSUME n + 1 <= N PROVE SumFunction(Upto(n + 1)) = F[n + 1]
      OBVIOUS
    <2>1. PICK m : m = n + 1
      OBVIOUS
    <2>2. m \in 1 .. N /\ m - 1 = n /\ n \in 0 .. N /\ n <= N /\ m \in Nat /\ m \in 1 .. m
      BY <1>0, <2>1
    <2>3. (1 .. m) \ {m} = 1 .. n /\ 1 .. m \subseteq 1 .. N /\ 1 .. n \subseteq 1 .. N
      <3>1. \A i \in Int : (1 <= i /\ i <= m /\ i # m) <=> (1 <= i /\ i <= n)
        BY <2>1
      <3>2. \A i \in Int : i <= m => i <= N
        BY <1>0, <2>2
      <3>3. \A i \in Int : i <= n => i <= N
        BY <1>0, <2>2
      <3>4. \A i : i \in 1 .. m <=> i \in Int /\ 1 <= i /\ i <= m
        BY <2>2
      <3>5. \A i : i \in 1 .. n <=> i \in Int /\ 1 <= i /\ i <= n
        OBVIOUS
      <3>6. \A i : i \in 1 .. N <=> i \in Int /\ 1 <= i /\ i <= N
        BY <1>0
      <3> QED BY <3>1, <3>2, <3>3, <3>4, <3>5, <3>6, Zenon
    <2>4. Upto(m) \in [1 .. m -> Nat] /\ Upto(n) \in [1 .. n -> Nat] /\ Upto(m)[m] = size[m]
      BY <1>0, <2>2, <2>3
    <2>5. \A y \in 1 .. n : Upto(n)[y] = Upto(m)[y]
      BY <2>3
    <2>6. SumFunction(Upto(n)) = F[n]
      BY <1>2, <2>2
    <2> HIDE DEF Upto
    <2>7. LessOne(Upto(n), Upto(m), 1 .. m, m)
      <3>1. IsFiniteSet(1 .. m)
        BY <2>2, FS_Interval
      <3> QED BY <2>2, <2>3, <2>4, <2>5, <3>1 DEF LessOne, Whole
    <2>8. SumFunction(Upto(m)) = size[m] + SumFunction(Upto(n))
      <3>1. PICK T, less, more : T = 1 .. m /\ less = Upto(n) /\ more = Upto(m)
        OBVIOUS
      <3>2. LessOne(less, more, T, m)
        BY <2>7, <3>1
      <3>3. SumFunction(more) = more[m] + SumFunction(less)
        BY <3>2, IntSumInserts
      <3> QED BY <2>4, <3>1, <3>3
    <2>9. F[m] = F[n] + size[m] /\ F[n] \in Nat /\ size[m] \in Nat
      BY <1>0, <2>2
    <2>10. SumFunction(Upto(m)) = F[m]
      <3>1. PICK a, b : a = F[n] /\ b = size[m]
        OBVIOUS
      <3>2. a \in Nat /\ b \in Nat /\ F[m] = a + b /\ SumFunction(Upto(m)) = b + a
        BY <2>6, <2>8, <2>9, <3>1
      <3> QED BY <3>2
    <2> QED BY <2>1, <2>10
  <1>3. N \in P
    <2> HIDE DEF P
    <2> QED BY <1>0, <1>1, <1>2, CountUp
  <1>4. Upto(N) = size
    BY <1>0
  <1> HIDE DEF Upto
  <1> QED BY <1>0, <1>3, <1>4

Raises(new, old, S, x, c) ==
    /\ IsFiniteSet(S) /\ x \in S /\ old \in [S -> Nat] /\ new \in [S -> Nat] /\ c \in Nat
    /\ new[x] = old[x] + c
    /\ \A y \in S \ {x} : new[y] = old[y]

LEMMA SumRaises ==
    ASSUME NEW S, NEW x, NEW old, NEW new, NEW c, Raises(new, old, S, x, c)
    PROVE  SumFunction(old) \in Nat /\ SumFunction(new) = SumFunction(old) + c
  <1>0. /\ IsFiniteSet(S) /\ x \in S /\ old \in [S -> Nat] /\ new \in [S -> Nat] /\ c \in Nat
        /\ new[x] = old[x] + c
        /\ \A y \in S \ {x} : new[y] = old[y]
    BY DEF Raises
  <1>1. old \in [S -> Whole] /\ new \in [S -> Whole]
    BY <1>0 DEF Whole
  <1>2. SumFunction(new) = SumFunction(old) - old[x] + new[x]
    BY <1>0, <1>1, IntSumChanges
  <1>3. SumFunction(old) \in Nat
    BY <1>0, SumIsHeap
  <1>4. PICK a, b : a = SumFunction(old) /\ b = old[x]
    OBVIOUS
  <1>5. a \in Nat /\ b \in Nat /\ SumFunction(new) = a - b + (b + c)
    BY <1>0, <1>2, <1>3, <1>4
  <1>6. SumFunction(new) = a + c
    BY <1>0, <1>5
  <1> QED BY <1>3, <1>4, <1>6

\* The numbers of one in another order.
Reordered(new, old, T, S, m, w) ==
    /\ IsFiniteSet(S) /\ IsFiniteSet(T) /\ old \in [S -> Nat] /\ new \in [T -> Nat]
    /\ m \in [T -> S] /\ w \in [S -> T]
    /\ \A y \in T : w[m[y]] = y
    /\ \A x \in S : m[w[x]] = x
    /\ \A y \in T : new[y] = old[m[y]]

LEMMA SumOrdered ==
    ASSUME NEW S, NEW T, NEW old, NEW new, NEW m, NEW w, Reordered(new, old, T, S, m, w)
    PROVE  SumFunction(new) = SumFunction(old)
  <1>1. /\ IsFiniteSet(S) /\ IsFiniteSet(T) /\ old \in [S -> Whole] /\ new \in [T -> Whole]
        /\ m \in [T -> S] /\ w \in [S -> T]
    BY DEF Reordered, Whole
  <1>2. \A y \in T : w[m[y]] = y
    BY DEF Reordered
  <1>3. \A x \in S : m[w[x]] = x
    BY DEF Reordered
  <1>4. \A y \in T : new[y] = old[m[y]]
    BY DEF Reordered
  <1> QED BY <1>1, <1>2, <1>3, <1>4, IntSumRenamed

\* Sums of pairs of parts.
AddsPairs(both, one, two, S) ==
    /\ IsFiniteSet(S) /\ one \in [S -> Nat] /\ two \in [S -> Nat] /\ both \in [S -> Nat]
    /\ \A x \in S : both[x] = one[x] + two[x]

LEMMA SumAdded ==
    ASSUME NEW S, NEW one, NEW two, NEW both, AddsPairs(both, one, two, S)
    PROVE  SumFunction(both) = SumFunction(one) + SumFunction(two)
  <1>1. /\ IsFiniteSet(S) /\ one \in [S -> Nat] /\ two \in [S -> Nat] /\ both \in [S -> Nat]
        /\ \A x \in S : both[x] = one[x] + two[x]
    BY DEF AddsPairs
  <1> QED BY <1>1, SumAdds
===============================================================================
