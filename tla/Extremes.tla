------------------------------ MODULE Extremes ------------------------------
(***************************************************************************)
(* Lemmas about finite sets of integers and functions on 0..n: Min and Max *)
(* of the community modules, induction, recursion and quotients.           *)
(*                                                                         *)
(* The argument.  The elements below x shrink strictly as x does, and      *)
(* strict inclusion of the subsets of a finite set is well founded: some x *)
(* has nothing below it.  Hence every set of naturals has a least element, *)
(* so the set of the numbers for which something has not been shown would  *)
(* have one; that is induction, with a set where others have a predicate,  *)
(* and a recursive function exists because it does up to each number.      *)
(***************************************************************************)
EXTENDS Integers, FiniteSetsExt, FiniteSetTheorems, WellFoundedInduction, TLAPS

LEMMA LeastExists ==
  ASSUME NEW S \in SUBSET Int, IsFiniteSet(S), S # {}
  PROVE  \E m \in S : \A x \in S : m <= x
<1>. DEFINE below(x) == {y \in S : y < x}
            T == {below(x) : x \in S}
<1>1. IsWellFoundedOn(StrictSubsetOrdering(S), SUBSET S)
  BY FS_StrictSubsetOrderingWellFounded, FS_FiniteSubsetsOfFinite
<1>2. T \subseteq SUBSET S /\ T # {}
  OBVIOUS
<1>3. PICK B \in T : \A C \in T : <<C, B>> \notin StrictSubsetOrdering(S)
  <2>. HIDE DEF T
  <2>. QED  BY <1>1, <1>2, WFMin
<1>4. PICK m \in S : B = below(m)
  OBVIOUS
<1>5. ASSUME NEW x \in S, ~(m <= x) PROVE FALSE
  <2>1. x < m /\ x \in Int /\ m \in Int
    BY <1>4, <1>5
  <2>2. \A y \in S : y < x => y < m
    BY <2>1
  <2>3. below(x) \subseteq below(m)
    BY <2>2
  <2>4. x \in below(m) /\ x \notin below(x)
    BY <2>1
  <2>5. <<below(x), below(m)>> \in StrictSubsetOrdering(S)
    BY <2>3, <2>4 DEF StrictSubsetOrdering
  <2>6. <<below(x), B>> \in StrictSubsetOrdering(S)
    BY <1>4, <2>5
  <2>7. below(x) \in T
    OBVIOUS
  <2>. HIDE DEF T
  <2>. QED  BY <1>3, <2>6, <2>7
<1>. QED  BY <1>5

LEMMA GreatestExists ==
  ASSUME NEW S \in SUBSET Int, IsFiniteSet(S), S # {}
  PROVE  \E m \in S : \A x \in S : x <= m
<1>. DEFINE above(x) == {y \in S : y > x}
            T == {above(x) : x \in S}
<1>1. IsWellFoundedOn(StrictSubsetOrdering(S), SUBSET S)
  BY FS_StrictSubsetOrderingWellFounded, FS_FiniteSubsetsOfFinite
<1>2. T \subseteq SUBSET S /\ T # {}
  OBVIOUS
<1>3. PICK B \in T : \A C \in T : <<C, B>> \notin StrictSubsetOrdering(S)
  <2>. HIDE DEF T
  <2>. QED  BY <1>1, <1>2, WFMin
<1>4. PICK m \in S : B = above(m)
  OBVIOUS
<1>5. ASSUME NEW x \in S, ~(x <= m) PROVE FALSE
  <2>1. x > m /\ x \in Int /\ m \in Int
    BY <1>4, <1>5
  <2>2. \A y \in S : y > x => y > m
    BY <2>1
  <2>3. above(x) \subseteq above(m)
    BY <2>2
  <2>4. x \in above(m) /\ x \notin above(x)
    BY <2>1
  <2>5. <<above(x), above(m)>> \in StrictSubsetOrdering(S)
    BY <2>3, <2>4 DEF StrictSubsetOrdering
  <2>6. <<above(x), B>> \in StrictSubsetOrdering(S)
    BY <1>4, <2>5
  <2>7. above(x) \in T
    OBVIOUS
  <2>. HIDE DEF T
  <2>. QED  BY <1>3, <2>6, <2>7
<1>. QED  BY <1>5

\* Min and Max are the extreme elements of a finite set.
LEMMA MinIsLeast ==
  ASSUME NEW S \in SUBSET Int, IsFiniteSet(S), S # {}
  PROVE  Min(S) \in S /\ \A x \in S : Min(S) <= x
BY LeastExists DEF Min

LEMMA MaxIsGreatest ==
  ASSUME NEW S \in SUBSET Int, IsFiniteSet(S), S # {}
  PROVE  Max(S) \in S /\ \A x \in S : x <= Max(S)
<1>1. \E m \in S : \A x \in S : m >= x
  <2>1. PICK m \in S : \A x \in S : x <= m
    BY GreatestExists
  <2>2. \A x \in S : m >= x
    BY <2>1
  <2>. QED  BY <2>2
<1>2. Max(S) \in S /\ \A x \in S : Max(S) >= x
  BY <1>1 DEF Max
<1>. QED  BY <1>2

\* A set of naturals has a least element, finite or not: what is below any of its
\* elements is finite.
LEMMA LeastNatural ==
  ASSUME NEW S \in SUBSET Nat, S # {}
  PROVE  \E m \in S : \A x \in S : m <= x
<1>1. PICK n \in S : TRUE
  OBVIOUS
<1>. DEFINE T == {x \in S : x <= n}
<1>2. T \in SUBSET Nat /\ n \in Nat /\ \A x \in T : x <= n
  OBVIOUS
<1>3. n \in T
  BY <1>2
<1>4. T \in SUBSET Int
  <2>. HIDE DEF T
  <2>1. Nat \subseteq Int
    OBVIOUS
  <2>. QED  BY <1>2, <2>1
<1>5. IsFiniteSet(T)
  <2>. HIDE DEF T
  <2>. QED  BY <1>2, FS_BoundedSetOfNaturals
<1>6. PICK m \in T : \A x \in T : m <= x
  <2>. HIDE DEF T
  <2>. QED  BY <1>3, <1>4, <1>5, LeastExists
<1>7. \A x \in S : m <= x
  BY <1>2, <1>6
<1>. QED  BY <1>6, <1>7

LEMMA MinOfNaturals ==
  ASSUME NEW S \in SUBSET Nat, S # {}
  PROVE  Min(S) \in S /\ \A x \in S : Min(S) <= x
BY LeastNatural DEF Min

LEMMA OfTwo ==
  ASSUME NEW a \in Int, NEW b \in Int
  PROVE  /\ Max({a, b}) \in {a, b} /\ a <= Max({a, b}) /\ b <= Max({a, b})
         /\ Min({a, b}) \in {a, b} /\ Min({a, b}) <= a /\ Min({a, b}) <= b
<1>1. IsFiniteSet({a}) /\ IsFiniteSet({b}) /\ {a, b} = {a} \cup {b}
  BY FS_Singleton
<1>2. IsFiniteSet({a, b})
  BY <1>1, FS_Union
<1>3. Max({a, b}) \in {a, b} /\ a <= Max({a, b}) /\ b <= Max({a, b})
  BY <1>2, MaxIsGreatest
<1>4. Min({a, b}) \in {a, b} /\ Min({a, b}) <= a /\ Min({a, b}) <= b
  BY <1>2, MinIsLeast
<1>. QED  BY <1>3, <1>4

\* The highest of the elements of a series, or of a if none is higher.
LEMMA MaxOfSeries ==
  ASSUME NEW n \in Nat, NEW f \in [1..n -> Int], NEW a \in Int
  PROVE  LET m == Max({a} \cup Range(f))
         IN /\ m \in Int /\ a <= m /\ \A i \in 1..n : f[i] <= m
            /\ m # a => \E i \in 1..n : f[i] = m
<1>. DEFINE S == {a} \cup Range(f)
            m == Max(S)
<1>1. S \in SUBSET Int /\ S # {} /\ Range(f) = {f[i] : i \in 1..n}
  BY DEF Range
<1>2. IsFiniteSet(S)
  <2>1. f \in Surjection(1..n, Range(f))
    BY DEF Surjection, Range
  <2>2. IsFiniteSet(1..n)
    BY FS_Interval
  <2>3. IsFiniteSet({a})
    BY FS_Singleton
  <2>. QED  BY <2>1, <2>2, <2>3, FS_Surjection, FS_Union
<1>3. m \in S /\ \A x \in S : x <= m
  <2>. HIDE DEF S
  <2>. QED  BY <1>1, <1>2, MaxIsGreatest
<1>4. a \in S /\ \A i \in 1..n : f[i] \in S
  BY <1>1
<1>5. m \in Int
  <2>. HIDE DEF S
  <2>. QED  BY <1>1, <1>3
<1>6. a <= m /\ \A i \in 1..n : f[i] <= m
  <2>. HIDE DEF m, S
  <2>. QED  BY <1>3, <1>4
<1>7. m # a => \E i \in 1..n : f[i] = m
  <2>. HIDE DEF m
  <2>. QED  BY <1>1, <1>3
<1>. QED  BY <1>5, <1>6, <1>7

----------------------------------------------------------------------------
(***************************************************************************)
(* Induction, with the set of what is shown so far in place of a predicate *)
(***************************************************************************)
LEMMA Upwards ==
  ASSUME NEW n \in Nat, NEW B, 0 \in B, \A i \in 1..n : i - 1 \in B => i \in B
  PROVE  0..n \subseteq B
<1>. DEFINE U == {i \in 0..n : i \notin B}
<1>1. SUFFICES ASSUME U # {} PROVE FALSE
  OBVIOUS
<1>2. U \in SUBSET Nat
  OBVIOUS
<1>3. PICK m \in U : \A i \in U : m <= i
  BY <1>1, <1>2, LeastNatural
<1>4. m \in 1..n /\ m - 1 \in 0..n /\ m - 1 < m
  OBVIOUS
<1>5. m - 1 \in B
  BY <1>2, <1>3, <1>4
<1>. QED  BY <1>4, <1>5

LEMMA SubsetsUpwards ==
  ASSUME NEW S, IsFiniteSet(S), NEW B, {} \in B,
         \A T \in SUBSET S : T # {} /\ (\A x \in T : T \ {x} \in B) => T \in B
  PROVE  SUBSET S \subseteq B
<1>. DEFINE U == {T \in SUBSET S : T \notin B}
<1>1. SUFFICES ASSUME U # {} PROVE FALSE
  OBVIOUS
<1>2. IsWellFoundedOn(StrictSubsetOrdering(S), SUBSET S)
  BY FS_StrictSubsetOrderingWellFounded, FS_FiniteSubsetsOfFinite
<1>3. U \in SUBSET (SUBSET S)
  OBVIOUS
<1>4. PICK T \in U : \A C \in U : <<C, T>> \notin StrictSubsetOrdering(S)
  <2>. HIDE DEF U
  <2>. QED  BY <1>1, <1>2, <1>3, WFMin
<1>5. ASSUME NEW x \in T PROVE T \ {x} \in B
  <2>1. <<T \ {x}, T>> \in StrictSubsetOrdering(S)
    BY <1>5 DEF StrictSubsetOrdering
  <2>. QED  BY <1>4, <2>1
<1>. QED  BY <1>5

\* What is defined by recursion over the first k numbers.
Follows(f, k, a, step) == f[0] = a /\ \A i \in 1..k : f[i] = step[<<i, f[i - 1]>>]

LEMMA Recursion ==
  ASSUME NEW n \in Nat, NEW V, NEW a \in V, NEW step \in [(1..n) \X V -> V]
  PROVE  \E f \in [0..n -> V] : Follows(f, n, a, step)
<1>. DEFINE B == {k \in 0..n : \E f \in [0..k -> V] : Follows(f, k, a, step)}
<1>1. 0 \in B
  <2>1. [i \in 0..0 |-> a] \in [0..0 -> V] /\ Follows([i \in 0..0 |-> a], 0, a, step)
    BY DEF Follows
  <2>. QED  BY <2>1
<1>2. ASSUME NEW k \in 1..n, k - 1 \in B PROVE k \in B
  <2>1. PICK f \in [0..k - 1 -> V] : Follows(f, k - 1, a, step)
    BY <1>2
  <2>2. f[k - 1] \in V
    OBVIOUS
  <2>. DEFINE next == step[<<k, f[k - 1]>>]
              g == [i \in 0..k |-> IF i = k THEN next ELSE f[i]]
  <2>3. next \in V
    BY <2>2
  <2>4. g \in [0..k -> V]
    <3>1. ASSUME NEW i \in 0..k, i # k PROVE f[i] \in V
      <4>1. i \in 0..k - 1
        BY <3>1
      <4>. QED  BY <4>1
    <3>. HIDE DEF next
    <3>. QED  BY <2>3, <3>1
  <2>5. g[0] = a
    BY <2>1 DEF Follows
  <2>6. ASSUME NEW i \in 1..k PROVE g[i] = step[<<i, g[i - 1]>>]
    <3>1. g[i - 1] = f[i - 1]
      OBVIOUS
    <3>2. CASE i = k
      <4>1. g[i] = next
        BY <3>2
      <4>. HIDE DEF g
      <4>. QED  BY <3>1, <3>2, <4>1
    <3>3. CASE i # k
      <4>1. i \in 1..k - 1
        BY <3>3
      <4>2. g[i] = f[i]
        BY <3>3
      <4>. HIDE DEF g
      <4>. QED  BY <2>1, <3>1, <4>1, <4>2 DEF Follows
    <3>. QED  BY <3>2, <3>3
  <2>. HIDE DEF g
  <2>7. Follows(g, k, a, step)
    BY <2>5, <2>6 DEF Follows
  <2>. QED  BY <2>4, <2>7
<1>3. 0..n \subseteq B
  <2>. HIDE DEF B
  <2>. QED  BY <1>1, <1>2, Upwards
<1>. QED  BY <1>3

----------------------------------------------------------------------------
(***************************************************************************)
(* Quotients                                                               *)
(***************************************************************************)
LEMMA QuotientIs ==
  ASSUME NEW d \in Nat \ {0}, NEW q \in Int, NEW r \in 0..d - 1
  PROVE  (d * q + r) \div d = q
OBVIOUS

LEMMA RemainderIs ==
  ASSUME NEW d \in Nat \ {0}, NEW q \in Int, NEW r \in 0..d - 1
  PROVE  (d * q + r) % d = r
OBVIOUS

LEMMA RemainderBounds ==
  ASSUME NEW d \in Nat \ {0}, NEW x \in Nat
  PROVE  x = d * (x \div d) + (x % d) /\ x % d \in 0..d - 1 /\ x \div d \in Nat
OBVIOUS

LEMMA QuotientBounds ==
  ASSUME NEW d \in Nat \ {0}, NEW x \in Int
  PROVE  x \div d \in Int /\ d * (x \div d) <= x /\ x < d * (x \div d) + d
OBVIOUS

LEMMA QuotientGrows ==
  ASSUME NEW d \in Nat \ {0}, NEW x \in Int, NEW y \in Int, x + d <= y
  PROVE  x \div d < y \div d
<1>. DEFINE a == x \div d
            b == y \div d
<1>1. a \in Int /\ d * a <= x /\ b \in Int /\ y < d * b + d
  BY QuotientBounds
<1>. HIDE DEF a, b
<1>2. d * a < d * b
  <2>1. \A u, v \in Int : u <= x /\ y < v + d => u < v
    OBVIOUS
  <2>2. d * a \in Int /\ d * b \in Int
    BY <1>1
  <2>. QED  BY <1>1, <2>1, <2>2
<1>3. a < b
  <2>1. SUFFICES ASSUME b <= a PROVE FALSE
    BY <1>1
  <2>2. a - b \in Nat
    BY <1>1, <2>1
  <2>3. d * (a - b) \in Nat /\ d * (a - b) = d * a - d * b
    BY <1>1, <2>2
  <2>. QED  BY <1>1, <1>2, <2>3
<1>. QED  BY <1>3 DEF a, b
=============================================================================
