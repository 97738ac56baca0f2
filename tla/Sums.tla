-------------------------------- MODULE Sums --------------------------------
(***************************************************************************)
(* Sums over finite sets.  MapThenSumSet adds its terms up with a function *)
(* on the subsets of the set, which takes out one chosen element after the *)
(* other.  The lemmas show what the result is, by looking at a smallest    *)
(* subset on which a statement could fail.  The last ones are about the    *)
(* smallest and the largest of a set of numbers.                           *)
(***************************************************************************)
EXTENDS Integers, FiniteSetsExt, FiniteSetTheorems, TLAPS

Chosen(s) == CHOOSE x \in s : TRUE

\* g adds up f over every subset of S.
Adds(g, f, S) ==
    g = [s \in SUBSET S |->
            IF s = {} THEN 0 ELSE f[Chosen(s)] + g[s \ {Chosen(s)}]]

Sum(f, S) == MapThenSumSet(LAMBDA x : f[x], S)

IntegersOn(f, S) == \A x \in S : f[x] \in Int

-----------------------------------------------------------------------------
\* The definition of the community module, for terms that a function gives.
LEMMA SumUnfolds ==
    ASSUME NEW f, NEW S
    PROVE  Sum(f, S) = (CHOOSE g : Adds(g, f, S))[S]
BY DEF Sum, MapThenSumSet, MapThenFoldSet, Adds, Chosen

\* Among subsets of a finite set one is smallest.
LEMMA SmallestSubset ==
    ASSUME NEW S, IsFiniteSet(S), NEW T \in SUBSET (SUBSET S), T # {}
    PROVE  \E x \in T : \A y \in T : ~(y \subseteq x /\ y # x)
<1>1. T \subseteq FiniteSubsetsOf(S)
    BY FS_Subset DEF FiniteSubsetsOf
<1>2. \E x \in T : \A y \in T : ~(<<y, x>> \in StrictSubsetOrdering(S))
    BY <1>1, FS_StrictSubsetOrderingWellFounded, WFMin
<1> QED BY <1>2 DEF StrictSubsetOrdering

\* What one step of the addition does.
LEMMA AddsStep ==
    ASSUME NEW g, NEW f, NEW S, Adds(g, f, S), NEW s \in SUBSET S
    PROVE  /\ s = {} => g[s] = 0
           /\ s # {} => /\ Chosen(s) \in s
                         /\ s \ {Chosen(s)} \in SUBSET S
                         /\ g[s] = f[Chosen(s)] + g[s \ {Chosen(s)}]
<1>1. g[s] = IF s = {} THEN 0 ELSE f[Chosen(s)] + g[s \ {Chosen(s)}]
    BY DEF Adds
<1>2. s # {} => Chosen(s) \in s
    BY DEF Chosen
<1> QED BY <1>1, <1>2

\* Two additions agree on every set that both cover, whatever else they cover.
LEMMA AddsAgree ==
    ASSUME NEW f, NEW h, NEW g, NEW k, NEW A, NEW B, Adds(g, f, A), Adds(k, h, B),
           NEW S, IsFiniteSet(S), S \subseteq A, S \subseteq B,
           \A x \in S : f[x] = h[x]
    PROVE  g[S] = k[S]
<1> DEFINE T == {s \in SUBSET S : g[s] # k[s]}
<1>1. SUFFICES ASSUME T # {} PROVE FALSE
    OBVIOUS
<1>2. PICK s \in T : \A y \in T : ~(y \subseteq s /\ y # s)
  <2> HIDE DEF T
  <2>1. T \in SUBSET (SUBSET S)
      BY DEF T
  <2> QED BY <1>1, <2>1, SmallestSubset
<1>3. s \in SUBSET A /\ s \in SUBSET B
    OBVIOUS
<1>4. CASE s = {}
    BY <1>3, <1>4, AddsStep
<1>5. CASE s # {}
  <2> DEFINE c == Chosen(s)
  <2>1. c \in s /\ g[s] = f[c] + g[s \ {c}]
      BY <1>3, <1>5, AddsStep
  <2>2. k[s] = h[c] + k[s \ {c}]
      BY <1>3, <1>5, AddsStep
  <2> HIDE DEF c
  <2>3. s \ {c} \in SUBSET S /\ s \ {c} \subseteq s /\ s \ {c} # s
      BY <2>1
  <2>4. g[s \ {c}] = k[s \ {c}]
      BY <1>2, <2>3
  <2> QED BY <2>1, <2>2, <2>4
<1> QED BY <1>4, <1>5

\* There is an addition for every finite set of integers.
LEMMA AddsExists ==
    ASSUME NEW f, NEW S, IsFiniteSet(S), IntegersOn(f, S)
    PROVE  \E g : Adds(g, f, S) /\ g \in [SUBSET S -> Int]
<1> DEFINE Has(U, g) == Adds(g, f, U) /\ g \in [SUBSET U -> Int]
           T == {U \in SUBSET S : ~\E g : Has(U, g)}
<1>1. SUFFICES ASSUME T # {} PROVE FALSE
    OBVIOUS
<1>2. PICK U \in T : \A V \in T : ~(V \subseteq U /\ V # U)
  <2> HIDE DEF T
  <2>1. T \in SUBSET (SUBSET S)
      BY DEF T
  <2> QED BY <1>1, <2>1, SmallestSubset
<1> DEFINE G(V) == CHOOSE g : Has(V, g)
           c(s) == Chosen(s)
           v(s) == IF s = {} THEN 0 ELSE f[c(s)] + G(s \ {c(s)})[s \ {c(s)}]
           h == [s \in SUBSET U |-> v(s)]
<1>3. \A V \in SUBSET U : V # U => Has(V, G(V))
  <2> HIDE DEF Has
  <2>1. ASSUME NEW V \in SUBSET U, V # U PROVE \E g : Has(V, g)
      BY <1>2, <2>1
  <2> QED BY <2>1
<1>4. \A s \in SUBSET U : s # {} =>
          c(s) \in s /\ s \ {c(s)} \in SUBSET U /\ s \ {c(s)} # U
    BY DEF Chosen
<1>5. \A s \in SUBSET U : v(s) \in Int
  <2> TAKE s \in SUBSET U
  <2>1. CASE s = {}
      BY <2>1
  <2>2. CASE s # {}
    <3>1. G(s \ {c(s)})[s \ {c(s)}] \in Int
      <4> DEFINE r == s \ {c(s)}
      <4>1. Has(r, G(r))
        <5> HIDE DEF Has, G
        <5> QED BY <1>3, <1>4, <2>2
      <4> HIDE DEF G
      <4>2. G(r) \in [SUBSET r -> Int]
          BY <4>1
      <4> HIDE DEF r
      <4>3. G(r)[r] \in Int
          BY <4>2
      <4> QED BY <4>3 DEF r
    <3>2. f[c(s)] \in Int
        BY <1>4, <2>2 DEF IntegersOn
    <3> HIDE DEF G, c
    <3> QED BY <2>2, <3>1, <3>2
  <2> QED BY <2>1, <2>2
<1>6. \A s \in SUBSET U : s # U => v(s) = G(s)[s]
  <2> SUFFICES ASSUME NEW s \in SUBSET U, s # U PROVE v(s) = G(s)[s]
      OBVIOUS
  <2>1. Adds(G(s), f, s)
    <3> HIDE DEF G
    <3> QED BY <1>3
  <2>2. CASE s = {}
    <3> HIDE DEF G
    <3>1. G(s)[s] = 0
        BY <2>1, <2>2, AddsStep
    <3> QED BY <2>2, <3>1
  <2>3. CASE s # {}
    <3> DEFINE r == s \ {c(s)}
    <3>1. r \in SUBSET U /\ r # U /\ r \subseteq s
        BY <1>4, <2>3
    <3>2. G(s)[s] = f[c(s)] + G(s)[r]
      <4> HIDE DEF G
      <4> QED BY <2>1, <2>3, AddsStep
    <3> HIDE DEF G, c
    <3>3. Adds(G(r), f, r)
        BY <1>3, <3>1
    <3>4. IsFiniteSet(r)
        BY <3>1, FS_Subset
    <3> HIDE DEF r
    <3>5. G(s)[r] = G(r)[r]
        BY <2>1, <3>1, <3>3, <3>4, AddsAgree
    <3> QED BY <2>3, <3>2, <3>5 DEF r
  <2> QED BY <2>2, <2>3
<1>7. Adds(h, f, U)
  <2> HIDE DEF v
  <2>1. ASSUME NEW s \in SUBSET U, s # {}
        PROVE  v(s) = f[c(s)] + h[s \ {c(s)}]
    <3>1. h[s \ {c(s)}] = G(s \ {c(s)})[s \ {c(s)}]
      <4> HIDE DEF c, G
      <4> QED BY <1>4, <1>6, <2>1
    <3> HIDE DEF h, c, G
    <3> QED BY <2>1, <3>1 DEF v
  <2>2. \A s \in SUBSET U : v(s) = IF s = {} THEN 0 ELSE f[c(s)] + h[s \ {c(s)}]
    <3>1. v({}) = 0
        BY DEF v
    <3> HIDE DEF h, c
    <3> QED BY <2>1, <3>1
  <2>3. h = [s \in SUBSET U |-> IF s = {} THEN 0 ELSE f[c(s)] + h[s \ {c(s)}]]
    <3> DEFINE b(s) == IF s = {} THEN 0 ELSE f[c(s)] + h[s \ {c(s)}]
    <3>1. \A s \in SUBSET U : v(s) = b(s)
        BY <2>2
    <3>2. h = [s \in SUBSET U |-> v(s)]
        OBVIOUS
    <3> HIDE DEF b, h, v, c
    <3>3. h = [s \in SUBSET U |-> b(s)]
        BY <3>1, <3>2
    <3> QED BY <3>3 DEF b
  <2> HIDE DEF h
  <2> QED BY <2>3 DEF Adds, c
<1>8. h \in [SUBSET U -> Int]
  <2> HIDE DEF v
  <2> QED BY <1>5
<1>9. \E g : Has(U, g)
    BY <1>7, <1>8
<1> QED BY <1>2, <1>9
-----------------------------------------------------------------------------
(***************************************************************************)
(* What a sum is.                                                          *)
(***************************************************************************)

\* Any addition that covers S has the sum over S.
LEMMA SumIs ==
    ASSUME NEW f, NEW S, IsFiniteSet(S), IntegersOn(f, S),
           NEW g, NEW h, NEW A, Adds(g, h, A), S \subseteq A,
           \A x \in S : f[x] = h[x]
    PROVE  Sum(f, S) = g[S]
<1> DEFINE k == CHOOSE a : Adds(a, f, S)
<1>1. \E a : Adds(a, f, S)
    BY AddsExists
<1>2. Adds(k, f, S)
    BY <1>1
<1>3. Sum(f, S) = k[S]
    BY SumUnfolds
<1> HIDE DEF k
<1>4. k[S] = g[S]
    BY <1>2, AddsAgree
<1> QED BY <1>3, <1>4

\* Terms that are equal have equal sums.
LEMMA SumAgrees ==
    ASSUME NEW f, NEW h, NEW S, IsFiniteSet(S), IntegersOn(f, S),
           \A x \in S : f[x] = h[x]
    PROVE  Sum(f, S) = Sum(h, S)
<1>1. IntegersOn(h, S)
    BY DEF IntegersOn
<1>2. PICK g : Adds(g, h, S)
    BY <1>1, AddsExists
<1> QED BY <1>1, <1>2, SumIs

\* A sum of integers is an integer, and that of no terms is 0.
LEMMA SumType ==
    ASSUME NEW f, NEW S, IsFiniteSet(S), IntegersOn(f, S)
    PROVE  Sum(f, S) \in Int /\ (S = {} => Sum(f, S) = 0)
<1>1. PICK g : Adds(g, f, S) /\ g \in [SUBSET S -> Int]
    BY AddsExists
<1>2. Sum(f, S) = g[S]
    BY <1>1, SumIs
<1>3. S = {} => g[S] = 0
    BY <1>1, AddsStep
<1> QED BY <1>1, <1>2, <1>3

\* Any element may be taken out first.
LEMMA SumWithout ==
    ASSUME NEW f, NEW S, IsFiniteSet(S), IntegersOn(f, S), NEW x \in S
    PROVE  Sum(f, S) = f[x] + Sum(f, S \ {x})
<1> DEFINE T == {U \in SUBSET S : \E y \in U : Sum(f, U) # f[y] + Sum(f, U \ {y})}
<1>1. SUFFICES ASSUME T # {} PROVE FALSE
    OBVIOUS
<1>2. PICK U \in T : \A V \in T : ~(V \subseteq U /\ V # U)
  <2> HIDE DEF T
  <2>1. T \in SUBSET (SUBSET S)
      BY DEF T
  <2> QED BY <1>1, <2>1, SmallestSubset
<1>3. PICK y \in U : Sum(f, U) # f[y] + Sum(f, U \ {y})
    OBVIOUS
<1>4. \A V \in SUBSET S : IsFiniteSet(V) /\ IntegersOn(f, V)
    BY FS_Subset DEF IntegersOn
<1>5. \A V \in SUBSET S : Sum(f, V) \in Int
    BY <1>4, SumType
<1>6. \A V \in SUBSET S : V # {} =>
          Chosen(V) \in V /\ Sum(f, V) = f[Chosen(V)] + Sum(f, V \ {Chosen(V)})
  <2> SUFFICES ASSUME NEW V \in SUBSET S, V # {}
               PROVE  Chosen(V) \in V
                      /\ Sum(f, V) = f[Chosen(V)] + Sum(f, V \ {Chosen(V)})
      OBVIOUS
  <2>1. PICK g : Adds(g, f, S)
      BY AddsExists
  <2>2. \A W \in SUBSET S : Sum(f, W) = g[W]
      BY <1>4, <2>1, SumIs
  <2>3. /\ Chosen(V) \in V /\ V \ {Chosen(V)} \in SUBSET S
        /\ g[V] = f[Chosen(V)] + g[V \ {Chosen(V)}]
      BY <2>1, AddsStep
  <2> QED BY <2>2, <2>3
<1> DEFINE c == Chosen(U)
<1>7. U \in SUBSET S /\ c \in U /\ Sum(f, U) = f[c] + Sum(f, U \ {c})
    BY <1>6
<1>8. c # y
    BY <1>3, <1>7
<1> HIDE DEF c
<1>9. \A V \in SUBSET U : V # U => \A z \in V : Sum(f, V) = f[z] + Sum(f, V \ {z})
    BY <1>2
<1> HIDE DEF T
<1>10. Sum(f, U \ {c}) = f[y] + Sum(f, (U \ {c}) \ {y})
    BY <1>7, <1>8, <1>9
<1>11. Sum(f, U \ {y}) = f[c] + Sum(f, (U \ {y}) \ {c})
    BY <1>7, <1>8, <1>9
<1>12. Sum(f, (U \ {c}) \ {y}) = Sum(f, (U \ {y}) \ {c})
  <2> DEFINE V == (U \ {c}) \ {y}
             W == (U \ {y}) \ {c}
  <2>1. V = W
      OBVIOUS
  <2> HIDE DEF V, W
  <2>2. Sum(f, V) = Sum(f, W)
      BY <2>1
  <2> QED BY <2>2 DEF V, W
<1>13. f[c] \in Int /\ f[y] \in Int /\ Sum(f, (U \ {y}) \ {c}) \in Int
  <2>1. c \in S /\ y \in S /\ (U \ {y}) \ {c} \in SUBSET S
      BY <1>7
  <2> QED BY <1>5, <2>1 DEF IntegersOn
<1> QED BY <1>3, <1>7, <1>10, <1>11, <1>12, <1>13

\* An element that is added is added to the sum.
LEMMA SumWith ==
    ASSUME NEW f, NEW S, IsFiniteSet(S), NEW x, x \notin S, IntegersOn(f, S \cup {x})
    PROVE  Sum(f, S \cup {x}) = f[x] + Sum(f, S)
<1>1. IsFiniteSet(S \cup {x})
    BY FS_AddElement
<1>2. (S \cup {x}) \ {x} = S
    OBVIOUS
<1> QED BY <1>1, <1>2, SumWithout

\* Terms of 0 do not count.
LEMMA SumOfZeros ==
    ASSUME NEW f, NEW S, IsFiniteSet(S), \A x \in S : f[x] = 0
    PROVE  Sum(f, S) = 0
<1> DEFINE T == {U \in SUBSET S : Sum(f, U) # 0}
<1>1. SUFFICES ASSUME T # {} PROVE FALSE
    OBVIOUS
<1>2. PICK U \in T : \A V \in T : ~(V \subseteq U /\ V # U)
  <2> HIDE DEF T
  <2>1. T \in SUBSET (SUBSET S)
      BY DEF T
  <2> QED BY <1>1, <2>1, SmallestSubset
<1>3. IsFiniteSet(U) /\ IntegersOn(f, U)
    BY FS_Subset DEF IntegersOn
<1>4. U # {}
    BY <1>3, SumType
<1>5. PICK y \in U : TRUE
    BY <1>4
<1>6. Sum(f, U) = f[y] + Sum(f, U \ {y})
    BY <1>3, SumWithout
<1>7. U \ {y} \in SUBSET S /\ U \ {y} \subseteq U /\ U \ {y} # U
    BY <1>5
<1>8. Sum(f, U \ {y}) = 0
    BY <1>2, <1>7
<1> QED BY <1>5, <1>6, <1>8

\* The sum over two sets with no common element is the sum of their sums.
LEMMA SumOfUnion ==
    ASSUME NEW f, NEW A, NEW S, IsFiniteSet(A), IsFiniteSet(S), A \cap S = {},
           IntegersOn(f, A \cup S)
    PROVE  Sum(f, A \cup S) = Sum(f, A) + Sum(f, S)
<1> DEFINE T == {U \in SUBSET A : Sum(f, U \cup S) # Sum(f, U) + Sum(f, S)}
<1>1. SUFFICES ASSUME T # {} PROVE FALSE
    OBVIOUS
<1>2. PICK U \in T : \A V \in T : ~(V \subseteq U /\ V # U)
  <2> HIDE DEF T
  <2>1. T \in SUBSET (SUBSET A)
      BY DEF T
  <2> QED BY <1>1, <2>1, SmallestSubset
<1>3. \A V \in SUBSET A : /\ IsFiniteSet(V) /\ IsFiniteSet(V \cup S)
                          /\ IntegersOn(f, V) /\ IntegersOn(f, V \cup S)
    BY FS_Subset, FS_Union DEF IntegersOn
<1>4. IntegersOn(f, S) /\ Sum(f, S) \in Int
  <2>1. IntegersOn(f, S)
      BY DEF IntegersOn
  <2> QED BY <2>1, SumType
<1>5. CASE U = {}
  <2>1. Sum(f, U) = 0
      BY <1>3, <1>5, SumType
  <2>2. Sum(f, U \cup S) = Sum(f, S)
    <3> DEFINE V == U \cup S
    <3>1. V = S
        BY <1>5
    <3> HIDE DEF V
    <3>2. Sum(f, V) = Sum(f, S)
        BY <3>1
    <3> QED BY <3>2 DEF V
  <2> QED BY <1>4, <2>1, <2>2
<1>6. CASE U # {}
  <2>1. PICK y \in U : TRUE
      BY <1>6
  <2> DEFINE V == U \ {y}
  <2>2. V \in SUBSET A /\ V \subseteq U /\ V # U
      BY <2>1
  <2>3. Sum(f, U) = f[y] + Sum(f, V)
      BY <1>3, <2>1, SumWithout
  <2>4. Sum(f, U \cup S) = f[y] + Sum(f, V \cup S)
    <3>1. (U \cup S) \ {y} = V \cup S
        BY <2>1
    <3> HIDE DEF V
    <3> QED BY <1>3, <2>1, <3>1, SumWithout
  <2>5. Sum(f, V \cup S) = Sum(f, V) + Sum(f, S)
      BY <1>2, <2>2
  <2>6. f[y] \in Int /\ Sum(f, V) \in Int
      BY <1>3, <2>1, <2>2, SumType DEF IntegersOn
  <2> HIDE DEF V
  <2> QED BY <1>4, <2>3, <2>4, <2>5, <2>6
<1> QED BY <1>5, <1>6

\* Sums of terms are added term by term.
LEMMA SumOfSums ==
    ASSUME NEW f, NEW h, NEW k, NEW S, IsFiniteSet(S),
           IntegersOn(f, S), IntegersOn(h, S), \A x \in S : k[x] = f[x] + h[x]
    PROVE  Sum(k, S) = Sum(f, S) + Sum(h, S)
<1> DEFINE T == {U \in SUBSET S : Sum(k, U) # Sum(f, U) + Sum(h, U)}
<1>1. SUFFICES ASSUME T # {} PROVE FALSE
    OBVIOUS
<1>2. PICK U \in T : \A V \in T : ~(V \subseteq U /\ V # U)
  <2> HIDE DEF T
  <2>1. T \in SUBSET (SUBSET S)
      BY DEF T
  <2> QED BY <1>1, <2>1, SmallestSubset
<1>3. \A V \in SUBSET S : /\ IsFiniteSet(V)
                          /\ IntegersOn(f, V) /\ IntegersOn(h, V) /\ IntegersOn(k, V)
    BY FS_Subset DEF IntegersOn
<1>4. U # {}
    BY <1>3, SumType
<1>5. PICK y \in U : TRUE
    BY <1>4
<1> DEFINE V == U \ {y}
<1>6. V \in SUBSET S /\ V \subseteq U /\ V # U
    BY <1>5
<1>7. /\ Sum(f, U) = f[y] + Sum(f, V)
      /\ Sum(h, U) = h[y] + Sum(h, V)
      /\ Sum(k, U) = k[y] + Sum(k, V)
    BY <1>3, <1>5, SumWithout
<1>8. Sum(k, V) = Sum(f, V) + Sum(h, V)
    BY <1>2, <1>6
<1>9. /\ f[y] \in Int /\ h[y] \in Int /\ k[y] = f[y] + h[y]
      /\ Sum(f, V) \in Int /\ Sum(h, V) \in Int
    BY <1>3, <1>5, <1>6, SumType DEF IntegersOn
<1> HIDE DEF V
<1> QED BY <1>7, <1>8, <1>9

\* A sum with one term that is not 0.
LEMMA SumOfOne ==
    ASSUME NEW f, NEW S, IsFiniteSet(S), NEW x \in S, f[x] \in Int,
           \A y \in S : y # x => f[y] = 0
    PROVE  Sum(f, S) = f[x]
<1>1. IntegersOn(f, S)
    BY DEF IntegersOn
<1>2. Sum(f, S) = f[x] + Sum(f, S \ {x})
    BY <1>1, SumWithout
<1>3. IsFiniteSet(S \ {x})
    BY FS_Subset
<1>4. Sum(f, S \ {x}) = 0
    BY <1>3, SumOfZeros
<1> QED BY <1>2, <1>4

-----------------------------------------------------------------------------
(***************************************************************************)
(* Sets of natural numbers.                                                *)
(***************************************************************************)

LEMMA LeastNatural ==
    ASSUME NEW T, T \subseteq Nat, T # {}
    PROVE  \E i \in T : \A k \in T : i <= k
<1>1. \E i \in T : \A k \in T : ~(<<k, i>> \in OpToRel(<, Nat))
    BY NatLessThanWellFounded, WFMin
<1>2. \E i \in T : \A k \in T : ~(k < i)
    BY <1>1 DEF OpToRel
<1> QED BY <1>2

\* A set of natural numbers below a bound has a largest element.
LEMMA LargestNatural ==
    ASSUME NEW m \in Nat, NEW S, S \subseteq 1 .. m, S # {}
    PROVE  \E i \in S : \A k \in S : k <= i
<1> DEFINE T == {m - i : i \in S}
<1>1. T \subseteq Nat /\ T # {}
  <2>1. \A i \in S : i \in 1 .. m
      OBVIOUS
  <2>2. \A i \in S : m - i \in Nat
      BY <2>1
  <2> QED BY <2>2
<1> HIDE DEF T
<1>2. \E i \in T : \A k \in T : i <= k
    BY <1>1, LeastNatural
<1>3. PICK t \in T : \A u \in T : t <= u
    BY <1>2
<1>4. PICK i \in S : t = m - i
    BY DEF T
<1>5. ASSUME NEW k \in S PROVE k <= i
  <2>1. m - k \in T
      BY DEF T
  <2>2. m - i <= m - k
      BY <1>3, <1>4, <2>1
  <2>3. k \in Nat /\ i \in Nat
      OBVIOUS
  <2> QED BY <2>2, <2>3
<1> QED BY <1>5
=============================================================================
