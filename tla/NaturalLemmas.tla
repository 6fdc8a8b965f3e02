----------------------------- MODULE NaturalLemmas -----------------------------
(***************************************************************************)
(* Facts about sets of natural numbers and about sums that the proofs      *)
(* need: code that takes the first or the latest of the rows it finds is   *)
(* modelled by a least or a greatest index, and there is one; what is held *)
(* in all is a sum, of which one call changes one term.                    *)
(***************************************************************************)
EXTENDS Integers, FiniteSets, Functions, TLAPS, FiniteSetTheorems, WellFoundedInduction, NaturalsInduction

\* A set of natural numbers has a least one ...
LEMMA LeastNatural ==
  ASSUME NEW S, S \subseteq Nat, S # {}
  PROVE  \E n \in S : \A m \in S : n <= m
<1> DEFINE R == OpToRel(<, Nat)
<1>1. IsWellFoundedOn(R, Nat)
  BY NatLessThanWellFounded
<1>2. \A x, y \in Nat : x < y => <<x, y>> \in R
  BY DEF OpToRel
<1> HIDE DEF R
<1>3. PICK n \in S : \A m \in S : ~(<<m, n>> \in R)
  BY <1>1, WFMin
<1>4. \A m \in S : ~(m < n)
  BY <1>2, <1>3
<1>5. n \in Nat /\ \A m \in S : m \in Nat /\ n <= m
  BY <1>4
<1> QED
  BY <1>5

\* ... and a set of indices a last one.
LEMMA LastNatural ==
  ASSUME NEW n \in Nat, NEW S, S \subseteq 1 .. n, S # {}
  PROVE  \E x \in S : \A y \in S : y <= x
<1> DEFINE D == {n - x : x \in S}
<1>1. D \subseteq Nat /\ D # {}
  <2>1. \A x \in S : x \in 1 .. n
    OBVIOUS
  <2>2. \A x \in S : n - x \in Nat
    BY <2>1
  <2>3. PICK x : x \in S
    OBVIOUS
  <2>4. n - x \in D
    BY <2>3
  <2> QED
    BY <2>2, <2>4
<1>2. PICK d \in D : \A m \in D : d <= m
  BY <1>1, LeastNatural
<1>3. PICK x \in S : d = n - x
  BY <1>2
<1>4. \A y \in S : y <= x
  <2> SUFFICES ASSUME NEW y \in S PROVE y <= x
    OBVIOUS
  <2>1. n - x <= n - y
    BY <1>2, <1>3
  <2>2. x \in Nat /\ y \in Nat
    OBVIOUS
  <2> QED
    BY <2>1, <2>2
<1> QED
  BY <1>4

------------------------------------------------------------------------------
\* Sums of a function over a finite set.  SumFunctionOnSet is a function on
\* the subsets, chosen to obey an equation: there is one, by adding the
\* subsets of one more element, and it does not matter which element is
\* taken out first.

\* The sum over s, from the sums g over smaller sets.
Added(f, g, s) ==
  IF s = {} THEN 0 ELSE f[CHOOSE x \in s : TRUE] + g[s \ {CHOOSE x \in s : TRUE}]
\* g has the sums of f over the sets in Parts.
SumsTo(g, f, Parts) == g = [s \in Parts |-> Added(f, g, s)]
\* The subsets of S with n elements at most.
UpTo(S, n) == {s \in SUBSET S : Cardinality(s) <= n}
\* The sums over all subsets of S.
Sums(f, S) == CHOOSE g : SumsTo(g, f, SUBSET S)

\* The library's sum is the one defined here.
LEMMA SumUnfolds == ASSUME NEW f, NEW S PROVE SumFunctionOnSet(f, S) = Sums(f, S)[S]
BY Zenon DEF SumFunctionOnSet, FoldFunctionOnSet, MapThenFoldSet, Sums, SumsTo, Added

\* There are sums over the subsets up to any size: if not, take the smallest
\* size without, and add to the sums of the size before it.
LEMMA SomeSums ==
  ASSUME NEW S, IsFiniteSet(S), NEW f, NEW n \in Nat
  PROVE  \E g : SumsTo(g, f, UpTo(S, n))
<1> DEFINE N == {m \in Nat : ~ \E g : SumsTo(g, f, UpTo(S, m))}
<1> SUFFICES ASSUME N # {} PROVE FALSE
  OBVIOUS
<1>1. PICK m \in N : \A k \in N : m <= k
  BY LeastNatural, Zenon
<1>2. \A s \in SUBSET S : IsFiniteSet(s) /\ Cardinality(s) \in Nat
  BY FS_Subset, FS_CardinalityType
<1>3. m # 0
  <2> SUFFICES ASSUME m = 0 PROVE FALSE
    OBVIOUS
  <2>1. UpTo(S, 0) = {{}}
    BY <1>2, FS_EmptySet DEF UpTo
  <2> DEFINE g == [s \in UpTo(S, 0) |-> 0]
  <2>2. \A s \in UpTo(S, 0) : Added(f, g, s) = 0
    BY <2>1 DEF Added
  <2>3. SumsTo(g, f, UpTo(S, 0))
    BY <2>2 DEF SumsTo
  <2> QED
    BY <2>3
<1>4. m - 1 \in Nat /\ m - 1 \notin N
  BY <1>1, <1>3
<1>5. PICK h : SumsTo(h, f, UpTo(S, m - 1))
  BY <1>4
<1> DEFINE g == [s \in UpTo(S, m) |-> Added(f, h, s)]
<1>6. ASSUME NEW s \in UpTo(S, m) PROVE Added(f, g, s) = Added(f, h, s)
  <2>1. CASE s = {}
    BY <2>1 DEF Added
  <2>2. CASE s # {}
    <3> DEFINE x == CHOOSE x \in s : TRUE
    <3>1. x \in s
      BY <2>2
    <3>2. Cardinality(s \ {x}) = Cardinality(s) - 1 /\ Cardinality(s) <= m
      BY <1>2, <3>1, FS_RemoveElement DEF UpTo
    <3>3. s \ {x} \in UpTo(S, m - 1) /\ s \ {x} \in UpTo(S, m)
      <4>1. s \ {x} \in SUBSET S
        BY DEF UpTo
      <4>2. Cardinality(s) \in Nat
        BY <1>2 DEF UpTo
      <4> QED
        BY <3>2, <4>1, <4>2, <1>4 DEF UpTo
    <3>4. g[s \ {x}] = Added(f, h, s \ {x})
      BY <3>3
    <3>5. h[s \ {x}] = Added(f, h, s \ {x})
      BY <3>3, <1>5 DEF SumsTo
    <3> QED
      BY <2>2, <3>4, <3>5 DEF Added
  <2> QED
    BY <2>1, <2>2
<1>7. SumsTo(g, f, UpTo(S, m))
  BY <1>6 DEF SumsTo
<1> QED
  BY <1>1, <1>7

\* So there are sums over all subsets of a finite set.
LEMMA SumsExist ==
  ASSUME NEW S, IsFiniteSet(S), NEW f
  PROVE  SumsTo(Sums(f, S), f, SUBSET S)
<1>1. Cardinality(S) \in Nat
  BY FS_CardinalityType
<1>2. UpTo(S, Cardinality(S)) = SUBSET S
  BY FS_Subset DEF UpTo
<1>3. \E g : SumsTo(g, f, UpTo(S, Cardinality(S)))
  BY <1>1, SomeSums
<1>4. \E g : SumsTo(g, f, SUBSET S)
  BY <1>2, <1>3
<1> QED
  BY <1>4, Zenon DEF Sums

\* Of any subsets there is one from which nothing can be taken out:
\* what the arguments by a least counterexample below start from.
LEMMA SmallestSubset ==
  ASSUME NEW S, IsFiniteSet(S), NEW B, B \subseteq SUBSET S, B # {}
  PROVE  \E s \in B : /\ IsFiniteSet(s)
                      /\ \A x \in s : s \ {x} \notin B
<1> DEFINE N == {Cardinality(s) : s \in B}
<1>1. \A s \in B : IsFiniteSet(s) /\ Cardinality(s) \in Nat
  BY FS_Subset, FS_CardinalityType
<1>2. N \subseteq Nat /\ N # {}
  BY <1>1
<1>3. PICK n \in N : \A m \in N : n <= m
  BY <1>2, LeastNatural
<1>4. PICK s \in B : n = Cardinality(s)
  BY <1>3
<1>5. ASSUME NEW x \in s, s \ {x} \in B PROVE FALSE
  <2>1. Cardinality(s \ {x}) = Cardinality(s) - 1
    BY <1>1, <1>4, FS_RemoveElement
  <2>2. Cardinality(s \ {x}) \in N
    BY <1>5
  <2>3. n <= Cardinality(s \ {x})
    BY <1>3, <2>2
  <2>4. Cardinality(s) \in Nat
    BY <1>1
  <2> QED
    BY <1>4, <2>1, <2>3, <2>4
<1> QED
  BY <1>1, <1>4, <1>5

\* The equation of the sums ...
LEMMA SumsFirst ==
  ASSUME NEW S, IsFiniteSet(S), NEW f, NEW s \in SUBSET S
  PROVE  LET x == CHOOSE x \in s : TRUE IN
         Sums(f, S)[s] = IF s = {} THEN 0 ELSE f[x] + Sums(f, S)[s \ {x}]
<1> DEFINE G == Sums(f, S)
<1>2. SumsTo(G, f, SUBSET S)
  BY SumsExist
<1> HIDE DEF G
<1>1. G[s] = Added(f, G, s)
  BY <1>2 DEF SumsTo
<1> USE DEF G
<1> QED
  BY <1>1 DEF Added

\* ... and what it says without naming which element is taken out.
LEMMA SumParts ==
  ASSUME NEW S, IsFiniteSet(S), NEW f, NEW s \in SUBSET S
  PROVE  /\ s = {} => Sums(f, S)[s] = 0
         /\ s # {} => \E x \in s : Sums(f, S)[s] = f[x] + Sums(f, S)[s \ {x}]
<1> DEFINE x == CHOOSE x \in s : TRUE
<1>1. s # {} => x \in s
  OBVIOUS
<1>2. Sums(f, S)[s] = IF s = {} THEN 0 ELSE f[x] + Sums(f, S)[s \ {x}]
  BY SumsFirst
<1> HIDE DEF x
<1> QED
  BY <1>1, <1>2

\* Sums of integers are integers.
LEMMA SumsTyped ==
  ASSUME NEW S, IsFiniteSet(S), NEW f, \A x \in S : f[x] \in Int
  PROVE  \A s \in SUBSET S : Sums(f, S)[s] \in Int
<1> DEFINE B == {s \in SUBSET S : Sums(f, S)[s] \notin Int}
<1> SUFFICES ASSUME B # {} PROVE FALSE
  OBVIOUS
<1>1. PICK s \in B : \A x \in s : s \ {x} \notin B
  BY SmallestSubset
<1>2. s # {}
  BY <1>1, SumParts
<1>3. PICK x \in s : Sums(f, S)[s] = f[x] + Sums(f, S)[s \ {x}]
  BY <1>2, SumParts
<1>4. Sums(f, S)[s \ {x}] \in Int /\ f[x] \in Int
  BY <1>1
<1> QED
  BY <1>3, <1>4

\* Any element can be taken out first.
LEMMA SumTakesOut ==
  ASSUME NEW S, IsFiniteSet(S), NEW f, \A x \in S : f[x] \in Int
  PROVE  \A s \in SUBSET S : \A x \in s : Sums(f, S)[s] = f[x] + Sums(f, S)[s \ {x}]
<1> DEFINE G == Sums(f, S)
           B == {s \in SUBSET S : \E x \in s : G[s] # f[x] + G[s \ {x}]}
<1> HIDE DEF G
<1> SUFFICES ASSUME B # {} PROVE FALSE
  BY DEF G
<1>1. PICK s \in B : \A x \in s : s \ {x} \notin B
  BY SmallestSubset
<1>2. PICK x \in s : G[s] # f[x] + G[s \ {x}]
  OBVIOUS
<1>3. PICK y \in s : G[s] = f[y] + G[s \ {y}]
  BY <1>2, SumParts DEF G
<1>4. x # y
  BY <1>2, <1>3
<1>5. G[s \ {x}] = f[y] + G[(s \ {x}) \ {y}]
  BY <1>1, <1>4
<1>6. G[s \ {y}] = f[x] + G[(s \ {y}) \ {x}]
  BY <1>1, <1>4
<1>7. (s \ {x}) \ {y} = (s \ {y}) \ {x}
  OBVIOUS
<1>8. f[x] \in Int /\ f[y] \in Int /\ G[(s \ {x}) \ {y}] \in Int
  BY SumsTyped DEF G
<1> DEFINE r == G[(s \ {x}) \ {y}]
<1>9. /\ G[s] = f[y] + (f[x] + r) /\ G[s \ {x}] = f[y] + r
      /\ G[s] # f[x] + G[s \ {x}] /\ r \in Int
  BY <1>2, <1>3, <1>5, <1>6, <1>7, <1>8
<1> HIDE DEF r
<1> QED
  BY <1>8, <1>9

\* The sum over a set depends on no value outside it.
LEMMA SumsAgree ==
  ASSUME NEW S, IsFiniteSet(S), NEW f, NEW h, NEW T \in SUBSET S,
         \A x \in T : f[x] = h[x]
  PROVE  Sums(f, S)[T] = Sums(h, S)[T]
<1> DEFINE B == {s \in SUBSET T : Sums(f, S)[s] # Sums(h, S)[s]}
<1> SUFFICES ASSUME B # {} PROVE FALSE
  OBVIOUS
<1>1. IsFiniteSet(T)
  BY FS_Subset
<1>2. PICK s \in B : \A x \in s : s \ {x} \notin B
  BY <1>1, SmallestSubset
<1>3. s \in SUBSET S
  OBVIOUS
<1>4. s # {}
  BY <1>3, SumParts
<1> DEFINE x == CHOOSE x \in s : TRUE
<1>5. x \in s
  BY <1>4
<1>6. Sums(f, S)[s] = f[x] + Sums(f, S)[s \ {x}] /\ Sums(h, S)[s] = h[x] + Sums(h, S)[s \ {x}]
  BY <1>3, <1>4, SumsFirst
<1>7. s \ {x} \in SUBSET T /\ s \ {x} \notin B
  BY <1>2, <1>5
<1>8. Sums(f, S)[s \ {x}] = Sums(h, S)[s \ {x}] /\ f[x] = h[x]
  BY <1>5, <1>7
<1> QED
  BY <1>6, <1>8

\* The same of the library's operator: it is an integer ...
LEMMA SumTyped ==
  ASSUME NEW S, IsFiniteSet(S), NEW f, \A x \in S : f[x] \in Int
  PROVE  SumFunctionOnSet(f, S) \in Int
BY SumUnfolds, SumsTyped

\* ... it changes by what one value changes by ...
LEMMA SumUpdated ==
  ASSUME NEW S, IsFiniteSet(S), NEW f, NEW h, NEW x \in S,
         \A y \in S : f[y] \in Int /\ h[y] \in Int,
         \A y \in S \ {x} : h[y] = f[y]
  PROVE  SumFunctionOnSet(h, S) = SumFunctionOnSet(f, S) + (h[x] - f[x])
<1> DEFINE T == S \ {x}
<1>0. T \in SUBSET S /\ S \in SUBSET S /\ \A y \in T : f[y] = h[y]
  OBVIOUS
<1>1. Sums(f, S)[T] = Sums(h, S)[T]
  <2> HIDE DEF T
  <2> QED
    BY <1>0, SumsAgree
<1>2. Sums(f, S)[S] = f[x] + Sums(f, S)[T]
  BY <1>0, SumTakesOut
<1>4. Sums(h, S)[S] = h[x] + Sums(h, S)[T]
  BY <1>0, SumTakesOut
<1>3. Sums(f, S)[T] \in Int
  BY <1>0, SumsTyped
<1>5. f[x] \in Int /\ h[x] \in Int
  OBVIOUS
<1> QED
  BY <1>1, <1>2, <1>3, <1>4, <1>5, SumUnfolds

\* ... it is zero if all values are ...
LEMMA SumOfZeros ==
  ASSUME NEW S, IsFiniteSet(S), NEW f, \A x \in S : f[x] = 0
  PROVE  SumFunctionOnSet(f, S) = 0
<1> DEFINE B == {s \in SUBSET S : Sums(f, S)[s] # 0}
<1> SUFFICES ASSUME B # {} PROVE FALSE
  BY SumUnfolds
<1>1. PICK s \in B : \A x \in s : s \ {x} \notin B
  BY SmallestSubset
<1>2. s # {}
  BY <1>1, SumParts
<1>3. PICK x \in s : Sums(f, S)[s] = f[x] + Sums(f, S)[s \ {x}]
  BY <1>2, SumParts
<1> QED
  BY <1>1, <1>3

\* ... and, of naturals, it is no less than any of them.
LEMMA SumCovers ==
  ASSUME NEW S, IsFiniteSet(S), NEW f, \A x \in S : f[x] \in Nat, NEW x \in S
  PROVE  f[x] <= SumFunctionOnSet(f, S)
<1> DEFINE B == {s \in SUBSET S : ~ (Sums(f, S)[s] >= 0)}
<1>1. B = {}
  <2> SUFFICES ASSUME B # {} PROVE FALSE
    OBVIOUS
  <2>1. PICK s \in B : \A y \in s : s \ {y} \notin B
    BY SmallestSubset
  <2>2. s # {}
    BY <2>1, SumParts
  <2>3. PICK y \in s : Sums(f, S)[s] = f[y] + Sums(f, S)[s \ {y}]
    BY <2>2, SumParts
  <2>4. Sums(f, S)[s \ {y}] \in Int /\ f[y] \in Nat /\ Sums(f, S)[s \ {y}] >= 0
    BY <2>1, SumsTyped
  <2> QED
    BY <2>3, <2>4
<1>2. Sums(f, S)[S] = f[x] + Sums(f, S)[S \ {x}]
  BY SumTakesOut
<1>3. Sums(f, S)[S \ {x}] \in Int /\ Sums(f, S)[S \ {x}] >= 0
  BY <1>1, SumsTyped
<1> QED
  BY <1>2, <1>3, SumUnfolds

\* ... and it stays when one value loses what another gains.
LEMMA SumMoved ==
  ASSUME NEW S, IsFiniteSet(S), NEW f, NEW h, NEW x \in S, NEW y \in S, x # y,
         \A z \in S : f[z] \in Int /\ h[z] \in Int,
         \A z \in S \ {x, y} : h[z] = f[z],
         h[x] + h[y] = f[x] + f[y]
  PROVE  SumFunctionOnSet(h, S) = SumFunctionOnSet(f, S)
<1> DEFINE g == [z \in S |-> IF z = x THEN h[x] ELSE f[z]]
<1>1. /\ g[x] = h[x] /\ \A z \in S \ {x} : g[z] = f[z]
      /\ g[y] = f[y] /\ \A z \in S \ {y} : h[z] = g[z]
      /\ \A z \in S : g[z] \in Int
  OBVIOUS
<1> HIDE DEF g
<1>2. /\ \A z \in S : f[z] \in Int /\ g[z] \in Int
      /\ \A z \in S : g[z] \in Int /\ h[z] \in Int
  BY <1>1
<1>3. SumFunctionOnSet(g, S) = SumFunctionOnSet(f, S) + (g[x] - f[x])
  BY <1>1, <1>2, SumUpdated
<1>4. SumFunctionOnSet(h, S) = SumFunctionOnSet(g, S) + (h[y] - g[y])
  <2>1. \A z \in S : g[z] \in Int /\ h[z] \in Int
    BY <1>2
  <2>2. \A z \in S \ {y} : h[z] = g[z]
    BY <1>1
  <2> QED
    BY <2>1, <2>2, SumUpdated
<1>5. SumFunctionOnSet(f, S) \in Int
  BY SumTyped
<1>6. /\ f[x] \in Int /\ f[y] \in Int /\ h[x] \in Int /\ h[y] \in Int
      /\ h[y] - f[y] = f[x] - h[x]
  OBVIOUS
<1> QED
  BY <1>1, <1>3, <1>4, <1>5, <1>6
==============================================================================
