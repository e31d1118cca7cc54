------------------------- MODULE DeltaMetricsProofs -------------------------
(***************************************************************************)
(* Proofs about DeltaMetrics for any collections, hierarchies, thresholds, *)
(* sizes and calls: that a state kept between calls, and moved from        *)
(* threshold to threshold, is what a state built afresh would be. Sums     *)
(* over finite functions are folds; what they are is proved by taking a    *)
(* smallest set for which the claim fails.                                 *)
(***************************************************************************)
EXTENDS DeltaMetrics, FiniteSetTheorems, SequenceTheorems, WellFoundedInduction, TLAPS

-----------------------------------------------------------------------------
(***************************************************************************)
(* A non-empty set of naturals has a smallest element, and Min finds it.   *)
(***************************************************************************)
LEMMA MinOfNaturals ==
    ASSUME NEW S \in SUBSET Nat, S # {}
    PROVE  Min(S) \in S /\ \A x \in S : Min(S) <= x
<1> DEFINE Less == {p \in Nat \X Nat : p[1] < p[2]}
<1>1. IsWellFoundedOn(Less, Nat)
  BY ONLY NatLessThanWellFounded, Zenon DEF OpToRel
<1>2. PICK m \in S : \A x \in S : ~ (<<x, m>> \in Less)
  BY <1>1, WFMin
<1>3. ASSUME NEW x \in S PROVE m <= x
  <2>1. x \in Nat /\ m \in Nat
    BY <1>2
  <2>2. ~ (x < m)
    BY <1>2, <2>1, Zenon
  <2> QED BY <2>1, <2>2
<1>4. \E x \in S : \A y \in S : x <= y
  BY <1>3
<1> QED BY <1>4 DEF Min

(***************************************************************************)
(* Among the subsets of a finite set with some property one is minimal.    *)
(* All inductions below are on this.                                       *)
(***************************************************************************)
LEMMA MinimalSet ==
    ASSUME NEW S, IsFiniteSet(S), NEW T, T \subseteq SUBSET S, T # {}
    PROVE  \E x \in T : \A y \in SUBSET x : y # x => y \notin T
<1>1. IsWellFoundedOn(StrictSubsetOrdering(S), SUBSET S)
  BY FS_StrictSubsetOrderingWellFounded, FS_FiniteSubsetsOfFinite, Zenon
<1>2. PICK x \in T : \A y \in T : ~ (<<y, x>> \in StrictSubsetOrdering(S))
  BY <1>1, WFMin
<1>3. \A y \in SUBSET x : y # x /\ y \in T => <<y, x>> \in StrictSubsetOrdering(S)
  BY DEF StrictSubsetOrdering
<1>4. \A y \in SUBSET x : y # x => y \notin T
  BY <1>2, <1>3, Zenon
<1> QED BY <1>4, Zenon

-----------------------------------------------------------------------------
(***************************************************************************)
(* Sums over finite sets.  SumOf is a fold, which chooses an element, adds *)
(* its value and goes on with the rest.                                    *)
(***************************************************************************)

(***************************************************************************)
(* The fold as the library defines it: g is the sum over the subsets of S. *)
(***************************************************************************)
Choice(s) == CHOOSE x \in s : TRUE
IsIter(g, f, S) == g = [s \in SUBSET S |-> IF s = {} THEN 0 ELSE f[Choice(s)] + g[s \ {Choice(s)}]]
Iter(f, S) == CHOOSE g : IsIter(g, f, S)
SumOn(f, S) == Iter(f, S)[S]

(***************************************************************************)
(* SumOf is that sum over a function's domain.                             *)
(***************************************************************************)
LEMMA SumOfDef == \A f : SumOf(f) = SumOn(f, DOMAIN f)
  BY DEF SumOf, FoldFunction, FoldFunctionOnSet, MapThenFoldSet, SumOn, Iter, IsIter, Choice

(***************************************************************************)
(* The element chosen is one of the set.                                   *)
(***************************************************************************)
LEMMA ChoiceIn == \A s : s # {} => Choice(s) \in s
  BY DEF Choice

(***************************************************************************)
(* The sum over nothing.                                                   *)
(***************************************************************************)
LEMMA IterEmpty ==
    ASSUME NEW f, NEW S, NEW g, IsIter(g, f, S)
    PROVE  g[{}] = 0
  BY DEF IsIter

(***************************************************************************)
(* The sum over a set that is not empty.                                   *)
(***************************************************************************)
LEMMA IterNonempty ==
    ASSUME NEW f, NEW S, NEW g, IsIter(g, f, S), NEW s \in SUBSET S, s # {}
    PROVE  g[s] = f[Choice(s)] + g[s \ {Choice(s)}]
  BY DEF IsIter

(***************************************************************************)
(* The sum over a set is the same whichever larger set it is reached from. *)
(***************************************************************************)
LEMMA IterUnique ==
    ASSUME NEW f, NEW A, NEW S \in SUBSET A, IsFiniteSet(S),
           NEW g, NEW h, IsIter(g, f, A), IsIter(h, f, S)
    PROVE  g[S] = h[S]
<1> DEFINE T == {s \in SUBSET S : g[s] # h[s]}
<1> SUFFICES ASSUME T # {} PROVE FALSE
  OBVIOUS
<1> HIDE DEF T
<1>1. PICK x \in T : \A y \in SUBSET x : y # x => y \notin T
  <2>1. T \subseteq SUBSET S BY DEF T
  <2> QED BY <2>1, MinimalSet
<1>2. x \subseteq S /\ g[x] # h[x]
  BY <1>1 DEF T
<1>a. x \in SUBSET A /\ x \in SUBSET S
  BY <1>2
<1>b. g[{}] = 0 /\ h[{}] = 0
  BY IterEmpty
<1>3. x # {}
  BY <1>b, <1>2, Zenon
<1>d. g[x] = f[Choice(x)] + g[x \ {Choice(x)}] /\ h[x] = f[Choice(x)] + h[x \ {Choice(x)}]
  BY <1>a, <1>3, IterNonempty
<1>4. Choice(x) \in x
  BY <1>3, ChoiceIn
<1> DEFINE y == x \ {Choice(x)}
<1>5. y \in SUBSET x /\ y # x /\ y \in SUBSET S
  BY <1>4, <1>2
<1> HIDE DEF y
<1>6. g[y] = h[y]
  BY <1>5, <1>1 DEF T
<1>7. g[x] = f[Choice(x)] + g[y] /\ h[x] = f[Choice(x)] + h[y]
  BY <1>d DEF y
<1> QED BY <1>2, <1>6, <1>7

(***************************************************************************)
(* Every finite set has such sums.                                         *)
(***************************************************************************)
LEMMA IterExists ==
    ASSUME NEW f, NEW S, IsFiniteSet(S)
    PROVE  \E g : IsIter(g, f, S)
<1> DEFINE T == {s \in SUBSET S : ~ \E g : IsIter(g, f, s)}
<1> SUFFICES ASSUME T # {} PROVE FALSE
  OBVIOUS
<1> HIDE DEF T
<1>1. PICK x \in T : \A y \in SUBSET x : y # x => y \notin T
  <2>1. T \subseteq SUBSET S BY DEF T
  <2> QED BY <2>1, MinimalSet
<1>2. x \subseteq S /\ ~ \E g : IsIter(g, f, x)
  BY <1>1 DEF T
<1> DEFINE G(s) == CHOOSE g : IsIter(g, f, s)
<1>3. \A y \in SUBSET x : y # x => IsIter(G(y), f, y)
  <2> SUFFICES ASSUME NEW y \in SUBSET x, y # x PROVE IsIter(G(y), f, y)
    OBVIOUS
  <2>1. \E g : IsIter(g, f, y)
    BY <1>1, <1>2 DEF T
  <2> QED BY <2>1
<1>4. \A y \in SUBSET x : IsFiniteSet(y)
  BY <1>2, FS_Subset
<1> DEFINE F == [s \in SUBSET x |-> IF s = {} THEN 0
                    ELSE IF s = x THEN f[Choice(s)] + G(s \ {Choice(s)})[s \ {Choice(s)}]
                    ELSE G(s)[s]]
<1> HIDE DEF G
<1>5. ASSUME NEW s \in SUBSET x, s # {}
      PROVE  F[s] = f[Choice(s)] + F[s \ {Choice(s)}]
  <2> DEFINE y == s \ {Choice(s)}
  <2>1. Choice(s) \in s
    BY <1>5, ChoiceIn
  <2>2. y \in SUBSET s /\ y # s /\ y \in SUBSET x /\ y # x
    BY <2>1
  <2>3. F[y] = G(y)[y]
    <3>1. CASE y = {}
      <4>1. IsIter(G(y), f, y)
        BY <1>3, <2>2
      <4> HIDE DEF y
      <4>3. G(y)[y] = 0
        BY <4>1, <3>1, IterEmpty
      <4> HIDE DEF y
      <4> QED BY <4>3, <3>1, <2>2
    <3>2. CASE y # {}
      <4> HIDE DEF y
      <4> QED BY <3>2, <2>2
    <3> QED BY <3>1, <3>2
  <2>4. CASE s = x
    BY <2>3, <2>4, <1>5
  <2>5. CASE s # x
    <3>1. IsIter(G(s), f, s) /\ IsIter(G(y), f, y)
      BY <1>3, <2>2, <2>5
    <3>2. G(s)[s] = f[Choice(s)] + G(s)[y]
      BY <3>1, <1>5, IterNonempty
    <3>3. G(s)[y] = G(y)[y]
      BY <3>1, <2>2, <1>4, IterUnique
    <3>4. F[s] = G(s)[s]
      <4>1. s # {} /\ s # x /\ s \in SUBSET x
        BY <2>5, <1>5
      <4> QED BY <4>1
    <3> QED BY <3>2, <3>3, <3>4, <2>3
  <2> QED BY <2>4, <2>5
<1>6. F[{}] = 0
  OBVIOUS
<1>7. F = [s \in SUBSET x |-> F[s]]
  OBVIOUS
<1> HIDE DEF F
<1>8. [s \in SUBSET x |-> F[s]] =
        [s \in SUBSET x |-> IF s = {} THEN 0 ELSE f[Choice(s)] + F[s \ {Choice(s)}]]
  BY <1>5, <1>6
<1>9. IsIter(F, f, x)
  BY <1>7, <1>8 DEF IsIter
<1> QED BY <1>9, <1>2

(***************************************************************************)
(* The sum over nothing is zero.                                           *)
(***************************************************************************)
LEMMA SumOnEmpty == \A f : SumOn(f, {}) = 0
<1> SUFFICES ASSUME NEW f PROVE SumOn(f, {}) = 0
  OBVIOUS
<1>1. \E g : IsIter(g, f, {})
  BY IterExists, FS_EmptySet
<1>2. IsIter(Iter(f, {}), f, {})
  BY <1>1, Zenon DEF Iter
<1> QED BY <1>2, IterEmpty DEF SumOn

(***************************************************************************)
(* A sum is the chosen element's value and the rest.                       *)
(***************************************************************************)
LEMMA SumOnChoice ==
    ASSUME NEW f, NEW S, IsFiniteSet(S), S # {}
    PROVE  SumOn(f, S) = f[Choice(S)] + SumOn(f, S \ {Choice(S)})
<1> DEFINE R == S \ {Choice(S)}
<1>1. R \subseteq S /\ IsFiniteSet(R)
  BY FS_Subset
<1> HIDE DEF R
<1>2. IsIter(Iter(f, S), f, S)
  <2>1. \E g : IsIter(g, f, S)
    BY IterExists
  <2> QED BY <2>1, Zenon DEF Iter
<1>3. IsIter(Iter(f, R), f, R)
  <2>1. \E g : IsIter(g, f, R)
    BY <1>1, IterExists
  <2> QED BY <2>1, Zenon DEF Iter
<1>4. Iter(f, S)[R] = Iter(f, R)[R]
  <2>1. PICK g, h : g = Iter(f, S) /\ h = Iter(f, R)
    OBVIOUS
  <2>2. IsIter(g, f, S) /\ IsIter(h, f, R)
    BY <1>2, <1>3, <2>1, Zenon
  <2>3. g[R] = h[R]
    BY <1>1, <2>2, IterUnique
  <2> QED BY <2>1, <2>3, Zenon
<1>5. Iter(f, S)[S] = f[Choice(S)] + Iter(f, S)[S \ {Choice(S)}]
  BY <1>2, IterNonempty
<1> QED BY <1>4, <1>5 DEF SumOn, R

(***************************************************************************)
(* Sums of naturals are naturals.                                          *)
(***************************************************************************)
LEMMA SumOnType ==
    ASSUME NEW f, NEW S, IsFiniteSet(S), \A x \in S : f[x] \in Nat
    PROVE  SumOn(f, S) \in Nat
<1> DEFINE T == {s \in SUBSET S : SumOn(f, s) \notin Nat}
<1> SUFFICES ASSUME T # {} PROVE FALSE
  OBVIOUS
<1> HIDE DEF T
<1>1. PICK x \in T : \A y \in SUBSET x : y # x => y \notin T
  <2>1. T \subseteq SUBSET S BY DEF T
  <2> QED BY <2>1, MinimalSet
<1>2. x \subseteq S /\ SumOn(f, x) \notin Nat /\ IsFiniteSet(x)
  BY <1>1, FS_Subset DEF T
<1>3. x # {}
  BY <1>2, SumOnEmpty
<1> DEFINE y == x \ {Choice(x)}
<1>4. y \in SUBSET x /\ y # x /\ Choice(x) \in S
  BY <1>2, <1>3, ChoiceIn
<1>5. SumOn(f, y) \in Nat
  BY <1>1, <1>2, <1>4 DEF T
<1>6. SumOn(f, x) = f[Choice(x)] + SumOn(f, y)
  BY <1>2, <1>3, SumOnChoice
<1> QED BY <1>2, <1>4, <1>5, <1>6

(***************************************************************************)
(* Functions that agree on a set have one sum there.                       *)
(***************************************************************************)
LEMMA SumOnAgree ==
    ASSUME NEW f, NEW g, NEW S, IsFiniteSet(S), \A x \in S : f[x] = g[x]
    PROVE  SumOn(f, S) = SumOn(g, S)
<1> DEFINE T == {s \in SUBSET S : SumOn(f, s) # SumOn(g, s)}
<1> SUFFICES ASSUME T # {} PROVE FALSE
  OBVIOUS
<1> HIDE DEF T
<1>1. PICK x \in T : \A y \in SUBSET x : y # x => y \notin T
  <2>1. T \subseteq SUBSET S BY DEF T
  <2> QED BY <2>1, MinimalSet
<1>2. x \subseteq S /\ SumOn(f, x) # SumOn(g, x) /\ IsFiniteSet(x)
  BY <1>1, FS_Subset DEF T
<1>3. x # {}
  BY <1>2, SumOnEmpty
<1> DEFINE y == x \ {Choice(x)}
<1>4. y \in SUBSET x /\ y # x /\ Choice(x) \in S
  BY <1>2, <1>3, ChoiceIn
<1>5. SumOn(f, y) = SumOn(g, y)
  BY <1>1, <1>2, <1>4 DEF T
<1>6. SumOn(f, x) = f[Choice(x)] + SumOn(f, y) /\ SumOn(g, x) = g[Choice(x)] + SumOn(g, y)
  BY <1>2, <1>3, SumOnChoice
<1> QED BY <1>2, <1>4, <1>5, <1>6

(***************************************************************************)
(* Any element may be taken out of a sum first: the choice does not        *)
(* matter.                                                                 *)
(***************************************************************************)
LEMMA SumOnRemove ==
    ASSUME NEW f, NEW S, IsFiniteSet(S), \A x \in S : f[x] \in Nat, NEW a \in S
    PROVE  SumOn(f, S) = f[a] + SumOn(f, S \ {a})
<1> DEFINE T == {s \in SUBSET S : \E b \in s : SumOn(f, s) # f[b] + SumOn(f, s \ {b})}
<1> SUFFICES ASSUME T # {} PROVE FALSE
  <2>1. S \in SUBSET S /\ a \in S OBVIOUS
  <2> QED BY <2>1
<1> HIDE DEF T
<1>1. PICK x \in T : \A y \in SUBSET x : y # x => y \notin T
  <2>1. T \subseteq SUBSET S BY DEF T
  <2> QED BY <2>1, MinimalSet
<1>2. PICK b \in x : SumOn(f, x) # f[b] + SumOn(f, x \ {b})
  BY <1>1 DEF T
<1>3. x \subseteq S /\ IsFiniteSet(x) /\ x # {}
  BY <1>1, <1>2, FS_Subset DEF T
<1> DEFINE c == Choice(x)
<1> DEFINE xc == x \ {c}
<1> DEFINE xb == x \ {b}
<1> DEFINE xbc == x \ {b, c}
<1>4. c \in x
  BY <1>3, ChoiceIn
<1>5. SumOn(f, x) = f[c] + SumOn(f, xc)
  BY <1>3, SumOnChoice
<1>6. b # c
  BY <1>2, <1>5
<1>7. /\ xc \in SUBSET x /\ xc # x /\ b \in xc /\ xc \ {b} = xbc
      /\ xb \in SUBSET x /\ xb # x /\ c \in xb /\ xb \ {c} = xbc
      /\ xc \in SUBSET S /\ xb \in SUBSET S
  BY <1>2, <1>3, <1>4, <1>6
<1> HIDE DEF xc, xb, xbc, c
<1>8. SumOn(f, xc) = f[b] + SumOn(f, xbc) /\ SumOn(f, xb) = f[c] + SumOn(f, xbc)
  <2>1. \A y \in SUBSET S : y \notin T => \A d \in y : SumOn(f, y) = f[d] + SumOn(f, y \ {d})
    BY Zenon DEF T
  <2>2. xc \notin T /\ xb \notin T
    BY <1>1, <1>7
  <2>3. SumOn(f, xc) = f[b] + SumOn(f, xc \ {b}) /\ SumOn(f, xb) = f[c] + SumOn(f, xb \ {c})
    BY <1>7, <2>1, <2>2
  <2> QED BY <1>7, <2>3, Zenon
<1>9. SumOn(f, xbc) \in Nat
  <2>1. xbc \subseteq S /\ IsFiniteSet(xbc)
    BY <1>3, FS_Subset DEF xbc
  <2> QED BY <2>1, SumOnType
<1>10. f[b] \in Nat /\ f[c] \in Nat
  BY <1>2, <1>3, <1>4
<1> QED BY <1>2, <1>5, <1>8, <1>9, <1>10 DEF xb

-----------------------------------------------------------------------------
(***************************************************************************)
(* Counting a set by the labels of its elements.                           *)
(***************************************************************************)

(***************************************************************************)
(* The elements that m labels with one of A.                               *)
(***************************************************************************)
Fibre(S, m, A) == {y \in S : m[y] \in A}

(***************************************************************************)
(* One label's elements and those of the others.                           *)
(***************************************************************************)
LEMMA FibreSplit ==
    ASSUME NEW S, IsFiniteSet(S), NEW m, NEW A, NEW a \in A
    PROVE  /\ Cardinality(Fibre(S, m, A)) =
                Cardinality(Fibre(S, m, {a})) + Cardinality(Fibre(S, m, A \ {a}))
           /\ Cardinality(Fibre(S, m, {a})) \in Nat
           /\ Cardinality(Fibre(S, m, A \ {a})) \in Nat
           /\ Cardinality(Fibre(S, m, A)) \in Nat
<1> DEFINE F == Fibre(S, m, A)
<1> DEFINE G == Fibre(S, m, {a})
<1> DEFINE H == Fibre(S, m, A \ {a})
<1>1. F = G \cup H /\ G \cap H = {} /\ F \subseteq S /\ G \subseteq S /\ H \subseteq S
  BY DEF Fibre
<1> HIDE DEF F, G, H
<1>2. IsFiniteSet(F) /\ IsFiniteSet(G) /\ IsFiniteSet(H)
  BY <1>1, FS_Subset
<1>3. Cardinality(F) \in Nat /\ Cardinality(G) \in Nat /\ Cardinality(H) \in Nat
  BY <1>2, FS_CardinalityType
<1>4. Cardinality(G \cup H) = Cardinality(G) + Cardinality(H) - Cardinality(G \cap H)
  BY <1>2, FS_Union
<1>5. Cardinality(G \cap H) = 0
  BY <1>1, FS_EmptySet
<1>6. Cardinality(F) = Cardinality(G) + Cardinality(H)
  BY <1>1, <1>3, <1>4, <1>5
<1> QED BY <1>3, <1>6, Zenon DEF F, G, H

(***************************************************************************)
(* The sum of how many elements have each label is how many have any.      *)
(***************************************************************************)
LEMMA SumOfFibres ==
    ASSUME NEW S, IsFiniteSet(S), NEW m, NEW A, IsFiniteSet(A), NEW f,
           \A a \in A : f[a] = Cardinality(Fibre(S, m, {a}))
    PROVE  SumOn(f, A) = Cardinality(Fibre(S, m, A))
<1> DEFINE T == {B \in SUBSET A : SumOn(f, B) # Cardinality(Fibre(S, m, B))}
<1> SUFFICES ASSUME T # {} PROVE FALSE
  OBVIOUS
<1> HIDE DEF T
<1>1. PICK x \in T : \A y \in SUBSET x : y # x => y \notin T
  <2>1. T \subseteq SUBSET A BY DEF T
  <2> QED BY <2>1, MinimalSet
<1>2. x \subseteq A /\ SumOn(f, x) # Cardinality(Fibre(S, m, x)) /\ IsFiniteSet(x)
  BY <1>1, FS_Subset DEF T
<1>3. x # {}
  <2>1. Fibre(S, m, {}) = {}
    BY DEF Fibre
  <2>2. SumOn(f, {}) = 0 /\ Cardinality({}) = 0
    BY SumOnEmpty, FS_EmptySet
  <2>3. SumOn(f, {}) = Cardinality(Fibre(S, m, {}))
    BY <2>1, <2>2, Zenon
  <2> QED BY <2>3, <1>2, Zenon
<1> DEFINE a == Choice(x)
<1> DEFINE y == x \ {a}
<1>4. y \in SUBSET x /\ y # x /\ a \in x /\ a \in A
  BY <1>2, <1>3, ChoiceIn
<1>5. SumOn(f, y) = Cardinality(Fibre(S, m, y))
  BY <1>1, <1>2, <1>4 DEF T
<1>6. SumOn(f, x) = f[a] + SumOn(f, y)
  BY <1>2, <1>3, SumOnChoice
<1>7. Cardinality(Fibre(S, m, x)) = Cardinality(Fibre(S, m, {a})) + Cardinality(Fibre(S, m, y))
  BY <1>4, FibreSplit
<1> QED BY <1>2, <1>4, <1>5, <1>6, <1>7

(***************************************************************************)
(* The sum of a function to the naturals is one.                           *)
(***************************************************************************)
LEMMA SumOfType ==
    ASSUME NEW f, IsFiniteSet(DOMAIN f), \A x \in DOMAIN f : f[x] \in Nat
    PROVE  SumOf(f) \in Nat
  BY SumOfDef, SumOnType, Zenon

(***************************************************************************)
(* Min, where the smallest element is known.                               *)
(***************************************************************************)
LEMMA MinIs ==
    ASSUME NEW S \in SUBSET Nat, NEW a \in S, \A x \in S : a <= x
    PROVE  Min(S) = a
<1>1. PICK b : b = Min(S)
  OBVIOUS
<1>2. b \in S /\ b <= a
  BY <1>1, MinOfNaturals
<1>3. a \in Nat /\ b \in Nat /\ a <= b
  BY <1>2
<1> QED BY <1>1, <1>2, <1>3

(***************************************************************************)
(* The values of a finite function are finitely many.                      *)
(***************************************************************************)
LEMMA FiniteImage ==
    ASSUME NEW S, IsFiniteSet(S), NEW f, DOMAIN f = S
    PROVE  IsFiniteSet({f[x] : x \in S})
<1> DEFINE T == {f[x] : x \in S}
<1> DEFINE g == [x \in S |-> f[x]]
<1>1. g \in Surjection(S, T)
  BY DEF Surjection
<1> HIDE DEF g, T
<1>2. IsFiniteSet(T)
  BY <1>1, FS_Surjection
<1> QED BY <1>2 DEF T

(***************************************************************************)
(* choose_2 is a natural.                                                  *)
(***************************************************************************)
LEMMA Choose2Type == \A n \in Nat : choose_2(n) \in Nat
<1> SUFFICES ASSUME NEW n \in Nat PROVE choose_2(n) \in Nat
  OBVIOUS
<1>1. CASE n = 0
  BY <1>1 DEF choose_2
<1>2. CASE n > 0
  <2>1. n - 1 \in Nat
    BY <1>2
  <2>2. n * (n - 1) \in Nat
    BY <2>1
  <2>3. \A k \in Nat : k \div 2 \in Nat
    OBVIOUS
  <2>4. (n * (n - 1)) \div 2 \in Nat
    BY <2>2, <2>3, Zenon
  <2> QED BY <2>4, Zenon DEF choose_2
<1> QED BY <1>1, <1>2

(***************************************************************************)
(* Pascal's rule for pairs: one more element makes as many more pairs as   *)
(* there were elements.                                                    *)
(***************************************************************************)
LEMMA Choose2Step == \A n \in Nat : choose_2(n + 1) = choose_2(n) + n
<1> SUFFICES ASSUME NEW n \in Nat PROVE choose_2(n + 1) = choose_2(n) + n
  OBVIOUS
<1> DEFINE p == n * (n - 1)
<1>1. p \in Int
  OBVIOUS
<1>2. (n + 1) * ((n + 1) - 1) = p + 2 * n
  OBVIOUS
<1> HIDE DEF p
<1>3. \A q \in Int : (q + 2 * n) \div 2 = (q \div 2) + n
  OBVIOUS
<1>4. (p + 2 * n) \div 2 = (p \div 2) + n
  BY <1>1, <1>3
<1> QED BY <1>2, <1>4 DEF choose_2, p

-----------------------------------------------------------------------------
(***************************************************************************)
(* Merge events, from high thresholds to low.  An owner map gives each     *)
(* record the smallest record of its entity.                               *)
(***************************************************************************)

(***************************************************************************)
(* The lists of merge events of a hierarchy over the build's records.      *)
(***************************************************************************)
Hierarchical == {events \in Seq(MergeEvent) : IsHierarchy(events, BuildRecords)}

(***************************************************************************)
(* How many events lie at or above a threshold, and strictly above it.     *)
(***************************************************************************)
Upto(events, t) == Cardinality({k \in DOMAIN events : events[k].threshold >= t})
Above(events, t) == Cardinality({k \in DOMAIN events : events[k].threshold > t})

(***************************************************************************)
(* The owner of a record after the first k events.                         *)
(***************************************************************************)
Root(events, k, x) == Canonical(SubSeq(events, 1, k), 0, x)

(***************************************************************************)
(* What one event holds.                                                   *)
(***************************************************************************)
LEMMA EventTypes ==
    ASSUME NEW events \in Hierarchical, NEW k \in 1 .. Len(events)
    PROVE  /\ events[k].threshold \in Thresholds /\ events[k].threshold \in Nat
           /\ events[k].parent_id \in BuildRecords /\ events[k].parent_id \in Nat
           /\ events[k].child_nodes \subseteq BuildRecords
<1>1. events[k] \in MergeEvent
  BY DEF Hierarchical
<1>2. BuildRecords \subseteq Nat
  BY SizesAssumption DEF BuildRecords
<1> QED BY <1>1, <1>2, ThresholdsAssumption DEF MergeEvent

(***************************************************************************)
(* What a list of events is.                                               *)
(***************************************************************************)
LEMMA Lengths ==
    ASSUME NEW events \in Hierarchical
    PROVE  Len(events) \in Nat /\ DOMAIN events = 1 .. Len(events) /\ events \in Seq(MergeEvent)
  BY DEF Hierarchical

(***************************************************************************)
(* A set of positions that holds all those before each of its own is an    *)
(* initial segment.                                                        *)
(***************************************************************************)
LEMMA InitialSegment ==
    ASSUME NEW n \in Nat, NEW S \in SUBSET (1 .. n), \A x \in S : \A y \in 1 .. x : y \in S
    PROVE  Cardinality(S) \in 0 .. n /\ S = 1 .. Cardinality(S)
<1> DEFINE T == {x \in 1 .. n + 1 : x \notin S}
<1>1. T \subseteq Nat /\ n + 1 \in T
  OBVIOUS
<1> DEFINE m == Min(T)
<1>2. m \in T /\ \A x \in T : m <= x
  BY <1>1, MinOfNaturals
<1>3. m \in 1 .. n + 1 /\ m \notin S /\ \A x \in 1 .. n + 1 : x < m => x \in S
  BY <1>2
<1> HIDE DEF m, T
<1>4. S = 1 .. m - 1
  <2>1. ASSUME NEW x \in S PROVE x \in 1 .. m - 1
    <3>1. x < m
      BY <1>3
    <3> QED BY <3>1, <1>3
  <2>2. ASSUME NEW x \in 1 .. m - 1 PROVE x \in S
    BY <1>3
  <2> QED BY <2>1, <2>2
<1>5. Cardinality(1 .. m - 1) = m - 1
  <2>1. 1 \in Int /\ m - 1 \in Int /\ ~(1 > m - 1 /\ m - 1 # 0)
    BY <1>3
  <2>2. Cardinality(1 .. m - 1) = IF 1 > m - 1 THEN 0 ELSE (m - 1) - 1 + 1
    BY <2>1, FS_Interval
  <2> QED BY <2>1, <2>2
<1> QED BY <1>3, <1>4, <1>5

(***************************************************************************)
(* Events come in order of falling threshold.                              *)
(***************************************************************************)
LEMMA Descending ==
    ASSUME NEW events \in Hierarchical, NEW k \in 1 .. Len(events), NEW j \in 1 .. k
    PROVE  events[j].threshold >= events[k].threshold
  BY Lengths DEF Hierarchical, IsHierarchy

(***************************************************************************)
(* The events at or above a threshold are the first Upto of them.          *)
(***************************************************************************)
LEMMA UptoIs ==
    ASSUME NEW events \in Hierarchical, NEW t \in Nat
    PROVE  /\ Upto(events, t) \in 0 .. Len(events)
           /\ {k \in DOMAIN events : events[k].threshold >= t} = 1 .. Upto(events, t)
<1> DEFINE S == {k \in DOMAIN events : events[k].threshold >= t}
<1>1. S \subseteq 1 .. Len(events) /\ Len(events) \in Nat
  BY Lengths
<1>2. ASSUME NEW x \in S, NEW y \in 1 .. x PROVE y \in S
  <2>1. x \in 1 .. Len(events) /\ y \in 1 .. Len(events)
    BY <1>1
  <2>2. events[y].threshold >= events[x].threshold
    BY <2>1, Descending
  <2>3. events[y].threshold \in Nat /\ events[x].threshold \in Nat
    BY <2>1, EventTypes
  <2> QED BY <2>1, <2>2, <2>3, Lengths
<1> HIDE DEF S
<1>3. Cardinality(S) \in 0 .. Len(events) /\ S = 1 .. Cardinality(S)
  BY <1>1, <1>2, InitialSegment
<1> QED BY <1>3 DEF S, Upto

(***************************************************************************)
(* The events strictly above a threshold are the first Above of them.      *)
(***************************************************************************)
LEMMA AboveIs ==
    ASSUME NEW events \in Hierarchical, NEW t \in Nat
    PROVE  /\ Above(events, t) \in 0 .. Len(events)
           /\ {k \in DOMAIN events : events[k].threshold > t} = 1 .. Above(events, t)
<1> DEFINE S == {k \in DOMAIN events : events[k].threshold > t}
<1>1. S \subseteq 1 .. Len(events) /\ Len(events) \in Nat
  BY Lengths
<1>2. ASSUME NEW x \in S, NEW y \in 1 .. x PROVE y \in S
  <2>1. x \in 1 .. Len(events) /\ y \in 1 .. Len(events)
    BY <1>1
  <2>2. events[y].threshold >= events[x].threshold
    BY <2>1, Descending
  <2>3. events[y].threshold \in Nat /\ events[x].threshold \in Nat
    BY <2>1, EventTypes
  <2> QED BY <2>1, <2>2, <2>3, Lengths
<1> HIDE DEF S
<1>3. Cardinality(S) \in 0 .. Len(events) /\ S = 1 .. Cardinality(S)
  BY <1>1, <1>2, InitialSegment
<1> QED BY <1>3 DEF S, Above

(***************************************************************************)
(* The parents a record was moved under by the first k events.             *)
(***************************************************************************)
Parents(events, k, x) == {events[j].parent_id : j \in {j \in 1 .. k : x \in events[j].child_nodes}}

(***************************************************************************)
(* An owner is the smallest of those parents, or the record.               *)
(***************************************************************************)
LEMMA RootIs ==
    ASSUME NEW events \in Hierarchical, NEW k \in 0 .. Len(events), NEW x
    PROVE  Root(events, k, x) = Min({x} \cup Parents(events, k, x))
<1> DEFINE prefix == SubSeq(events, 1, k)
<1>1. DOMAIN prefix = 1 .. k /\ \A j \in 1 .. k : prefix[j] = events[j]
  BY Lengths
<1>2. \A j \in 1 .. k : events[j].threshold >= 0
  <2>1. \A j \in 1 .. k : j \in 1 .. Len(events)
    BY Lengths
  <2> QED BY <2>1, EventTypes
<1> HIDE DEF prefix
<1>3. {j \in DOMAIN prefix : prefix[j].threshold >= 0 /\ x \in prefix[j].child_nodes}
        = {j \in 1 .. k : x \in events[j].child_nodes}
  BY <1>1, <1>2
<1>4. {prefix[j].parent_id : j \in {j \in 1 .. k : x \in events[j].child_nodes}}
        = Parents(events, k, x)
  BY <1>1 DEF Parents
<1> QED BY <1>3, <1>4, Zenon DEF Root, Canonical, prefix

(***************************************************************************)
(* An owner at a threshold is the owner after the events at or above it.   *)
(***************************************************************************)
LEMMA CanonicalIsRoot ==
    ASSUME NEW events \in Hierarchical, NEW t \in Nat, NEW x
    PROVE  Canonical(events, t, x) = Root(events, Upto(events, t), x)
<1> DEFINE k == Upto(events, t)
<1>1. k \in 0 .. Len(events) /\ {j \in DOMAIN events : events[j].threshold >= t} = 1 .. k
  BY UptoIs
<1> HIDE DEF k
<1>2. {j \in DOMAIN events : events[j].threshold >= t /\ x \in events[j].child_nodes}
        = {j \in 1 .. k : x \in events[j].child_nodes}
  BY <1>1
<1>3. Canonical(events, t, x) = Min({x} \cup Parents(events, k, x))
  BY <1>2, Zenon DEF Canonical, Parents
<1> QED BY <1>1, <1>3, RootIs DEF k

(***************************************************************************)
(* Parents are naturals.                                                   *)
(***************************************************************************)
LEMMA ParentsIn ==
    ASSUME NEW events \in Hierarchical, NEW k \in 0 .. Len(events), NEW x
    PROVE  Parents(events, k, x) \subseteq Nat
<1>1. \A j \in 1 .. k : j \in 1 .. Len(events)
  BY Lengths
<1> QED BY <1>1, EventTypes DEF Parents

(***************************************************************************)
(* The owner after one more event.                                         *)
(***************************************************************************)
LEMMA RootAdd ==
    ASSUME NEW events \in Hierarchical, NEW k \in 1 .. Len(events), NEW x \in Nat
    PROVE  Root(events, k, x) =
                IF x \in events[k].child_nodes /\ events[k].parent_id < Root(events, k - 1, x)
                THEN events[k].parent_id ELSE Root(events, k - 1, x)
<1> DEFINE A == {x} \cup Parents(events, k - 1, x)
<1> DEFINE B == {x} \cup Parents(events, k, x)
<1> DEFINE p == events[k].parent_id
<1>1. k \in 0 .. Len(events) /\ k - 1 \in 0 .. Len(events) /\ p \in Nat
  BY Lengths, EventTypes
<1>2. A \subseteq Nat /\ B \subseteq Nat /\ x \in A /\ x \in B
  BY <1>1, ParentsIn
<1>3. B = IF x \in events[k].child_nodes THEN A \cup {p} ELSE A
  <2>1. {j \in 1 .. k : x \in events[j].child_nodes} =
            {j \in 1 .. k - 1 : x \in events[j].child_nodes}
                \cup (IF x \in events[k].child_nodes THEN {k} ELSE {})
    BY <1>1
  <2> QED BY <2>1 DEF Parents
<1>4. Root(events, k, x) = Min(B) /\ Root(events, k - 1, x) = Min(A)
  BY <1>1, RootIs
<1> HIDE DEF A, B, p
<1> DEFINE a == Min(A)
<1>5. a \in A /\ \A y \in A : a <= y
  BY <1>2, MinOfNaturals
<1> HIDE DEF a
<1>6. CASE x \notin events[k].child_nodes
  BY <1>3, <1>4, <1>6
<1>7. CASE x \in events[k].child_nodes /\ p < a
  <2>1. p \in B /\ \A y \in B : p <= y
    BY <1>1, <1>2, <1>3, <1>5, <1>7
  <2>2. Min(B) = p
    BY <2>1, <1>2, MinIs
  <2> QED BY <2>2, <1>4, <1>7 DEF p, a
<1>8. CASE x \in events[k].child_nodes /\ ~(p < a)
  <2>1. a \in B /\ \A y \in B : a <= y
    BY <1>1, <1>2, <1>3, <1>5, <1>8
  <2>2. Min(B) = a
    BY <2>1, <1>2, MinIs
  <2> QED BY <2>2, <1>4, <1>8 DEF p, a
<1> QED BY <1>6, <1>7, <1>8

(***************************************************************************)
(* Owners are owned by themselves, are no larger than what they own, and   *)
(* own nothing else if they came after the build.                          *)
(***************************************************************************)
RootsGood(events, k) ==
    \A x \in Nat :
        /\ Root(events, k, x) \in Nat
        /\ Root(events, k, x) <= x
        /\ x \notin BuildRecords => Root(events, k, x) = x
        /\ Root(events, k, Root(events, k, x)) = Root(events, k, x)

(***************************************************************************)
(* One event takes two components that were apart, with their owners as    *)
(* its parent and the smallest of its children, and moves the whole second *)
(* under the first.                                                        *)
(***************************************************************************)
LEMMA EventJoins ==
    ASSUME NEW events \in Hierarchical, NEW k \in 1 .. Len(events), RootsGood(events, k - 1)
    PROVE  LET p == events[k].parent_id
               c == Min(events[k].child_nodes)
           IN  /\ p \in BuildRecords /\ c \in BuildRecords /\ p < c
               /\ Root(events, k - 1, p) = p /\ Root(events, k - 1, c) = c
               /\ events[k].child_nodes = {y \in BuildRecords : Root(events, k - 1, y) = c}
               /\ \A x \in Nat : Root(events, k, x) =
                        IF Root(events, k - 1, x) = c THEN p ELSE Root(events, k - 1, x)
<1> DEFINE p == events[k].parent_id
<1> DEFINE child == events[k].child_nodes
<1>1. PICK r \in BuildRecords : child = {y \in BuildRecords : Root(events, k - 1, y) = r}
  BY Lengths DEF Hierarchical, IsHierarchy, Root
<1>2. child # {} /\ p < Min(child) /\ p \in BuildRecords /\ Root(events, k - 1, p) = p
  BY Lengths DEF Hierarchical, IsHierarchy, Root
<1>3. BuildRecords \subseteq Nat
  BY SizesAssumption DEF BuildRecords
<1> HIDE DEF p, child
<1>4. r \in child /\ \A y \in child : r <= y
  <2>1. PICK y \in child : TRUE
    BY <1>2
  <2>2. y \in Nat /\ Root(events, k - 1, y) = r
    BY <2>1, <1>1, <1>3
  <2>3. Root(events, k - 1, r) = r
    BY <2>2 DEF RootsGood
  <2>4. \A z \in child : z \in Nat /\ Root(events, k - 1, z) = r
    BY <1>1, <1>3
  <2> QED BY <1>1, <2>3, <2>4 DEF RootsGood
<1>5. Min(child) = r
  <2>1. child \in SUBSET Nat
    BY <1>1, <1>3
  <2> QED BY <2>1, <1>4, MinIs
<1>6. Root(events, k - 1, r) = r
  BY <1>1, <1>4
<1>7. ASSUME NEW x \in Nat
      PROVE  Root(events, k, x) = IF Root(events, k - 1, x) = r THEN p ELSE Root(events, k - 1, x)
  <2>1. x \in child <=> Root(events, k - 1, x) = r
    <3>1. CASE x \in BuildRecords
      BY <3>1, <1>1
    <3>2. CASE x \notin BuildRecords
      BY <3>2, <1>1 DEF RootsGood
    <3> QED BY <3>1, <3>2
  <2> QED BY <2>1, RootAdd, <1>2, <1>5 DEF p, child
<1> QED BY <1>1, <1>2, <1>5, <1>6, <1>7 DEF p, child

(***************************************************************************)
(* Owners are as they should be after any number of events: the smallest   *)
(* number after which they are not leads to a contradiction.               *)
(***************************************************************************)
LEMMA RootsAreGood ==
    ASSUME NEW events \in Hierarchical
    PROVE  \A k \in 0 .. Len(events) : RootsGood(events, k)
<1> DEFINE T == {k \in 0 .. Len(events) : ~RootsGood(events, k)}
<1> SUFFICES ASSUME T # {} PROVE FALSE
  OBVIOUS
<1>1. Min(T) \in T /\ \A j \in T : Min(T) <= j
  <2>1. T \subseteq Nat
    BY Lengths
  <2> QED BY <2>1, MinOfNaturals
<1>2. PICK k \in T : \A j \in T : k <= j
  BY <1>1
<1>3. k \in 0 .. Len(events) /\ ~RootsGood(events, k)
  BY <1>2
<1>4. CASE k = 0
  <2>1. \A x : Parents(events, 0, x) = {}
    BY DEF Parents
  <2>2. \A x \in Nat : Root(events, 0, x) = Min({x})
    BY <1>3, <1>4, <2>1, RootIs
  <2>3. \A x \in Nat : Min({x}) = x
    BY MinIs
  <2>4. \A x \in Nat : Root(events, 0, x) = x
    BY <2>2, <2>3
  <2> QED BY <2>4, <1>3, <1>4 DEF RootsGood
<1>5. CASE k # 0
  <2>1. k \in 1 .. Len(events) /\ k - 1 \in 0 .. Len(events) /\ ~(k <= k - 1)
    BY <1>3, <1>5
  <2>2. RootsGood(events, k - 1)
    BY <1>2, <2>1
  <2> DEFINE p == events[k].parent_id
  <2> DEFINE c == Min(events[k].child_nodes)
  <2>3. /\ p \in BuildRecords /\ c \in BuildRecords /\ p < c
        /\ Root(events, k - 1, p) = p /\ Root(events, k - 1, c) = c
        /\ \A x \in Nat : Root(events, k, x) =
                IF Root(events, k - 1, x) = c THEN p ELSE Root(events, k - 1, x)
    BY <2>1, <2>2, EventJoins
  <2> HIDE DEF p, c
  <2>4. p \in Nat /\ c \in Nat
    BY <2>3, SizesAssumption DEF BuildRecords
  <2>5. ASSUME NEW x \in Nat
        PROVE  /\ Root(events, k, x) \in Nat
               /\ Root(events, k, x) <= x
               /\ x \notin BuildRecords => Root(events, k, x) = x
               /\ Root(events, k, Root(events, k, x)) = Root(events, k, x)
    <3> DEFINE r == Root(events, k - 1, x)
    <3>1. r \in Nat /\ r <= x /\ (x \notin BuildRecords => r = x) /\ Root(events, k - 1, r) = r
      BY <2>2 DEF RootsGood
    <3>2. Root(events, k, x) = IF r = c THEN p ELSE r
      BY <2>3
    <3> HIDE DEF r
    <3>3. CASE r = c
      <4>1. Root(events, k, p) = p
        BY <2>3, <2>4
      <4> QED BY <3>1, <3>2, <3>3, <4>1, <2>3, <2>4
    <3>4. CASE r # c
      <4>1. Root(events, k, r) = r
        BY <3>1, <3>4, <2>3
      <4> QED BY <3>1, <3>2, <3>4, <4>1
    <3> QED BY <3>3, <3>4
  <2> QED BY <2>5, <1>3 DEF RootsGood
<1> QED BY <1>4, <1>5

(***************************************************************************)
(* A record's owner and the record have one owner from then on: components *)
(* only ever join.                                                         *)
(***************************************************************************)
LEMMA RootsMerge ==
    ASSUME NEW events \in Hierarchical, NEW k \in 0 .. Len(events), NEW j \in 0 .. k, NEW x \in Nat
    PROVE  Root(events, k, Root(events, j, x)) = Root(events, k, x)
<1> DEFINE T == {i \in j .. Len(events) : Root(events, i, Root(events, j, x)) # Root(events, i, x)}
<1>0. Len(events) \in Nat
  BY Lengths
<1>1. k \in j .. Len(events)
  BY <1>0
<1> SUFFICES ASSUME T # {} PROVE FALSE
  BY <1>1
<1>2. PICK i \in T : \A h \in T : i <= h
  <2>1. T \subseteq Nat
    BY <1>0
  <2> QED BY <2>1, MinOfNaturals
<1> DEFINE y == Root(events, j, x)
<1>3. i \in j .. Len(events) /\ Root(events, i, y) # Root(events, i, x)
  BY <1>2
<1>4. RootsGood(events, j) /\ j \in 0 .. Len(events)
  BY <1>0, RootsAreGood
<1>5. y \in Nat /\ Root(events, j, y) = y
  BY <1>4 DEF RootsGood
<1>6. i # j
  BY <1>3, <1>5
<1>7. i \in 1 .. Len(events) /\ i - 1 \in j .. Len(events) /\ i - 1 \in 0 .. Len(events) /\ ~(i <= i - 1)
  BY <1>0, <1>3, <1>4, <1>6
<1>8. Root(events, i - 1, y) = Root(events, i - 1, x)
  BY <1>2, <1>7
<1>9. RootsGood(events, i - 1)
  BY <1>7, RootsAreGood
<1> HIDE DEF y, T
<1>10. \A z \in Nat : Root(events, i, z) =
            IF Root(events, i - 1, z) = Min(events[i].child_nodes)
            THEN events[i].parent_id ELSE Root(events, i - 1, z)
  BY <1>7, <1>9, EventJoins
<1> QED BY <1>3, <1>5, <1>8, <1>10

-----------------------------------------------------------------------------
(***************************************************************************)
(* Partitions as owner maps.                                               *)
(***************************************************************************)

(***************************************************************************)
(* A map that gives each of n records a record no larger than itself,      *)
(* which has itself.                                                       *)
(***************************************************************************)
IsOwner(own, n) ==
    /\ own \in [0 .. n - 1 -> 0 .. n - 1]
    /\ \A x \in 0 .. n - 1 : own[x] <= x /\ own[own[x]] = own[x]

(***************************************************************************)
(* The partition such a map stands for, and its rows.                      *)
(***************************************************************************)
Owners(own) == {x \in DOMAIN own : own[x] = x}
Class(own, id) == Fibre(DOMAIN own, own, {id})
Classes(own) == {Class(own, own[x]) : x \in DOMAIN own}
RowsOf(own) == [id \in Owners(own) |-> Cardinality(Class(own, id))]

(***************************************************************************)
(* An entity is non-empty, and known by its owner, its smallest record.    *)
(***************************************************************************)
LEMMA ClassOfOwner ==
    ASSUME NEW n \in Nat, NEW own, IsOwner(own, n), NEW id \in Owners(own)
    PROVE  /\ id \in Class(own, id) /\ Class(own, id) \subseteq 0 .. n - 1
           /\ Min(Class(own, id)) = id /\ Class(own, id) \in Classes(own)
           /\ id \in 0 .. n - 1
<1>1. DOMAIN own = 0 .. n - 1 /\ id \in 0 .. n - 1 /\ own[id] = id
  BY DEF IsOwner, Owners
<1>2. id \in Class(own, id) /\ Class(own, id) \subseteq 0 .. n - 1
  BY <1>1 DEF Class, Fibre
<1>3. \A y \in Class(own, id) : id <= y
  BY <1>1 DEF Class, Fibre, IsOwner
<1>4. Class(own, id) \in SUBSET Nat
  BY <1>2
<1>5. Min(Class(own, id)) = id
  BY <1>2, <1>3, <1>4, MinIs
<1>6. Class(own, id) \in Classes(own)
  BY <1>1 DEF Classes
<1> QED BY <1>1, <1>2, <1>5, <1>6

(***************************************************************************)
(* Every entity is that of its smallest record.                            *)
(***************************************************************************)
LEMMA OwnerOfClass ==
    ASSUME NEW n \in Nat, NEW own, IsOwner(own, n), NEW entity \in Classes(own)
    PROVE  Min(entity) \in Owners(own) /\ entity = Class(own, Min(entity))
<1>1. PICK x \in DOMAIN own : entity = Class(own, own[x])
  BY DEF Classes
<1>2. own[x] \in Owners(own)
  BY DEF IsOwner, Owners
<1>3. Min(entity) = own[x]
  BY <1>1, <1>2, ClassOfOwner
<1> QED BY <1>1, <1>2, <1>3

(***************************************************************************)
(* The entity found by an owner.                                           *)
(***************************************************************************)
LEMMA EntityOfOwner ==
    ASSUME NEW n \in Nat, NEW own, IsOwner(own, n), NEW id \in Owners(own)
    PROVE  EntityOf(Classes(own), id) = Class(own, id)
<1>1. Class(own, id) \in Classes(own) /\ Min(Class(own, id)) = id
  BY ClassOfOwner
<1>2. \A entity \in Classes(own) : Min(entity) = id => entity = Class(own, id)
  BY OwnerOfClass
<1> QED BY <1>1, <1>2 DEF EntityOf

(***************************************************************************)
(* Canonical ids are owners.                                               *)
(***************************************************************************)
LEMMA IdsAreOwners ==
    ASSUME NEW n \in Nat, NEW own, IsOwner(own, n)
    PROVE  {Min(entity) : entity \in Classes(own)} = Owners(own)
<1>1. \A entity \in Classes(own) : Min(entity) \in Owners(own)
  BY OwnerOfClass
<1>2. \A id \in Owners(own) : \E entity \in Classes(own) : id = Min(entity)
  BY ClassOfOwner
<1> QED BY <1>1, <1>2

(***************************************************************************)
(* Row marginals are the sizes of entities by owner.                       *)
(***************************************************************************)
LEMMA MarginalsAreRows ==
    ASSUME NEW n \in Nat, NEW own, IsOwner(own, n)
    PROVE  Marginals(Classes(own)) = RowsOf(own)
<1>1. \A id \in Owners(own) : EntityOf(Classes(own), id) = Class(own, id)
  BY EntityOfOwner
<1>2. {Min(entity) : entity \in Classes(own)} = Owners(own)
  BY IdsAreOwners
<1> QED BY <1>1, <1>2 DEF Marginals, RowsOf

(***************************************************************************)
(* Records, owners and entities of an owner map are finite.                *)
(***************************************************************************)
LEMMA OwnersFinite ==
    ASSUME NEW n \in Nat, NEW own, IsOwner(own, n)
    PROVE  /\ IsFiniteSet(DOMAIN own) /\ Cardinality(DOMAIN own) = n
           /\ DOMAIN own = 0 .. n - 1
           /\ IsFiniteSet(Owners(own))
           /\ \A id : IsFiniteSet(Class(own, id)) /\ Cardinality(Class(own, id)) \in Nat
<1>1. DOMAIN own = 0 .. n - 1
  BY DEF IsOwner
<1>2. 0 \in Int /\ n - 1 \in Int
  OBVIOUS
<1>3. /\ IsFiniteSet(0 .. n - 1)
      /\ Cardinality(0 .. n - 1) = IF 0 > n - 1 THEN 0 ELSE (n - 1) - 0 + 1
  BY <1>2, FS_Interval
<1>4. Cardinality(0 .. n - 1) = n
  BY <1>3
<1>5. Owners(own) \subseteq DOMAIN own /\ \A id : Class(own, id) \subseteq DOMAIN own
  BY DEF Owners, Class, Fibre
<1>6. \A T \in SUBSET DOMAIN own : IsFiniteSet(T) /\ Cardinality(T) \in Nat
  BY <1>1, <1>3, FS_Subset, FS_CardinalityType
<1> QED BY <1>1, <1>3, <1>4, <1>5, <1>6

(***************************************************************************)
(* The rows of a partition of n records count n.                           *)
(***************************************************************************)
LEMMA SumOfRows ==
    ASSUME NEW n \in Nat, NEW own, IsOwner(own, n)
    PROVE  SumOf(RowsOf(own)) = n
<1>1. /\ IsFiniteSet(DOMAIN own) /\ Cardinality(DOMAIN own) = n
      /\ IsFiniteSet(Owners(own)) /\ DOMAIN own = 0 .. n - 1
  BY OwnersFinite
<1>2. DOMAIN RowsOf(own) = Owners(own)
  BY DEF RowsOf
<1>3. \A id \in Owners(own) : RowsOf(own)[id] = Cardinality(Fibre(DOMAIN own, own, {id}))
  BY DEF RowsOf, Class
<1>4. Fibre(DOMAIN own, own, Owners(own)) = DOMAIN own
  BY <1>1 DEF Fibre, Owners, IsOwner
<1> DEFINE rows == RowsOf(own)
<1> DEFINE ids == Owners(own)
<1> DEFINE dom == DOMAIN own
<1>5. SumOn(RowsOf(own), Owners(own)) = Cardinality(Fibre(DOMAIN own, own, Owners(own)))
  <2>1. IsFiniteSet(dom) /\ IsFiniteSet(ids)
    BY <1>1
  <2>2. \A id \in ids : rows[id] = Cardinality(Fibre(dom, own, {id}))
    BY <1>3
  <2> HIDE DEF rows, ids, dom
  <2>3. SumOn(rows, ids) = Cardinality(Fibre(dom, own, ids))
    BY <2>1, <2>2, SumOfFibres
  <2> QED BY <2>3 DEF rows, ids, dom
<1> QED BY <1>1, <1>2, <1>4, <1>5, SumOfDef, Zenon

(***************************************************************************)
(* Two entities made one.                                                  *)
(***************************************************************************)
Merged(own, p, c) == [x \in DOMAIN own |-> IF own[x] = c THEN p ELSE own[x]]

(***************************************************************************)
(* Merging rows, as a sweep does for a merge event, gives the rows of the  *)
(* partition in which the two entities are one.                            *)
(***************************************************************************)
LEMMA MergedOwners ==
    ASSUME NEW n \in Nat, NEW own, IsOwner(own, n),
           NEW p \in Owners(own), NEW c \in Owners(own), p < c
    PROVE  /\ IsOwner(Merged(own, p, c), n)
           /\ RowsOf(Merged(own, p, c)) = MergeRows(RowsOf(own), p, c)
<1> DEFINE new == Merged(own, p, c)
<1> DEFINE rows == RowsOf(own)
<1>1. /\ DOMAIN own = 0 .. n - 1 /\ DOMAIN new = 0 .. n - 1
      /\ p \in 0 .. n - 1 /\ c \in 0 .. n - 1 /\ own[p] = p /\ own[c] = c
      /\ \A x \in 0 .. n - 1 : own[x] \in 0 .. n - 1 /\ own[x] <= x /\ own[own[x]] = own[x]
      /\ \A x \in 0 .. n - 1 : new[x] = IF own[x] = c THEN p ELSE own[x]
  BY DEF IsOwner, Owners, Merged
<1>2. IsOwner(new, n)
  <2>1. new = [x \in 0 .. n - 1 |-> new[x]]
    BY DEF Merged, IsOwner
  <2> HIDE DEF new
  <2>2. ASSUME NEW x \in 0 .. n - 1
        PROVE  new[x] \in 0 .. n - 1 /\ new[x] <= x /\ new[new[x]] = new[x]
    <3>1. CASE own[x] = c
      BY <3>1, <1>1
    <3>2. CASE own[x] # c
      BY <3>2, <1>1
    <3> QED BY <3>1, <3>2
  <2> QED BY <2>1, <2>2 DEF IsOwner
<1> HIDE DEF new
<1>3. Owners(new) = Owners(own) \ {c}
  BY <1>1 DEF Owners
<1>4. \A id \in Owners(new) \ {p} : Class(new, id) = Class(own, id)
  BY <1>1, <1>3 DEF Class, Fibre
<1>5. Class(new, p) = Fibre(DOMAIN own, own, {p, c})
  BY <1>1 DEF Class, Fibre
<1>6. DOMAIN rows = Owners(own) /\ \A id \in Owners(own) : rows[id] = Cardinality(Class(own, id))
  BY DEF RowsOf
<1> HIDE DEF rows
<1>7. SumOf([id \in {p, c} \cap DOMAIN rows |-> rows[id]]) = Cardinality(Class(new, p))
  <2> DEFINE f == [id \in {p, c} |-> rows[id]]
  <2>1. {p, c} \cap DOMAIN rows = {p, c}
    BY <1>6
  <2>2. IsFiniteSet(DOMAIN own) /\ IsFiniteSet({p, c})
    <3>1. IsFiniteSet({p} \cup {c}) /\ {p, c} = {p} \cup {c}
      BY FS_Singleton, FS_AddElement
    <3> QED BY <3>1, OwnersFinite
  <2>3. \A id \in {p, c} : f[id] = Cardinality(Fibre(DOMAIN own, own, {id}))
    BY <1>6 DEF Class
  <2>4. DOMAIN f = {p, c}
    OBVIOUS
  <2> HIDE DEF f
  <2>5. SumOn(f, {p, c}) = Cardinality(Fibre(DOMAIN own, own, {p, c}))
    <3>1. PICK ids : ids = {p, c}
      OBVIOUS
    <3>2. IsFiniteSet(ids) /\ \A id \in ids : f[id] = Cardinality(Fibre(DOMAIN own, own, {id}))
      BY <2>2, <2>3, <3>1
    <3>3. SumOn(f, ids) = Cardinality(Fibre(DOMAIN own, own, ids))
      BY <2>2, <3>2, SumOfFibres
    <3> QED BY <3>1, <3>3
  <2>6. SumOf(f) = SumOn(f, DOMAIN f)
    BY SumOfDef, Zenon
  <2> QED BY <2>1, <2>4, <2>5, <2>6, <1>5, Zenon DEF f
<1>8. MergeRows(rows, p, c) =
        [id \in (Owners(own) \ {c}) \cup {p} |->
            IF id = p THEN Cardinality(Class(new, p)) ELSE rows[id]]
  BY <1>6, <1>7, Zenon DEF MergeRows
<1>9. (Owners(own) \ {c}) \cup {p} = Owners(new)
  BY <1>3, <1>1
<1>10. \A id \in Owners(new) :
            (IF id = p THEN Cardinality(Class(new, p)) ELSE rows[id]) = Cardinality(Class(new, id))
  BY <1>3, <1>4, <1>6
<1>11. MergeRows(rows, p, c) = RowsOf(new)
  BY <1>8, <1>9, <1>10 DEF RowsOf
<1> QED BY <1>2, <1>11 DEF new, rows

(***************************************************************************)
(* The owner map of n records after k events.                              *)
(***************************************************************************)
At(events, k, n) == [x \in 0 .. n - 1 |-> Root(events, k, x)]

(***************************************************************************)
(* It is an owner map.                                                     *)
(***************************************************************************)
LEMMA AtIsOwner ==
    ASSUME NEW events \in Hierarchical, NEW k \in 0 .. Len(events), NEW n \in Nat
    PROVE  IsOwner(At(events, k, n), n)
<1>1. RootsGood(events, k)
  BY RootsAreGood
<1>2. ASSUME NEW x \in 0 .. n - 1
      PROVE  /\ Root(events, k, x) \in 0 .. n - 1
             /\ Root(events, k, x) <= x
             /\ Root(events, k, Root(events, k, x)) = Root(events, k, x)
  BY <1>1 DEF RootsGood
<1> QED BY <1>2 DEF IsOwner, At

(***************************************************************************)
(* The entities at a threshold are those of the owner map after the events *)
(* at or above it.                                                         *)
(***************************************************************************)
LEMMA EntitiesAreClasses ==
    ASSUME NEW events \in Hierarchical, NEW t \in Nat, NEW n \in Nat
    PROVE  EntitiesAt(events, t, n) = Classes(At(events, Upto(events, t), n))
<1> DEFINE own == At(events, Upto(events, t), n)
<1>1. \A x : Canonical(events, t, x) = Root(events, Upto(events, t), x)
  BY CanonicalIsRoot
<1>2. DOMAIN own = 0 .. n - 1 /\ \A x \in 0 .. n - 1 : own[x] = Canonical(events, t, x)
  BY <1>1 DEF At
<1> HIDE DEF own
<1>3. \A r : {y \in 0 .. n - 1 : Canonical(events, t, y) = r} = Class(own, r)
  BY <1>2 DEF Class, Fibre
<1>4. \A x \in 0 .. n - 1 : Class(own, Canonical(events, t, x)) = Class(own, own[x])
  BY <1>2
<1>5. EntitiesAt(events, t, n) = {Class(own, Canonical(events, t, x)) : x \in 0 .. n - 1}
  BY <1>3, Zenon DEF EntitiesAt
<1> QED BY <1>2, <1>4, <1>5 DEF Classes, own

-----------------------------------------------------------------------------
(***************************************************************************)
(* Types of states.                                                        *)
(***************************************************************************)

(***************************************************************************)
(* Functions from some of the ids to the naturals.                         *)
(***************************************************************************)
Counts(ids) == UNION {[known -> Nat] : known \in SUBSET ids}

(***************************************************************************)
(* States, as a set.                                                       *)
(***************************************************************************)
DeltaState ==
    [last_threshold : Thresholds, contingency_table : Counts(Records \X Records),
     row_marginals : Counts(Records), col_marginals : Counts(Records), total_records : Nat,
     pairs : [tp : Nat, fp : Nat, fn : Nat, tn : Nat], sum_cell_combinations : Nat,
     sum_row_combinations : Nat, sum_col_combinations : Nat]

(***************************************************************************)
(* Records are finitely many, and the records of the build are among them  *)
(* whatever the size.                                                      *)
(***************************************************************************)
LEMMA RecordsFinite ==
    /\ Records \subseteq Nat /\ IsFiniteSet(Records) /\ IsFiniteSet(Records \X Records)
    /\ BuildRecords \subseteq Records
    /\ \A n \in Sizes : n \in Nat /\ n # 0 /\ BuildRecords \subseteq 0 .. n - 1 /\ 0 .. n - 1 \subseteq Records
<1>1. Records \subseteq Nat /\ 0 \in Int /\ MaxRecords - 1 \in Int
  BY SizesAssumption DEF Records
<1>2. IsFiniteSet(Records)
  BY <1>1, FS_Interval DEF Records
<1>3. IsFiniteSet(Records \X Records)
  BY <1>2, FS_Product
<1>4. /\ BuildRecords \subseteq Records
      /\ \A n \in Sizes : n \in Nat /\ n # 0 /\ BuildRecords \subseteq 0 .. n - 1 /\ 0 .. n - 1 \subseteq Records
  BY SizesAssumption DEF Sizes, Records, BuildRecords
<1> QED BY <1>1, <1>2, <1>3, <1>4

(***************************************************************************)
(* What such a function is.                                                *)
(***************************************************************************)
LEMMA CountsAre ==
    ASSUME NEW ids, NEW f \in Counts(ids)
    PROVE  f \in [DOMAIN f -> Nat] /\ DOMAIN f \subseteq ids /\ \A x \in DOMAIN f : f[x] \in Nat
  BY DEF Counts

(***************************************************************************)
(* Its domain is finite.                                                   *)
(***************************************************************************)
LEMMA CountsFinite ==
    ASSUME NEW ids, IsFiniteSet(ids), NEW f \in Counts(ids)
    PROVE  IsFiniteSet(DOMAIN f)
  BY CountsAre, FS_Subset

(***************************************************************************)
(* A function from some of the ids to the naturals is one.                 *)
(***************************************************************************)
LEMMA IsCounts ==
    ASSUME NEW ids, NEW known \in SUBSET ids, NEW f \in [known -> Nat]
    PROVE  f \in Counts(ids)
  BY DEF Counts

(***************************************************************************)
(* Sums of pairs over a table are naturals.                                *)
(***************************************************************************)
LEMMA CombinationsType ==
    ASSUME NEW ids, IsFiniteSet(ids), NEW f \in Counts(ids)
    PROVE  CombinationSum(f) \in Nat
<1> DEFINE g == [x \in DOMAIN f |-> choose_2(f[x])]
<1>1. IsFiniteSet(DOMAIN g) /\ \A x \in DOMAIN g : g[x] \in Nat
  BY CountsAre, CountsFinite, Choose2Type
<1> HIDE DEF g
<1>2. SumOf(g) \in Nat
  BY <1>1, SumOfType
<1> QED BY <1>2 DEF g, CombinationSum

(***************************************************************************)
(* Subtraction that saturates stays in the naturals.                       *)
(***************************************************************************)
LEMMA MonusType == \A a, b \in Nat : Monus(a, b) \in Nat
  BY DEF Monus

(***************************************************************************)
(* Sums of pairs over some cells are naturals.                             *)
(***************************************************************************)
LEMMA CellsType ==
    ASSUME NEW ids, IsFiniteSet(ids), NEW table \in Counts(ids), NEW cells \in SUBSET DOMAIN table
    PROVE  SumOf([cell \in cells |-> choose_2(table[cell])]) \in Nat
<1> DEFINE g == [cell \in cells |-> choose_2(table[cell])]
<1>1. IsFiniteSet(cells)
  BY CountsFinite, FS_Subset
<1>2. DOMAIN g = cells /\ \A x \in cells : g[x] \in Nat
  BY CountsAre, Choose2Type
<1> HIDE DEF g
<1>3. SumOf(g) \in Nat
  BY <1>1, <1>2, SumOfType
<1> QED BY <1>3 DEF g

(***************************************************************************)
(* Pair counts are naturals.                                               *)
(***************************************************************************)
LEMMA PairCountsType ==
    ASSUME NEW rows \in Counts(Records), NEW cols \in Counts(Records),
           NEW table \in Counts(Records \X Records), NEW total \in Nat
    PROVE  PairCounts(rows, cols, table, total) \in [tp : Nat, fp : Nat, fn : Nat, tn : Nat]
<1> DEFINE InRow(id) == SumOf([cell \in {c \in DOMAIN table : c[1] = id} |-> choose_2(table[cell])])
<1> DEFINE InCol(id) == SumOf([cell \in {c \in DOMAIN table : c[2] = id} |-> choose_2(table[cell])])
<1> DEFINE fps == [id \in DOMAIN rows |-> Monus(choose_2(rows[id]), InRow(id))]
<1> DEFINE fns == [id \in DOMAIN cols |-> Monus(choose_2(cols[id]), InCol(id))]
<1> DEFINE tp == SumOf([cell \in DOMAIN table |-> choose_2(table[cell])])
<1>1. tp \in Nat
  BY RecordsFinite, CellsType
<1>2. \A id : InRow(id) \in Nat /\ InCol(id) \in Nat
  <2> SUFFICES ASSUME NEW id PROVE InRow(id) \in Nat /\ InCol(id) \in Nat
    OBVIOUS
  <2>1. {c \in DOMAIN table : c[1] = id} \in SUBSET DOMAIN table
    OBVIOUS
  <2>2. {c \in DOMAIN table : c[2] = id} \in SUBSET DOMAIN table
    OBVIOUS
  <2> QED BY <2>1, <2>2, RecordsFinite, CellsType
<1> HIDE DEF InRow, InCol, tp
<1>3. DOMAIN fps = DOMAIN rows /\ \A id \in DOMAIN rows : fps[id] \in Nat
  BY <1>2, CountsAre, Choose2Type, MonusType
<1>4. DOMAIN fns = DOMAIN cols /\ \A id \in DOMAIN cols : fns[id] \in Nat
  BY <1>2, CountsAre, Choose2Type, MonusType
<1>5. IsFiniteSet(DOMAIN rows) /\ IsFiniteSet(DOMAIN cols)
  BY RecordsFinite, CountsFinite
<1> HIDE DEF fps, fns
<1>6. SumOf(fps) \in Nat /\ SumOf(fns) \in Nat
  BY <1>3, <1>4, <1>5, SumOfType
<1>7. Monus(choose_2(total), tp + SumOf(fps) + SumOf(fns)) \in Nat
  BY <1>1, <1>6, Choose2Type, MonusType
<1>8. PairCounts(rows, cols, table, total) =
        [tp |-> tp, fp |-> SumOf(fps), fn |-> SumOf(fns),
         tn |-> Monus(choose_2(total), tp + SumOf(fps) + SumOf(fns))]
  BY Zenon DEF PairCounts, tp, fps, fns, InRow, InCol
<1> QED BY <1>1, <1>6, <1>7, <1>8

(***************************************************************************)
(* Non-empty sets of records.                                              *)
(***************************************************************************)
IsEntities(entities) == entities \subseteq SUBSET Records /\ {} \notin entities

(***************************************************************************)
(* An entity has a smallest record.                                        *)
(***************************************************************************)
LEMMA EntityMin ==
    ASSUME NEW entities, IsEntities(entities), NEW entity \in entities
    PROVE  Min(entity) \in entity /\ Min(entity) \in Records /\ IsFiniteSet(entity)
           /\ Cardinality(entity) \in Nat
<1>1. entity \in SUBSET Nat /\ entity # {} /\ entity \subseteq Records
  BY RecordsFinite DEF IsEntities
<1>2. Min(entity) \in entity
  BY <1>1, MinOfNaturals
<1>3. IsFiniteSet(entity)
  BY <1>1, RecordsFinite, FS_Subset
<1> QED BY <1>1, <1>2, <1>3, FS_CardinalityType

(***************************************************************************)
(* An entity is found by its id.                                           *)
(***************************************************************************)
LEMMA EntityOfIs ==
    ASSUME NEW entities, NEW id \in {Min(entity) : entity \in entities}
    PROVE  EntityOf(entities, id) \in entities /\ Min(EntityOf(entities, id)) = id
<1>1. \E entity \in entities : Min(entity) = id
  OBVIOUS
<1> QED BY <1>1, Zenon DEF EntityOf

(***************************************************************************)
(* Marginals are counts by record.                                         *)
(***************************************************************************)
LEMMA MarginalsType ==
    ASSUME NEW entities, IsEntities(entities)
    PROVE  Marginals(entities) \in Counts(Records)
           /\ DOMAIN Marginals(entities) = {Min(entity) : entity \in entities}
<1> DEFINE ids == {Min(entity) : entity \in entities}
<1>1. ids \subseteq Records
  BY EntityMin
<1>2. \A id \in ids : Cardinality(EntityOf(entities, id)) \in Nat
  BY EntityOfIs, EntityMin
<1>3. Marginals(entities) \in [ids -> Nat] /\ DOMAIN Marginals(entities) = ids
  BY <1>2 DEF Marginals
<1> QED BY <1>1, <1>3, IsCounts

(***************************************************************************)
(* A contingency table is counts by two records.                           *)
(***************************************************************************)
LEMMA OverlapsType ==
    ASSUME NEW entities1, IsEntities(entities1), NEW entities2, IsEntities(entities2)
    PROVE  Overlaps(entities1, entities2) \in Counts(Records \X Records)
<1> DEFINE crossing == {pair \in entities1 \X entities2 : pair[1] \cap pair[2] # {}}
<1> DEFINE cells == {<<Min(pair[1]), Min(pair[2])>> : pair \in crossing}
<1>1. cells \subseteq Records \X Records
  BY EntityMin
<1>2. ASSUME NEW cell \in cells
      PROVE  Cardinality(EntityOf(entities1, cell[1]) \cap EntityOf(entities2, cell[2])) \in Nat
  <2>1. cell[1] \in {Min(entity) : entity \in entities1}
    OBVIOUS
  <2> DEFINE e == EntityOf(entities1, cell[1])
  <2> DEFINE d == EntityOf(entities2, cell[2])
  <2>2. IsFiniteSet(e)
    BY <2>1, EntityOfIs, EntityMin
  <2> HIDE DEF e, d
  <2>3. e \cap d \in SUBSET e
    OBVIOUS
  <2>4. Cardinality(e \cap d) \in Nat
    BY <2>2, <2>3, FS_Subset, FS_CardinalityType
  <2> QED BY <2>4 DEF e, d
<1>3. Overlaps(entities1, entities2) \in [cells -> Nat]
  BY <1>2 DEF Overlaps
<1> QED BY <1>1, <1>3, IsCounts

(***************************************************************************)
(* A state built afresh is a state.                                        *)
(***************************************************************************)
LEMMA BuildType ==
    ASSUME NEW threshold \in Thresholds,
           NEW entities1, IsEntities(entities1), NEW entities2, IsEntities(entities2)
    PROVE  BuildInitialState(threshold, entities1, entities2) \in DeltaState
<1> DEFINE rows == Marginals(entities1)
<1> DEFINE cols == Marginals(entities2)
<1> DEFINE table == Overlaps(entities1, entities2)
<1>1. /\ rows \in Counts(Records) /\ cols \in Counts(Records)
      /\ table \in Counts(Records \X Records)
  BY MarginalsType, OverlapsType
<1> HIDE DEF rows, cols, table
<1>2. SumOf(rows) \in Nat
  BY <1>1, RecordsFinite, CountsFinite, CountsAre, SumOfType
<1>3. PairCounts(rows, cols, table, SumOf(rows)) \in [tp : Nat, fp : Nat, fn : Nat, tn : Nat]
  BY <1>1, <1>2, PairCountsType
<1>4. CombinationSum(rows) \in Nat /\ CombinationSum(cols) \in Nat /\ CombinationSum(table) \in Nat
  BY <1>1, RecordsFinite, CombinationsType
<1>5. BuildInitialState(threshold, entities1, entities2) =
        [last_threshold |-> threshold, contingency_table |-> table,
         row_marginals |-> rows, col_marginals |-> cols, total_records |-> SumOf(rows),
         pairs |-> PairCounts(rows, cols, table, SumOf(rows)),
         sum_cell_combinations |-> CombinationSum(table),
         sum_row_combinations |-> CombinationSum(rows),
         sum_col_combinations |-> CombinationSum(cols)]
  BY Zenon DEF BuildInitialState, rows, cols, table
<1> QED BY <1>1, <1>2, <1>3, <1>4, <1>5 DEF DeltaState

-----------------------------------------------------------------------------
(***************************************************************************)
(* What a state holds.                                                     *)
(***************************************************************************)
LEMMA StateParts ==
    ASSUME NEW s \in DeltaState
    PROVE  /\ s.last_threshold \in Thresholds
           /\ s.contingency_table \in Counts(Records \X Records)
           /\ s.row_marginals \in Counts(Records) /\ s.col_marginals \in Counts(Records)
           /\ s.total_records \in Nat /\ s.pairs \in [tp : Nat, fp : Nat, fn : Nat, tn : Nat]
           /\ s.sum_cell_combinations \in Nat /\ s.sum_row_combinations \in Nat
           /\ s.sum_col_combinations \in Nat
  BY DEF DeltaState

(***************************************************************************)
(* What makes a state.                                                     *)
(***************************************************************************)
LEMMA IsState ==
    ASSUME NEW threshold \in Thresholds, NEW table \in Counts(Records \X Records),
           NEW rows \in Counts(Records), NEW cols \in Counts(Records), NEW total \in Nat,
           NEW pairs \in [tp : Nat, fp : Nat, fn : Nat, tn : Nat],
           NEW a \in Nat, NEW b \in Nat, NEW c \in Nat
    PROVE  [last_threshold |-> threshold, contingency_table |-> table, row_marginals |-> rows,
            col_marginals |-> cols, total_records |-> total, pairs |-> pairs,
            sum_cell_combinations |-> a, sum_row_combinations |-> b,
            sum_col_combinations |-> c] \in DeltaState
  BY DEF DeltaState

(***************************************************************************)
(* The sum of some rows is a natural.                                      *)
(***************************************************************************)
LEMMA SumOverOldRows ==
    ASSUME NEW s \in DeltaState, NEW old \in SUBSET DOMAIN s.row_marginals
    PROVE  SumOf([id \in old |-> s.row_marginals[id]]) \in Nat
<1> DEFINE rows == s.row_marginals
<1> DEFINE f == [id \in old |-> rows[id]]
<1>1. rows \in Counts(Records)
  BY StateParts
<1> HIDE DEF rows
<1>2. IsFiniteSet(DOMAIN rows) /\ \A id \in DOMAIN rows : rows[id] \in Nat
  BY <1>1, RecordsFinite, CountsFinite, CountsAre
<1>3. old \in SUBSET DOMAIN rows
  BY DEF rows
<1>4. DOMAIN f = old /\ IsFiniteSet(old) /\ \A id \in old : f[id] \in Nat
  BY <1>2, <1>3, FS_Subset
<1> HIDE DEF f
<1>5. SumOf(f) \in Nat
  BY <1>4, SumOfType
<1> QED BY <1>5 DEF f, rows

(***************************************************************************)
(* The cells of an incremental update are counts by two records.           *)
(***************************************************************************)
LEMMA UpdatedCellsType ==
    ASSUME NEW s \in DeltaState, NEW entities, IsEntities(entities),
           NEW truth_entities, IsEntities(truth_entities)
    PROVE  UpdatedCells(s, entities, truth_entities) \in Counts(Records \X Records)
<1> DEFINE table == s.contingency_table
<1> DEFINE merged == {entity \in entities : Cardinality(OldRows(s, entity)) > 1}
<1> DEFINE moved == {entity \in entities : Cardinality(OldRows(s, entity)) = 1}
<1> DEFINE recounted == Overlaps(merged, truth_entities)
<1> DEFINE To(cell) == CHOOSE entity \in moved : cell[1] \in entity
<1> DEFINE transferred == {cell \in DOMAIN table : \E entity \in moved : cell[1] \in entity}
<1> DEFINE moving == {<<Min(To(x)), x[2]>> : x \in transferred}
<1> DEFINE updated == [cell \in DOMAIN recounted \cup moving |->
            IF cell \in DOMAIN recounted THEN recounted[cell]
            ELSE table[CHOOSE x \in transferred : <<Min(To(x)), x[2]>> = cell]]
<1>1. table \in Counts(Records \X Records) /\ IsEntities(merged)
  BY StateParts DEF IsEntities
<1>2. recounted \in Counts(Records \X Records)
  BY <1>1, OverlapsType
<1>3. \A x \in transferred : To(x) \in moved
  OBVIOUS
<1>4. \A x \in transferred : Min(To(x)) \in Records
  BY <1>3, EntityMin
<1>5. DOMAIN table \subseteq Records \X Records /\ \A x \in DOMAIN table : table[x] \in Nat
  BY <1>1, CountsAre
<1>6. DOMAIN recounted \subseteq Records \X Records
      /\ \A x \in DOMAIN recounted : recounted[x] \in Nat
  BY <1>2, CountsAre
<1>7. transferred \subseteq DOMAIN table
  OBVIOUS
<1>8. UpdatedCells(s, entities, truth_entities) = updated
  BY Zenon DEF UpdatedCells
<1> HIDE DEF To, transferred, moved, merged, table, recounted
<1>9. moving \subseteq Records \X Records
  BY <1>4, <1>5, <1>7
<1>10. ASSUME NEW cell \in moving
       PROVE  table[CHOOSE x \in transferred : <<Min(To(x)), x[2]>> = cell] \in Nat
  <2>1. \E x \in transferred : <<Min(To(x)), x[2]>> = cell
    OBVIOUS
  <2>2. (CHOOSE x \in transferred : <<Min(To(x)), x[2]>> = cell) \in transferred
    BY <2>1
  <2> QED BY <2>2, <1>5, <1>7
<1>11. updated \in [DOMAIN recounted \cup moving -> Nat]
  BY <1>6, <1>10
<1> HIDE DEF updated, moving
<1>12. updated \in Counts(Records \X Records)
  BY <1>6, <1>9, <1>11, IsCounts
<1> QED BY <1>8, <1>12

(***************************************************************************)
(* An incremental update gives a state.                                    *)
(***************************************************************************)
LEMMA IncrementalType ==
    ASSUME NEW s \in DeltaState, NEW threshold \in Thresholds,
           NEW entities, IsEntities(entities), NEW truth_entities, IsEntities(truth_entities)
    PROVE  IncrementalUpdate(s, threshold, entities, truth_entities) \in DeltaState
<1> DEFINE ids == {Min(entity) : entity \in entities}
<1> DEFINE rows == [id \in ids |->
                    LET entity == EntityOf(entities, id)
                    IN  IF OldRows(s, entity) = {} THEN Cardinality(entity)
                        ELSE SumOf([old \in OldRows(s, entity) |-> s.row_marginals[old]])]
<1> DEFINE table == UpdatedCells(s, entities, truth_entities)
<1> DEFINE total == SumOf(Marginals(entities))
<1> DEFINE known == {id \in DOMAIN rows : OldRows(s, EntityOf(entities, id)) # {}}
<1> DEFINE f == [id \in known |-> choose_2(rows[id])]
<1>1. rows \in Counts(Records)
  <2>1. ids \subseteq Records
    BY EntityMin
  <2>2. \A id \in ids : Cardinality(EntityOf(entities, id)) \in Nat
    BY EntityOfIs, EntityMin
  <2>3. \A entity : OldRows(s, entity) \in SUBSET DOMAIN s.row_marginals
    BY DEF OldRows
  <2>4. \A entity : SumOf([old \in OldRows(s, entity) |-> s.row_marginals[old]]) \in Nat
    BY <2>3, SumOverOldRows
  <2> HIDE DEF ids
  <2>5. rows \in [ids -> Nat]
    BY <2>2, <2>4
  <2> QED BY <2>1, <2>5, IsCounts
<1>2. table \in Counts(Records \X Records)
  BY UpdatedCellsType
<1>3. total \in Nat
  <2> DEFINE m == Marginals(entities)
  <2>1. m \in Counts(Records)
    BY MarginalsType
  <2> HIDE DEF m
  <2>2. SumOf(m) \in Nat
    BY <2>1, RecordsFinite, CountsFinite, CountsAre, SumOfType
  <2> QED BY <2>2 DEF m
<1>4. s.col_marginals \in Counts(Records) /\ s.sum_col_combinations \in Nat
  BY StateParts
<1>5. SumOf(f) \in Nat
  <2>1. known \subseteq DOMAIN rows
    OBVIOUS
  <2> HIDE DEF rows, known
  <2>2. IsFiniteSet(known) /\ \A id \in known : rows[id] \in Nat
    BY <1>1, <2>1, RecordsFinite, CountsFinite, CountsAre, FS_Subset
  <2>3. DOMAIN f = known /\ \A id \in known : f[id] \in Nat
    BY <2>2, Choose2Type
  <2> HIDE DEF f
  <2> QED BY <2>2, <2>3, SumOfType
<1>6. CombinationSum(table) \in Nat
  BY <1>2, RecordsFinite, CombinationsType
<1>7. PairCounts(rows, s.col_marginals, table, total) \in [tp : Nat, fp : Nat, fn : Nat, tn : Nat]
  BY <1>1, <1>2, <1>3, <1>4, PairCountsType
<1>8. IncrementalUpdate(s, threshold, entities, truth_entities) =
        [last_threshold |-> threshold, contingency_table |-> table,
         row_marginals |-> rows, col_marginals |-> s.col_marginals, total_records |-> total,
         pairs |-> PairCounts(rows, s.col_marginals, table, total),
         sum_cell_combinations |-> CombinationSum(table),
         sum_row_combinations |-> SumOf(f),
         sum_col_combinations |-> s.sum_col_combinations]
  BY Zenon DEF IncrementalUpdate
<1> HIDE DEF rows, table, total, known, f
<1>9. [last_threshold |-> threshold, contingency_table |-> table,
       row_marginals |-> rows, col_marginals |-> s.col_marginals, total_records |-> total,
       pairs |-> PairCounts(rows, s.col_marginals, table, total),
       sum_cell_combinations |-> CombinationSum(table),
       sum_row_combinations |-> SumOf(f),
       sum_col_combinations |-> s.sum_col_combinations] \in DeltaState
  BY <1>1, <1>2, <1>3, <1>4, <1>5, <1>6, <1>7, IsState
<1> QED BY <1>8, <1>9, Zenon

(***************************************************************************)
(* Merged rows are counts by record.                                       *)
(***************************************************************************)
LEMMA MergeRowsType ==
    ASSUME NEW rows \in Counts(Records), NEW parent \in Records, NEW child
    PROVE  MergeRows(rows, parent, child) \in Counts(Records)
<1> DEFINE both == {parent, child} \cap DOMAIN rows
<1> DEFINE f == [id \in both |-> rows[id]]
<1> DEFINE ids == (DOMAIN rows \ {child}) \cup {parent}
<1>1. both \subseteq DOMAIN rows /\ DOMAIN rows \subseteq Records /\ \A id \in DOMAIN rows : rows[id] \in Nat
  BY CountsAre
<1>2. IsFiniteSet(both)
  BY <1>1, RecordsFinite, CountsFinite, FS_Subset
<1>3. DOMAIN f = both /\ \A id \in both : f[id] \in Nat
  BY <1>1
<1> HIDE DEF both
<1>4. SumOf(f) \in Nat
  <2> HIDE DEF f
  <2> QED BY <1>2, <1>3, SumOfType
<1>5. MergeRows(rows, parent, child) = [id \in ids |-> IF id = parent THEN SumOf(f) ELSE rows[id]]
  BY Zenon DEF MergeRows, both
<1> HIDE DEF f
<1>6. MergeRows(rows, parent, child) \in [ids -> Nat] /\ ids \subseteq Records
  BY <1>1, <1>4, <1>5
<1> QED BY <1>6, IsCounts

(***************************************************************************)
(* The entities of an owner map are sets of records.                       *)
(***************************************************************************)
LEMMA ClassesType ==
    ASSUME NEW n \in Sizes, NEW own, IsOwner(own, n)
    PROVE  IsEntities(Classes(own))
<1>1. n \in Nat /\ 0 .. n - 1 \subseteq Records
  BY RecordsFinite
<1>2. ASSUME NEW entity \in Classes(own) PROVE entity \subseteq Records /\ entity # {}
  <2>1. Min(entity) \in Owners(own) /\ entity = Class(own, Min(entity))
    BY <1>1, OwnerOfClass
  <2> QED BY <2>1, <1>1, ClassOfOwner
<1> QED BY <1>2 DEF IsEntities

(***************************************************************************)
(* The lists of events collections may have are those of hierarchies.      *)
(***************************************************************************)
LEMMA EventListsHierarchical == EventLists \subseteq Hierarchical
  BY EventListsAssumption DEF Hierarchical

(***************************************************************************)
(* The partition a call is given is that of the owner map after the events *)
(* at or above its threshold.                                              *)
(***************************************************************************)
LEMMA PartitionIs ==
    ASSUME hierarchy \in [Collections -> EventLists], NEW c \in Collections,
           NEW threshold \in Thresholds, NEW n \in Sizes
    PROVE  /\ Partition(c, threshold, n)
                = Classes(At(hierarchy[c], Upto(hierarchy[c], threshold), n))
           /\ IsOwner(At(hierarchy[c], Upto(hierarchy[c], threshold), n), n)
           /\ IsEntities(Partition(c, threshold, n))
<1>1. hierarchy[c] \in EventLists /\ hierarchy[c] \in Hierarchical
  BY EventListsHierarchical
<1>2. Partition(c, threshold, n) = EntitiesAt(hierarchy[c], threshold, n)
  BY <1>1 DEF Partition, PartitionOf
<1>3. threshold \in Nat /\ n \in Nat
  BY ThresholdsAssumption, RecordsFinite
<1>4. Upto(hierarchy[c], threshold) \in 0 .. Len(hierarchy[c])
  BY <1>1, <1>3, UptoIs
<1>5. IsOwner(At(hierarchy[c], Upto(hierarchy[c], threshold), n), n)
  BY <1>1, <1>3, <1>4, AtIsOwner
<1>6. EntitiesAt(hierarchy[c], threshold, n)
        = Classes(At(hierarchy[c], Upto(hierarchy[c], threshold), n))
  BY <1>1, <1>3, EntitiesAreClasses
<1> QED BY <1>2, <1>5, <1>6, ClassesType

-----------------------------------------------------------------------------
(***************************************************************************)
(* Types of sweeps.                                                        *)
(***************************************************************************)

(***************************************************************************)
(* More steps reach farther, by a step at least.                           *)
(***************************************************************************)
LEMMA Farther ==
    ASSUME NEW w \in Nat, NEW i \in Nat, NEW j \in Nat, i < j
    PROVE  i * w \in Nat /\ j * w \in Nat /\ i * w + w <= j * w
<1>1. PICK d \in Nat : j = i + d + 1
  <2>1. j - i - 1 \in Nat /\ j = i + (j - i - 1) + 1
    OBVIOUS
  <2> QED BY <2>1
<1>2. (i + d + 1) * w = i * w + d * w + w
  OBVIOUS
<1>3. i * w \in Nat /\ d * w \in Nat /\ j * w \in Nat
  OBVIOUS
<1> QED BY <1>1, <1>2, <1>3

(***************************************************************************)
(* The width of a sweep's steps after rounding.                            *)
(***************************************************************************)
Width(step) ==
    IF step < MinStep THEN MinStep ELSE MinStep * ((2 * step + MinStep) \div (2 * MinStep))

(***************************************************************************)
(* It is at least the least that is allowed.                               *)
(***************************************************************************)
LEMMA WidthAtLeast == \A step \in Nat : Width(step) \in Nat /\ Width(step) >= MinStep
<1> SUFFICES ASSUME NEW step \in Nat PROVE Width(step) \in Nat /\ Width(step) >= MinStep
  OBVIOUS
<1>1. MinStep \in Nat /\ MinStep > 0
  BY StepsAssumption
<1>2. CASE step < MinStep
  BY <1>1, <1>2 DEF Width
<1>3. CASE ~(step < MinStep)
  <2> DEFINE b == 2 * MinStep
  <2> DEFINE a == 2 * step + MinStep
  <2>1. a \in Nat /\ b \in Nat /\ b > 0 /\ b <= a
    BY <1>1, <1>3
  <2>2. \A x, y \in Nat : y > 0 /\ y <= x => x \div y \in Nat /\ x \div y >= 1
    OBVIOUS
  <2> HIDE DEF a, b
  <2>3. a \div b \in Nat /\ a \div b >= 1
    BY <2>1, <2>2
  <2>4. \A q \in Nat : q >= 1 => MinStep * q \in Nat /\ MinStep * q >= MinStep
    BY <1>1
  <2>5. MinStep * (a \div b) \in Nat /\ MinStep * (a \div b) >= MinStep
    BY <2>3, <2>4
  <2> QED BY <2>5, <1>3 DEF Width, a, b
<1> QED BY <1>2, <1>3

(***************************************************************************)
(* The thresholds of a sweep are known ones, and fall: rounding errors add *)
(* up to less than half a step.                                            *)
(***************************************************************************)
LEMMA SweepDescends ==
    ASSUME NEW args \in SweepArguments, NEW swept \in Swept[args]
    PROVE  /\ swept \in Seq(Thresholds) /\ swept # <<>>
           /\ \A i, j \in 1 .. Len(swept) : i < j => swept[i] > swept[j]
<1>1. PICK start, stop, w, low :
        start = args.start /\ stop = args.stop /\ w = Width(args.step) /\ low = start - Epsilon
  OBVIOUS
<1>2. /\ stop \in Nat /\ low \in Int /\ w \in Nat /\ w >= MinStep
      /\ low .. stop \subseteq Thresholds
  BY <1>1, SweepArgumentsAssumption, RoundingAssumption, WidthAtLeast DEF SweepArgument
<1> DEFINE Exact(i) == stop - (i - 1) * w
<1>3. PICK n \in 1 .. stop + 1 : swept \in [1 .. n -> low .. stop]
  BY <1>1 DEF Swept, SweepThresholds, Width
<1>4. /\ swept[1] = stop
      /\ \A i \in 2 .. Len(swept) : swept[i] - Exact(i) \in -Drift .. Drift
  BY <1>1 DEF Swept, SweepThresholds, Width
<1>5. n \in Nat /\ n >= 1 /\ swept \in Seq(Thresholds) /\ Len(swept) = n /\ swept # <<>>
  <2>1. n \in Nat /\ n >= 1
    BY <1>2
  <2>2. swept \in [1 .. n -> Thresholds]
    BY <1>2, <1>3
  <2>3. swept \in Seq(Thresholds) /\ Len(swept) = n
    BY <2>1, <2>2
  <2> QED BY <2>1, <2>3
<1>6. \A i \in 1 .. n : swept[i] \in Int
  BY <1>2, <1>3
<1>7. \A i \in 1 .. n : Exact(i) \in Int
  BY <1>2, <1>5
<1>8. \A i \in 1 .. n : swept[i] >= Exact(i) - Drift /\ swept[i] <= Exact(i) + Drift
  <2> TAKE i \in 1 .. n
  <2>1. CASE i = 1
    <3>1. Exact(1) = stop
      BY <1>2
    <3> HIDE DEF Exact
    <3> QED BY <2>1, <3>1, <1>2, <1>4, RoundingAssumption
  <2>2. CASE i # 1
    <3>1. i \in 2 .. Len(swept)
      BY <2>2, <1>5
    <3>2. swept[i] - Exact(i) \in -Drift .. Drift /\ swept[i] \in Int /\ Exact(i) \in Int
      BY <3>1, <1>4, <1>6, <1>7
    <3> HIDE DEF Exact
    <3> QED BY <3>2, RoundingAssumption
  <2> QED BY <2>1, <2>2
<1>9. ASSUME NEW i \in 1 .. n, NEW j \in 1 .. n, i < j
      PROVE  swept[i] > swept[j]
  <2>1. i - 1 \in Nat /\ j - 1 \in Nat /\ i - 1 < j - 1
    BY <1>5, <1>9
  <2>2. /\ (i - 1) * w \in Nat /\ (j - 1) * w \in Nat
        /\ (i - 1) * w + w <= (j - 1) * w
    BY <2>1, <1>2, Farther
  <2>3. Exact(i) >= Exact(j) + w
    <3>1. \A x, y \in Nat : x + w <= y => stop - x >= stop - y + w
      BY <1>2
    <3> QED BY <2>2, <3>1
  <2>4. /\ swept[i] >= Exact(i) - Drift /\ swept[j] <= Exact(j) + Drift
        /\ swept[i] \in Int /\ swept[j] \in Int /\ Exact(i) \in Int /\ Exact(j) \in Int
    BY <1>6, <1>7, <1>8
  <2>5. Drift \in Nat /\ 2 * Drift < w
    BY <1>2, RoundingAssumption, StepsAssumption
  <2> HIDE DEF Exact
  <2> QED BY <2>3, <2>4, <2>5, <1>2
<1> QED BY <1>5, <1>9

(***************************************************************************)
(* The events of a window are those below its upper threshold and above    *)
(* its lower one: one at the upper threshold was read before, one at the   *)
(* lower is not read at all.                                               *)
(***************************************************************************)
LEMMA WindowIs ==
    ASSUME NEW events \in Hierarchical, NEW from \in Nat, NEW to \in Nat
    PROVE  /\ MergeEventsBetween(events, from, to)
                = SubSeq(events, Upto(events, from) + 1, Above(events, to))
           /\ MergeEventsBetween(events, from, to) \in Seq(MergeEvent)
<1>1. MergeEventsBetween(events, from, to)
            = SubSeq(events, Upto(events, from) + 1, Above(events, to))
  BY Zenon DEF MergeEventsBetween, Upto, Above
<1>2. Upto(events, from) \in 0 .. Len(events) /\ Above(events, to) \in 0 .. Len(events)
  BY UptoIs, AboveIs
<1>3. events \in Seq(MergeEvent) /\ Len(events) \in Nat
  BY Lengths
<1>4. \A i \in 1 .. Len(events) : events[i] \in MergeEvent
  BY <1>3
<1> DEFINE m == Upto(events, from) + 1
<1> DEFINE n == Above(events, to)
<1>5. m \in Int /\ n \in Int /\ \A i \in m .. n : i \in 1 .. Len(events)
  BY <1>2, <1>3
<1> HIDE DEF m, n
<1>6. SubSeq(events, m, n) \in Seq(MergeEvent)
  BY <1>4, <1>5, SubSeqProperties
<1> QED BY <1>1, <1>6 DEF m, n

-----------------------------------------------------------------------------
(***************************************************************************)
(* Types of the variables.                                                 *)
(***************************************************************************)

(***************************************************************************)
(* Thresholds that fall.                                                   *)
(***************************************************************************)
Descends(thresholds) ==
    \A i, j \in 1 .. Len(thresholds) : i < j => thresholds[i] > thresholds[j]

(***************************************************************************)
(* What a call is.                                                         *)
(***************************************************************************)
CallTyped ==
    /\ call \in [kind : {"none", "sweep", "compare"}, collection : Collections \cup {None},
                 thresholds : Seq(Thresholds), truth : Truths \cup {None},
                 records : Sizes, truth_records : Sizes]
    /\ call.kind # "none" => call.collection \in Collections
    /\ call.kind = "sweep" => Descends(call.thresholds)
    /\ call.kind = "compare" => Len(call.thresholds) = 1 /\ call.truth \in Truths

(***************************************************************************)
(* The variables' types, and where a sweep is while it merges.             *)
(***************************************************************************)
Typed ==
    /\ hierarchy \in [Collections -> EventLists]
    /\ state \in DeltaState \cup {None}
    /\ is_spilled \in BOOLEAN
    /\ sources \subseteq Collections \cup {Upward}
    /\ CallTyped
    /\ answer \in Seq(DeltaState \cup {None})
    /\ Len(answer) <= Len(call.thresholds)
    /\ pending \in Seq(MergeEvent)
    /\ pc \in {"idle", "merging", "panicked"}
    /\ pc = "merging" => call.kind = "sweep" /\ Len(answer) \in 1 .. Len(call.thresholds) - 1

(***************************************************************************)
(* No state is None.                                                       *)
(***************************************************************************)
LEMMA StatesAreSome == \A s \in DeltaState : s # None
<1>1. DOMAIN None = {}
  BY DEF None
<1>2. \A s \in DeltaState : "last_threshold" \in DOMAIN s
  BY DEF DeltaState
<1> QED BY <1>1, <1>2, Zenon

(***************************************************************************)
(* They hold at first.                                                     *)
(***************************************************************************)
LEMMA InitTyped == Init => Typed
<1> SUFFICES ASSUME Init PROVE Typed
  OBVIOUS
<1>1. FirstRecords \in Sizes
  BY SizesAssumption DEF Sizes
<1>2. NoCall \in [kind : {"none", "sweep", "compare"}, collection : Collections \cup {None},
                  thresholds : Seq(Thresholds), truth : Truths \cup {None},
                  records : Sizes, truth_records : Sizes]
  BY <1>1 DEF NoCall
<1>3. CallTyped
  BY <1>2 DEF CallTyped, Init, NoCall
<1>4. answer \in Seq(DeltaState \cup {None}) /\ Len(answer) <= Len(call.thresholds)
  BY DEF Init, NoCall
<1>5. pending \in Seq(MergeEvent) /\ state \in DeltaState \cup {None}
  BY DEF Init
<1> QED BY <1>3, <1>4, <1>5 DEF Init, Typed

(***************************************************************************)
(* No entities at all are a partition too.                                 *)
(***************************************************************************)
LEMMA NoEntities == IsEntities({})
  BY DEF IsEntities

(***************************************************************************)
(* A sweep keeps them.                                                     *)
(***************************************************************************)
LEMMA SweepTyped ==
    ASSUME Typed, NEW c \in Collections, NEW args \in SweepArguments, NEW n \in Sizes,
           NEW thresholds \in Swept[args], Sweep(c, thresholds, n)
    PROVE  Typed' /\ (is_spilled => state' # None) /\ answer' = <<state'>>
<1> DEFINE built == BuildInitialState(thresholds[1], Partition(c, thresholds[1], n), {})
<1>1. thresholds \in Seq(Thresholds) /\ Descends(thresholds)
  BY SweepDescends DEF Descends
<1>2. thresholds # <<>>
  BY SweepDescends
<1>3. Len(thresholds) \in Nat /\ Len(thresholds) >= 1 /\ \A i \in 1 .. Len(thresholds) : thresholds[i] \in Thresholds
  BY <1>1, <1>2
<1>4. built \in DeltaState
  <2>1. IsEntities(Partition(c, thresholds[1], n))
    BY <1>3, PartitionIs DEF Typed
  <2> QED BY <1>3, <2>1, NoEntities, BuildType
<1>5. KeepOrSpill(built)
  BY Zenon DEF Sweep, built
<1> HIDE DEF built
<1>6. /\ state' \in DeltaState \cup {None} /\ is_spilled' \in BOOLEAN
      /\ is_spilled => state' # None
  BY <1>4, <1>5, StatesAreSome DEF KeepOrSpill, Typed
<1>7. /\ call' = [kind |-> "sweep", collection |-> c, thresholds |-> thresholds, truth |-> None,
                  records |-> n, truth_records |-> n]
      /\ hierarchy' = hierarchy
  BY DEF Sweep, Begin
<1>8. CallTyped' /\ call'.kind = "sweep" /\ call'.thresholds = thresholds
  BY <1>1, <1>7 DEF CallTyped
<1>9. sources' = {c} /\ answer' = <<state'>>
  BY DEF Sweep
<1>10. answer' \in Seq(DeltaState \cup {None}) /\ Len(answer') = 1
  BY <1>6, <1>9
<1>11. Proceed(c, thresholds, 1)
  BY DEF Sweep
<1>12. CASE 1 < Len(thresholds)
  <2>1. 1 \in 1 .. Len(thresholds) /\ 2 \in 1 .. Len(thresholds)
    BY <1>3, <1>12
  <2>2. thresholds[1] \in Nat /\ thresholds[2] \in Nat /\ hierarchy[c] \in Hierarchical
    BY <2>1, <1>3, ThresholdsAssumption, EventListsHierarchical DEF Typed
  <2>3. pending' = MergeEventsBetween(hierarchy[c], thresholds[1], thresholds[2]) /\ pc' = "merging"
    BY <1>11, <1>12 DEF Proceed
  <2>4. pending' \in Seq(MergeEvent)
    BY <2>2, <2>3, WindowIs
  <2> QED BY <1>3, <1>6, <1>7, <1>8, <1>9, <1>10, <1>12, <2>3, <2>4 DEF Typed
<1>13. CASE ~(1 < Len(thresholds))
  <2>1. pending' = <<>> /\ pc' = "idle"
    BY <1>11, <1>13 DEF Proceed
  <2> QED BY <1>3, <1>6, <1>7, <1>8, <1>9, <1>10, <2>1 DEF Typed
<1> QED BY <1>12, <1>13

(***************************************************************************)
(* A merge event keeps them.                                               *)
(***************************************************************************)
LEMMA ApplyTyped ==
    ASSUME Typed, ApplyMergeEvent
    PROVE  Typed' /\ answer' = answer
<1> DEFINE e == Head(pending)
<1> DEFINE rows == MergeRows(state.row_marginals, e.parent_id, Min(e.child_nodes))
<1>1. state \in DeltaState /\ pending # <<>>
  BY DEF Typed, ApplyMergeEvent
<1>2. e \in MergeEvent /\ Tail(pending) \in Seq(MergeEvent)
  BY <1>1, HeadTailProperties DEF Typed
<1>3. e.parent_id \in Records
  BY <1>2, RecordsFinite DEF MergeEvent
<1>4. rows \in Counts(Records)
  BY <1>1, <1>3, StateParts, MergeRowsType
<1>5. state' = [state EXCEPT !.row_marginals = rows]
  BY DEF ApplyMergeEvent
<1> HIDE DEF rows, e
<1>6. state' \in DeltaState
  BY <1>1, <1>4, <1>5 DEF DeltaState
<1>7. UNCHANGED <<hierarchy, is_spilled, sources, call, answer, pc>> /\ pending' = Tail(pending)
  BY DEF ApplyMergeEvent
<1> QED BY <1>2, <1>6, <1>7 DEF Typed, CallTyped

(***************************************************************************)
(* The end of a window keeps them.                                         *)
(***************************************************************************)
LEMMA EndTyped ==
    ASSUME Typed, EndWindow
    PROVE  Typed' /\ state' \in DeltaState /\ answer' = Append(answer, state')
<1> DEFINE thresholds == call.thresholds
<1> DEFINE i == Len(answer) + 1
<1> DEFINE sum == CombinationSum(state.row_marginals)
<1>1. state \in DeltaState /\ call.kind = "sweep" /\ call.collection \in Collections
  BY DEF Typed, EndWindow, CallTyped
<1>2. /\ thresholds \in Seq(Thresholds) /\ Len(thresholds) \in Nat
      /\ Len(answer) \in Nat /\ i \in 2 .. Len(thresholds)
      /\ \A j \in 1 .. Len(thresholds) : thresholds[j] \in Thresholds
  <2>1. thresholds \in Seq(Thresholds) /\ answer \in Seq(DeltaState \cup {None})
    BY DEF Typed, CallTyped
  <2>2. Len(answer) \in 1 .. Len(thresholds) - 1
    BY DEF Typed, EndWindow
  <2> QED BY <2>1, <2>2
<1>3. sum \in Nat
  BY <1>1, StateParts, RecordsFinite, CombinationsType
<1>4. /\ state' = [state EXCEPT !.last_threshold = thresholds[i], !.sum_row_combinations = sum]
      /\ answer' = Append(answer, state')
      /\ Proceed(call.collection, thresholds, i)
      /\ UNCHANGED <<hierarchy, is_spilled, sources, call>>
  BY DEF EndWindow
<1>5. thresholds[i] \in Thresholds
  BY <1>2
<1> HIDE DEF sum, i, thresholds
<1>6. state' \in DeltaState
  BY <1>1, <1>3, <1>4, <1>5 DEF DeltaState
<1>7. answer' \in Seq(DeltaState \cup {None}) /\ Len(answer') = i
  BY <1>2, <1>4, <1>6 DEF Typed, i
<1>8. call' = call /\ thresholds' = thresholds
  BY <1>4 DEF thresholds
<1>9. CASE i < Len(thresholds)
  <2>1. i \in 1 .. Len(thresholds) /\ i + 1 \in 1 .. Len(thresholds) /\ i \in 1 .. Len(thresholds) - 1
    BY <1>2, <1>9
  <2>2. thresholds[i] \in Nat /\ thresholds[i + 1] \in Nat
        /\ hierarchy[call.collection] \in Hierarchical
    BY <2>1, <1>1, <1>2, ThresholdsAssumption, EventListsHierarchical DEF Typed
  <2>3. /\ pending' = MergeEventsBetween(hierarchy[call.collection], thresholds[i], thresholds[i + 1])
        /\ pc' = "merging"
    BY <1>4, <1>9 DEF Proceed
  <2>4. pending' \in Seq(MergeEvent)
    BY <2>2, <2>3, WindowIs
  <2> QED BY <1>1, <1>2, <1>4, <1>6, <1>7, <1>8, <2>1, <2>3, <2>4 DEF Typed, CallTyped, thresholds
<1>10. CASE ~(i < Len(thresholds))
  <2>1. pending' = <<>> /\ pc' = "idle"
    BY <1>4, <1>10 DEF Proceed
  <2> QED BY <1>1, <1>2, <1>4, <1>6, <1>7, <1>8, <2>1 DEF Typed, CallTyped, thresholds
<1> QED BY <1>4, <1>6, <1>9, <1>10

(***************************************************************************)
(* A sweep that finds no state keeps them.                                 *)
(***************************************************************************)
LEMMA UnwrapTyped ==
    ASSUME Typed, SweepUnwrapsNone
    PROVE  Typed' /\ answer' = <<>>
<1>1. /\ pc' = "panicked" /\ answer' = <<>> /\ pending' = <<>>
      /\ UNCHANGED <<hierarchy, state, is_spilled, sources, call>>
  BY DEF SweepUnwrapsNone
<1>2. Len(call.thresholds) \in Nat
  BY DEF Typed, CallTyped
<1> QED BY <1>1, <1>2 DEF Typed, CallTyped

(***************************************************************************)
(* What every comparison does to the call.                                 *)
(***************************************************************************)
LEMMA ComparisonTyped ==
    ASSUME Typed, NEW c \in Collections, NEW threshold \in Thresholds, NEW truth \in Truths,
           NEW n \in Sizes, NEW m \in Sizes, Comparison(c, threshold, truth, n, m)
    PROVE  /\ call' = [kind |-> "compare", collection |-> c, thresholds |-> <<threshold>>,
                       truth |-> truth, records |-> n, truth_records |-> m]
           /\ CallTyped' /\ Len(call'.thresholds) = 1 /\ call'.thresholds[1] = threshold
           /\ hierarchy' = hierarchy /\ pending' = <<>>
           /\ IsEntities(Partition(c, threshold, n)) /\ IsEntities(Partition(c, truth, m))
<1>1. /\ call' = [kind |-> "compare", collection |-> c, thresholds |-> <<threshold>>,
                  truth |-> truth, records |-> n, truth_records |-> m]
      /\ hierarchy' = hierarchy /\ pending' = <<>>
  BY DEF Comparison, Begin
<1>2. CallTyped' /\ Len(call'.thresholds) = 1 /\ call'.thresholds[1] = threshold
  BY <1>1 DEF CallTyped
<1>3. truth \in Thresholds
  BY ThresholdsAssumption
<1>4. IsEntities(Partition(c, threshold, n)) /\ IsEntities(Partition(c, truth, m))
  BY <1>3, PartitionIs DEF Typed
<1> QED BY <1>1, <1>2, <1>4

(***************************************************************************)
(* A comparison that panics keeps them.                                    *)
(***************************************************************************)
LEMMA PanicsTyped ==
    ASSUME Typed, NEW c \in Collections, NEW threshold \in Thresholds, NEW truth \in Truths,
           NEW n \in Sizes, NEW m \in Sizes, ComparePanics(c, threshold, truth, n, m)
    PROVE  Typed' /\ answer' = <<>>
<1>1. /\ pc' = "panicked" /\ answer' = <<>> /\ UNCHANGED <<state, is_spilled, sources>>
      /\ Comparison(c, threshold, truth, n, m)
  BY DEF ComparePanics
<1>2. answer' \in Seq(DeltaState \cup {None}) /\ Len(answer') = 0
  BY <1>1
<1>3. /\ CallTyped' /\ Len(call'.thresholds) = 1 /\ hierarchy' = hierarchy /\ pending' = <<>>
  BY <1>1, ComparisonTyped
<1> QED BY <1>1, <1>2, <1>3 DEF Typed

(***************************************************************************)
(* A comparison that rebuilds keeps them.  A state is spilled at most      *)
(* once.                                                                   *)
(***************************************************************************)
LEMMA RebuildsTyped ==
    ASSUME Typed, NEW c \in Collections, NEW threshold \in Thresholds, NEW truth \in Truths,
           NEW n \in Sizes, NEW m \in Sizes, CompareRebuilds(c, threshold, truth, n, m)
    PROVE  Typed' /\ (is_spilled => state' # None) /\ answer' = <<state'>>
<1> DEFINE built == BuildInitialState(threshold, Partition(c, threshold, n), Partition(c, truth, m))
<1>1. /\ KeepOrSpill(built) /\ sources' = {c} /\ answer' = <<state'>> /\ pc' = "idle"
      /\ Comparison(c, threshold, truth, n, m)
  BY DEF CompareRebuilds
<1>2. /\ CallTyped' /\ Len(call'.thresholds) = 1 /\ hierarchy' = hierarchy /\ pending' = <<>>
      /\ IsEntities(Partition(c, threshold, n)) /\ IsEntities(Partition(c, truth, m))
  BY <1>1, ComparisonTyped
<1>3. built \in DeltaState
  BY <1>2, BuildType
<1> HIDE DEF built
<1>4. /\ state' \in DeltaState \cup {None} /\ is_spilled' \in BOOLEAN
      /\ is_spilled => state' # None
  BY <1>1, <1>3, StatesAreSome DEF KeepOrSpill, Typed
<1>5. answer' \in Seq(DeltaState \cup {None}) /\ Len(answer') = 1
  BY <1>1, <1>4
<1> QED BY <1>1, <1>2, <1>4, <1>5 DEF Typed

(***************************************************************************)
(* A comparison that updates keeps them.                                   *)
(***************************************************************************)
LEMMA IncrementsTyped ==
    ASSUME Typed, NEW c \in Collections, NEW threshold \in Thresholds, NEW truth \in Truths,
           NEW n \in Sizes, NEW m \in Sizes, CompareIncrements(c, threshold, truth, n, m)
    PROVE  Typed' /\ state' \in DeltaState /\ answer' = <<state'>>
<1> DEFINE entities == Partition(c, threshold, n)
<1> DEFINE truth_entities == Partition(c, truth, m)
<1>1. /\ sources' = sources \cup {c} \cup (IF Drop(threshold) < 0 THEN {Upward} ELSE {})
      /\ answer' = <<state'>> /\ pc' = "idle"
      /\ is_spilled' = is_spilled /\ state # None
      /\ state' = IncrementalUpdate(state, threshold, entities, truth_entities)
      /\ Comparison(c, threshold, truth, n, m)
  BY DEF CompareIncrements
<1>2. /\ CallTyped' /\ Len(call'.thresholds) = 1 /\ hierarchy' = hierarchy /\ pending' = <<>>
      /\ IsEntities(entities) /\ IsEntities(truth_entities)
  BY <1>1, ComparisonTyped
<1>3. state \in DeltaState
  BY <1>1 DEF Typed
<1> HIDE DEF entities, truth_entities
<1>4. state' \in DeltaState
  BY <1>1, <1>2, <1>3, IncrementalType
<1>5. answer' \in Seq(DeltaState \cup {None}) /\ Len(answer') = 1
  BY <1>1, <1>4
<1>6. sources' \subseteq Collections \cup {Upward}
  BY <1>1 DEF Typed
<1> QED BY <1>1, <1>2, <1>4, <1>5, <1>6 DEF Typed

(***************************************************************************)
(* A comparison of any kind keeps them.                                    *)
(***************************************************************************)
LEMMA ComparesTyped ==
    ASSUME Typed, NEW c \in Collections, NEW threshold \in Thresholds, NEW truth \in Truths,
           NEW n \in Sizes, NEW m \in Sizes,
           \/ ComparePanics(c, threshold, truth, n, m)
           \/ CompareRebuilds(c, threshold, truth, n, m)
           \/ CompareIncrements(c, threshold, truth, n, m)
    PROVE  /\ Typed'
           /\ is_spilled => answer' = <<>> \/ (answer' = <<state'>> /\ state' # None)
  BY PanicsTyped, RebuildsTyped, IncrementsTyped, StatesAreSome

(***************************************************************************)
(* Every step keeps the types, and answers with a state once one was       *)
(* spilled.                                                                *)
(***************************************************************************)
LEMMA NextTyped == Typed /\ [Next]_vars => Typed'
<1> SUFFICES ASSUME Typed, [Next]_vars PROVE Typed'
  OBVIOUS
<1>1. CASE \E c \in Collections, args \in SweepArguments, n \in Sizes :
                \E thresholds \in Swept[args] : Sweep(c, thresholds, n)
  BY <1>1, SweepTyped
<1>2. CASE ApplyMergeEvent
  BY <1>2, ApplyTyped
<1>3. CASE EndWindow
  BY <1>3, EndTyped
<1>4. CASE SweepUnwrapsNone
  BY <1>4, UnwrapTyped
<1>5. CASE \E c \in Collections, threshold \in Points, truth \in Truths, n, m \in Sizes :
                \/ ComparePanics(c, threshold, truth, n, m)
                \/ CompareRebuilds(c, threshold, truth, n, m)
                \/ CompareIncrements(c, threshold, truth, n, m)
  BY <1>5, ComparesTyped, ThresholdsAssumption
<1>6. CASE UNCHANGED vars
  BY <1>6 DEF Typed, CallTyped, vars
<1> QED BY <1>1, <1>2, <1>3, <1>4, <1>5, <1>6 DEF Next

(***************************************************************************)
(* The types hold in every reachable state.                                *)
(***************************************************************************)
THEOREM AlwaysTyped == Spec => []Typed
<1>1. Init => Typed
  BY InitTyped
<1>2. Typed /\ [Next]_vars => Typed'
  BY NextTyped
<1> QED BY <1>1, <1>2, PTL DEF Spec

(***************************************************************************)
(* A state in the set has the parts of one.                                *)
(***************************************************************************)
LEMMA DeltaStateIs == \A s \in DeltaState : IsDeltaState(s)
<1> TAKE s \in DeltaState
<1>1. /\ s.last_threshold \in Thresholds
      /\ s.contingency_table \in Counts(Records \X Records)
      /\ s.row_marginals \in Counts(Records) /\ s.col_marginals \in Counts(Records)
      /\ s.total_records \in Nat /\ s.pairs \in [tp : Nat, fp : Nat, fn : Nat, tn : Nat]
      /\ s.sum_cell_combinations \in Nat /\ s.sum_row_combinations \in Nat
      /\ s.sum_col_combinations \in Nat
  BY StateParts
<1>2. \A ids : \A f \in Counts(ids) : CountsOf(f, ids)
  BY DEF Counts, CountsOf
<1>3. /\ CountsOf(s.contingency_table, Records \X Records)
      /\ CountsOf(s.row_marginals, Records) /\ CountsOf(s.col_marginals, Records)
  BY <1>1, <1>2
<1> QED BY <1>1, <1>3 DEF IsDeltaState

(***************************************************************************)
(* The types above give the ones the runs check.                           *)
(***************************************************************************)
LEMMA TypedIsTypeOK == Typed => TypeOK
<1> SUFFICES ASSUME Typed PROVE TypeOK
  OBVIOUS
<1>1. \A i \in DOMAIN answer : answer[i] # None => IsDeltaState(answer[i])
  <2>1. answer \in Seq(DeltaState \cup {None})
    BY DEF Typed
  <2>2. \A i \in DOMAIN answer : answer[i] \in DeltaState \cup {None}
    BY <2>1
  <2> QED BY <2>2, DeltaStateIs
<1>2. state # None => IsDeltaState(state)
  BY DeltaStateIs DEF Typed
<1> QED BY <1>1, <1>2 DEF Typed, CallTyped, TypeOK

(***************************************************************************)
(* TypeOK: the algorithm's state, its answers and the events left in a     *)
(* window are of their types in every reachable state.  No count is        *)
(* negative, whichever hierarchies and thresholds a state mixes, and no    *)
(* sweep has more answers than thresholds.                                 *)
(***************************************************************************)
THEOREM TypeCorrect == Spec => []TypeOK
  BY AlwaysTyped, TypedIsTypeOK, PTL

(***************************************************************************)
(* SpillsOnce: once a state has been spilled no later call loses its       *)
(* answer, since nothing takes the handle back.                            *)
(***************************************************************************)
THEOREM SpillsOnceCorrect == Spec => SpillsOnce
<1>1. Typed /\ [Next]_vars =>
        [is_spilled /\ answer' # answer /\ answer' # <<>> => answer'[Len(answer')] # None]_vars
  <2> SUFFICES ASSUME Typed, Next, is_spilled, answer' # answer, answer' # <<>>
               PROVE  answer'[Len(answer')] # None
    OBVIOUS
  <2>1. CASE \E c \in Collections, args \in SweepArguments, n \in Sizes :
                \E thresholds \in Swept[args] : Sweep(c, thresholds, n)
    <3>1. state' # None /\ answer' = <<state'>>
      BY <2>1, SweepTyped
    <3> QED BY <3>1
  <2>2. CASE ApplyMergeEvent
    BY <2>2, ApplyTyped
  <2>3. CASE EndWindow
    <3>1. state' \in DeltaState /\ answer' = Append(answer, state')
      BY <2>3, EndTyped
    <3>2. answer \in Seq(DeltaState \cup {None})
      BY DEF Typed
    <3>3. answer'[Len(answer')] = state'
      BY <3>1, <3>2
    <3> QED BY <3>1, <3>3, StatesAreSome
  <2>4. CASE SweepUnwrapsNone
    BY <2>4, UnwrapTyped
  <2>5. CASE \E c \in Collections, threshold \in Points, truth \in Truths, n, m \in Sizes :
                \/ ComparePanics(c, threshold, truth, n, m)
                \/ CompareRebuilds(c, threshold, truth, n, m)
                \/ CompareIncrements(c, threshold, truth, n, m)
    <3>1. answer' = <<state'>> /\ state' # None
      BY <2>5, ComparesTyped, ThresholdsAssumption
    <3> QED BY <3>1
  <2> QED BY <2>1, <2>2, <2>3, <2>4, <2>5 DEF Next
<1> QED BY <1>1, AlwaysTyped, PTL DEF Spec, SpillsOnce

-----------------------------------------------------------------------------
(***************************************************************************)
(* Rows of a state and merge events.  A state need not have the rows of a  *)
(* partition at a threshold: a sweep that passes over an event on one of   *)
(* its thresholds leaves its rows apart.  What every state keeps is that   *)
(* its rows are those of some partition that the events so far refine no   *)
(* further: each of its entities lies within one of theirs.                *)
(***************************************************************************)

(***************************************************************************)
(* Each of own's entities lies within one entity after k events.           *)
(***************************************************************************)
Finer(own, n, events, k) == \A x \in 0 .. n - 1 : Root(events, k, own[x]) = Root(events, k, x)

(***************************************************************************)
(* The state's rows are those of own, its total is that of own's records,  *)
(* and k events merge them into the partition they make.                   *)
(***************************************************************************)
Follows(s, own, n, events, k) ==
    /\ IsOwner(own, n)
    /\ s.row_marginals = RowsOf(own)
    /\ s.total_records = n
    /\ Finer(own, n, events, k)

(***************************************************************************)
(* What an owner map gives.                                                *)
(***************************************************************************)
LEMMA OwnerValues ==
    ASSUME NEW n \in Nat, NEW own, IsOwner(own, n), NEW x \in 0 .. n - 1
    PROVE  /\ own[x] \in 0 .. n - 1 /\ own[x] \in Nat /\ x \in Nat
           /\ own[x] <= x /\ own[own[x]] = own[x]
  BY DEF IsOwner

(***************************************************************************)
(* The partition after k events is.                                        *)
(***************************************************************************)
LEMMA AtIsFiner ==
    ASSUME NEW events \in Hierarchical, NEW k \in 0 .. Len(events), NEW n \in Nat
    PROVE  Finer(At(events, k, n), n, events, k)
<1>1. RootsGood(events, k)
  BY RootsAreGood
<1> QED BY <1>1 DEF RootsGood, Finer, At

(***************************************************************************)
(* It stays so after more events.                                          *)
(***************************************************************************)
LEMMA FinerLater ==
    ASSUME NEW events \in Hierarchical, NEW k \in 0 .. Len(events), NEW j \in 0 .. k,
           NEW n \in Nat, NEW own, IsOwner(own, n), Finer(own, n, events, j)
    PROVE  Finer(own, n, events, k)
<1> SUFFICES ASSUME NEW x \in 0 .. n - 1
             PROVE  Root(events, k, own[x]) = Root(events, k, x)
  BY DEF Finer
<1>1. own[x] \in Nat /\ x \in Nat
  BY OwnerValues
<1>2. Root(events, j, own[x]) = Root(events, j, x)
  BY DEF Finer
<1>3. Root(events, k, Root(events, j, own[x])) = Root(events, k, own[x])
  BY <1>1, RootsMerge
<1>4. Root(events, k, Root(events, j, x)) = Root(events, k, x)
  BY <1>1, RootsMerge
<1> QED BY <1>2, <1>3, <1>4

(***************************************************************************)
(* So a state that follows j events follows more, although it had not      *)
(* merged them.                                                            *)
(***************************************************************************)
LEMMA FollowsLater ==
    ASSUME NEW events \in Hierarchical, NEW k \in 0 .. Len(events), NEW j \in 0 .. k,
           NEW n \in Nat, NEW s, NEW own, Follows(s, own, n, events, j)
    PROVE  Follows(s, own, n, events, k)
  BY FinerLater DEF Follows

(***************************************************************************)
(* An owner after k events owns itself in own as well.                     *)
(***************************************************************************)
LEMMA RootsAreOwners ==
    ASSUME NEW events \in Hierarchical, NEW k \in 0 .. Len(events),
           NEW n \in Nat, NEW own, IsOwner(own, n), Finer(own, n, events, k),
           NEW x \in 0 .. n - 1, Root(events, k, x) = x
    PROVE  x \in Owners(own)
<1>1. own[x] \in 0 .. n - 1 /\ own[x] \in Nat /\ own[x] <= x /\ x \in Nat
  BY OwnerValues
<1>2. Root(events, k, own[x]) = x
  BY DEF Finer
<1>3. Root(events, k, own[x]) <= own[x]
  BY <1>1, RootsAreGood DEF RootsGood
<1>4. own[x] = x
  BY <1>1, <1>2, <1>3
<1> QED BY <1>4 DEF Owners, IsOwner

(***************************************************************************)
(* The next event finds a row for its parent and a row for its child, and  *)
(* their rows merged are still finer; if own was the partition itself, it  *)
(* is again.                                                               *)
(***************************************************************************)
LEMMA MergeFollows ==
    ASSUME NEW events \in Hierarchical, NEW j \in Nat, j + 1 \in 1 .. Len(events),
           NEW n \in Sizes, NEW own, IsOwner(own, n), Finer(own, n, events, j)
    PROVE  LET p == events[j + 1].parent_id
               c == Min(events[j + 1].child_nodes)
           IN  /\ p \in Owners(own) /\ c \in Owners(own) /\ p < c
               /\ Finer(Merged(own, p, c), n, events, j + 1)
               /\ own = At(events, j, n) => Merged(own, p, c) = At(events, j + 1, n)
<1> DEFINE p == events[j + 1].parent_id
<1> DEFINE c == Min(events[j + 1].child_nodes)
<1> DEFINE new == Merged(own, p, c)
<1>1. n \in Nat /\ BuildRecords \subseteq 0 .. n - 1 /\ Len(events) \in Nat
  BY RecordsFinite, Lengths
<1>2. j \in 0 .. Len(events) /\ (j + 1) - 1 = j
  BY <1>1
<1>3. RootsGood(events, j)
  BY <1>2, RootsAreGood
<1>4. /\ p \in BuildRecords /\ c \in BuildRecords /\ p < c
      /\ Root(events, j, p) = p /\ Root(events, j, c) = c
      /\ \A x \in Nat : Root(events, j + 1, x) =
              IF Root(events, j, x) = c THEN p ELSE Root(events, j, x)
  BY <1>2, <1>3, EventJoins
<1> HIDE DEF p, c
<1>5. p \in 0 .. n - 1 /\ c \in 0 .. n - 1 /\ p \in Nat /\ c \in Nat /\ p # c
  BY <1>1, <1>4
<1>6. p \in Owners(own) /\ c \in Owners(own)
  BY <1>1, <1>2, <1>4, <1>5, RootsAreOwners
<1>7. DOMAIN own = 0 .. n - 1 /\ \A x \in 0 .. n - 1 : new[x] = IF own[x] = c THEN p ELSE own[x]
  BY DEF Merged, IsOwner
<1>8. Finer(new, n, events, j + 1)
  <2> SUFFICES ASSUME NEW x \in 0 .. n - 1
               PROVE  Root(events, j + 1, new[x]) = Root(events, j + 1, x)
    BY DEF Finer
  <2> HIDE DEF new
  <2>1. own[x] \in Nat /\ x \in Nat
    BY <1>1, OwnerValues
  <2>2. Root(events, j, own[x]) = Root(events, j, x)
    BY DEF Finer
  <2>3. CASE own[x] = c
    <3>1. new[x] = p /\ Root(events, j, x) = c
      BY <2>2, <2>3, <1>4, <1>7
    <3>2. Root(events, j + 1, p) = p /\ Root(events, j + 1, x) = p
      BY <3>1, <2>1, <1>4, <1>5
    <3> QED BY <3>1, <3>2
  <2>4. CASE own[x] # c
    <3>1. new[x] = own[x]
      BY <2>4, <1>7
    <3>2. Root(events, j + 1, own[x]) = Root(events, j + 1, x)
      BY <2>1, <2>2, <1>4
    <3> QED BY <3>1, <3>2
  <2> QED BY <2>3, <2>4
<1>9. ASSUME own = At(events, j, n) PROVE new = At(events, j + 1, n)
  <2>1. \A x \in 0 .. n - 1 : own[x] = Root(events, j, x)
    BY <1>9 DEF At
  <2>2. \A x \in 0 .. n - 1 : new[x] = Root(events, j + 1, x)
    BY <2>1, <1>4, <1>7, <1>1
  <2>3. new = [x \in 0 .. n - 1 |-> new[x]]
    BY <1>7 DEF Merged
  <2> QED BY <2>2, <2>3 DEF At
<1> QED BY <1>4, <1>6, <1>8, <1>9 DEF p, c

(***************************************************************************)
(* What a state built afresh holds.                                        *)
(***************************************************************************)
LEMMA BuildParts ==
    ASSUME NEW threshold, NEW entities1, NEW entities2
    PROVE  LET s == BuildInitialState(threshold, entities1, entities2)
           IN  /\ s.last_threshold = threshold
               /\ s.row_marginals = Marginals(entities1)
               /\ s.col_marginals = Marginals(entities2)
               /\ s.contingency_table = Overlaps(entities1, entities2)
               /\ s.total_records = SumOf(Marginals(entities1))
  BY DEF BuildInitialState

(***************************************************************************)
(* It follows the events at or above its threshold.                        *)
(***************************************************************************)
LEMMA BuildFollows ==
    ASSUME NEW events \in Hierarchical, NEW t \in Nat, NEW n \in Nat,
           NEW entities1, entities1 = Classes(At(events, Upto(events, t), n)), NEW entities2
    PROVE  Follows(BuildInitialState(t, entities1, entities2),
                   At(events, Upto(events, t), n), n, events, Upto(events, t))
<1> DEFINE own == At(events, Upto(events, t), n)
<1> DEFINE s == BuildInitialState(t, entities1, entities2)
<1>1. Upto(events, t) \in 0 .. Len(events)
  BY UptoIs
<1>2. IsOwner(own, n) /\ Finer(own, n, events, Upto(events, t))
  BY <1>1, AtIsOwner, AtIsFiner
<1>3. s.row_marginals = Marginals(entities1) /\ s.total_records = SumOf(Marginals(entities1))
  BY BuildParts
<1> HIDE DEF own, s
<1>4. Marginals(entities1) = RowsOf(own) /\ SumOf(RowsOf(own)) = n
  BY <1>2, MarginalsAreRows, SumOfRows, Zenon DEF own
<1>5. s.row_marginals = RowsOf(own) /\ s.total_records = n
  BY <1>3, <1>4, Zenon
<1> QED BY <1>2, <1>5 DEF Follows, own, s

-----------------------------------------------------------------------------
(***************************************************************************)
(* The incremental update: rows.                                           *)
(***************************************************************************)

(***************************************************************************)
(* A record that came after the build is its own entity.                   *)
(***************************************************************************)
LEMMA NewRecordAlone ==
    ASSUME NEW events \in Hierarchical, NEW k \in 0 .. Len(events),
           NEW x \in Nat \ BuildRecords, NEW y \in Nat, Root(events, k, y) = Root(events, k, x)
    PROVE  y = x
<1>1. RootsGood(events, k)
  BY RootsAreGood
<1>2. Root(events, k, x) = x
  BY <1>1 DEF RootsGood
<1>3. CASE y \in BuildRecords
  <2>1. Root(events, k, y) <= y /\ Root(events, k, y) = x
    BY <1>1, <1>2 DEF RootsGood
  <2>2. y < x
    BY <1>3, SizesAssumption DEF BuildRecords
  <2> QED BY <2>1, <2>2
<1>4. CASE y \notin BuildRecords
  <2>1. Root(events, k, y) = y
    BY <1>1, <1>4 DEF RootsGood
  <2> QED BY <2>1, <1>2
<1> QED BY <1>3, <1>4

(***************************************************************************)
(* The owners of own within an entity of new.                              *)
(***************************************************************************)
OldOwners(own, new, id) == Class(new, id) \cap Owners(own)

(***************************************************************************)
(* An entity's records that own knows are those of the entity's old        *)
(* owners; a record own does not know is alone.                            *)
(***************************************************************************)
LEMMA OldOwnersAre ==
    ASSUME NEW events \in Hierarchical, NEW k \in 0 .. Len(events),
           NEW n0 \in Sizes, NEW own, IsOwner(own, n0), Finer(own, n0, events, k),
           NEW n \in Sizes, NEW id \in Owners(At(events, k, n))
    PROVE  LET entity == Class(At(events, k, n), id)
               old == OldOwners(own, At(events, k, n), id)
           IN  /\ Fibre(DOMAIN own, own, old) = entity \cap (0 .. n0 - 1)
               /\ \A x \in entity \ (0 .. n0 - 1) : entity = {x}
               /\ \A y \in entity \cap (0 .. n0 - 1) : own[y] \in old
               /\ old = {} => entity = {id} /\ id \notin BuildRecords
               /\ old # {} => entity \subseteq 0 .. n0 - 1
<1> DEFINE new == At(events, k, n)
<1> DEFINE entity == Class(new, id)
<1> DEFINE old == entity \cap Owners(own)
<1>1. /\ n0 \in Nat /\ n \in Nat /\ BuildRecords \subseteq 0 .. n0 - 1
      /\ BuildRecords \subseteq 0 .. n - 1 /\ DOMAIN own = 0 .. n0 - 1
  BY RecordsFinite DEF IsOwner
<1>2. IsOwner(new, n)
  BY <1>1, AtIsOwner
<1>3. id \in 0 .. n - 1 /\ id \in entity
  BY <1>1, <1>2, ClassOfOwner
<1>4. \A y : y \in entity <=> y \in 0 .. n - 1 /\ Root(events, k, y) = id
  BY DEF Class, Fibre, At
<1>5. \A y \in 0 .. n0 - 1 : /\ own[y] \in 0 .. n0 - 1 /\ own[y] <= y /\ own[y] \in Owners(own)
                             /\ Root(events, k, own[y]) = Root(events, k, y)
  BY <1>1 DEF IsOwner, Finer, Owners
<1>6. Root(events, k, id) = id
  BY <1>3, <1>4
<1> HIDE DEF entity, new
<1>7. ASSUME NEW y \in 0 .. n0 - 1 PROVE own[y] \in entity <=> y \in entity
  <2>1. CASE y \in 0 .. n - 1
    <3>1. own[y] \in 0 .. n - 1
      BY <1>1, <1>5, <2>1
    <3> QED BY <3>1, <2>1, <1>4, <1>5
  <2>2. CASE y \notin 0 .. n - 1
    <3>1. y \in Nat \ BuildRecords /\ id \in Nat /\ y # id
      BY <2>2, <1>1, <1>3
    <3>2. Root(events, k, y) # id
      BY <3>1, <1>6, NewRecordAlone
    <3> QED BY <3>2, <2>2, <1>4, <1>5
  <2> QED BY <2>1, <2>2
<1>8. Fibre(DOMAIN own, own, old) = entity \cap (0 .. n0 - 1)
  BY <1>1, <1>5, <1>7 DEF Fibre
<1>9. ASSUME NEW x \in entity, x \notin BuildRecords PROVE entity = {x}
  <2>1. x \in Nat \ BuildRecords
    BY <1>4, <1>9, <1>1
  <2>2. \A y \in entity : y \in Nat /\ Root(events, k, y) = Root(events, k, x)
    BY <1>1, <1>4
  <2>3. \A y \in entity : y = x
    BY <2>1, <2>2, NewRecordAlone
  <2> QED BY <2>3
<1>10. \A x \in entity \ (0 .. n0 - 1) : entity = {x}
  BY <1>1, <1>9
<1>11. \A y \in entity \cap (0 .. n0 - 1) : own[y] \in old
  BY <1>5, <1>7
<1>12. ASSUME old = {} PROVE entity = {id} /\ id \notin BuildRecords
  <2>1. id \notin 0 .. n0 - 1
    BY <1>3, <1>11, <1>12
  <2> QED BY <2>1, <1>1, <1>3, <1>10
<1>13. ASSUME old # {} PROVE entity \subseteq 0 .. n0 - 1
  <2>1. Owners(own) \subseteq 0 .. n0 - 1
    BY <1>1 DEF Owners
  <2>2. PICK x : x \in entity /\ x \in 0 .. n0 - 1
    BY <2>1, <1>13
  <2> QED BY <2>2, <1>10
<1> QED BY <1>8, <1>10, <1>11, <1>12, <1>13, Zenon DEF new, entity, OldOwners

(***************************************************************************)
(* The row an incremental update gives an entity.                          *)
(***************************************************************************)
NewRow(s, entity) ==
    IF OldRows(s, entity) = {} THEN Cardinality(entity)
    ELSE SumOf([old \in OldRows(s, entity) |-> s.row_marginals[old]])

(***************************************************************************)
(* All of its rows, and those that come from old ones.                     *)
(***************************************************************************)
NewRows(s, entities) == [id \in {Min(entity) : entity \in entities} |-> NewRow(s, EntityOf(entities, id))]

KnownRows(s, entities) ==
    {id \in DOMAIN NewRows(s, entities) : OldRows(s, EntityOf(entities, id)) # {}}

(***************************************************************************)
(* Some rows sum to the number of records they are of.                     *)
(***************************************************************************)
LEMMA SumOfOldRows ==
    ASSUME NEW n0 \in Nat, NEW own, IsOwner(own, n0), NEW rows, rows = RowsOf(own),
           NEW old \in SUBSET Owners(own)
    PROVE  SumOf([id \in old |-> rows[id]]) = Cardinality(Fibre(DOMAIN own, own, old))
<1> DEFINE f == [id \in old |-> rows[id]]
<1>1. IsFiniteSet(DOMAIN own) /\ IsFiniteSet(Owners(own))
  BY OwnersFinite
<1>2. IsFiniteSet(old)
  BY <1>1, FS_Subset
<1>3. \A id \in old : f[id] = Cardinality(Fibre(DOMAIN own, own, {id}))
  BY DEF RowsOf, Class
<1>4. DOMAIN f = old
  OBVIOUS
<1> HIDE DEF f
<1>5. SumOn(f, old) = Cardinality(Fibre(DOMAIN own, own, old))
  BY <1>1, <1>2, <1>3, SumOfFibres
<1>6. SumOf(f) = SumOn(f, DOMAIN f)
  BY SumOfDef, Zenon
<1> QED BY <1>4, <1>5, <1>6, Zenon DEF f

(***************************************************************************)
(* The new row is the entity's size: sums of old rows lose nothing and     *)
(* count nothing twice.                                                    *)
(***************************************************************************)
LEMMA NewRowIs ==
    ASSUME NEW events \in Hierarchical, NEW k \in 0 .. Len(events),
           NEW s, NEW n0 \in Sizes, NEW own, Follows(s, own, n0, events, k),
           NEW n \in Sizes, NEW id \in Owners(At(events, k, n))
    PROVE  /\ OldRows(s, Class(At(events, k, n), id)) = OldOwners(own, At(events, k, n), id)
           /\ NewRow(s, Class(At(events, k, n), id)) = Cardinality(Class(At(events, k, n), id))
<1> DEFINE new == At(events, k, n)
<1> DEFINE entity == Class(new, id)
<1> DEFINE old == OldOwners(own, new, id)
<1>1. IsOwner(own, n0) /\ Finer(own, n0, events, k) /\ s.row_marginals = RowsOf(own) /\ n0 \in Nat
  BY RecordsFinite DEF Follows
<1>2. DOMAIN s.row_marginals = Owners(own)
  BY <1>1 DEF RowsOf
<1>3. OldRows(s, entity) = old
  BY <1>2, Zenon DEF OldRows, OldOwners
<1>4. /\ Fibre(DOMAIN own, own, old) = entity \cap (0 .. n0 - 1)
      /\ old # {} => entity \subseteq 0 .. n0 - 1
  BY <1>1, OldOwnersAre
<1>5. old \in SUBSET Owners(own)
  BY DEF OldOwners
<1>6. SumOf([x \in old |-> s.row_marginals[x]]) = Cardinality(Fibre(DOMAIN own, own, old))
  BY <1>1, <1>5, SumOfOldRows
<1> HIDE DEF old, entity
<1>7. NewRow(s, entity) = Cardinality(entity)
  <2>1. CASE old = {}
    BY <1>3, <2>1, Zenon DEF NewRow
  <2>2. CASE old # {}
    <3>1. entity \cap (0 .. n0 - 1) = entity
      BY <1>4, <2>2
    <3>2. NewRow(s, entity) = SumOf([x \in old |-> s.row_marginals[x]])
      BY <1>3, <2>2, Zenon DEF NewRow
    <3> QED BY <3>1, <3>2, <1>4, <1>6, Zenon
  <2> QED BY <2>1, <2>2
<1> QED BY <1>3, <1>7 DEF entity, old

(***************************************************************************)
(* An incremental update is for its threshold.                             *)
(***************************************************************************)
LEMMA IncrementalThreshold ==
    ASSUME NEW s, NEW threshold, NEW entities, NEW truth_entities
    PROVE  IncrementalUpdate(s, threshold, entities, truth_entities).last_threshold = threshold
  BY DEF IncrementalUpdate

(***************************************************************************)
(* Its rows are the new rows.                                              *)
(***************************************************************************)
LEMMA IncrementalRows ==
    ASSUME NEW s, NEW threshold, NEW entities, NEW truth_entities
    PROVE  IncrementalUpdate(s, threshold, entities, truth_entities).row_marginals
            = NewRows(s, entities)
  BY DEF IncrementalUpdate, NewRows, NewRow

(***************************************************************************)
(* Its total is that of the entities.                                      *)
(***************************************************************************)
LEMMA IncrementalTotal ==
    ASSUME NEW s, NEW threshold, NEW entities, NEW truth_entities
    PROVE  IncrementalUpdate(s, threshold, entities, truth_entities).total_records
            = SumOf(Marginals(entities))
  BY DEF IncrementalUpdate

(***************************************************************************)
(* The rows are those of the partition.                                    *)
(***************************************************************************)
LEMMA RowsAfter ==
    ASSUME NEW events \in Hierarchical, NEW k \in 0 .. Len(events),
           NEW s, NEW n0 \in Sizes, NEW own, Follows(s, own, n0, events, k), NEW n \in Sizes
    PROVE  NewRows(s, Classes(At(events, k, n))) = RowsOf(At(events, k, n))
<1> DEFINE new == At(events, k, n)
<1> DEFINE entities == Classes(new)
<1>1. n \in Nat /\ IsOwner(new, n)
  BY RecordsFinite, AtIsOwner
<1>2. {Min(entity) : entity \in entities} = Owners(new)
  BY <1>1, IdsAreOwners
<1>3. \A id \in Owners(new) : EntityOf(entities, id) = Class(new, id)
  BY <1>1, EntityOfOwner
<1>4. ASSUME NEW id \in Owners(new)
      PROVE  NewRow(s, Class(new, id)) = Cardinality(Class(new, id))
  <2>1. id \in Owners(At(events, k, n))
    OBVIOUS
  <2> HIDE DEF new, entities
  <2>2. NewRow(s, Class(At(events, k, n), id)) = Cardinality(Class(At(events, k, n), id))
    BY <2>1, NewRowIs, ZenonT(40)
  <2> QED BY <2>2 DEF new
<1> HIDE DEF new, entities
<1>5. \A id \in Owners(new) : NewRow(s, EntityOf(entities, id)) = Cardinality(Class(new, id))
  BY <1>3, <1>4, Zenon
<1>6. [id \in Owners(new) |-> NewRow(s, EntityOf(entities, id))] = RowsOf(new)
  BY <1>5 DEF RowsOf
<1>7. NewRows(s, entities) = RowsOf(new)
  BY <1>2, <1>6, Zenon DEF NewRows
<1> QED BY <1>7 DEF new, entities

(***************************************************************************)
(* The old rows of an entity are found by its old owners.                  *)
(***************************************************************************)
LEMMA OldRowsAfter ==
    ASSUME NEW events \in Hierarchical, NEW k \in 0 .. Len(events),
           NEW s, NEW n0 \in Sizes, NEW own, Follows(s, own, n0, events, k),
           NEW n \in Sizes, NEW id \in Owners(At(events, k, n))
    PROVE  OldRows(s, EntityOf(Classes(At(events, k, n)), id)) = OldOwners(own, At(events, k, n), id)
<1> DEFINE new == At(events, k, n)
<1>1. n \in Nat /\ IsOwner(new, n)
  BY RecordsFinite, AtIsOwner
<1>2. EntityOf(Classes(new), id) = Class(new, id)
  BY <1>1, EntityOfOwner
<1>3. OldRows(s, Class(new, id)) = OldOwners(own, new, id)
  BY NewRowIs
<1> QED BY <1>2, <1>3, Zenon

(***************************************************************************)
(* After an incremental update the state follows the same events, with the *)
(* partition's own rows.                                                   *)
(***************************************************************************)
LEMMA IncrementFollows ==
    ASSUME NEW events \in Hierarchical, NEW k \in 0 .. Len(events),
           NEW s, NEW n0 \in Sizes, NEW own, Follows(s, own, n0, events, k),
           NEW n \in Sizes, NEW entities, entities = Classes(At(events, k, n)),
           NEW t, NEW truth_entities
    PROVE  Follows(IncrementalUpdate(s, t, entities, truth_entities), At(events, k, n), n, events, k)
<1> DEFINE new == At(events, k, n)
<1> DEFINE r == IncrementalUpdate(s, t, entities, truth_entities)
<1>1. n \in Nat /\ IsOwner(new, n) /\ Finer(new, n, events, k)
  BY RecordsFinite, AtIsOwner, AtIsFiner
<1>2. r.row_marginals = NewRows(s, entities) /\ r.total_records = SumOf(Marginals(entities))
  BY IncrementalRows, IncrementalTotal
<1>3. NewRows(s, entities) = RowsOf(new)
  <2>1. NewRows(s, Classes(At(events, k, n))) = RowsOf(At(events, k, n))
    BY RowsAfter
  <2> QED BY <2>1
<1>4. r.row_marginals = RowsOf(new)
  BY <1>2, <1>3, Zenon
<1>5. SumOf(Marginals(entities)) = n
  BY <1>1, MarginalsAreRows, SumOfRows, Zenon
<1>6. r.total_records = n
  BY <1>2, <1>5, Zenon
<1> HIDE DEF new, r
<1>7. Follows(r, new, n, events, k)
  BY <1>1, <1>4, <1>6 DEF Follows
<1> QED BY <1>7 DEF new, r

-----------------------------------------------------------------------------
(***************************************************************************)
(* The invariant about rows.                                               *)
(***************************************************************************)

(***************************************************************************)
(* No event lies on one of the second to i-th thresholds.                  *)
(***************************************************************************)
Untouched(events, thresholds, i) ==
    \A k \in DOMAIN events : events[k].threshold \notin {thresholds[j] : j \in 2 .. i}

(***************************************************************************)
(* The events after the j-th, up to the l-th.                              *)
(***************************************************************************)
Rest(events, j, l) == SubSeq(events, j + 1, l)

(***************************************************************************)
(* In a window: the events left are those after the j-th, which the state  *)
(* follows.                                                                *)
(***************************************************************************)
Window(s, own, n, events, j, l, left) ==
    /\ j \in 0 .. l /\ l \in 0 .. Len(events)
    /\ left = Rest(events, j, l)
    /\ Follows(s, own, n, events, j)

(***************************************************************************)
(* The hierarchy of the call under way.                                    *)
(***************************************************************************)
Current == hierarchy[call.collection]

(***************************************************************************)
(* A state comes from at least one collection, and during a sweep from the *)
(* sweep's alone.                                                          *)
(***************************************************************************)
SourcesKnown ==
    /\ IsFiniteSet(sources)
    /\ state # None => sources # {}
    /\ pending # <<>> => pc = "merging"
    /\ pc = "merging" => sources = {call.collection}

(***************************************************************************)
(* Between sweeps a state that one collection's calls led to follows the   *)
(* events at or above its threshold.                                       *)
(***************************************************************************)
RowsKept ==
    pc # "merging" /\ state # None =>
        \A c : sources = {c} =>
            \E n \in Sizes : \E own :
                Follows(state, own, n, hierarchy[c], Upto(hierarchy[c], state.last_threshold))

(***************************************************************************)
(* Within a window it follows those read so far, and has the very rows of  *)
(* their partition if none was passed over.                                *)
(***************************************************************************)
WindowKept ==
    pc = "merging" /\ state # None =>
        \E j \in Nat : \E own :
            /\ Window(state, own, call.records, Current, j,
                      Above(Current, call.thresholds[Len(answer) + 1]), pending)
            /\ Untouched(Current, call.thresholds, Len(answer)) => own = At(Current, j, call.records)

(***************************************************************************)
(* A sweep's answers have the rows of the partition at their threshold if  *)
(* none was passed over.                                                   *)
(***************************************************************************)
AnswersKept ==
    call.kind = "sweep" =>
        \A i \in 1 .. Len(answer) :
            answer[i] # None /\ Untouched(Current, call.thresholds, i) =>
                answer[i].row_marginals
                    = RowsOf(At(Current, Upto(Current, call.thresholds[i]), call.records))

(***************************************************************************)
(* The inductive invariant about rows.                                     *)
(***************************************************************************)
Kept == SourcesKnown /\ RowsKept /\ WindowKept /\ AnswersKept

(***************************************************************************)
(* It holds at first.                                                      *)
(***************************************************************************)
LEMMA InitKept == Init => Kept
<1> SUFFICES ASSUME Init PROVE Kept
  OBVIOUS
<1>1. SourcesKnown
  BY FS_EmptySet DEF Init, SourcesKnown
<1>2. RowsKept /\ WindowKept /\ AnswersKept
  BY DEF Init, RowsKept, WindowKept, AnswersKept, NoCall
<1> QED BY <1>1, <1>2 DEF Kept

(***************************************************************************)
(* Going down, nothing is left out between windows but the events on a     *)
(* threshold.                                                              *)
(***************************************************************************)
LEMMA UptoAbove ==
    ASSUME NEW events \in Hierarchical, NEW from \in Nat, NEW to \in Nat
    PROVE  /\ from > to => Upto(events, from) <= Above(events, to)
           /\ Above(events, to) <= Upto(events, to)
           /\ (\A k \in DOMAIN events : events[k].threshold # to)
                => Above(events, to) = Upto(events, to)
<1> DEFINE u == Upto(events, from)
<1> DEFINE v == Upto(events, to)
<1> DEFINE a == Above(events, to)
<1>1. u \in Nat /\ {k \in DOMAIN events : events[k].threshold >= from} = 1 .. u
  <2>1. u \in 0 .. Len(events)
    BY UptoIs
  <2>2. {k \in DOMAIN events : events[k].threshold >= from} = 1 .. u
    BY UptoIs
  <2>3. Len(events) \in Nat
    BY Lengths
  <2> HIDE DEF u
  <2> QED BY <2>1, <2>2, <2>3
<1>2. v \in Nat /\ {k \in DOMAIN events : events[k].threshold >= to} = 1 .. v
  <2>1. v \in 0 .. Len(events)
    BY UptoIs
  <2>2. {k \in DOMAIN events : events[k].threshold >= to} = 1 .. v
    BY UptoIs
  <2>3. Len(events) \in Nat
    BY Lengths
  <2> HIDE DEF v
  <2> QED BY <2>1, <2>2, <2>3
<1>3. a \in Nat /\ {k \in DOMAIN events : events[k].threshold > to} = 1 .. a
  <2>1. a \in 0 .. Len(events)
    BY AboveIs
  <2>2. {k \in DOMAIN events : events[k].threshold > to} = 1 .. a
    BY AboveIs
  <2>3. Len(events) \in Nat
    BY Lengths
  <2> HIDE DEF a
  <2> QED BY <2>1, <2>2, <2>3
<1>4. \A k \in DOMAIN events : events[k].threshold \in Nat
  BY EventTypes, Lengths
<1> HIDE DEF u, v, a
<1>5. \A m, n \in Nat : 1 .. m \subseteq 1 .. n => m <= n
  OBVIOUS
<1>6. from > to => 1 .. u \subseteq 1 .. a
  <2> SUFFICES ASSUME from > to, NEW k \in 1 .. u PROVE k \in 1 .. a
    OBVIOUS
  <2>1. k \in DOMAIN events /\ events[k].threshold >= from
    BY <1>1
  <2>2. events[k].threshold > to
    BY <2>1, <1>4
  <2> QED BY <2>1, <2>2, <1>3
<1>7. 1 .. a \subseteq 1 .. v
  <2> SUFFICES ASSUME NEW k \in 1 .. a PROVE k \in 1 .. v
    OBVIOUS
  <2>1. k \in DOMAIN events /\ events[k].threshold > to
    BY <1>3
  <2>2. events[k].threshold >= to
    BY <2>1, <1>4
  <2> QED BY <2>1, <2>2, <1>2
<1>8. (\A k \in DOMAIN events : events[k].threshold # to) => 1 .. v \subseteq 1 .. a
  <2> SUFFICES ASSUME \A k \in DOMAIN events : events[k].threshold # to, NEW k \in 1 .. v
               PROVE  k \in 1 .. a
    OBVIOUS
  <2>1. k \in DOMAIN events /\ events[k].threshold >= to
    BY <1>2
  <2>2. events[k].threshold > to
    BY <2>1, <1>4
  <2> QED BY <2>1, <2>2, <1>3
<1>9. from > to => u <= a
  BY <1>1, <1>3, <1>5, <1>6
<1>10. a <= v
  BY <1>2, <1>3, <1>5, <1>7
<1>11. (\A k \in DOMAIN events : events[k].threshold # to) => v <= a
  BY <1>2, <1>3, <1>5, <1>8
<1> QED BY <1>2, <1>3, <1>9, <1>10, <1>11 DEF u, v, a

(***************************************************************************)
(* A new window starts after the events the state follows.                 *)
(***************************************************************************)
LEMMA WindowOpens ==
    ASSUME NEW events \in Hierarchical, NEW from \in Nat, NEW to \in Nat, from > to,
           NEW s, NEW own, NEW n, Follows(s, own, n, events, Upto(events, from))
    PROVE  Window(s, own, n, events, Upto(events, from), Above(events, to),
                  MergeEventsBetween(events, from, to))
<1>1. Upto(events, from) \in Nat /\ Above(events, to) \in 0 .. Len(events)
  <2>1. Upto(events, from) \in 0 .. Len(events)
    BY UptoIs
  <2>2. Above(events, to) \in 0 .. Len(events)
    BY AboveIs
  <2> QED BY <2>1, <2>2
<1>2. Upto(events, from) <= Above(events, to)
  BY UptoAbove
<1>3. MergeEventsBetween(events, from, to) = SubSeq(events, Upto(events, from) + 1, Above(events, to))
  BY WindowIs
<1>4. Upto(events, from) \in 0 .. Above(events, to)
  BY <1>1, <1>2
<1> QED BY <1>1, <1>3, <1>4, Zenon DEF Window, Rest

(***************************************************************************)
(* When no event is left all of the window's have been read.               *)
(***************************************************************************)
LEMMA WindowEmpties ==
    ASSUME NEW events \in Hierarchical, NEW s, NEW own, NEW n, NEW j, NEW l, NEW left,
           Window(s, own, n, events, j, l, left)
    PROVE  left = <<>> <=> j = l
<1>1. j \in 0 .. l /\ l \in 0 .. Len(events) /\ left = SubSeq(events, j + 1, l) /\ Len(events) \in Nat
      /\ events \in Seq(MergeEvent) /\ DOMAIN events = 1 .. Len(events)
  BY Lengths DEF Window, Rest
<1>2. CASE j = l
  <2>1. SubSeq(events, j + 1, l) = <<>>
    BY <1>1, <1>2, SubSeqEmpty
  <2> QED BY <2>1, <1>1, <1>2
<1>3. CASE j # l
  <2>1. j + 1 \in 1 .. Len(events) /\ l \in j + 1 .. Len(events)
    BY <1>1, <1>3
  <2>2. Len(left) = l - (j + 1) + 1
    <3>1. \A i \in j + 1 .. l : events[i] \in MergeEvent
      BY <2>1, <1>1
    <3> QED BY <3>1, <2>1, <1>1, SubSeqProperties
  <2>3. left # <<>>
    BY <2>1, <2>2, <1>1
  <2> QED BY <2>1, <2>3, <1>3
<1> QED BY <1>2, <1>3

(***************************************************************************)
(* The next event of a window.                                             *)
(***************************************************************************)
LEMMA WindowAdvances ==
    ASSUME NEW events \in Hierarchical, NEW s, NEW own, NEW n, NEW j, NEW l, NEW left,
           Window(s, own, n, events, j, l, left), left # <<>>, NEW k, k = j + 1
    PROVE  /\ k \in 1 .. l
           /\ Head(left) = events[k]
           /\ Tail(left) = Rest(events, k, l)
<1>1. j \in 0 .. l /\ l \in 0 .. Len(events) /\ left = SubSeq(events, j + 1, l) /\ Len(events) \in Nat
      /\ events \in Seq(MergeEvent)
  BY Lengths DEF Window, Rest
<1>2. j # l
  BY WindowEmpties
<1>3. k \in 1 .. Len(events) /\ l \in k .. Len(events) /\ k \in 1 .. l
  BY <1>1, <1>2
<1>4. Head(left) = events[k] /\ Tail(left) = SubSeq(events, k + 1, l)
  BY <1>1, <1>3, HeadTailOfSubSeq
<1> QED BY <1>3, <1>4 DEF Rest

(***************************************************************************)
(* A lower threshold has more events above it.                             *)
(***************************************************************************)
LEMMA UptoLater ==
    ASSUME NEW events \in Hierarchical, NEW from \in Nat, NEW to \in Nat, from >= to
    PROVE  Upto(events, to) \in 0 .. Len(events) /\ Upto(events, from) \in 0 .. Upto(events, to)
<1> DEFINE u == Upto(events, from)
<1> DEFINE v == Upto(events, to)
<1>1. u \in 0 .. Len(events)
  BY UptoIs
<1>2. v \in 0 .. Len(events)
  BY UptoIs
<1>3. from > to => u <= Above(events, to)
  BY UptoAbove
<1>4. Above(events, to) \in 0 .. Len(events)
  BY AboveIs
<1>5. Above(events, to) <= v
  BY UptoAbove
<1>6. Len(events) \in Nat
  BY Lengths
<1> HIDE DEF u, v
<1>7. from = to => u = v
  BY Zenon DEF u, v
<1> QED BY <1>1, <1>2, <1>3, <1>4, <1>5, <1>6, <1>7 DEF u, v

(***************************************************************************)
(* A new state is kept or spilled, never changed.                          *)
(***************************************************************************)
LEMMA BuiltKeptOrSpilled ==
    ASSUME NEW built, KeepOrSpill(built), state' # None
    PROVE  state' = built
  BY DEF KeepOrSpill

(***************************************************************************)
(* Each collection's events are a hierarchy's.                             *)
(***************************************************************************)
LEMMA HierarchyIs ==
    ASSUME hierarchy \in [Collections -> EventLists], NEW c \in Collections
    PROVE  hierarchy[c] \in Hierarchical
  BY EventListsHierarchical

(***************************************************************************)
(* A state built from a partition of a collection follows its events.      *)
(***************************************************************************)
LEMMA BuiltFollows ==
    ASSUME Typed, NEW c \in Collections, NEW t \in Thresholds, NEW n \in Sizes, NEW entities2
    PROVE  LET events == hierarchy[c]
               s == BuildInitialState(t, Partition(c, t, n), entities2)
           IN  /\ Follows(s, At(events, Upto(events, t), n), n, events, Upto(events, t))
               /\ s.last_threshold = t
               /\ s.col_marginals = Marginals(entities2)
<1>1. hierarchy[c] \in Hierarchical /\ t \in Nat /\ n \in Nat
  BY HierarchyIs, ThresholdsAssumption, RecordsFinite DEF Typed
<1>2. Partition(c, t, n) = Classes(At(hierarchy[c], Upto(hierarchy[c], t), n))
  BY PartitionIs DEF Typed
<1> QED BY <1>1, <1>2, BuildFollows, BuildParts

(***************************************************************************)
(* A sweep's first state keeps the invariant, whichever state there was    *)
(* before.                                                                 *)
(***************************************************************************)
LEMMA SweepKept ==
    ASSUME Typed, Kept, NEW c \in Collections, NEW args \in SweepArguments, NEW n \in Sizes,
           NEW thresholds \in Swept[args], Sweep(c, thresholds, n)
    PROVE  Kept'
<1> DEFINE t == thresholds[1]
<1> DEFINE events == hierarchy[c]
<1> DEFINE built == BuildInitialState(t, Partition(c, t, n), {})
<1> DEFINE own == At(events, Upto(events, t), n)
<1>1. thresholds \in Seq(Thresholds) /\ Descends(thresholds)
  BY SweepDescends DEF Descends
<1>1a. thresholds # <<>>
  BY SweepDescends
<1>2. /\ KeepOrSpill(built) /\ sources' = {c} /\ answer' = <<state'>>
      /\ Proceed(c, thresholds, 1)
      /\ call' = [kind |-> "sweep", collection |-> c, thresholds |-> thresholds, truth |-> None,
                  records |-> n, truth_records |-> n]
      /\ hierarchy' = hierarchy
  BY Zenon DEF Sweep, Begin
<1>3. Len(thresholds) \in Nat /\ Len(thresholds) >= 1 /\ \A i \in 1 .. Len(thresholds) : thresholds[i] \in Thresholds
  BY <1>1, <1>1a
<1>4. t \in Thresholds /\ t \in Nat /\ events \in Hierarchical
  <2>1. 1 \in 1 .. Len(thresholds)
    BY <1>3
  <2>2. t \in Thresholds /\ t \in Nat
    BY <2>1, <1>3, ThresholdsAssumption
  <2>3. events \in Hierarchical
    BY HierarchyIs DEF Typed
  <2> QED BY <2>2, <2>3
<1>5. Follows(built, own, n, events, Upto(events, t)) /\ built.last_threshold = t
  BY <1>4, BuiltFollows
<1>6. state' # None => state' = built
  BY <1>2, BuiltKeptOrSpilled
<1>7. /\ call'.kind = "sweep" /\ call'.collection = c /\ call'.thresholds = thresholds
      /\ call'.records = n /\ Current' = events /\ hierarchy'[c] = events
  BY <1>2 DEF Current
<1>8. Len(answer') = 1 /\ answer'[1] = state'
  BY <1>2
<1>9. /\ 1 < Len(thresholds) => /\ pending' = MergeEventsBetween(events, t, thresholds[2])
                                /\ pc' = "merging"
      /\ ~(1 < Len(thresholds)) => pending' = <<>> /\ pc' = "idle"
  BY <1>2 DEF Proceed
<1>10. IsFiniteSet({c})
  BY FS_Singleton
<1> HIDE DEF built, own, t, events
<1>11. SourcesKnown'
  BY <1>2, <1>7, <1>9, <1>10 DEF SourcesKnown
<1>12. RowsKept'
  <2> SUFFICES ASSUME state' # None, NEW d, sources' = {d}
               PROVE  \E m \in Sizes : \E o :
                        Follows(state', o, m, hierarchy'[d], Upto(hierarchy'[d], state'.last_threshold))
    BY DEF RowsKept
  <2>1. d = c
    BY <1>2
  <2>2. Follows(state', own, n, hierarchy'[d], Upto(hierarchy'[d], state'.last_threshold))
    BY <2>1, <1>5, <1>6, <1>7, Zenon
  <2> QED BY <2>2
<1>13. WindowKept'
  <2> SUFFICES ASSUME pc' = "merging", state' # None
               PROVE  \E j \in Nat : \E o :
            /\ Window(state', o, call'.records, Current', j,
                      Above(Current', call'.thresholds[Len(answer') + 1]), pending')
            /\ Untouched(Current', call'.thresholds, Len(answer')) => o = At(Current', j, call'.records)
    BY DEF WindowKept
  <2>1. 1 < Len(thresholds) /\ pending' = MergeEventsBetween(events, t, thresholds[2])
    BY <1>9
  <2>2. 1 \in 1 .. Len(thresholds) /\ 2 \in 1 .. Len(thresholds)
    BY <2>1, <1>3
  <2>3. thresholds[2] \in Nat /\ t > thresholds[2]
    <3>1. thresholds[2] \in Nat
      BY <2>2, <1>3, ThresholdsAssumption
    <3>2. thresholds[1] > thresholds[2]
      BY <2>2, <1>1 DEF Descends
    <3> QED BY <3>1, <3>2 DEF t
  <2>4. Window(built, own, n, events, Upto(events, t), Above(events, thresholds[2]), pending')
    BY <2>1, <2>3, <1>4, <1>5, WindowOpens
  <2>5. Upto(events, t) \in Nat
    <3>1. Upto(events, t) \in 0 .. Len(events)
      BY <1>4, UptoIs
    <3> QED BY <3>1
  <2>6. call'.thresholds[Len(answer') + 1] = thresholds[2]
    BY <1>7, <1>8
  <2>7. own = At(Current', Upto(events, t), call'.records)
    BY <1>7 DEF own
  <2>8. Window(state', own, call'.records, Current', Upto(events, t),
               Above(Current', call'.thresholds[Len(answer') + 1]), pending')
    BY <2>4, <2>6, <1>6, <1>7, Zenon
  <2> QED BY <2>5, <2>7, <2>8
<1>14. AnswersKept'
  <2> SUFFICES ASSUME NEW i \in 1 .. Len(answer'), answer'[i] # None
               PROVE  answer'[i].row_marginals
                        = RowsOf(At(Current', Upto(Current', call'.thresholds[i]), call'.records))
    BY DEF AnswersKept
  <2>1. i = 1
    BY <1>8
  <2>2. answer'[i] = built /\ call'.thresholds[i] = t
    BY <2>1, <1>6, <1>7, <1>8 DEF t
  <2>3. built.row_marginals = RowsOf(own)
    BY <1>5 DEF Follows
  <2> QED BY <2>2, <2>3, <1>7, Zenon DEF own
<1> QED BY <1>11, <1>12, <1>13, <1>14 DEF Kept

(***************************************************************************)
(* So does a merge event: its two rows are there, and become one.          *)
(***************************************************************************)
LEMMA ApplyKept ==
    ASSUME Typed, Kept, ApplyMergeEvent
    PROVE  Kept'
<1> DEFINE e == Head(pending)
<1> DEFINE p == e.parent_id
<1> DEFINE c == Min(e.child_nodes)
<1> DEFINE n == call.records
<1> DEFINE l == Above(Current, call.thresholds[Len(answer) + 1])
<1>1. /\ pc = "merging" /\ state # None /\ pending # <<>>
      /\ state' = [state EXCEPT !.row_marginals = MergeRows(state.row_marginals, p, c)]
      /\ pending' = Tail(pending)
      /\ UNCHANGED <<hierarchy, is_spilled, sources, call, answer, pc>>
  BY DEF ApplyMergeEvent
<1>2. /\ state \in DeltaState /\ call.kind = "sweep" /\ Current \in Hierarchical
      /\ n \in Sizes /\ n \in Nat
  BY <1>1, HierarchyIs, RecordsFinite DEF Typed, CallTyped, Current
<1>2a. PICK j \in Nat :
        \E own :
            /\ Window(state, own, n, Current, j, l, pending)
            /\ Untouched(Current, call.thresholds, Len(answer)) => own = At(Current, j, n)
  BY <1>1 DEF Kept, WindowKept
<1>3. PICK own :
            /\ Window(state, own, n, Current, j, l, pending)
            /\ Untouched(Current, call.thresholds, Len(answer)) => own = At(Current, j, n)
  BY <1>2a
<1> DEFINE k == j + 1
<1>4. k \in 1 .. l /\ e = Current[k] /\ Tail(pending) = Rest(Current, k, l)
  <2> HIDE DEF l, e, n
  <2>1. Window(state, own, n, Current, j, l, pending)
    BY <1>3
  <2>2. Current \in Hierarchical /\ pending # <<>>
    BY <1>1, <1>2
  <2> HIDE DEF k
  <2>3. k = j + 1
    BY DEF k
  <2>4. /\ k \in 1 .. l
        /\ Head(pending) = Current[k]
        /\ Tail(pending) = Rest(Current, k, l)
    BY <2>1, <2>2, <2>3, WindowAdvances
  <2> QED BY <2>4 DEF e
<1>5. l \in 0 .. Len(Current) /\ Follows(state, own, n, Current, j)
  BY <1>3 DEF Window
<1>6. j + 1 \in 1 .. Len(Current)
  BY <1>4, <1>5, <1>2, Lengths
<1>7. IsOwner(own, n) /\ Finer(own, n, Current, j) /\ state.row_marginals = RowsOf(own) /\ state.total_records = n
  BY <1>5 DEF Follows
<1> DEFINE new == Merged(own, p, c)
<1>8. /\ p \in Owners(own) /\ c \in Owners(own) /\ p < c
      /\ Finer(new, n, Current, j + 1)
      /\ own = At(Current, j, n) => new = At(Current, j + 1, n)
  BY <1>2, <1>4, <1>6, <1>7, MergeFollows
<1> HIDE DEF p, c
<1>9. IsOwner(new, n) /\ RowsOf(new) = MergeRows(state.row_marginals, p, c)
  <2>1. IsOwner(new, n) /\ RowsOf(new) = MergeRows(RowsOf(own), p, c)
    BY <1>2, <1>7, <1>8, MergedOwners
  <2> QED BY <2>1, <1>7, Zenon
<1> HIDE DEF new, e, l, n
<1>10. /\ state'.row_marginals = RowsOf(new) /\ state'.total_records = n
       /\ state'.last_threshold = state.last_threshold
  BY <1>1, <1>2, <1>7, <1>9 DEF DeltaState
<1>11. Follows(state', new, n, Current, j + 1)
  BY <1>8, <1>9, <1>10 DEF Follows
<1>12. j + 1 \in 0 .. l /\ j + 1 \in Nat
  BY <1>4
<1>13. Window(state', new, n, Current, k, l, pending')
  BY <1>1, <1>4, <1>5, <1>11, <1>12 DEF Window
<1>14. n' = n /\ l' = l /\ Current' = Current /\ call' = call /\ answer' = answer /\ pc' = pc
       /\ sources' = sources
  BY <1>1 DEF n, l, Current
<1>15. SourcesKnown'
  BY <1>1, <1>14 DEF Kept, SourcesKnown
<1>16. RowsKept'
  BY <1>1, <1>14 DEF RowsKept
<1>17. WindowKept'
  <2> SUFFICES \E m \in Nat : \E o :
            /\ Window(state', o, call'.records, Current', m,
                      Above(Current', call'.thresholds[Len(answer') + 1]), pending')
            /\ Untouched(Current', call'.thresholds, Len(answer')) => o = At(Current', m, call'.records)
    BY DEF WindowKept
  <2>1. Untouched(Current, call.thresholds, Len(answer)) => new = At(Current, j + 1, n)
    BY <1>3, <1>8
  <2>2. \E m \in Nat : \E o :
            /\ Window(state', o, n, Current, m, l, pending')
            /\ Untouched(Current, call.thresholds, Len(answer)) => o = At(Current, m, n)
    BY <2>1, <1>12, <1>13
  <2> QED BY <2>2, <1>14, Zenon DEF n, l
<1>18. AnswersKept'
  BY <1>14 DEF Kept, AnswersKept
<1> QED BY <1>15, <1>16, <1>17, <1>18 DEF Kept

(***************************************************************************)
(* What was not passed over later was not before.                          *)
(***************************************************************************)
LEMMA UntouchedEarlier ==
    ASSUME NEW events, NEW thresholds, NEW i \in Nat, Untouched(events, thresholds, i)
    PROVE  /\ i # 0 => Untouched(events, thresholds, i - 1)
           /\ i >= 2 => \A k \in DOMAIN events : events[k].threshold # thresholds[i]
  BY DEF Untouched

(***************************************************************************)
(* So does the end of a window: if no event lies on its lower threshold    *)
(* the state has all the rows of the partition there.                      *)
(***************************************************************************)
LEMMA EndKept ==
    ASSUME Typed, Kept, EndWindow
    PROVE  Kept'
<1> DEFINE thresholds == call.thresholds
<1> DEFINE i == Len(answer) + 1
<1> DEFINE t == thresholds[i]
<1> DEFINE n == call.records
<1> DEFINE events == Current
<1>1. /\ pc = "merging" /\ state # None /\ pending = <<>>
      /\ state' = [state EXCEPT !.last_threshold = t,
                                !.sum_row_combinations = CombinationSum(state.row_marginals)]
      /\ answer' = Append(answer, state')
      /\ Proceed(call.collection, thresholds, i)
      /\ UNCHANGED <<hierarchy, is_spilled, sources, call>>
  BY DEF EndWindow
<1>2. /\ state \in DeltaState /\ call.kind = "sweep" /\ call.collection \in Collections
      /\ n \in Sizes /\ n \in Nat /\ Descends(thresholds)
      /\ answer \in Seq(DeltaState \cup {None})
  BY <1>1, RecordsFinite DEF Typed, CallTyped
<1>3. events \in Hierarchical
  BY <1>2, HierarchyIs DEF Typed, Current
<1>4. /\ Len(thresholds) \in Nat /\ Len(answer) \in Nat /\ i \in 2 .. Len(thresholds) /\ i - 1 = Len(answer)
      /\ \A j \in 1 .. Len(thresholds) : thresholds[j] \in Thresholds /\ thresholds[j] \in Nat
  <2>1. thresholds \in Seq(Thresholds)
    BY DEF Typed, CallTyped
  <2>2. Len(answer) \in 1 .. Len(thresholds) - 1
    BY <1>1 DEF Typed
  <2>3. \A j \in 1 .. Len(thresholds) : thresholds[j] \in Thresholds /\ thresholds[j] \in Nat
    <3> HIDE DEF thresholds
    <3>1. \A j \in 1 .. Len(thresholds) : thresholds[j] \in Thresholds
      BY <2>1
    <3> QED BY <3>1, ThresholdsAssumption
  <2>4. Len(thresholds) \in Nat /\ Len(answer) \in Nat
    <3> HIDE DEF thresholds
    <3>1. Len(thresholds) \in Nat
      BY <2>1
    <3>2. Len(answer) \in Nat
      BY <1>2
    <3> QED BY <3>1, <3>2
  <2> HIDE DEF thresholds
  <2> QED BY <2>2, <2>3, <2>4
<1>5. t \in Thresholds /\ t \in Nat
  BY <1>4
<1> DEFINE a == Above(events, t)
<1> DEFINE u == Upto(events, t)
<1>5a. PICK j \in Nat :
        \E own :
            /\ Window(state, own, n, events, j, a, pending)
            /\ Untouched(events, thresholds, Len(answer)) => own = At(events, j, n)
  BY <1>1 DEF Kept, WindowKept
<1>6. PICK own :
            /\ Window(state, own, n, events, j, a, pending)
            /\ Untouched(events, thresholds, Len(answer)) => own = At(events, j, n)
  BY <1>5a
<1> HIDE DEF thresholds, i, n, events, a, u, t
<1>7. j = a
  BY <1>1, <1>3, <1>6, WindowEmpties
<1>8. Follows(state, own, n, events, a)
  BY <1>6, <1>7 DEF Window
<1>9. u \in 0 .. Len(events) /\ a \in 0 .. u /\ u \in Nat
  <2>1. u \in 0 .. Len(events)
    BY <1>3, <1>5, UptoIs DEF u
  <2>2. a \in 0 .. Len(events)
    BY <1>3, <1>5, AboveIs DEF a
  <2>3. a <= u
    BY <1>3, <1>5, UptoAbove DEF a, u
  <2> QED BY <2>1, <2>2, <2>3
<1>10. Follows(state, own, n, events, u)
  BY <1>2, <1>3, <1>8, <1>9, FollowsLater
<1>11. /\ state'.row_marginals = state.row_marginals /\ state'.total_records = state.total_records
       /\ state'.last_threshold = t
  BY <1>1, <1>2 DEF DeltaState
<1>12. Follows(state', own, n, events, u)
  BY <1>10, <1>11 DEF Follows
<1>13. Untouched(events, thresholds, i) => own = At(events, u, n)
  <2> SUFFICES ASSUME Untouched(events, thresholds, i) PROVE own = At(events, u, n)
    OBVIOUS
  <2>1. Untouched(events, thresholds, Len(answer)) /\ \A k \in DOMAIN events : events[k].threshold # t
    <3>1. i \in Nat /\ i # 0 /\ i >= 2
      BY <1>4
    <3> QED BY <3>1, <1>4, UntouchedEarlier DEF t
  <2>2. a = u
    BY <2>1, <1>3, <1>5, UptoAbove DEF a, u
  <2> QED BY <2>1, <2>2, <1>6, <1>7
<1>14. /\ Len(answer') = i /\ answer'[i] = state'
       /\ \A k \in 1 .. Len(answer) : answer'[k] = answer[k]
  <2>1. state' \in DeltaState
    BY EndTyped
  <2> QED BY <2>1, <1>1, <1>2, <1>4 DEF i
<1>15. /\ call' = call /\ Current' = Current /\ hierarchy' = hierarchy /\ sources' = sources
  BY <1>1 DEF Current
<1>16. /\ call'.thresholds = thresholds /\ call'.records = n /\ Current' = events
       /\ call'.kind = "sweep" /\ hierarchy[call.collection] = events
  BY <1>2, <1>15 DEF thresholds, n, events, Current
<1>17. /\ i < Len(thresholds) =>
            /\ pending' = MergeEventsBetween(events, t, thresholds[i + 1])
            /\ pc' = "merging"
       /\ ~(i < Len(thresholds)) => pending' = <<>> /\ pc' = "idle"
  BY <1>1, <1>16 DEF Proceed, t
<1>18. SourcesKnown'
  BY <1>1, <1>15, <1>17 DEF Kept, SourcesKnown
<1>19. RowsKept'
  <2> SUFFICES ASSUME state' # None, NEW d, sources' = {d}
               PROVE  \E m \in Sizes : \E o :
                        Follows(state', o, m, hierarchy'[d], Upto(hierarchy'[d], state'.last_threshold))
    BY DEF RowsKept
  <2>1. d = call.collection
    BY <1>1, <1>15 DEF Kept, SourcesKnown
  <2>2. Upto(hierarchy'[d], state'.last_threshold) = u /\ hierarchy'[d] = events
    BY <2>1, <1>11, <1>15, <1>16, Zenon DEF u
  <2> QED BY <2>2, <1>2, <1>12
<1>20. WindowKept'
  <2> SUFFICES ASSUME pc' = "merging"
               PROVE  \E k \in Nat : \E o :
            /\ Window(state', o, call'.records, Current', k,
                      Above(Current', call'.thresholds[Len(answer') + 1]), pending')
            /\ Untouched(Current', call'.thresholds, Len(answer')) => o = At(Current', k, call'.records)
    BY DEF WindowKept
  <2>1. i < Len(thresholds) /\ pending' = MergeEventsBetween(events, t, thresholds[i + 1])
    BY <1>17
  <2>2. i \in 1 .. Len(thresholds) /\ i + 1 \in 1 .. Len(thresholds) /\ i < i + 1
    BY <2>1, <1>4
  <2>3. thresholds[i + 1] \in Nat
    BY <2>2, <1>4
  <2>4. t > thresholds[i + 1]
    BY <2>2, <1>2 DEF Descends, t
  <2>5. Window(state', own, n, events, u, Above(events, thresholds[i + 1]), pending')
    BY <2>1, <2>3, <2>4, <1>3, <1>5, <1>12, WindowOpens DEF u
  <2>6. Window(state', own, call'.records, Current', u,
               Above(Current', call'.thresholds[Len(answer') + 1]), pending')
    BY <2>5, <1>14, <1>16, Zenon
  <2>7. Untouched(Current', call'.thresholds, Len(answer')) => own = At(Current', u, call'.records)
    BY <1>13, <1>14, <1>16, Zenon
  <2> QED BY <2>6, <2>7, <1>9
<1>21. AnswersKept'
  <2> SUFFICES ASSUME NEW k \in 1 .. Len(answer'), answer'[k] # None,
                      Untouched(Current', call'.thresholds, k)
               PROVE  answer'[k].row_marginals
                        = RowsOf(At(Current', Upto(Current', call'.thresholds[k]), call'.records))
    BY DEF AnswersKept
  <2>1. CASE k = i
    <3>1. answer'[k].row_marginals = RowsOf(own)
      BY <2>1, <1>10, <1>11, <1>14 DEF Follows
    <3>2. own = At(events, u, n)
      BY <2>1, <1>13, <1>16
    <3> QED BY <2>1, <3>1, <3>2, <1>16, Zenon DEF u, t
  <2>2. CASE k # i
    <3>1. k \in 1 .. Len(answer)
      BY <2>2, <1>4, <1>14
    <3>2. answer'[k] = answer[k] /\ answer[k] # None /\ Untouched(Current, call.thresholds, k)
      BY <3>1, <1>14, <1>15
    <3>3. answer[k].row_marginals
            = RowsOf(At(Current, Upto(Current, call.thresholds[k]), call.records))
      BY <3>1, <3>2, <1>2 DEF Kept, AnswersKept
    <3> QED BY <3>2, <3>3, <1>15
  <2> QED BY <2>1, <2>2
<1> QED BY <1>18, <1>19, <1>20, <1>21 DEF Kept

(***************************************************************************)
(* So does a sweep that finds its state gone.                              *)
(***************************************************************************)
LEMMA UnwrapKept ==
    ASSUME Typed, Kept, SweepUnwrapsNone
    PROVE  Kept'
<1>1. /\ pc' = "panicked" /\ answer' = <<>> /\ pending' = <<>> /\ state = None
      /\ UNCHANGED <<hierarchy, state, is_spilled, sources, call>>
  BY DEF SweepUnwrapsNone
<1>2. SourcesKnown'
  BY <1>1 DEF Kept, SourcesKnown
<1>3. RowsKept' /\ WindowKept'
  BY <1>1 DEF RowsKept, WindowKept
<1>4. AnswersKept'
  BY <1>1 DEF AnswersKept
<1> QED BY <1>2, <1>3, <1>4 DEF Kept

(***************************************************************************)
(* So does a comparison that panics and leaves the state.                  *)
(***************************************************************************)
LEMMA PanicsKept ==
    ASSUME Typed, Kept, NEW c \in Collections, NEW threshold \in Thresholds, NEW truth \in Truths,
           NEW n \in Sizes, NEW m \in Sizes, ComparePanics(c, threshold, truth, n, m)
    PROVE  Kept'
<1>1. /\ pc # "merging" /\ pc' = "panicked" /\ hierarchy' = hierarchy /\ pending' = <<>>
      /\ UNCHANGED <<state, is_spilled, sources>> /\ call'.kind = "compare"
  BY DEF ComparePanics, Comparison, Begin
<1>2. SourcesKnown'
  BY <1>1 DEF Kept, SourcesKnown
<1>3. RowsKept' /\ WindowKept' /\ AnswersKept'
  BY <1>1 DEF Kept, RowsKept, WindowKept, AnswersKept
<1> QED BY <1>2, <1>3 DEF Kept

(***************************************************************************)
(* So does one that rebuilds.                                              *)
(***************************************************************************)
LEMMA RebuildsKept ==
    ASSUME Typed, Kept, NEW c \in Collections, NEW threshold \in Thresholds, NEW truth \in Truths,
           NEW n \in Sizes, NEW m \in Sizes, CompareRebuilds(c, threshold, truth, n, m)
    PROVE  Kept'
<1> DEFINE built == BuildInitialState(threshold, Partition(c, threshold, n), Partition(c, truth, m))
<1> DEFINE u == Upto(hierarchy[c], threshold)
<1>1. /\ pc' = "idle" /\ hierarchy' = hierarchy /\ pending' = <<>> /\ sources' = {c}
      /\ KeepOrSpill(built) /\ call'.kind = "compare"
  BY DEF CompareRebuilds, Comparison, Begin
<1>2. Follows(built, At(hierarchy[c], u, n), n, hierarchy[c], u) /\ built.last_threshold = threshold
  BY BuiltFollows
<1> HIDE DEF built
<1>3. state' # None => state' = built
  BY <1>1, BuiltKeptOrSpilled
<1>4. IsFiniteSet({c})
  BY FS_Singleton
<1>5. SourcesKnown'
  BY <1>1, <1>4 DEF SourcesKnown
<1>6. RowsKept'
  <2> SUFFICES ASSUME state' # None, NEW d, sources' = {d}
               PROVE  \E k \in Sizes : \E o :
                        Follows(state', o, k, hierarchy'[d], Upto(hierarchy'[d], state'.last_threshold))
    BY DEF RowsKept
  <2>1. d = c
    BY <1>1
  <2>2. Follows(state', At(hierarchy[c], u, n), n, hierarchy'[d],
                Upto(hierarchy'[d], state'.last_threshold))
    BY <2>1, <1>1, <1>2, <1>3, Zenon
  <2> QED BY <2>2
<1>7. WindowKept' /\ AnswersKept'
  BY <1>1 DEF WindowKept, AnswersKept
<1> QED BY <1>5, <1>6, <1>7 DEF Kept

(***************************************************************************)
(* A state that only one collection's calls led to was not updated         *)
(* upwards.                                                                *)
(***************************************************************************)
LEMMA IncrementDescends ==
    ASSUME Typed, Kept, NEW c \in Collections, NEW threshold \in Thresholds, NEW truth \in Truths,
           NEW n \in Sizes, NEW m \in Sizes, CompareIncrements(c, threshold, truth, n, m),
           NEW d, sources' = {d}
    PROVE  /\ d = c /\ sources = {c}
           /\ state.last_threshold \in Nat /\ state.last_threshold >= threshold
<1>1. /\ sources' = sources \cup {c} \cup (IF Drop(threshold) < 0 THEN {Upward} ELSE {})
      /\ state # None
  BY DEF CompareIncrements
<1>2. d = c /\ sources \subseteq {c}
  BY <1>1
<1>3. sources = {c}
  BY <1>1, <1>2 DEF Kept, SourcesKnown
<1>4. ~(Drop(threshold) < 0)
  BY <1>1, <1>2, CollectionsAssumption
<1>5. state.last_threshold \in Nat /\ threshold \in Nat
  <2>1. state \in DeltaState
    BY <1>1 DEF Typed
  <2> QED BY <2>1, StateParts, ThresholdsAssumption
<1>6. state.last_threshold >= threshold
  BY <1>4, <1>5 DEF Drop
<1> QED BY <1>2, <1>3, <1>5, <1>6

(***************************************************************************)
(* So does one that updates a state whose rows may be finer than those of  *)
(* its threshold.                                                          *)
(***************************************************************************)
LEMMA IncrementsKept ==
    ASSUME Typed, Kept, NEW c \in Collections, NEW threshold \in Thresholds, NEW truth \in Truths,
           NEW n \in Sizes, NEW m \in Sizes, CompareIncrements(c, threshold, truth, n, m)
    PROVE  Kept'
<1> DEFINE entities == Partition(c, threshold, n)
<1> DEFINE truth_entities == Partition(c, truth, m)
<1> DEFINE events == hierarchy[c]
<1> DEFINE u == Upto(events, threshold)
<1>1. /\ pc # "merging" /\ pc' = "idle" /\ hierarchy' = hierarchy /\ pending' = <<>>
      /\ state # None /\ call'.kind = "compare"
      /\ sources' = sources \cup {c} \cup (IF Drop(threshold) < 0 THEN {Upward} ELSE {})
      /\ state' = IncrementalUpdate(state, threshold, entities, truth_entities)
  BY Zenon DEF CompareIncrements, Comparison, Begin
<1>2. IsFiniteSet(sources') /\ sources' # {}
  <2>1. IsFiniteSet(sources \cup {c})
    BY FS_AddElement DEF Kept, SourcesKnown
  <2>2. IsFiniteSet((sources \cup {c}) \cup {Upward})
    BY <2>1, FS_AddElement
  <2> QED BY <2>1, <2>2, <1>1
<1>3. SourcesKnown'
  BY <1>1, <1>2 DEF SourcesKnown
<1>4. RowsKept'
  <2> SUFFICES ASSUME NEW d, sources' = {d}
               PROVE  \E k \in Sizes : \E o :
                        Follows(state', o, k, hierarchy'[d], Upto(hierarchy'[d], state'.last_threshold))
    BY DEF RowsKept
  <2>1. d = c /\ sources = {c}
    BY IncrementDescends
  <2> DEFINE v == Upto(events, state.last_threshold)
  <2>1a. PICK n0 \in Sizes : \E own : Follows(state, own, n0, events, v)
    BY <2>1, <1>1 DEF Kept, RowsKept
  <2>2. PICK own : Follows(state, own, n0, events, v)
    BY <2>1a
  <2>3. /\ events \in Hierarchical /\ threshold \in Nat
        /\ state.last_threshold \in Nat /\ state.last_threshold >= threshold
    BY IncrementDescends, HierarchyIs, ThresholdsAssumption DEF Typed
  <2>4. entities = Classes(At(events, u, n))
    BY PartitionIs DEF Typed
  <2> HIDE DEF entities, truth_entities, events
  <2>5. u \in 0 .. Len(events) /\ v \in 0 .. u
    BY <2>3, UptoLater
  <2> HIDE DEF u, v
  <2>6. Follows(state, own, n0, events, u)
    BY <2>2, <2>3, <2>5, FollowsLater, RecordsFinite
  <2>7. Follows(state', At(events, u, n), n, events, u)
    BY <2>3, <2>4, <2>5, <2>6, <1>1, IncrementFollows, Zenon
  <2>8. state'.last_threshold = threshold
    <3>1. IncrementalUpdate(state, threshold, entities, truth_entities).last_threshold = threshold
      BY IncrementalThreshold
    <3> QED BY <3>1, <1>1, Zenon
  <2>9. Follows(state', At(events, u, n), n, hierarchy'[d], Upto(hierarchy'[d], state'.last_threshold))
    BY <2>1, <2>7, <2>8, <1>1, Zenon DEF u, events
  <2> QED BY <2>9
<1>5. WindowKept' /\ AnswersKept'
  BY <1>1 DEF WindowKept, AnswersKept
<1> QED BY <1>3, <1>4, <1>5 DEF Kept

(***************************************************************************)
(* Every step keeps the invariant.                                         *)
(***************************************************************************)
LEMMA NextKept == Typed /\ Kept /\ [Next]_vars => Kept'
<1> SUFFICES ASSUME Typed, Kept, [Next]_vars PROVE Kept'
  OBVIOUS
<1>1. CASE \E c \in Collections, args \in SweepArguments, n \in Sizes :
                \E thresholds \in Swept[args] : Sweep(c, thresholds, n)
  BY <1>1, SweepKept
<1>2. CASE ApplyMergeEvent
  BY <1>2, ApplyKept
<1>3. CASE EndWindow
  BY <1>3, EndKept
<1>4. CASE SweepUnwrapsNone
  BY <1>4, UnwrapKept
<1>5. CASE \E c \in Collections, threshold \in Points, truth \in Truths, n, m \in Sizes :
                \/ ComparePanics(c, threshold, truth, n, m)
                \/ CompareRebuilds(c, threshold, truth, n, m)
                \/ CompareIncrements(c, threshold, truth, n, m)
  BY <1>5, PanicsKept, RebuildsKept, IncrementsKept, ThresholdsAssumption
<1>6. CASE UNCHANGED vars
  BY <1>6 DEF Kept, SourcesKnown, RowsKept, WindowKept, AnswersKept, Current, vars
<1> QED BY <1>1, <1>2, <1>3, <1>4, <1>5, <1>6 DEF Next

(***************************************************************************)
(* Rows are kept in every reachable state.                                 *)
(***************************************************************************)
THEOREM RowsAlwaysKept == Spec => []Kept
<1>1. Init => Kept
  BY InitKept
<1>2. Typed /\ Kept /\ [Next]_vars => Kept'
  BY NextKept
<1> QED BY <1>1, <1>2, AlwaysTyped, PTL DEF Spec

(***************************************************************************)
(* The rows of a state that follows events sum to its total.               *)
(***************************************************************************)
LEMMA FollowsSums ==
    ASSUME NEW s, NEW own, NEW n \in Sizes, NEW events, NEW k, Follows(s, own, n, events, k)
    PROVE  SumOf(s.row_marginals) = s.total_records
<1>1. IsOwner(own, n) /\ s.row_marginals = RowsOf(own) /\ s.total_records = n /\ n \in Nat
  BY RecordsFinite DEF Follows
<1>2. SumOf(RowsOf(own)) = n
  BY <1>1, SumOfRows
<1> QED BY <1>1, <1>2, Zenon

(***************************************************************************)
(* So the invariant gives what the runs check: the sum, and both rows of   *)
(* the next event.                                                         *)
(***************************************************************************)
LEMMA KeptConserves == Typed /\ Kept => RecordsConserved
<1> SUFFICES ASSUME Typed, Kept, state # None, Cardinality(sources) = 1
             PROVE  /\ SumOf(state.row_marginals) = state.total_records
                    /\ pending # <<>> =>
                        {Head(pending).parent_id, Min(Head(pending).child_nodes)}
                            \subseteq DOMAIN state.row_marginals
  BY DEF RecordsConserved
<1>1. CASE pc # "merging"
  <2>1. PICK c : sources = {c}
    BY FS_Singleton DEF Kept, SourcesKnown
  <2>1a. PICK n \in Sizes :
            \E own : Follows(state, own, n, hierarchy[c], Upto(hierarchy[c], state.last_threshold))
    BY <1>1, <2>1 DEF Kept, RowsKept
  <2>2. PICK own : Follows(state, own, n, hierarchy[c], Upto(hierarchy[c], state.last_threshold))
    BY <2>1a
  <2>3. pending = <<>>
    BY <1>1 DEF Kept, SourcesKnown
  <2> QED BY <2>2, <2>3, FollowsSums
<1>2. CASE pc = "merging"
  <2> DEFINE n == call.records
  <2> DEFINE l == Above(Current, call.thresholds[Len(answer) + 1])
  <2>1a. PICK j \in Nat : \E own : Window(state, own, n, Current, j, l, pending)
    BY <1>2 DEF Kept, WindowKept
  <2>1. PICK own : Window(state, own, n, Current, j, l, pending)
    BY <2>1a
  <2>2. n \in Sizes /\ n \in Nat /\ Current \in Hierarchical
    BY <1>2, HierarchyIs, RecordsFinite DEF Typed, CallTyped, Current
  <2> HIDE DEF n, l
  <2>3. Follows(state, own, n, Current, j) /\ l \in 0 .. Len(Current) /\ Len(Current) \in Nat
    BY <2>1, <2>2, Lengths DEF Window
  <2>4. SumOf(state.row_marginals) = state.total_records
    BY <2>2, <2>3, FollowsSums
  <2>5. ASSUME pending # <<>>
        PROVE  {Head(pending).parent_id, Min(Head(pending).child_nodes)}
                    \subseteq DOMAIN state.row_marginals
    <3> DEFINE k == j + 1
    <3> HIDE DEF k
    <3>1. k = j + 1
      BY DEF k
    <3>2. k \in 1 .. l /\ Head(pending) = Current[k]
      BY <2>1, <2>2, <2>5, <3>1, WindowAdvances
    <3>3. j + 1 \in 1 .. Len(Current)
      BY <2>3, <3>1, <3>2
    <3>4. IsOwner(own, n) /\ Finer(own, n, Current, j) /\ DOMAIN state.row_marginals = Owners(own)
      BY <2>3 DEF Follows, RowsOf
    <3>5. Current[j + 1].parent_id \in Owners(own) /\ Min(Current[j + 1].child_nodes) \in Owners(own)
      BY <2>2, <3>3, <3>4, MergeFollows
    <3> QED BY <3>1, <3>2, <3>4, <3>5
  <2> QED BY <2>4, <2>5
<1> QED BY <1>1, <1>2

(***************************************************************************)
(* RecordsConserved: after every merge event of a sweep, and after every   *)
(* comparison, a state computed from one collection has each record in one *)
(* row, and the next event finds both its rows.                            *)
(***************************************************************************)
THEOREM RecordsConservedCorrect == Spec => []RecordsConserved
  BY AlwaysTyped, RowsAlwaysKept, KeptConserves, PTL

(***************************************************************************)
(* And a sweep's answers where no event lies on a threshold.               *)
(***************************************************************************)
LEMMA KeptAnswers == Typed /\ Kept => SweepsAsRebuilt
<1> SUFFICES ASSUME Typed, Kept, call.kind = "sweep",
                    NEW i \in DOMAIN answer, answer[i] # None, OffEvents(i)
             PROVE  answer[i].row_marginals = Marginals(Entities1(i))
  BY DEF SweepsAsRebuilt
<1> DEFINE t == call.thresholds[i]
<1> DEFINE own == At(Current, Upto(Current, t), call.records)
<1>1. /\ call.collection \in Collections /\ call.records \in Sizes /\ call.records \in Nat
      /\ call.thresholds \in Seq(Thresholds) /\ answer \in Seq(DeltaState \cup {None})
      /\ Len(answer) <= Len(call.thresholds)
  BY RecordsFinite DEF Typed, CallTyped
<1>2. i \in 1 .. Len(answer) /\ t \in Thresholds
  BY <1>1
<1>3. Untouched(Current, call.thresholds, i)
  BY DEF OffEvents, Untouched, Current
<1>4. answer[i].row_marginals = RowsOf(own)
  BY <1>2, <1>3 DEF Kept, AnswersKept
<1>5. Partition(call.collection, t, call.records) = Classes(own) /\ IsOwner(own, call.records)
  BY <1>1, <1>2, PartitionIs DEF Typed, Current
<1>6. Marginals(Classes(own)) = RowsOf(own)
  BY <1>1, <1>5, MarginalsAreRows
<1> QED BY <1>4, <1>5, <1>6, Zenon DEF Entities1

(***************************************************************************)
(* SweepsAsRebuilt: a sweep that builds one partition and merges rows from *)
(* there on ends at each threshold with the marginals of the partition     *)
(* there, if no merge event lies exactly on a threshold after the first.   *)
(***************************************************************************)
THEOREM SweepsAsRebuiltCorrect == Spec => []SweepsAsRebuilt
  BY AlwaysTyped, RowsAlwaysKept, KeptAnswers, PTL

-----------------------------------------------------------------------------
(***************************************************************************)
(* Cells that are missing and what they count.                             *)
(***************************************************************************)

(***************************************************************************)
(* Elements whose value is zero may be left out of a sum.                  *)
(***************************************************************************)
LEMMA SumOnSub ==
    ASSUME NEW f, NEW S, IsFiniteSet(S), \A x \in S : f[x] \in Nat,
           NEW A \in SUBSET S, \A x \in S \ A : f[x] = 0
    PROVE  SumOn(f, S) = SumOn(f, A)
<1> DEFINE T == {B \in SUBSET (S \ A) : SumOn(f, A \cup B) # SumOn(f, A)}
<1> SUFFICES ASSUME T # {} PROVE FALSE
  <2>1. S \ A \notin T /\ S \ A \in SUBSET (S \ A) /\ A \cup (S \ A) = S
    OBVIOUS
  <2> QED BY <2>1
<1> HIDE DEF T
<1>1. IsFiniteSet(S \ A)
  BY FS_Subset
<1>2. PICK B \in T : \A C \in SUBSET B : C # B => C \notin T
  <2>1. T \subseteq SUBSET (S \ A) BY DEF T
  <2> QED BY <1>1, <2>1, MinimalSet
<1>3. B \subseteq S \ A /\ SumOn(f, A \cup B) # SumOn(f, A)
  BY <1>2 DEF T
<1>4. B # {}
  <2>1. A \cup {} = A
    OBVIOUS
  <2> QED BY <2>1, <1>3
<1>5. PICK b : b \in B
  BY <1>4
<1> DEFINE C == B \ {b}
<1>6. C \in SUBSET B /\ C # B /\ C \in SUBSET (S \ A)
  BY <1>3, <1>5
<1>7. SumOn(f, A \cup C) = SumOn(f, A)
  BY <1>2, <1>6 DEF T
<1>8. A \cup B \subseteq S /\ b \in A \cup B /\ (A \cup B) \ {b} = A \cup C /\ f[b] = 0
  BY <1>3, <1>5
<1>9. IsFiniteSet(A \cup B) /\ IsFiniteSet(A \cup C)
  BY <1>6, <1>8, FS_Subset
<1> HIDE DEF C
<1>10. SumOn(f, A \cup B) = f[b] + SumOn(f, (A \cup B) \ {b})
  BY <1>8, <1>9, SumOnRemove
<1>11. SumOn(f, A \cup C) \in Nat
  BY <1>6, <1>8, <1>9, SumOnType
<1>12. SumOn(f, (A \cup B) \ {b}) = SumOn(f, A \cup C)
  BY <1>8, Zenon
<1> QED BY <1>3, <1>7, <1>8, <1>10, <1>11, <1>12

(***************************************************************************)
(* A table without some cells of the full one: each of a single record,    *)
(* which came after the build.                                             *)
(***************************************************************************)
Lacks(table, full) ==
    /\ DOMAIN table \subseteq DOMAIN full
    /\ \A cell \in DOMAIN table : table[cell] = full[cell]
    /\ \A cell \in DOMAIN full \ DOMAIN table :
            full[cell] = 1 /\ cell \notin BuildRecords \X BuildRecords

(***************************************************************************)
(* Cells that are missing count no pairs: some cells of the table sum to   *)
(* the same as those of the full one.                                      *)
(***************************************************************************)
LEMMA LackedSum ==
    ASSUME NEW ids, IsFiniteSet(ids), NEW full \in Counts(ids), NEW table, Lacks(table, full),
           NEW S \in SUBSET DOMAIN full, NEW A, A = S \cap DOMAIN table
    PROVE  SumOf([cell \in A |-> choose_2(table[cell])])
            = SumOf([cell \in S |-> choose_2(full[cell])])
<1> DEFINE f == [cell \in A |-> choose_2(table[cell])]
<1> DEFINE g == [cell \in S |-> choose_2(full[cell])]
<1>1. IsFiniteSet(S) /\ IsFiniteSet(A) /\ A \in SUBSET S
  BY CountsFinite, FS_Subset
<1>2. \A cell \in S : full[cell] \in Nat
  BY CountsAre
<1>3. choose_2(1) = 0
  BY DEF choose_2
<1>4. DOMAIN f = A /\ DOMAIN g = S
  OBVIOUS
<1>5. \A cell \in S : g[cell] \in Nat
  BY <1>2, Choose2Type
<1>6. \A cell \in S \ A : g[cell] = 0
  BY <1>3 DEF Lacks
<1>7. \A cell \in A : f[cell] = g[cell]
  BY <1>1 DEF Lacks
<1> HIDE DEF f, g
<1>8. SumOn(g, S) = SumOn(g, A)
  BY <1>1, <1>5, <1>6, SumOnSub
<1>9. SumOn(f, A) = SumOn(g, A)
  BY <1>1, <1>7, SumOnAgree
<1>10. SumOf(f) = SumOn(f, DOMAIN f) /\ SumOf(g) = SumOn(g, DOMAIN g)
  BY SumOfDef, Zenon
<1>11. SumOf(f) = SumOf(g)
  BY <1>4, <1>8, <1>9, <1>10, Zenon
<1> QED BY <1>11 DEF f, g

(***************************************************************************)
(* The sum over the whole table is that over the full one.                 *)
(***************************************************************************)
LEMMA LackedCombinations ==
    ASSUME NEW ids, IsFiniteSet(ids), NEW full \in Counts(ids), NEW table, Lacks(table, full)
    PROVE  CombinationSum(table) = CombinationSum(full)
<1>1. DOMAIN table = DOMAIN full \cap DOMAIN table
  BY DEF Lacks
<1>2. DOMAIN full \in SUBSET DOMAIN full
  OBVIOUS
<1>3. SumOf([cell \in DOMAIN table |-> choose_2(table[cell])])
        = SumOf([cell \in DOMAIN full |-> choose_2(full[cell])])
  BY <1>1, <1>2, LackedSum
<1> QED BY <1>3, Zenon DEF CombinationSum

(***************************************************************************)
(* The pairs within the cells of a row and of a column; the counts of a    *)
(* state, from the positives and negatives; the pairs of marginals outside *)
(* any cell.                                                               *)
(***************************************************************************)
InRow(table, id) == SumOf([cell \in {c \in DOMAIN table : c[1] = id} |-> choose_2(table[cell])])
InCol(table, id) == SumOf([cell \in {c \in DOMAIN table : c[2] = id} |-> choose_2(table[cell])])

PairsOf(tp, fp, fn, total) ==
    [tp |-> tp, fp |-> fp, fn |-> fn, tn |-> Monus(choose_2(total), tp + fp + fn)]

Outside(marginals, within) ==
    SumOf([id \in DOMAIN marginals |-> Monus(choose_2(marginals[id]), within[id])])

(***************************************************************************)
(* compute_state_pair_counts in these terms.                               *)
(***************************************************************************)
LEMMA PairCountsAre ==
    ASSUME NEW rows, NEW cols, NEW table, NEW total
    PROVE  PairCounts(rows, cols, table, total)
            = PairsOf(CombinationSum(table),
                      Outside(rows, [id \in DOMAIN rows |-> InRow(table, id)]),
                      Outside(cols, [id \in DOMAIN cols |-> InCol(table, id)]), total)
<1>1. Outside(rows, [id \in DOMAIN rows |-> InRow(table, id)])
        = SumOf([id \in DOMAIN rows |-> Monus(choose_2(rows[id]), InRow(table, id))])
  BY DEF Outside
<1>2. Outside(cols, [id \in DOMAIN cols |-> InCol(table, id)])
        = SumOf([id \in DOMAIN cols |-> Monus(choose_2(cols[id]), InCol(table, id))])
  BY DEF Outside
<1> QED BY <1>1, <1>2, Zenon DEF PairCounts, PairsOf, CombinationSum, InRow, InCol

(***************************************************************************)
(* Pair counts are the same with and without the cells that are missing.   *)
(***************************************************************************)
LEMMA LackedPairs ==
    ASSUME NEW ids, IsFiniteSet(ids), NEW full \in Counts(ids), NEW table, Lacks(table, full),
           NEW rows, NEW cols, NEW total
    PROVE  PairCounts(rows, cols, table, total) = PairCounts(rows, cols, full, total)
<1>1. CombinationSum(table) = CombinationSum(full)
  BY LackedCombinations
<1>2. ASSUME NEW id PROVE InRow(table, id) = InRow(full, id)
  <2> DEFINE S == {c \in DOMAIN full : c[1] = id}
  <2> DEFINE A == {c \in DOMAIN table : c[1] = id}
  <2>1. S \in SUBSET DOMAIN full /\ A = S \cap DOMAIN table
    BY DEF Lacks
  <2> HIDE DEF S, A
  <2>2. SumOf([cell \in A |-> choose_2(table[cell])]) = SumOf([cell \in S |-> choose_2(full[cell])])
    BY <2>1, LackedSum
  <2> QED BY <2>2, Zenon DEF InRow, S, A
<1>3. ASSUME NEW id PROVE InCol(table, id) = InCol(full, id)
  <2> DEFINE S == {c \in DOMAIN full : c[2] = id}
  <2> DEFINE A == {c \in DOMAIN table : c[2] = id}
  <2>1. S \in SUBSET DOMAIN full /\ A = S \cap DOMAIN table
    BY DEF Lacks
  <2> HIDE DEF S, A
  <2>2. SumOf([cell \in A |-> choose_2(table[cell])]) = SumOf([cell \in S |-> choose_2(full[cell])])
    BY <2>1, LackedSum
  <2> QED BY <2>2, Zenon DEF InCol, S, A
<1>4. [id \in DOMAIN rows |-> InRow(table, id)] = [id \in DOMAIN rows |-> InRow(full, id)]
  BY <1>2, Zenon
<1>5. [id \in DOMAIN cols |-> InCol(table, id)] = [id \in DOMAIN cols |-> InCol(full, id)]
  BY <1>3, Zenon
<1>6. /\ PairCounts(rows, cols, table, total)
            = PairsOf(CombinationSum(table),
                      Outside(rows, [id \in DOMAIN rows |-> InRow(table, id)]),
                      Outside(cols, [id \in DOMAIN cols |-> InCol(table, id)]), total)
      /\ PairCounts(rows, cols, full, total)
            = PairsOf(CombinationSum(full),
                      Outside(rows, [id \in DOMAIN rows |-> InRow(full, id)]),
                      Outside(cols, [id \in DOMAIN cols |-> InCol(full, id)]), total)
  BY PairCountsAre, Zenon
<1> QED BY <1>1, <1>4, <1>5, <1>6, Zenon

(***************************************************************************)
(* After more events there are fewer owners.                               *)
(***************************************************************************)
LEMMA FewerOwners ==
    ASSUME NEW events \in Hierarchical, NEW k \in 0 .. Len(events), NEW j \in 0 .. k, j # k,
           NEW n \in Sizes
    PROVE  \E c \in BuildRecords : c \in Owners(At(events, j, n)) /\ c \notin Owners(At(events, k, n))
<1> DEFINE c == Min(events[j + 1].child_nodes)
<1> DEFINE p == events[j + 1].parent_id
<1>1. Len(events) \in Nat /\ j + 1 \in 1 .. Len(events) /\ (j + 1) - 1 = j /\ j \in 0 .. Len(events)
      /\ j + 1 \in 0 .. k /\ j + 1 \in 0 .. Len(events)
  BY Lengths
<1>2. RootsGood(events, j) /\ RootsGood(events, k)
  BY <1>1, RootsAreGood
<1>3. /\ p \in BuildRecords /\ c \in BuildRecords /\ p < c
      /\ Root(events, j, c) = c
      /\ \A x \in Nat : Root(events, j + 1, x) = IF Root(events, j, x) = c THEN p ELSE Root(events, j, x)
  BY <1>1, <1>2, EventJoins
<1>4. p \in Nat /\ c \in Nat /\ c \in 0 .. n - 1
  BY <1>3, RecordsFinite
<1> HIDE DEF c, p
<1>5. Root(events, j + 1, c) = p
  BY <1>3, <1>4
<1>6. Root(events, k, Root(events, j + 1, c)) = Root(events, k, c)
  BY <1>1, <1>4, RootsMerge
<1>7. Root(events, k, p) <= p
  BY <1>2, <1>4 DEF RootsGood
<1>8. Root(events, k, c) # c
  BY <1>3, <1>4, <1>5, <1>6, <1>7
<1> QED BY <1>3, <1>4, <1>8 DEF Owners, At

(***************************************************************************)
(* More records have more owners.                                          *)
(***************************************************************************)
LEMMA SameSize ==
    ASSUME NEW events \in Hierarchical, NEW k \in 0 .. Len(events), NEW j \in 0 .. Len(events),
           NEW n \in Sizes, NEW m \in Sizes, m < n
    PROVE  Owners(At(events, j, n)) # Owners(At(events, k, m))
<1> DEFINE x == n - 1
<1>1. x \in Nat /\ x \in 0 .. n - 1 /\ x \notin 0 .. m - 1 /\ x \notin BuildRecords
  BY RecordsFinite, SizesAssumption DEF Sizes, BuildRecords
<1>2. Root(events, j, x) = x
  BY <1>1, RootsAreGood DEF RootsGood
<1> HIDE DEF x
<1>3. x \in Owners(At(events, j, n))
  BY <1>1, <1>2 DEF Owners, At
<1>4. x \notin Owners(At(events, k, m))
  BY <1>1 DEF Owners, At
<1> QED BY <1>3, <1>4

(***************************************************************************)
(* So canonical ids alone tell two partitions of one hierarchy apart:      *)
(* equal ids mean equal numbers of events and of records, and equal        *)
(* partitions.                                                             *)
(***************************************************************************)
LEMMA SameOwners ==
    ASSUME NEW events \in Hierarchical, NEW k \in 0 .. Len(events), NEW j \in 0 .. Len(events),
           NEW n \in Sizes, NEW m \in Sizes, Owners(At(events, j, n)) = Owners(At(events, k, m))
    PROVE  j = k /\ n = m
<1>1. n \in Nat /\ m \in Nat /\ Len(events) \in Nat
  BY RecordsFinite, Lengths
<1>2. ~(m < n) /\ ~(n < m)
  BY SameSize
<1>3. n = m
  BY <1>1, <1>2
<1>4. CASE j < k
  BY <1>1, <1>3, <1>4, FewerOwners
<1>5. CASE k < j
  BY <1>1, <1>3, <1>5, FewerOwners
<1> QED BY <1>1, <1>3, <1>4, <1>5

-----------------------------------------------------------------------------
(***************************************************************************)
(* Contingency tables as owner maps give them.                             *)
(***************************************************************************)

(***************************************************************************)
(* The records of a cell, and the non-empty cells of some rows.            *)
(***************************************************************************)
Cut(own1, own2, cell) == Class(own1, cell[1]) \cap Class(own2, cell[2])

CellsOf(some, own1, own2) ==
    {cell \in Owners(own1) \X Owners(own2) :
        Class(own1, cell[1]) \in some /\ Cut(own1, own2, cell) # {}}

(***************************************************************************)
(* Among some entities each is still found by its owner.                   *)
(***************************************************************************)
LEMMA EntityOfSome ==
    ASSUME NEW n \in Nat, NEW own, IsOwner(own, n), NEW some \in SUBSET Classes(own),
           NEW id \in Owners(own), Class(own, id) \in some
    PROVE  EntityOf(some, id) = Class(own, id)
<1>1. Min(Class(own, id)) = id
  BY ClassOfOwner
<1>2. \A entity \in some : Min(entity) = id => entity = Class(own, id)
  BY OwnerOfClass
<1> QED BY <1>1, <1>2 DEF EntityOf

(***************************************************************************)
(* The table of some entities against a partition has the sizes of those   *)
(* cells.                                                                  *)
(***************************************************************************)
LEMMA OverlapsAre ==
    ASSUME NEW n \in Nat, NEW own1, IsOwner(own1, n), NEW some \in SUBSET Classes(own1),
           NEW m \in Nat, NEW own2, IsOwner(own2, m)
    PROVE  Overlaps(some, Classes(own2))
            = [cell \in CellsOf(some, own1, own2) |-> Cardinality(Cut(own1, own2, cell))]
<1> DEFINE others == Classes(own2)
<1> DEFINE crossing == {pair \in some \X others : pair[1] \cap pair[2] # {}}
<1> DEFINE ids == {<<Min(pair[1]), Min(pair[2])>> : pair \in crossing}
<1> DEFINE cells == CellsOf(some, own1, own2)
<1>1. ids \subseteq cells
  <2> SUFFICES ASSUME NEW pair \in crossing PROVE <<Min(pair[1]), Min(pair[2])>> \in cells
    OBVIOUS
  <2>1. pair[1] \in some /\ pair[2] \in others /\ pair[1] \cap pair[2] # {}
    OBVIOUS
  <2>2. Min(pair[1]) \in Owners(own1) /\ pair[1] = Class(own1, Min(pair[1]))
    BY <2>1, OwnerOfClass
  <2>3. Min(pair[2]) \in Owners(own2) /\ pair[2] = Class(own2, Min(pair[2]))
    BY <2>1, OwnerOfClass
  <2> QED BY <2>1, <2>2, <2>3 DEF CellsOf, Cut
<1>2. cells \subseteq ids
  <2> SUFFICES ASSUME NEW cell \in cells PROVE cell \in ids
    OBVIOUS
  <2>1. /\ cell[1] \in Owners(own1) /\ cell[2] \in Owners(own2) /\ cell = <<cell[1], cell[2]>>
        /\ Class(own1, cell[1]) \in some /\ Class(own1, cell[1]) \cap Class(own2, cell[2]) # {}
    BY DEF CellsOf, Cut
  <2>2. Min(Class(own1, cell[1])) = cell[1]
    BY <2>1, ClassOfOwner
  <2>3. Min(Class(own2, cell[2])) = cell[2] /\ Class(own2, cell[2]) \in others
    BY <2>1, ClassOfOwner
  <2> DEFINE pair == <<Class(own1, cell[1]), Class(own2, cell[2])>>
  <2>4. pair \in crossing /\ pair[1] = Class(own1, cell[1]) /\ pair[2] = Class(own2, cell[2])
    BY <2>1, <2>3
  <2> HIDE DEF pair, crossing
  <2>5. <<Min(pair[1]), Min(pair[2])>> = cell
    BY <2>1, <2>2, <2>3, <2>4
  <2> QED BY <2>4, <2>5
<1>3. ASSUME NEW cell \in cells
      PROVE  Cardinality(EntityOf(some, cell[1]) \cap EntityOf(others, cell[2]))
                = Cardinality(Cut(own1, own2, cell))
  <2>1. /\ cell[1] \in Owners(own1) /\ cell[2] \in Owners(own2)
        /\ Class(own1, cell[1]) \in some
    BY DEF CellsOf
  <2>2. EntityOf(some, cell[1]) = Class(own1, cell[1])
    BY <2>1, EntityOfSome
  <2>3. EntityOf(others, cell[2]) = Class(own2, cell[2])
    BY <2>1, EntityOfOwner
  <2> QED BY <2>2, <2>3, Zenon DEF Cut
<1>4. ids = cells
  BY <1>1, <1>2
<1>5. Overlaps(some, others)
        = [cell \in ids |-> Cardinality(EntityOf(some, cell[1]) \cap EntityOf(others, cell[2]))]
  BY Zenon DEF Overlaps
<1> HIDE DEF ids, cells, others
<1>6. [cell \in cells |-> Cardinality(EntityOf(some, cell[1]) \cap EntityOf(others, cell[2]))]
        = [cell \in cells |-> Cardinality(Cut(own1, own2, cell))]
  BY <1>3
<1> QED BY <1>4, <1>5, <1>6, Zenon DEF cells, others

(***************************************************************************)
(* The table of two partitions.                                            *)
(***************************************************************************)
Full(own1, own2) == Overlaps(Classes(own1), Classes(own2))

(***************************************************************************)
(* Its cells.                                                              *)
(***************************************************************************)
LEMMA FullAre ==
    ASSUME NEW n \in Nat, NEW own1, IsOwner(own1, n), NEW m \in Nat, NEW own2, IsOwner(own2, m)
    PROVE  /\ \A cell : cell \in DOMAIN Full(own1, own2) <=>
                    /\ cell \in Owners(own1) \X Owners(own2)
                    /\ Cut(own1, own2, cell) # {}
           /\ \A cell \in DOMAIN Full(own1, own2) :
                    Full(own1, own2)[cell] = Cardinality(Cut(own1, own2, cell))
<1>1. Full(own1, own2) = [cell \in CellsOf(Classes(own1), own1, own2) |-> Cardinality(Cut(own1, own2, cell))]
  BY OverlapsAre DEF Full
<1>2. \A cell \in Owners(own1) \X Owners(own2) : Class(own1, cell[1]) \in Classes(own1)
  BY ClassOfOwner
<1>3. DOMAIN Full(own1, own2) = CellsOf(Classes(own1), own1, own2)
  BY <1>1
<1>4. \A cell : cell \in CellsOf(Classes(own1), own1, own2) <=>
                    /\ cell \in Owners(own1) \X Owners(own2)
                    /\ Cut(own1, own2, cell) # {}
  BY <1>2 DEF CellsOf
<1> QED BY <1>1, <1>3, <1>4

(***************************************************************************)
(* The entity of a record that came after the build is that record.        *)
(***************************************************************************)
LEMMA NewRecordClass ==
    ASSUME NEW events \in Hierarchical, NEW k \in 0 .. Len(events), NEW n \in Sizes,
           NEW id \in Owners(At(events, k, n)), id \notin BuildRecords
    PROVE  Class(At(events, k, n), id) = {id}
<1>1. n \in Nat /\ IsOwner(At(events, k, n), n)
  BY RecordsFinite, AtIsOwner
<1>2. id \in 0 .. n - 1 /\ id \in Class(At(events, k, n), id) /\ Root(events, k, id) = id
  BY <1>1, ClassOfOwner DEF Owners, At
<1>3. ASSUME NEW y \in Class(At(events, k, n), id) PROVE y = id
  <2>1. y \in Nat /\ Root(events, k, y) = id
    BY <1>1 DEF Class, Fibre, At
  <2>2. id \in Nat \ BuildRecords
    BY <1>1, <1>2
  <2> QED BY <2>1, <2>2, <1>2, NewRecordAlone
<1> QED BY <1>2, <1>3

(***************************************************************************)
(* A cell of a record that came after the build has one record.            *)
(***************************************************************************)
LEMMA NewRecordCells ==
    ASSUME NEW events \in Hierarchical, NEW k \in 0 .. Len(events), NEW q \in 0 .. Len(events),
           NEW n \in Sizes, NEW m \in Sizes,
           NEW cell \in DOMAIN Full(At(events, k, n), At(events, q, m)),
           cell \notin BuildRecords \X BuildRecords
    PROVE  Full(At(events, k, n), At(events, q, m))[cell] = 1
<1> DEFINE own1 == At(events, k, n)
<1> DEFINE own2 == At(events, q, m)
<1>1. n \in Nat /\ m \in Nat /\ IsOwner(own1, n) /\ IsOwner(own2, m)
  BY RecordsFinite, AtIsOwner
<1>2. cell \in Owners(own1) \X Owners(own2) /\ Cut(own1, own2, cell) # {}
      /\ Full(own1, own2)[cell] = Cardinality(Cut(own1, own2, cell))
  BY <1>1, FullAre
<1>3. cell[1] \notin BuildRecords \/ cell[2] \notin BuildRecords
  BY <1>2
<1>4. \E x : Cut(own1, own2, cell) = {x}
  <2>1. CASE cell[1] \notin BuildRecords
    <3>1. Class(own1, cell[1]) = {cell[1]}
      BY <2>1, <1>2, NewRecordClass
    <3> QED BY <3>1, <1>2 DEF Cut
  <2>2. CASE cell[2] \notin BuildRecords
    <3>1. Class(own2, cell[2]) = {cell[2]}
      BY <2>2, <1>2, NewRecordClass
    <3> QED BY <3>1, <1>2 DEF Cut
  <2> QED BY <2>1, <2>2, <1>3
<1> HIDE DEF own1, own2
<1>5. Cardinality(Cut(own1, own2, cell)) = 1
  BY <1>4, FS_Singleton
<1> QED BY <1>2, <1>5 DEF own1, own2

-----------------------------------------------------------------------------
(***************************************************************************)
(* The incremental update: cells.                                          *)
(***************************************************************************)

(***************************************************************************)
(* An entity with a single old row is that row's entity, under the same    *)
(* id.                                                                     *)
(***************************************************************************)
LEMMA MovedClass ==
    ASSUME NEW events \in Hierarchical, NEW k \in 0 .. Len(events),
           NEW s, NEW n0 \in Sizes, NEW own, Follows(s, own, n0, events, k),
           NEW n \in Sizes, NEW id \in Owners(At(events, k, n)),
           Cardinality(OldRows(s, Class(At(events, k, n), id))) = 1,
           NEW x \in OldRows(s, Class(At(events, k, n), id))
    PROVE  /\ Class(At(events, k, n), id) = Class(own, x)
           /\ id = x /\ x \in Owners(own)
<1> DEFINE new == At(events, k, n)
<1> DEFINE entity == Class(new, id)
<1> DEFINE old == OldOwners(own, new, id)
<1>1. IsOwner(own, n0) /\ Finer(own, n0, events, k) /\ n0 \in Nat /\ n \in Nat /\ IsOwner(new, n)
  BY RecordsFinite, AtIsOwner DEF Follows
<1>2. OldRows(s, entity) = old
  BY NewRowIs
<1>3. old \subseteq Owners(own) /\ IsFiniteSet(Owners(own))
  BY <1>1, OwnersFinite DEF OldOwners
<1>4. IsFiniteSet(old) /\ x \in old /\ Cardinality(old) = 1
  <2>1. IsFiniteSet(old)
    BY <1>3, FS_Subset
  <2> HIDE DEF old, entity
  <2> QED BY <2>1, <1>2, Zenon DEF entity, new
<1>5. old = {x}
  BY <1>4, FS_Singleton
<1>6. /\ Fibre(DOMAIN own, own, old) = entity \cap (0 .. n0 - 1)
      /\ old # {} => entity \subseteq 0 .. n0 - 1
  BY <1>1, OldOwnersAre
<1> HIDE DEF old, new
<1>7. entity = Class(own, x)
  BY <1>5, <1>6 DEF Class
<1>8. Min(Class(own, x)) = x /\ x \in Owners(own)
  BY <1>1, <1>3, <1>4, ClassOfOwner
<1>9. Min(entity) = id
  BY <1>1, ClassOfOwner DEF new
<1> QED BY <1>7, <1>8, <1>9 DEF new

(***************************************************************************)
(* After an incremental update the table has every cell of the full one    *)
(* but for records that came after the build: rows that moved keep their   *)
(* cells, merged ones are counted again, rows that are new have none.      *)
(***************************************************************************)
LEMMA UpdatedCellsLack ==
    ASSUME NEW events \in Hierarchical, NEW k \in 0 .. Len(events), NEW q \in 0 .. Len(events),
           NEW s, NEW n0 \in Sizes, NEW own, Follows(s, own, n0, events, k),
           NEW n \in Sizes, NEW m \in Sizes,
           Lacks(s.contingency_table, Full(own, At(events, q, m)))
    PROVE  Lacks(UpdatedCells(s, Classes(At(events, k, n)), Classes(At(events, q, m))),
                 Full(At(events, k, n), At(events, q, m)))
<1> DEFINE new == At(events, k, n)
<1> DEFINE own2 == At(events, q, m)
<1> DEFINE entities == Classes(new)
<1> DEFINE table == s.contingency_table
<1> DEFINE merged == {entity \in entities : Cardinality(OldRows(s, entity)) > 1}
<1> DEFINE moved == {entity \in entities : Cardinality(OldRows(s, entity)) = 1}
<1> DEFINE recounted == Overlaps(merged, Classes(own2))
<1> DEFINE To(cell) == CHOOSE entity \in moved : cell[1] \in entity
<1> DEFINE transferred == {cell \in DOMAIN table : \E entity \in moved : cell[1] \in entity}
<1> DEFINE moving == {<<Min(To(x)), x[2]>> : x \in transferred}
<1> DEFINE updated == [cell \in DOMAIN recounted \cup moving |->
            IF cell \in DOMAIN recounted THEN recounted[cell]
            ELSE table[CHOOSE x \in transferred : <<Min(To(x)), x[2]>> = cell]]
<1>1. /\ n0 \in Nat /\ n \in Nat /\ m \in Nat
      /\ IsOwner(new, n) /\ IsOwner(own2, m) /\ IsOwner(own, n0) /\ Finer(own, n0, events, k)
      /\ s.row_marginals = RowsOf(own)
  BY RecordsFinite, AtIsOwner DEF Follows
<1>2. DOMAIN s.row_marginals = Owners(own)
  BY <1>1 DEF RowsOf
<1>3. UpdatedCells(s, entities, Classes(own2)) = updated
  BY Zenon DEF UpdatedCells
<1>4. ASSUME NEW entity \in moved, NEW x \in entity, x \in Owners(own)
      PROVE  entity = Class(own, x) /\ entity = Class(new, x) /\ x \in Owners(new) /\ Min(entity) = x
  <2>1. Min(entity) \in Owners(new) /\ entity = Class(new, Min(entity))
    BY <1>1, OwnerOfClass
  <2>2. x \in OldRows(s, entity)
    BY <1>2, <1>4 DEF OldRows
  <2> DEFINE id == Min(entity)
  <2>3. id \in Owners(At(events, k, n)) /\ Cardinality(OldRows(s, Class(At(events, k, n), id))) = 1
        /\ x \in OldRows(s, Class(At(events, k, n), id))
    BY <2>1, <2>2
  <2> HIDE DEF id
  <2>4. Class(At(events, k, n), id) = Class(own, x) /\ id = x
    BY <2>3, MovedClass
  <2> QED BY <2>1, <2>4 DEF id
<1>5. \A cell : cell \in DOMAIN Full(own, own2) <=>
            cell \in Owners(own) \X Owners(own2) /\ Cut(own, own2, cell) # {}
  BY <1>1, FullAre
<1>6. \A cell \in DOMAIN Full(own, own2) : Full(own, own2)[cell] = Cardinality(Cut(own, own2, cell))
  BY <1>1, FullAre
<1>7. \A cell : cell \in DOMAIN Full(new, own2) <=>
            cell \in Owners(new) \X Owners(own2) /\ Cut(new, own2, cell) # {}
  BY <1>1, FullAre
<1>8. \A cell \in DOMAIN Full(new, own2) : Full(new, own2)[cell] = Cardinality(Cut(new, own2, cell))
  BY <1>1, FullAre
<1>9. merged \in SUBSET Classes(new) /\ moved \subseteq entities
  OBVIOUS
<1>10. Lacks(table, Full(own, own2))
  OBVIOUS
<1>11. \A x \in transferred : To(x) \in moved /\ x[1] \in To(x)
  OBVIOUS
<1>12. \A x \in transferred : x \in DOMAIN table /\ \E entity \in moved : x[1] \in entity
  OBVIOUS
<1>13. \A x \in DOMAIN table : (\E entity \in moved : x[1] \in entity) => x \in transferred
  OBVIOUS
<1>14. \A entity \in entities : /\ Cardinality(OldRows(s, entity)) > 1 => entity \in merged
                                /\ Cardinality(OldRows(s, entity)) = 1 => entity \in moved
  OBVIOUS
<1> HIDE DEF new, own2, table, merged, moved, recounted, To, transferred
<1>15. recounted = [cell \in CellsOf(merged, new, own2) |-> Cardinality(Cut(new, own2, cell))]
  BY <1>1, <1>9, OverlapsAre DEF recounted
<1>16. ASSUME NEW x \in transferred
       PROVE  /\ <<Min(To(x)), x[2]>> = x
              /\ x \in DOMAIN Full(new, own2) /\ table[x] = Full(new, own2)[x]
  <2>1. x \in DOMAIN table /\ x \in DOMAIN Full(own, own2) /\ table[x] = Full(own, own2)[x]
    BY <1>10, <1>12 DEF Lacks
  <2>2. x \in Owners(own) \X Owners(own2) /\ Cut(own, own2, x) # {}
    BY <2>1, <1>5
  <2>3. x[1] \in Owners(own) /\ x[2] \in Owners(own2) /\ x = <<x[1], x[2]>>
    BY <2>2
  <2>4. To(x) \in moved /\ x[1] \in To(x)
    BY <1>11
  <2>5. To(x) = Class(own, x[1]) /\ To(x) = Class(new, x[1]) /\ x[1] \in Owners(new) /\ Min(To(x)) = x[1]
    BY <2>3, <2>4, <1>4
  <2>6. Cut(own, own2, x) = Cut(new, own2, x)
    BY <2>5, Zenon DEF Cut
  <2>7. x \in Owners(new) \X Owners(own2)
    BY <2>3, <2>5
  <2>8. x \in DOMAIN Full(new, own2)
    BY <2>2, <2>6, <2>7, <1>7, Zenon
  <2>9. Full(new, own2)[x] = Full(own, own2)[x]
    BY <2>1, <2>6, <2>8, <1>6, <1>8, Zenon
  <2> QED BY <2>1, <2>3, <2>5, <2>8, <2>9
<1>17. moving = transferred
  BY <1>16
<1>18. \A cell \in transferred : (CHOOSE x \in transferred : <<Min(To(x)), x[2]>> = cell) = cell
  <2> SUFFICES ASSUME NEW cell \in transferred
               PROVE  (CHOOSE x \in transferred : <<Min(To(x)), x[2]>> = cell) = cell
    OBVIOUS
  <2> DEFINE y == CHOOSE x \in transferred : <<Min(To(x)), x[2]>> = cell
  <2>1. \E x \in transferred : <<Min(To(x)), x[2]>> = cell
    BY <1>16
  <2>2. y \in transferred /\ <<Min(To(y)), y[2]>> = cell
    BY <2>1
  <2> HIDE DEF y
  <2>3. y = cell
    BY <2>2, <1>16
  <2> QED BY <2>3 DEF y
<1>19. DOMAIN recounted = CellsOf(merged, new, own2)
  BY <1>15
<1>20. ASSUME NEW cell \in DOMAIN recounted
       PROVE  cell \in DOMAIN Full(new, own2) /\ recounted[cell] = Full(new, own2)[cell]
  <2>1. cell \in Owners(new) \X Owners(own2) /\ Cut(new, own2, cell) # {}
    BY <1>19 DEF CellsOf
  <2>2. recounted[cell] = Cardinality(Cut(new, own2, cell))
    BY <1>15, <1>19
  <2> QED BY <2>1, <2>2, <1>7, <1>8
<1>21. ASSUME NEW cell \in DOMAIN Full(new, own2), cell \in BuildRecords \X BuildRecords
       PROVE  cell \in DOMAIN recounted \cup transferred
  <2> DEFINE id == cell[1]
  <2> DEFINE entity == Class(new, id)
  <2>1. cell \in Owners(new) \X Owners(own2) /\ Cut(new, own2, cell) # {}
    BY <1>7
  <2>2. id \in Owners(new) /\ id \in BuildRecords
    BY <2>1, <1>21
  <2>3. entity \in entities /\ id \in entity
    BY <2>2, <1>1, ClassOfOwner
  <2>4. OldRows(s, entity) = OldOwners(own, new, id)
    BY <2>2, NewRowIs DEF new
  <2>5. OldOwners(own, new, id) # {}
    <3>1. OldOwners(own, new, id) = {} => id \notin BuildRecords
      BY <2>2, <1>1, OldOwnersAre DEF new
    <3> QED BY <3>1, <2>2
  <2>6. IsFiniteSet(OldRows(s, entity))
    <3>1. OldOwners(own, new, id) \subseteq Owners(own)
      BY DEF OldOwners
    <3>2. IsFiniteSet(Owners(own))
      BY <1>1, OwnersFinite
    <3> QED BY <3>1, <3>2, <2>4, FS_Subset
  <2>7. Cardinality(OldRows(s, entity)) \in Nat /\ Cardinality(OldRows(s, entity)) # 0
    <3>1. OldRows(s, entity) # {}
      BY <2>4, <2>5
    <3> QED BY <3>1, <2>6, FS_CardinalityType, FS_EmptySet
  <2>8. CASE Cardinality(OldRows(s, entity)) > 1
    <3>1. entity \in merged
      BY <2>3, <2>8, <1>14
    <3>2. cell \in CellsOf(merged, new, own2)
      BY <3>1, <2>1 DEF CellsOf
    <3> QED BY <3>2, <1>19
  <2>9. CASE Cardinality(OldRows(s, entity)) = 1
    <3>1. entity \in moved
      BY <2>3, <2>9, <1>14
    <3>2. PICK x : x \in OldRows(s, entity)
      BY <2>4, <2>5
    <3>3. x \in entity /\ x \in Owners(own)
      BY <3>2, <1>2 DEF OldRows
    <3>4. entity = Class(own, x) /\ Min(entity) = x
      BY <3>1, <3>3, <1>4
    <3>5. Min(entity) = id
      BY <2>2, <1>1, ClassOfOwner
    <3>6. x = id
      BY <3>4, <3>5
    <3>7. Cut(own, own2, cell) = Cut(new, own2, cell)
      BY <3>4, <3>6, Zenon DEF Cut
    <3>8. cell \in Owners(own) \X Owners(own2)
      BY <2>1, <3>3, <3>6
    <3>9. cell \in DOMAIN Full(own, own2)
      BY <2>1, <3>7, <3>8, <1>5
    <3>10. cell \in DOMAIN table
      BY <3>9, <1>10, <1>21 DEF Lacks
    <3> QED BY <3>1, <3>10, <2>3, <1>13
  <2> QED BY <2>7, <2>8, <2>9
<1>22. /\ DOMAIN updated = DOMAIN recounted \cup transferred
       /\ \A cell \in DOMAIN updated : updated[cell] =
            IF cell \in DOMAIN recounted THEN recounted[cell]
            ELSE table[CHOOSE x \in transferred : <<Min(To(x)), x[2]>> = cell]
  BY <1>17
<1> HIDE DEF updated, moving
<1>23. ASSUME NEW cell \in DOMAIN updated
       PROVE  cell \in DOMAIN Full(new, own2) /\ updated[cell] = Full(new, own2)[cell]
  <2>1. CASE cell \in DOMAIN recounted
    BY <2>1, <1>20, <1>22
  <2>2. CASE cell \notin DOMAIN recounted
    <3>1. cell \in transferred /\ updated[cell] = table[cell]
      BY <2>2, <1>18, <1>22
    <3> QED BY <3>1, <1>16
  <2> QED BY <2>1, <2>2
<1>24. ASSUME NEW cell \in DOMAIN Full(new, own2) \ DOMAIN updated
       PROVE  Full(new, own2)[cell] = 1 /\ cell \notin BuildRecords \X BuildRecords
  <2>1. cell \notin BuildRecords \X BuildRecords
    BY <1>21, <1>22
  <2> QED BY <2>1, NewRecordCells DEF new, own2
<1>25. Lacks(updated, Full(new, own2))
  BY <1>23, <1>24 DEF Lacks
<1> QED BY <1>3, <1>25, Zenon DEF new, own2

-----------------------------------------------------------------------------
(***************************************************************************)
(* States that stand for a comparison.                                     *)
(***************************************************************************)

(***************************************************************************)
(* The owner map of n records at a threshold.                              *)
(***************************************************************************)
Own(events, t, n) == At(events, Upto(events, t), n)

(***************************************************************************)
(* A state that stands for a comparison: all of it is as if built afresh,  *)
(* but cells of records that came after the build may be missing.          *)
(***************************************************************************)
Stands(s, events, t, n, truth, m) ==
    LET own1 == Own(events, t, n)
        own2 == Own(events, truth, m)
        full == Full(own1, own2)
    IN  /\ s.last_threshold = t
        /\ s.row_marginals = RowsOf(own1)
        /\ s.col_marginals = RowsOf(own2)
        /\ s.total_records = n
        /\ Lacks(s.contingency_table, full)
        /\ s.pairs = PairCounts(RowsOf(own1), RowsOf(own2), full, n)
        /\ s.sum_cell_combinations = CombinationSum(full)
        /\ s.sum_row_combinations = CombinationSum(RowsOf(own1))
        /\ s.sum_col_combinations = CombinationSum(RowsOf(own2))

(***************************************************************************)
(* What that owner map is.                                                 *)
(***************************************************************************)
LEMMA OwnIs ==
    ASSUME NEW events \in Hierarchical, NEW t \in Nat, NEW n \in Sizes
    PROVE  IsOwner(Own(events, t, n), n) /\ Upto(events, t) \in 0 .. Len(events)
           /\ IsEntities(Classes(Own(events, t, n))) /\ n \in Nat
<1>1. Upto(events, t) \in 0 .. Len(events)
  BY UptoIs
<1>2. n \in Nat
  BY RecordsFinite
<1>3. IsOwner(Own(events, t, n), n)
  BY <1>1, <1>2, AtIsOwner DEF Own
<1>4. IsEntities(Classes(Own(events, t, n)))
  BY <1>3, ClassesType
<1> QED BY <1>1, <1>2, <1>3, <1>4

(***************************************************************************)
(* The full table is counts by two records.                                *)
(***************************************************************************)
LEMMA FullType ==
    ASSUME NEW events \in Hierarchical, NEW t \in Nat, NEW truth \in Nat, NEW n \in Sizes, NEW m \in Sizes
    PROVE  Full(Own(events, t, n), Own(events, truth, m)) \in Counts(Records \X Records)
  BY OwnIs, OverlapsType DEF Full

(***************************************************************************)
(* A table lacks nothing of itself.                                        *)
(***************************************************************************)
LEMMA NothingLacks == \A table : Lacks(table, table)
  BY DEF Lacks

(***************************************************************************)
(* A state built afresh stands for the comparison it was built for.        *)
(***************************************************************************)
LEMMA BuildStands ==
    ASSUME NEW events \in Hierarchical, NEW t \in Nat, NEW truth \in Nat, NEW n \in Sizes, NEW m \in Sizes
    PROVE  Stands(BuildInitialState(t, Classes(Own(events, t, n)), Classes(Own(events, truth, m))),
                  events, t, n, truth, m)
<1> DEFINE own1 == Own(events, t, n)
<1> DEFINE own2 == Own(events, truth, m)
<1> DEFINE full == Full(own1, own2)
<1> DEFINE s == BuildInitialState(t, Classes(own1), Classes(own2))
<1>1. IsOwner(own1, n) /\ IsOwner(own2, m) /\ n \in Nat /\ m \in Nat
  BY OwnIs
<1> HIDE DEF own1, own2
<1>2. Marginals(Classes(own1)) = RowsOf(own1) /\ Marginals(Classes(own2)) = RowsOf(own2)
  BY <1>1, MarginalsAreRows
<1>3. SumOf(RowsOf(own1)) = n
  BY <1>1, SumOfRows
<1>4. s = [last_threshold |-> t, contingency_table |-> full,
           row_marginals |-> RowsOf(own1), col_marginals |-> RowsOf(own2), total_records |-> n,
           pairs |-> PairCounts(RowsOf(own1), RowsOf(own2), full, n),
           sum_cell_combinations |-> CombinationSum(full),
           sum_row_combinations |-> CombinationSum(RowsOf(own1)),
           sum_col_combinations |-> CombinationSum(RowsOf(own2))]
  BY <1>2, <1>3, Zenon DEF BuildInitialState, Full
<1>5. Lacks(full, full)
  BY NothingLacks
<1> HIDE DEF s, full
<1>6. /\ s.last_threshold = t /\ s.row_marginals = RowsOf(own1)
      /\ s.col_marginals = RowsOf(own2) /\ s.total_records = n
      /\ s.contingency_table = full
      /\ s.pairs = PairCounts(RowsOf(own1), RowsOf(own2), full, n)
      /\ s.sum_cell_combinations = CombinationSum(full)
      /\ s.sum_row_combinations = CombinationSum(RowsOf(own1))
      /\ s.sum_col_combinations = CombinationSum(RowsOf(own2))
  BY <1>4
<1> QED BY <1>5, <1>6, Zenon DEF Stands, s, full, own1, own2

(***************************************************************************)
(* Rows that are new count no pairs, so the sum over the known ones is the *)
(* sum over all.                                                           *)
(***************************************************************************)
LEMMA KnownCombinations ==
    ASSUME NEW events \in Hierarchical, NEW k \in 0 .. Len(events),
           NEW s, NEW n0 \in Sizes, NEW own, Follows(s, own, n0, events, k), NEW n \in Sizes
    PROVE  LET entities == Classes(At(events, k, n))
               rows == NewRows(s, entities)
           IN  SumOf([id \in KnownRows(s, entities) |-> choose_2(rows[id])])
                = CombinationSum(RowsOf(At(events, k, n)))
<1> DEFINE new == At(events, k, n)
<1> DEFINE entities == Classes(new)
<1> DEFINE rows == NewRows(s, entities)
<1> DEFINE known == KnownRows(s, entities)
<1>1. rows = RowsOf(new)
  BY RowsAfter
<1>2. n \in Nat /\ IsOwner(new, n)
  BY RecordsFinite, AtIsOwner
<1>3. DOMAIN RowsOf(new) = Owners(new) /\ IsFiniteSet(Owners(new))
      /\ \A id \in Owners(new) : RowsOf(new)[id] \in Nat
  BY <1>2, OwnersFinite DEF RowsOf
<1>4. ASSUME NEW id \in Owners(new), id \notin known PROVE RowsOf(new)[id] = 1
  <2>1. OldRows(s, EntityOf(entities, id)) = {}
    <3>1. known = {x \in DOMAIN rows : OldRows(s, EntityOf(entities, x)) # {}}
      BY Zenon DEF KnownRows
    <3>2. id \in DOMAIN rows
      BY <1>1, <1>3
    <3> HIDE DEF known, rows
    <3> QED BY <3>1, <3>2, <1>4, Zenon DEF known
  <2>2. OldOwners(own, new, id) = {}
    BY <2>1, OldRowsAfter
  <2>3. IsOwner(own, n0) /\ Finer(own, n0, events, k)
    BY DEF Follows
  <2>4. Class(new, id) = {id}
    BY <2>2, <2>3, OldOwnersAre
  <2>5. Cardinality({id}) = 1
    BY FS_Singleton
  <2> QED BY <2>4, <2>5 DEF RowsOf
<1>5. known \in SUBSET Owners(new)
  BY <1>1, <1>3 DEF KnownRows
<1> HIDE DEF known, rows, entities, new
<1> DEFINE f == [id \in known |-> choose_2(rows[id])]
<1> DEFINE g == [id \in Owners(new) |-> choose_2(RowsOf(new)[id])]
<1>6. DOMAIN f = known /\ DOMAIN g = Owners(new) /\ \A id \in known : f[id] = g[id]
  BY <1>1, <1>5
<1>7. \A id \in Owners(new) : g[id] \in Nat
  BY <1>3, Choose2Type
<1>8. choose_2(1) = 0
  BY DEF choose_2
<1>9. \A id \in Owners(new) \ known : g[id] = 0
  BY <1>4, <1>8
<1> HIDE DEF f, g
<1>10. SumOn(g, Owners(new)) = SumOn(g, known)
  BY <1>3, <1>5, <1>7, <1>9, SumOnSub
<1>11. IsFiniteSet(known)
  BY <1>3, <1>5, FS_Subset
<1>12. SumOn(f, known) = SumOn(g, known)
  BY <1>6, <1>11, SumOnAgree
<1>13. SumOf(f) = SumOn(f, DOMAIN f) /\ SumOf(g) = SumOn(g, DOMAIN g)
  BY SumOfDef, Zenon
<1>14. SumOf(f) = SumOf(g)
  BY <1>6, <1>10, <1>12, <1>13, Zenon
<1>15. SumOf(g) = CombinationSum(RowsOf(new))
  BY <1>3, Zenon DEF CombinationSum, g
<1> QED BY <1>14, <1>15, Zenon DEF f, known, rows, entities, new

(***************************************************************************)
(* An incremental update leaves the columns and their sum as they are.     *)
(***************************************************************************)
LEMMA IncrementalCols ==
    ASSUME NEW s, NEW threshold, NEW entities, NEW truth_entities
    PROVE  /\ IncrementalUpdate(s, threshold, entities, truth_entities).col_marginals = s.col_marginals
           /\ IncrementalUpdate(s, threshold, entities, truth_entities).sum_col_combinations
                = s.sum_col_combinations
  BY DEF IncrementalUpdate

(***************************************************************************)
(* It updates the cells, and sums them.                                    *)
(***************************************************************************)
LEMMA IncrementalCells ==
    ASSUME NEW s, NEW threshold, NEW entities, NEW truth_entities
    PROVE  /\ IncrementalUpdate(s, threshold, entities, truth_entities).contingency_table
                = UpdatedCells(s, entities, truth_entities)
           /\ IncrementalUpdate(s, threshold, entities, truth_entities).sum_cell_combinations
                = CombinationSum(UpdatedCells(s, entities, truth_entities))
  BY DEF IncrementalUpdate

(***************************************************************************)
(* It counts pairs from its new rows, the old columns and its cells.       *)
(***************************************************************************)
LEMMA IncrementalPairs ==
    ASSUME NEW s, NEW threshold, NEW entities, NEW truth_entities
    PROVE  IncrementalUpdate(s, threshold, entities, truth_entities).pairs
            = PairCounts(NewRows(s, entities), s.col_marginals,
                         UpdatedCells(s, entities, truth_entities), SumOf(Marginals(entities)))
  BY DEF IncrementalUpdate, NewRows, NewRow

(***************************************************************************)
(* It sums pairs over the rows that are not new.                           *)
(***************************************************************************)
LEMMA IncrementalCombinations ==
    ASSUME NEW s, NEW threshold, NEW entities, NEW truth_entities
    PROVE  IncrementalUpdate(s, threshold, entities, truth_entities).sum_row_combinations
            = SumOf([id \in KnownRows(s, entities) |-> choose_2(NewRows(s, entities)[id])])
  BY DEF IncrementalUpdate, NewRows, NewRow, KnownRows

(***************************************************************************)
(* A state that stands for a comparison, updated to one whose second       *)
(* partition has the same ids, at the same or a lower threshold, stands    *)
(* for that one: the second partition is the same, by SameOwners, and      *)
(* everything about the first is moved along.                              *)
(***************************************************************************)
LEMMA IncrementStands ==
    ASSUME NEW events \in Hierarchical, NEW t0 \in Nat, NEW q0 \in Nat, NEW t \in Nat, NEW q \in Nat,
           NEW n0 \in Sizes, NEW m0 \in Sizes, NEW n \in Sizes, NEW m \in Sizes, t0 >= t,
           NEW s, Stands(s, events, t0, n0, q0, m0),
           DOMAIN s.col_marginals = {Min(entity) : entity \in Classes(Own(events, q, m))}
    PROVE  Stands(IncrementalUpdate(s, t, Classes(Own(events, t, n)), Classes(Own(events, q, m))),
                  events, t, n, q, m)
<1> DEFINE k == Upto(events, t)
<1> DEFINE j == Upto(events, q)
<1> DEFINE own0 == Own(events, t0, n0)
<1> DEFINE new == Own(events, t, n)
<1> DEFINE own2 == Own(events, q, m)
<1> DEFINE full == Full(new, own2)
<1> DEFINE entities == Classes(new)
<1> DEFINE truth_entities == Classes(own2)
<1> DEFINE r == IncrementalUpdate(s, t, entities, truth_entities)
<1> DEFINE table == UpdatedCells(s, entities, truth_entities)
<1>1. /\ IsOwner(own0, n0) /\ IsOwner(new, n) /\ IsOwner(own2, m)
      /\ n0 \in Nat /\ n \in Nat /\ m \in Nat
      /\ k \in 0 .. Len(events) /\ j \in 0 .. Len(events)
      /\ Upto(events, t0) \in 0 .. Len(events) /\ Upto(events, q0) \in 0 .. Len(events)
  BY OwnIs
<1>2. Own(events, q0, m0) = own2
  <2>1. s.col_marginals = RowsOf(Own(events, q0, m0))
    BY Zenon DEF Stands
  <2>2. DOMAIN s.col_marginals = Owners(Own(events, q0, m0))
    BY <2>1 DEF RowsOf
  <2>3. {Min(entity) : entity \in Classes(own2)} = Owners(own2)
    BY <1>1, IdsAreOwners
  <2>4. Owners(At(events, Upto(events, q0), m0)) = Owners(At(events, j, m))
    BY <2>2, <2>3, Zenon DEF Own
  <2> HIDE DEF j
  <2>5. Upto(events, q0) = j /\ m0 = m
    BY <2>4, <1>1, SameOwners
  <2> QED BY <2>5, Zenon DEF Own, j
<1>3. /\ s.row_marginals = RowsOf(own0) /\ s.total_records = n0
      /\ s.col_marginals = RowsOf(own2) /\ Lacks(s.contingency_table, Full(own0, own2))
      /\ s.sum_col_combinations = CombinationSum(RowsOf(own2))
  <2> HIDE DEF own2
  <2> QED BY <1>2, Zenon DEF Stands, own0
<1>4. Follows(s, own0, n0, events, k)
  <2>1. Finer(own0, n0, events, Upto(events, t0))
    BY <1>1, AtIsFiner DEF Own
  <2>2. Follows(s, own0, n0, events, Upto(events, t0))
    BY <2>1, <1>1, <1>3, Zenon DEF Follows
  <2>3. Upto(events, t0) \in 0 .. k
    BY UptoLater
  <2> HIDE DEF k, own0
  <2> QED BY <2>2, <2>3, <1>1, FollowsLater
<1>5. new = At(events, k, n) /\ own2 = At(events, j, m)
  BY DEF Own
<1>6. NewRows(s, entities) = RowsOf(new)
  <2> HIDE DEF own0, k
  <2>1. NewRows(s, Classes(At(events, k, n))) = RowsOf(At(events, k, n))
    BY <1>1, <1>4, RowsAfter
  <2> QED BY <2>1, <1>5, Zenon
<1>7. Lacks(table, full)
  <2> HIDE DEF own0, own2, new, k, j
  <2>1. Lacks(s.contingency_table, Full(own0, At(events, j, m)))
    BY <1>3, <1>5, Zenon
  <2>2. Lacks(UpdatedCells(s, Classes(At(events, k, n)), Classes(At(events, j, m))),
              Full(At(events, k, n), At(events, j, m)))
    BY <2>1, <1>1, <1>4, UpdatedCellsLack
  <2> QED BY <2>2, <1>5, Zenon DEF table, entities, truth_entities, full
<1>8. full \in Counts(Records \X Records) /\ IsFiniteSet(Records \X Records)
  BY FullType, RecordsFinite
<1>9. SumOf(Marginals(entities)) = n
  BY <1>1, MarginalsAreRows, SumOfRows, Zenon
<1>10. SumOf([id \in KnownRows(s, entities) |-> choose_2(NewRows(s, entities)[id])])
        = CombinationSum(RowsOf(new))
  <2> HIDE DEF own0, k
  <2>1. SumOf([id \in KnownRows(s, Classes(At(events, k, n))) |->
                    choose_2(NewRows(s, Classes(At(events, k, n)))[id])])
            = CombinationSum(RowsOf(At(events, k, n)))
    BY <1>1, <1>4, KnownCombinations
  <2> QED BY <2>1, <1>5, Zenon
<1> HIDE DEF new, own0, own2, k, j, full
<1>11. r.last_threshold = t /\ r.row_marginals = RowsOf(new) /\ r.total_records = n
  BY <1>6, <1>9, IncrementalThreshold, IncrementalRows, IncrementalTotal
<1>12. r.col_marginals = RowsOf(own2) /\ r.sum_col_combinations = CombinationSum(RowsOf(own2))
  BY <1>3, IncrementalCols
<1>13. r.contingency_table = table /\ r.sum_cell_combinations = CombinationSum(table)
  BY IncrementalCells
<1>14. r.pairs = PairCounts(RowsOf(new), RowsOf(own2), table, n)
  <2>1. r.pairs = PairCounts(NewRows(s, entities), s.col_marginals, table, SumOf(Marginals(entities)))
    BY IncrementalPairs
  <2> QED BY <2>1, <1>3, <1>6, <1>9, Zenon
<1>15. r.sum_row_combinations = CombinationSum(RowsOf(new))
  <2>1. r.sum_row_combinations
            = SumOf([id \in KnownRows(s, entities) |-> choose_2(NewRows(s, entities)[id])])
    BY IncrementalCombinations, Zenon
  <2> QED BY <2>1, <1>10, Zenon
<1> HIDE DEF table, entities, truth_entities, r
<1>16. CombinationSum(table) = CombinationSum(full)
  BY <1>7, <1>8, LackedCombinations
<1>17. PairCounts(RowsOf(new), RowsOf(own2), table, n) = PairCounts(RowsOf(new), RowsOf(own2), full, n)
  BY <1>7, <1>8, LackedPairs
<1>18. /\ r.last_threshold = t /\ r.row_marginals = RowsOf(new) /\ r.col_marginals = RowsOf(own2)
       /\ r.total_records = n /\ Lacks(r.contingency_table, full)
       /\ r.pairs = PairCounts(RowsOf(new), RowsOf(own2), full, n)
       /\ r.sum_cell_combinations = CombinationSum(full)
       /\ r.sum_row_combinations = CombinationSum(RowsOf(new))
       /\ r.sum_col_combinations = CombinationSum(RowsOf(own2))
  BY <1>7, <1>11, <1>12, <1>13, <1>14, <1>15, <1>16, <1>17, Zenon
<1> QED BY <1>18, Zenon DEF Stands, r, entities, truth_entities, new, own2, full

-----------------------------------------------------------------------------
(***************************************************************************)
(* The invariant about comparisons.                                        *)
(***************************************************************************)

(***************************************************************************)
(* The state of a sweep: it has no second partition.                       *)
(***************************************************************************)
NoColumns(s) == DOMAIN s.col_marginals = {}

(***************************************************************************)
(* A state that stands for some comparison at its threshold.               *)
(***************************************************************************)
Comparable(s, events) ==
    \E n, m \in Sizes, truth \in Truths : Stands(s, events, s.last_threshold, n, truth, m)

(***************************************************************************)
(* Between sweeps a state that one collection's calls led to is one or the *)
(* other.                                                                  *)
(***************************************************************************)
StateStands ==
    pc # "merging" /\ state # None =>
        \A c : sources = {c} => NoColumns(state) \/ Comparable(state, hierarchy[c])

(***************************************************************************)
(* In a sweep it is the first.                                             *)
(***************************************************************************)
SweepsWithoutColumns == pc = "merging" /\ state # None => NoColumns(state)

(***************************************************************************)
(* A comparison's answer stands for that comparison.                       *)
(***************************************************************************)
AnswerStands ==
    Compared /\ sources = {call.collection} =>
        Stands(answer[1], Current, call.thresholds[1], call.records, call.truth, call.truth_records)

(***************************************************************************)
(* The inductive invariant about comparisons, on top of that about rows.   *)
(***************************************************************************)
Standing == StateStands /\ SweepsWithoutColumns /\ AnswerStands

(***************************************************************************)
(* It holds at first.                                                      *)
(***************************************************************************)
LEMMA InitStanding == Init => Standing
  BY DEF Init, Standing, StateStands, SweepsWithoutColumns, AnswerStands, Compared

(***************************************************************************)
(* No partition has no columns.                                            *)
(***************************************************************************)
LEMMA NoTruthColumns == DOMAIN Marginals({}) = {}
  BY DEF Marginals

(***************************************************************************)
(* The columns of a state built afresh.                                    *)
(***************************************************************************)
LEMMA BuiltColumns ==
    ASSUME NEW t, NEW entities1, NEW entities2
    PROVE  BuildInitialState(t, entities1, entities2).col_marginals = Marginals(entities2)
  BY DEF BuildInitialState

(***************************************************************************)
(* A sweep gives it, whatever there was before.                            *)
(***************************************************************************)
LEMMA SweepStanding ==
    ASSUME NEW c, NEW thresholds, NEW n, Sweep(c, thresholds, n)
    PROVE  Standing'
<1> DEFINE built == BuildInitialState(thresholds[1], Partition(c, thresholds[1], n), {})
<1>1. KeepOrSpill(built) /\ call'.kind = "sweep"
  BY DEF Sweep, Begin
<1>2. NoColumns(built)
  BY BuiltColumns, NoTruthColumns DEF NoColumns
<1> HIDE DEF built
<1>3. state' # None => NoColumns(state')
  BY <1>1, <1>2, BuiltKeptOrSpilled
<1>4. AnswerStands'
  BY <1>1 DEF AnswerStands, Compared
<1> QED BY <1>3, <1>4 DEF Standing, StateStands, SweepsWithoutColumns

(***************************************************************************)
(* A merge event keeps it.                                                 *)
(***************************************************************************)
LEMMA ApplyStanding ==
    ASSUME Typed, Standing, ApplyMergeEvent
    PROVE  Standing'
<1> DEFINE rows == MergeRows(state.row_marginals, Head(pending).parent_id, Min(Head(pending).child_nodes))
<1>1. /\ pc = "merging" /\ pc' = pc /\ call' = call /\ state # None
      /\ state' = [state EXCEPT !.row_marginals = rows]
  BY DEF ApplyMergeEvent
<1>2. state \in DeltaState /\ call.kind = "sweep"
  BY <1>1 DEF Typed
<1> HIDE DEF rows
<1>3. NoColumns(state')
  BY <1>1, <1>2 DEF Standing, SweepsWithoutColumns, NoColumns, DeltaState
<1>4. StateStands' /\ SweepsWithoutColumns' /\ AnswerStands'
  BY <1>1, <1>2, <1>3 DEF StateStands, SweepsWithoutColumns, AnswerStands, Compared
<1> QED BY <1>4 DEF Standing

(***************************************************************************)
(* The end of a window keeps it.                                           *)
(***************************************************************************)
LEMMA EndStanding ==
    ASSUME Typed, Standing, EndWindow
    PROVE  Standing'
<1> DEFINE i == Len(answer) + 1
<1> DEFINE sum == CombinationSum(state.row_marginals)
<1>1. /\ pc = "merging" /\ call' = call /\ state # None
      /\ state' = [state EXCEPT !.last_threshold = call.thresholds[i], !.sum_row_combinations = sum]
  BY DEF EndWindow
<1>2. state \in DeltaState /\ call.kind = "sweep"
  BY <1>1 DEF Typed
<1> HIDE DEF i, sum
<1>3. NoColumns(state')
  BY <1>1, <1>2 DEF Standing, SweepsWithoutColumns, NoColumns, DeltaState
<1>4. StateStands' /\ SweepsWithoutColumns' /\ AnswerStands'
  BY <1>1, <1>2, <1>3 DEF StateStands, SweepsWithoutColumns, AnswerStands, Compared
<1> QED BY <1>4 DEF Standing

(***************************************************************************)
(* A sweep that finds its state gone leaves none to speak of.              *)
(***************************************************************************)
LEMMA UnwrapStanding ==
    ASSUME SweepUnwrapsNone
    PROVE  Standing'
<1>1. state = None /\ state' = state /\ answer' = <<>>
  BY DEF SweepUnwrapsNone
<1> QED BY <1>1 DEF Standing, StateStands, SweepsWithoutColumns, AnswerStands, Compared

(***************************************************************************)
(* A comparison that panics keeps it.                                      *)
(***************************************************************************)
LEMMA PanicsStanding ==
    ASSUME Standing, NEW c, NEW threshold, NEW truth, NEW n, NEW m,
           ComparePanics(c, threshold, truth, n, m)
    PROVE  Standing'
<1>1. /\ pc # "merging" /\ pc' = "panicked" /\ hierarchy' = hierarchy /\ answer' = <<>>
      /\ UNCHANGED <<state, sources>>
  BY DEF ComparePanics, Comparison, Begin
<1> QED BY <1>1 DEF Standing, StateStands, SweepsWithoutColumns, AnswerStands, Compared

(***************************************************************************)
(* The partition of a call is that of an owner map.                        *)
(***************************************************************************)
LEMMA PartitionOwn ==
    ASSUME Typed, NEW c \in Collections, NEW t \in Thresholds, NEW n \in Sizes
    PROVE  Partition(c, t, n) = Classes(Own(hierarchy[c], t, n))
  BY PartitionIs DEF Typed, Own

(***************************************************************************)
(* A comparison whose new state stands for it keeps the invariant.         *)
(***************************************************************************)
LEMMA AnsweredStanding ==
    ASSUME NEW c \in Collections, NEW threshold \in Thresholds, NEW truth \in Truths,
           NEW n \in Sizes, NEW m \in Sizes, Comparison(c, threshold, truth, n, m),
           pc' = "idle", answer' = <<state'>>,
           state' # None /\ sources' = {c} => Stands(state', hierarchy[c], threshold, n, truth, m),
           \A d : sources' = {d} => d = c
    PROVE  Standing'
<1>1. /\ hierarchy' = hierarchy /\ call'.collection = c /\ call'.thresholds[1] = threshold
      /\ call'.truth = truth /\ call'.records = n /\ call'.truth_records = m
  BY DEF Comparison, Begin
<1>2. Current' = hierarchy[c] /\ answer'[1] = state'
  BY <1>1 DEF Current
<1>3. AnswerStands'
  <2> SUFFICES ASSUME Compared', sources' = {c}
               PROVE  Stands(answer'[1], Current', call'.thresholds[1], call'.records, call'.truth,
                             call'.truth_records)
    BY <1>1 DEF AnswerStands
  <2>1. state' # None
    BY <1>2 DEF Compared
  <2>2. Stands(state', hierarchy[c], threshold, n, truth, m)
    BY <2>1
  <2> QED BY <2>2, <1>1, <1>2, Zenon
<1>4. StateStands'
  <2> SUFFICES ASSUME state' # None, NEW d, sources' = {d} PROVE Comparable(state', hierarchy'[d])
    BY DEF StateStands
  <2>1. d = c
    OBVIOUS
  <2>2. Stands(state', hierarchy[c], threshold, n, truth, m)
    BY <2>1
  <2>3. state'.last_threshold = threshold
    BY <2>2, Zenon DEF Stands
  <2>4. Stands(state', hierarchy'[d], state'.last_threshold, n, truth, m)
    BY <2>1, <2>2, <2>3, <1>1, Zenon
  <2> QED BY <2>4, Zenon DEF Comparable
<1> QED BY <1>3, <1>4 DEF Standing, SweepsWithoutColumns

(***************************************************************************)
(* A comparison that rebuilds keeps it.                                    *)
(***************************************************************************)
LEMMA RebuildsStanding ==
    ASSUME Typed, NEW c \in Collections, NEW threshold \in Thresholds, NEW truth \in Truths,
           NEW n \in Sizes, NEW m \in Sizes, CompareRebuilds(c, threshold, truth, n, m)
    PROVE  Standing'
<1> DEFINE built == BuildInitialState(threshold, Partition(c, threshold, n), Partition(c, truth, m))
<1>1. /\ Comparison(c, threshold, truth, n, m) /\ pc' = "idle" /\ sources' = {c} /\ answer' = <<state'>>
      /\ KeepOrSpill(built)
  BY DEF CompareRebuilds
<1>2. truth \in Thresholds /\ threshold \in Nat /\ truth \in Nat /\ hierarchy[c] \in Hierarchical
  BY HierarchyIs, ThresholdsAssumption DEF Typed
<1>3. Stands(built, hierarchy[c], threshold, n, truth, m)
  <2>1. Partition(c, threshold, n) = Classes(Own(hierarchy[c], threshold, n))
    BY PartitionOwn
  <2>2. Partition(c, truth, m) = Classes(Own(hierarchy[c], truth, m))
    BY <1>2, PartitionOwn
  <2>3. Stands(BuildInitialState(threshold, Classes(Own(hierarchy[c], threshold, n)),
                                 Classes(Own(hierarchy[c], truth, m))),
               hierarchy[c], threshold, n, truth, m)
    BY <1>2, BuildStands
  <2> QED BY <2>1, <2>2, <2>3, Zenon
<1> HIDE DEF built
<1>4. state' # None => state' = built
  BY <1>1, BuiltKeptOrSpilled
<1>5. state' # None => Stands(state', hierarchy[c], threshold, n, truth, m)
  BY <1>3, <1>4, Zenon
<1>6. \A d : sources' = {d} => d = c
  BY <1>1
<1> QED BY <1>1, <1>5, <1>6, AnsweredStanding

(***************************************************************************)
(* A second partition has at least one id, so that it is never taken for   *)
(* that of a sweep.                                                        *)
(***************************************************************************)
LEMMA SomeColumns ==
    ASSUME NEW events \in Hierarchical, NEW q \in Nat, NEW m \in Sizes
    PROVE  {Min(entity) : entity \in Classes(Own(events, q, m))} # {}
<1>1. IsOwner(Own(events, q, m), m)
  BY OwnIs
<1>2. m \in Nat /\ m # 0 /\ 0 \in 0 .. m - 1
  BY SizesAssumption DEF Sizes
<1>3. 0 \in DOMAIN Own(events, q, m)
  BY <1>1, <1>2 DEF IsOwner
<1>4. Class(Own(events, q, m), Own(events, q, m)[0]) \in Classes(Own(events, q, m))
  BY <1>3 DEF Classes
<1> QED BY <1>4

(***************************************************************************)
(* A comparison that updates keeps it: the state it finds has the ids of a *)
(* second partition, so it is no sweep's, and stands for a comparison at a *)
(* threshold no lower.                                                     *)
(***************************************************************************)
LEMMA IncrementsStanding ==
    ASSUME Typed, Kept, Standing, NEW c \in Collections, NEW threshold \in Thresholds,
           NEW truth \in Truths, NEW n \in Sizes, NEW m \in Sizes,
           CompareIncrements(c, threshold, truth, n, m)
    PROVE  Standing'
<1> DEFINE entities == Partition(c, threshold, n)
<1> DEFINE truth_entities == Partition(c, truth, m)
<1> DEFINE events == hierarchy[c]
<1>1. /\ Comparison(c, threshold, truth, n, m) /\ pc' = "idle" /\ answer' = <<state'>>
      /\ state # None
      /\ TruthUnchanged(truth_entities)
      /\ state' = IncrementalUpdate(state, threshold, entities, truth_entities)
  BY DEF CompareIncrements
<1>2. pc # "merging"
  BY <1>1 DEF Comparison, Begin
<1>3. \A d : sources' = {d} => d = c /\ sources = {c}
  BY IncrementDescends
<1>4. truth \in Thresholds /\ threshold \in Nat /\ truth \in Nat /\ events \in Hierarchical
  BY HierarchyIs, ThresholdsAssumption DEF Typed
<1>5. entities = Classes(Own(events, threshold, n)) /\ truth_entities = Classes(Own(events, truth, m))
  BY <1>4, PartitionOwn
<1> HIDE DEF entities, truth_entities
<1>6. state' # None /\ sources' = {c} => Stands(state', hierarchy[c], threshold, n, truth, m)
  <2> SUFFICES ASSUME sources' = {c} PROVE Stands(state', events, threshold, n, truth, m)
    OBVIOUS
  <2> HIDE DEF events
  <2>1. sources = {c}
    BY <1>3
  <2>2. DOMAIN state.col_marginals = {Min(entity) : entity \in Classes(Own(events, truth, m))}
    BY <1>1, <1>5 DEF TruthUnchanged
  <2>3. ~NoColumns(state)
    BY <2>2, <1>4, SomeColumns DEF NoColumns
  <2>4. Comparable(state, events)
    BY <2>1, <2>3, <1>1, <1>2 DEF Standing, StateStands, events
  <2>5. PICK n0 \in Sizes, m0 \in Sizes, q0 \in Truths :
            Stands(state, events, state.last_threshold, n0, q0, m0)
    BY <2>4, Zenon DEF Comparable
  <2>6. state.last_threshold \in Nat /\ q0 \in Nat /\ state.last_threshold >= threshold
    <3>1. state \in DeltaState
      BY <1>1 DEF Typed
    <3>2. state.last_threshold \in Thresholds /\ q0 \in Thresholds
      BY <3>1, StateParts, ThresholdsAssumption
    <3>3. state.last_threshold \in Nat /\ q0 \in Nat
      BY <3>2, ThresholdsAssumption
    <3>4. state.last_threshold >= threshold
      BY IncrementDescends
    <3> QED BY <3>3, <3>4
  <2>7. Stands(IncrementalUpdate(state, threshold, Classes(Own(events, threshold, n)),
                                 Classes(Own(events, truth, m))),
               events, threshold, n, truth, m)
    BY <2>2, <2>5, <2>6, <1>4, IncrementStands
  <2> QED BY <2>7, <1>1, <1>5, Zenon
<1>7. \A d : sources' = {d} => d = c
  BY <1>3
<1> QED BY <1>1, <1>6, <1>7, AnsweredStanding

(***************************************************************************)
(* Every step keeps it.                                                    *)
(***************************************************************************)
LEMMA NextStanding == Typed /\ Kept /\ Standing /\ [Next]_vars => Standing'
<1> SUFFICES ASSUME Typed, Kept, Standing, [Next]_vars PROVE Standing'
  OBVIOUS
<1>1. CASE \E c \in Collections, args \in SweepArguments, n \in Sizes :
                \E thresholds \in Swept[args] : Sweep(c, thresholds, n)
  BY <1>1, SweepStanding
<1>2. CASE ApplyMergeEvent
  BY <1>2, ApplyStanding
<1>3. CASE EndWindow
  BY <1>3, EndStanding
<1>4. CASE SweepUnwrapsNone
  BY <1>4, UnwrapStanding
<1>5. CASE \E c \in Collections, threshold \in Points, truth \in Truths, n, m \in Sizes :
                \/ ComparePanics(c, threshold, truth, n, m)
                \/ CompareRebuilds(c, threshold, truth, n, m)
                \/ CompareIncrements(c, threshold, truth, n, m)
  BY <1>5, PanicsStanding, RebuildsStanding, IncrementsStanding, ThresholdsAssumption
<1>6. CASE UNCHANGED vars
  BY <1>6 DEF Standing, StateStands, SweepsWithoutColumns, AnswerStands, Compared, Current, vars
<1> QED BY <1>1, <1>2, <1>3, <1>4, <1>5, <1>6 DEF Next

(***************************************************************************)
(* Comparisons stand in every reachable state.                             *)
(***************************************************************************)
THEOREM AlwaysStanding == Spec => []Standing
<1>1. Init => Standing
  BY InitStanding
<1>2. Typed /\ Kept /\ Standing /\ [Next]_vars => Standing'
  BY NextStanding
<1> QED BY <1>1, <1>2, AlwaysTyped, RowsAlwaysKept, PTL DEF Spec

-----------------------------------------------------------------------------
(***************************************************************************)
(* Comparisons are answered as after a rebuild.                            *)
(***************************************************************************)

(***************************************************************************)
(* States that agree in all but the table agree when it is replaced.       *)
(***************************************************************************)
LEMMA ButForTable ==
    ASSUME NEW s \in DeltaState, NEW r \in DeltaState, NEW table,
           s.last_threshold = r.last_threshold, s.row_marginals = r.row_marginals,
           s.col_marginals = r.col_marginals, s.total_records = r.total_records, s.pairs = r.pairs,
           s.sum_cell_combinations = r.sum_cell_combinations,
           s.sum_row_combinations = r.sum_row_combinations,
           s.sum_col_combinations = r.sum_col_combinations
    PROVE  [s EXCEPT !.contingency_table = table] = [r EXCEPT !.contingency_table = table]
  BY DEF DeltaState

(***************************************************************************)
(* Cells of records of the build are never missing.                        *)
(***************************************************************************)
LEMMA LackedKnown ==
    ASSUME NEW table, NEW full, Lacks(table, full)
    PROVE  LET known(f) == DOMAIN f \cap (BuildRecords \X BuildRecords)
           IN  [cell \in known(table) |-> table[cell]] = [cell \in known(full) |-> full[cell]]
<1> DEFINE A == DOMAIN table \cap (BuildRecords \X BuildRecords)
<1> DEFINE B == DOMAIN full \cap (BuildRecords \X BuildRecords)
<1>1. A = B /\ \A cell \in A : table[cell] = full[cell]
  BY DEF Lacks
<1> HIDE DEF A, B
<1>2. [cell \in A |-> table[cell]] = [cell \in B |-> full[cell]]
  BY <1>1
<1> QED BY <1>2 DEF A, B

(***************************************************************************)
(* Two states that stand for one comparison agree but for records that     *)
(* came after the build.                                                   *)
(***************************************************************************)
LEMMA StandsAsBuilt ==
    ASSUME NEW events, NEW t, NEW truth, NEW n, NEW m,
           NEW s \in DeltaState, Stands(s, events, t, n, truth, m),
           NEW r \in DeltaState, Stands(r, events, t, n, truth, m)
    PROVE  ButForNewRecords(s) = ButForNewRecords(r)
<1> DEFINE full == Full(Own(events, t, n), Own(events, truth, m))
<1> DEFINE known(table) == DOMAIN table \cap (BuildRecords \X BuildRecords)
<1> DEFINE rest(table) == [cell \in known(table) |-> table[cell]]
<1>1. /\ s.last_threshold = r.last_threshold /\ s.row_marginals = r.row_marginals
      /\ s.col_marginals = r.col_marginals /\ s.total_records = r.total_records /\ s.pairs = r.pairs
      /\ s.sum_cell_combinations = r.sum_cell_combinations
      /\ s.sum_row_combinations = r.sum_row_combinations
      /\ s.sum_col_combinations = r.sum_col_combinations
      /\ Lacks(s.contingency_table, full) /\ Lacks(r.contingency_table, full)
  BY Zenon DEF Stands
<1>2. rest(s.contingency_table) = rest(full) /\ rest(r.contingency_table) = rest(full)
  BY <1>1, LackedKnown
<1>3. ButForNewRecords(s) = [s EXCEPT !.contingency_table = rest(s.contingency_table)]
  BY Zenon DEF ButForNewRecords
<1>4. ButForNewRecords(r) = [r EXCEPT !.contingency_table = rest(r.contingency_table)]
  BY Zenon DEF ButForNewRecords
<1> DEFINE table == rest(full)
<1>5. rest(s.contingency_table) = table /\ rest(r.contingency_table) = table
  BY <1>2
<1> HIDE DEF table, rest
<1>6. [s EXCEPT !.contingency_table = table] = [r EXCEPT !.contingency_table = table]
  BY <1>1, ButForTable
<1> QED BY <1>3, <1>4, <1>5, <1>6, Zenon

(***************************************************************************)
(* What a comparison is asked and answers.                                 *)
(***************************************************************************)
LEMMA AnswersTyped ==
    ASSUME Typed, Compared
    PROVE  /\ call.collection \in Collections /\ call.truth \in Truths /\ call.truth \in Thresholds
           /\ call.thresholds[1] \in Thresholds
           /\ call.records \in Sizes /\ call.truth_records \in Sizes
           /\ answer[1] \in DeltaState
<1>1. /\ call.collection \in Collections /\ call.truth \in Truths
      /\ call.thresholds \in Seq(Thresholds) /\ Len(call.thresholds) = 1
      /\ call.records \in Sizes /\ call.truth_records \in Sizes
  BY DEF Typed, CallTyped, Compared
<1>2. answer \in Seq(DeltaState \cup {None}) /\ answer # <<>> /\ answer[1] # None
  BY DEF Typed, Compared
<1>3. answer[1] \in DeltaState
  BY <1>2
<1>4. call.thresholds[1] \in Thresholds
  BY <1>1
<1>5. call.truth \in Thresholds
  BY <1>1, ThresholdsAssumption
<1> QED BY <1>1, <1>3, <1>4, <1>5

(***************************************************************************)
(* So the invariant gives what the runs check.                             *)
(***************************************************************************)
LEMMA AnswersAsBuilt == Typed /\ Standing => ComparesAsRebuilt
<1> DEFINE t == call.thresholds[1]
<1> DEFINE n == call.records
<1> DEFINE m == call.truth_records
<1> DEFINE truth == call.truth
<1> DEFINE built == BuildInitialState(t, Entities1(1), Entities2)
<1> SUFFICES ASSUME Typed, Standing, Compared, sources = {call.collection}
             PROVE  ButForNewRecords(answer[1]) = ButForNewRecords(built)
  BY DEF ComparesAsRebuilt
<1>1. /\ call.collection \in Collections /\ truth \in Truths /\ truth \in Thresholds /\ t \in Thresholds
      /\ n \in Sizes /\ m \in Sizes /\ answer[1] \in DeltaState
  BY AnswersTyped
<1>2. t \in Nat /\ truth \in Nat /\ Current \in Hierarchical
  BY <1>1, HierarchyIs, ThresholdsAssumption DEF Typed, Current
<1>3. Stands(answer[1], Current, t, n, truth, m)
  BY DEF Standing, AnswerStands
<1>4. Entities1(1) = Classes(Own(Current, t, n)) /\ Entities2 = Classes(Own(Current, truth, m))
  <2>1. Partition(call.collection, t, n) = Classes(Own(hierarchy[call.collection], t, n))
    BY <1>1, PartitionOwn
  <2>2. Partition(call.collection, truth, m) = Classes(Own(hierarchy[call.collection], truth, m))
    BY <1>1, PartitionOwn
  <2> QED BY <2>1, <2>2, Zenon DEF Entities1, Entities2, Current
<1>5. Stands(built, Current, t, n, truth, m)
  <2>1. Stands(BuildInitialState(t, Classes(Own(Current, t, n)), Classes(Own(Current, truth, m))),
               Current, t, n, truth, m)
    BY <1>1, <1>2, BuildStands
  <2> QED BY <2>1, <1>4, Zenon
<1>6. built \in DeltaState
  <2>1. IsEntities(Partition(call.collection, t, n))
    BY <1>1, PartitionIs DEF Typed
  <2>2. IsEntities(Partition(call.collection, truth, m))
    BY <1>1, PartitionIs DEF Typed
  <2>3. IsEntities(Entities1(1)) /\ IsEntities(Entities2)
    BY <2>1, <2>2 DEF Entities1, Entities2
  <2> QED BY <2>3, <1>1, BuildType
<1> HIDE DEF t, n, m, truth, built
<1> QED BY <1>1, <1>3, <1>5, <1>6, StandsAsBuilt

(***************************************************************************)
(* ComparesAsRebuilt: however many calls led to the state, a comparison of *)
(* the one collection they were about is answered as by a fresh algorithm, *)
(* but for cells of records that came after the build.                     *)
(***************************************************************************)
THEOREM ComparesAsRebuiltCorrect == Spec => []ComparesAsRebuilt
  BY AlwaysTyped, AlwaysStanding, AnswersAsBuilt, PTL

-----------------------------------------------------------------------------
(***************************************************************************)
(* Pairs of records.                                                       *)
(***************************************************************************)

(***************************************************************************)
(* Sets of two elements.                                                   *)
(***************************************************************************)
Pairs(S) == kSubset(2, S)

(***************************************************************************)
(* What a pair is.                                                         *)
(***************************************************************************)
LEMMA PairsAre ==
    ASSUME NEW S
    PROVE  /\ Pairs(S) = {pair \in SUBSET S : Cardinality(pair) = 2}
           /\ \A pair \in Pairs(S) : pair \subseteq S /\ pair # {} /\ Cardinality(pair) = 2
<1>1. Pairs(S) = {pair \in SUBSET S : Cardinality(pair) = 2}
  BY DEF Pairs, kSubset
<1>2. Cardinality({}) # 2
  BY FS_EmptySet
<1>3. \A pair \in Pairs(S) : pair \subseteq S /\ Cardinality(pair) = 2
  BY <1>1
<1> QED BY <1>1, <1>2, <1>3

(***************************************************************************)
(* A finite set has finitely many.                                         *)
(***************************************************************************)
LEMMA PairsFinite ==
    ASSUME NEW S, IsFiniteSet(S)
    PROVE  IsFiniteSet(Pairs(S)) /\ Cardinality(Pairs(S)) \in Nat
<1>1. IsFiniteSet(SUBSET S) /\ Pairs(S) \in SUBSET (SUBSET S)
  BY FS_SUBSET, PairsAre
<1>2. IsFiniteSet(Pairs(S))
  BY <1>1, FS_Subset
<1> QED BY <1>2, FS_CardinalityType

(***************************************************************************)
(* Two different elements are two.                                         *)
(***************************************************************************)
LEMMA TwoElements == \A b, c : b # c => Cardinality({b, c}) = 2
<1> SUFFICES ASSUME NEW b, NEW c, b # c PROVE Cardinality({b, c}) = 2
  OBVIOUS
<1>1. IsFiniteSet({b}) /\ Cardinality({b}) = 1 /\ c \notin {b}
  BY FS_Singleton
<1>2. Cardinality({b} \cup {c}) = 2
  BY <1>1, FS_AddElement
<1>3. {b} \cup {c} = {b, c}
  OBVIOUS
<1> QED BY <1>2, <1>3, Zenon

(***************************************************************************)
(* The pairs with one of the elements are as many as there are others.     *)
(***************************************************************************)
LEMMA PairWith ==
    ASSUME NEW B, IsFiniteSet(B), NEW b \in B
    PROVE  Cardinality(Pairs(B)) = Cardinality(Pairs(B \ {b})) + Cardinality(B \ {b})
<1> DEFINE C == B \ {b}
<1> DEFINE F == {{b, c} : c \in C}
<1> DEFINE g == [c \in C |-> {b, c}]
<1>1. IsFiniteSet(C) /\ IsFiniteSet(Pairs(C)) /\ Cardinality(C) \in Nat
  BY FS_RemoveElement, PairsFinite, FS_CardinalityType
<1>2. F \subseteq Pairs(B)
  <2> SUFFICES ASSUME NEW c \in C PROVE {b, c} \in Pairs(B)
    OBVIOUS
  <2>1. Cardinality({b, c}) = 2 /\ {b, c} \subseteq B
    BY TwoElements
  <2> QED BY <2>1, PairsAre
<1>3. Pairs(C) \subseteq Pairs(B)
  BY PairsAre
<1>4. ASSUME NEW pair \in Pairs(B), pair \notin Pairs(C) PROVE pair \in F
  <2>1. pair \subseteq B /\ Cardinality(pair) = 2 /\ IsFiniteSet(pair)
    BY PairsAre, FS_Subset
  <2>2. b \in pair
    BY <2>1, <1>4, PairsAre
  <2>3. IsFiniteSet(pair \ {b}) /\ Cardinality(pair \ {b}) = 1
    BY <2>1, <2>2, FS_RemoveElement
  <2>4. PICK c : pair \ {b} = {c}
    BY <2>3, FS_Singleton
  <2>5. pair = {b, c} /\ c \in C
    BY <2>1, <2>2, <2>4
  <2> QED BY <2>5
<1>5. Pairs(B) = Pairs(C) \cup F
  <2> HIDE DEF C, F
  <2> QED BY <1>2, <1>3, <1>4
<1>6. Pairs(C) \cap F = {}
  BY PairsAre
<1>7. g \in Bijection(C, F)
  <2>1. g \in [C -> F]
    OBVIOUS
  <2>2. \A c, d \in C : g[c] = g[d] => c = d
    <3> SUFFICES ASSUME NEW c \in C, NEW d \in C, {b, c} = {b, d} PROVE c = d
      OBVIOUS
    <3>1. c \in {b, d} /\ c # b
      OBVIOUS
    <3> QED BY <3>1
  <2>3. \A f \in F : \E c \in C : g[c] = f
    OBVIOUS
  <2>4. IsInjective(g)
    BY <2>2 DEF IsInjective
  <2> HIDE DEF g, C, F
  <2> QED BY <2>1, <2>3, <2>4 DEF Bijection, Injection, Surjection
<1> HIDE DEF C, F, g
<1>8. IsFiniteSet(F) /\ Cardinality(F) = Cardinality(C)
  BY <1>1, <1>7, FS_Bijection DEF ExistsBijection
<1>9. Cardinality(Pairs(C) \cup F) = Cardinality(Pairs(C)) + Cardinality(F) - Cardinality(Pairs(C) \cap F)
  BY <1>1, <1>8, FS_Union
<1>10. Cardinality(Pairs(C) \cap F) = 0
  BY <1>6, FS_EmptySet
<1>11. Cardinality(Pairs(C)) \in Nat
  BY <1>1, FS_CardinalityType
<1> QED BY <1>1, <1>5, <1>8, <1>9, <1>10, <1>11 DEF C

(***************************************************************************)
(* A set of n elements has choose_2(n) pairs.                              *)
(***************************************************************************)
LEMMA PairsCount ==
    ASSUME NEW S, IsFiniteSet(S)
    PROVE  Cardinality(Pairs(S)) = choose_2(Cardinality(S))
<1> DEFINE T == {B \in SUBSET S : Cardinality(Pairs(B)) # choose_2(Cardinality(B))}
<1> SUFFICES ASSUME T # {} PROVE FALSE
  OBVIOUS
<1> HIDE DEF T
<1>1. PICK B \in T : \A C \in SUBSET B : C # B => C \notin T
  <2>1. T \subseteq SUBSET S
    BY DEF T
  <2> QED BY <2>1, MinimalSet
<1>2. B \subseteq S /\ Cardinality(Pairs(B)) # choose_2(Cardinality(B)) /\ IsFiniteSet(B)
  BY <1>1, FS_Subset DEF T
<1>3. B # {}
  <2>1. Pairs({}) = {}
    BY PairsAre
  <2>2. Cardinality({}) = 0 /\ choose_2(0) = 0
    BY FS_EmptySet DEF choose_2
  <2>3. Cardinality(Pairs({})) = choose_2(Cardinality({}))
    BY <2>1, <2>2, Zenon
  <2> QED BY <2>3, <1>2, Zenon
<1>4. PICK b : b \in B
  BY <1>3
<1> DEFINE C == B \ {b}
<1>5. C \in SUBSET B /\ C # B /\ C \in SUBSET S
  BY <1>2, <1>4
<1>6. IsFiniteSet(C) /\ Cardinality(C) \in Nat /\ Cardinality(C) = Cardinality(B) - 1
      /\ Cardinality(B) \in Nat
  BY <1>2, <1>4, FS_RemoveElement, FS_CardinalityType
<1>7. Cardinality(Pairs(C)) = choose_2(Cardinality(C))
  BY <1>1, <1>5 DEF T
<1>8. Cardinality(Pairs(B)) = Cardinality(Pairs(C)) + Cardinality(C)
  BY <1>2, <1>4, PairWith
<1>9. choose_2(Cardinality(C) + 1) = choose_2(Cardinality(C)) + Cardinality(C)
  BY <1>6, Choose2Step
<1> HIDE DEF C
<1>10. Cardinality(C) + 1 = Cardinality(B)
  BY <1>6
<1> QED BY <1>2, <1>7, <1>8, <1>9, <1>10

(***************************************************************************)
(* Pairs together in a partition, and their entity's owner.                *)
(***************************************************************************)
In(own) == {pair \in Pairs(DOMAIN own) : \A x, y \in pair : own[x] = own[y]}
Label(own) == [pair \in SUBSET DOMAIN own |-> own[Choice(pair)]]

(***************************************************************************)
(* Both records of such a pair have that owner.                            *)
(***************************************************************************)
LEMMA LabelIs ==
    ASSUME NEW n, NEW own, IsOwner(own, n), NEW pair \in In(own)
    PROVE  /\ pair \in SUBSET DOMAIN own /\ pair # {} /\ Cardinality(pair) = 2
           /\ Label(own)[pair] \in Owners(own)
           /\ \A x \in pair : own[x] = Label(own)[pair]
<1>1. pair \in SUBSET DOMAIN own /\ pair # {} /\ Cardinality(pair) = 2
      /\ \A x, y \in pair : own[x] = own[y]
  BY PairsAre DEF In
<1>2. Choice(pair) \in pair
  BY <1>1, ChoiceIn
<1>3. Label(own)[pair] = own[Choice(pair)]
  BY <1>1 DEF Label
<1>4. own[Choice(pair)] \in Owners(own)
  BY <1>1, <1>2 DEF IsOwner, Owners
<1> QED BY <1>1, <1>2, <1>3, <1>4

(***************************************************************************)
(* They are finitely many.                                                 *)
(***************************************************************************)
LEMMA InFinite ==
    ASSUME NEW n \in Nat, NEW own, IsOwner(own, n)
    PROVE  IsFiniteSet(In(own))
<1>1. IsFiniteSet(Pairs(DOMAIN own)) /\ In(own) \in SUBSET Pairs(DOMAIN own)
  BY OwnersFinite, PairsFinite DEF In
<1> QED BY <1>1, FS_Subset

(***************************************************************************)
(* They are what the runs count.                                           *)
(***************************************************************************)
LEMMA TogetherIs ==
    ASSUME NEW n \in Sizes, NEW own, IsOwner(own, n)
    PROVE  Together(Classes(own)) = In(own)
<1>1. n \in Nat /\ DOMAIN own = 0 .. n - 1 /\ DOMAIN own \subseteq Records
  BY RecordsFinite DEF IsOwner
<1>2. ASSUME NEW pair \in Together(Classes(own)) PROVE pair \in In(own)
  <2>1. Cardinality(pair) = 2 /\ \E x \in DOMAIN own : pair \subseteq Class(own, own[x])
    BY DEF Together, kSubset, Classes
  <2>2. pair \subseteq DOMAIN own /\ \A x, y \in pair : own[x] = own[y]
    BY <2>1 DEF Class, Fibre
  <2> QED BY <2>1, <2>2, PairsAre DEF In
<1>3. ASSUME NEW pair \in In(own) PROVE pair \in Together(Classes(own))
  <2>1. /\ pair \in SUBSET DOMAIN own /\ Cardinality(pair) = 2
        /\ Label(own)[pair] \in Owners(own)
        /\ \A x \in pair : own[x] = Label(own)[pair]
    BY LabelIs
  <2>2. pair \subseteq Class(own, Label(own)[pair])
    BY <2>1 DEF Class, Fibre
  <2>3. Class(own, Label(own)[pair]) \in Classes(own)
    BY <1>1, <2>1, ClassOfOwner
  <2>4. pair \in kSubset(2, Records)
    BY <1>1, <2>1 DEF kSubset
  <2> QED BY <2>2, <2>3, <2>4 DEF Together
<1> QED BY <1>2, <1>3

(***************************************************************************)
(* The pairs with one label are those of one entity.                       *)
(***************************************************************************)
LEMMA InClass ==
    ASSUME NEW n \in Nat, NEW own, IsOwner(own, n), NEW id \in Owners(own)
    PROVE  Fibre(In(own), Label(own), {id}) = Pairs(Class(own, id))
<1>1. ASSUME NEW pair \in Fibre(In(own), Label(own), {id}) PROVE pair \in Pairs(Class(own, id))
  <2>1. pair \in In(own) /\ Label(own)[pair] = id
    BY DEF Fibre
  <2>2. pair \in SUBSET DOMAIN own /\ Cardinality(pair) = 2 /\ \A x \in pair : own[x] = id
    BY <2>1, LabelIs
  <2>3. pair \subseteq Class(own, id)
    BY <2>2 DEF Class, Fibre
  <2> QED BY <2>2, <2>3, PairsAre
<1>2. ASSUME NEW pair \in Pairs(Class(own, id)) PROVE pair \in Fibre(In(own), Label(own), {id})
  <2>1. pair \subseteq Class(own, id) /\ pair # {} /\ Cardinality(pair) = 2
    BY PairsAre
  <2>2. pair \subseteq DOMAIN own /\ \A x \in pair : own[x] = id
    BY <2>1 DEF Class, Fibre
  <2>3. pair \in In(own)
    BY <2>1, <2>2, PairsAre DEF In
  <2>4. Label(own)[pair] = id
    BY <2>1, <2>2, <2>3, LabelIs
  <2> QED BY <2>3, <2>4 DEF Fibre
<1> QED BY <1>1, <1>2

(***************************************************************************)
(* A row counts them.                                                      *)
(***************************************************************************)
LEMMA RowPairs ==
    ASSUME NEW n \in Nat, NEW own, IsOwner(own, n), NEW id \in Owners(own)
    PROVE  Cardinality(Fibre(In(own), Label(own), {id})) = choose_2(RowsOf(own)[id])
<1>1. RowsOf(own)[id] = Cardinality(Class(own, id)) /\ IsFiniteSet(Class(own, id))
  BY OwnersFinite DEF RowsOf
<1>2. Cardinality(Pairs(Class(own, id))) = choose_2(Cardinality(Class(own, id)))
  BY <1>1, PairsCount
<1> QED BY <1>1, <1>2, InClass, Zenon

(***************************************************************************)
(* The pairs of rows that are not among Q sum, with no subtraction         *)
(* saturating, to the pairs together but not in Q.                         *)
(***************************************************************************)
LEMMA OutsideIs ==
    ASSUME NEW n \in Nat, NEW own, IsOwner(own, n), NEW Q, NEW within,
           \A id \in Owners(own) : within[id] = Cardinality(Fibre(In(own) \cap Q, Label(own), {id}))
    PROVE  Outside(RowsOf(own), within) = Cardinality(In(own) \ Q)
<1> DEFINE rows == RowsOf(own)
<1> DEFINE f == [id \in DOMAIN rows |-> Monus(choose_2(rows[id]), within[id])]
<1>1. DOMAIN rows = Owners(own) /\ IsFiniteSet(Owners(own)) /\ IsFiniteSet(In(own))
  BY OwnersFinite, InFinite DEF RowsOf
<1>2. ASSUME NEW id \in Owners(own)
      PROVE  f[id] = Cardinality(Fibre(In(own) \ Q, Label(own), {id}))
  <2> DEFINE A == Fibre(In(own), Label(own), {id})
  <2>1. A \ Q = Fibre(In(own) \ Q, Label(own), {id}) /\ A \cap Q = Fibre(In(own) \cap Q, Label(own), {id})
        /\ A \in SUBSET In(own) /\ A \ Q \in SUBSET In(own) /\ A \cap Q \in SUBSET In(own)
    BY DEF Fibre
  <2>2. Cardinality(A) = choose_2(rows[id])
    BY RowPairs
  <2> HIDE DEF A, rows
  <2>3. IsFiniteSet(A) /\ IsFiniteSet(A \ Q) /\ IsFiniteSet(A \cap Q)
    BY <1>1, <2>1, FS_Subset
  <2>4. Cardinality(A) \in Nat /\ Cardinality(A \ Q) \in Nat /\ Cardinality(A \cap Q) \in Nat
    BY <2>3, FS_CardinalityType
  <2>5. Cardinality(A \ Q) = Cardinality(A) - Cardinality(A \cap Q)
    BY <2>3, FS_Difference
  <2>6. within[id] = Cardinality(A \cap Q)
    BY <2>1
  <2>7. f[id] = Monus(Cardinality(A), Cardinality(A \cap Q))
    BY <1>1, <2>2, <2>6
  <2>8. Monus(Cardinality(A), Cardinality(A \cap Q)) = Cardinality(A \ Q)
    BY <2>4, <2>5 DEF Monus
  <2> QED BY <2>1, <2>7, <2>8, Zenon
<1>3. Fibre(In(own) \ Q, Label(own), Owners(own)) = In(own) \ Q
  BY LabelIs DEF Fibre
<1>4. IsFiniteSet(In(own) \ Q)
  BY <1>1, FS_Difference
<1>5. DOMAIN f = Owners(own)
  BY <1>1
<1> DEFINE R == In(own) \ Q
<1>6. SumOn(f, Owners(own)) = Cardinality(Fibre(R, Label(own), Owners(own)))
  <2>1. \A id \in Owners(own) : f[id] = Cardinality(Fibre(R, Label(own), {id}))
    BY <1>2
  <2>2. IsFiniteSet(R) /\ IsFiniteSet(Owners(own))
    BY <1>1, <1>4
  <2> HIDE DEF f, R
  <2> QED BY <2>1, <2>2, SumOfFibres
<1> HIDE DEF f
<1>7. SumOf(f) = Cardinality(In(own) \ Q)
  BY <1>3, <1>5, <1>6, SumOfDef, Zenon
<1> QED BY <1>7, Zenon DEF Outside, f

-----------------------------------------------------------------------------
(***************************************************************************)
(* Pairs together in both partitions.                                      *)
(***************************************************************************)

(***************************************************************************)
(* Pairs together in both partitions, and their cell.                      *)
(***************************************************************************)
Both(own1, own2) == In(own1) \cap In(own2)
CellLabel(own1, own2) == [pair \in Both(own1, own2) |-> <<Label(own1)[pair], Label(own2)[pair]>>]

(***************************************************************************)
(* That cell is one of the table.                                          *)
(***************************************************************************)
LEMMA CellLabelIs ==
    ASSUME NEW n \in Nat, NEW own1, IsOwner(own1, n), NEW m \in Nat, NEW own2, IsOwner(own2, m),
           NEW pair \in Both(own1, own2)
    PROVE  CellLabel(own1, own2)[pair] \in DOMAIN Full(own1, own2)
<1> DEFINE a == Label(own1)[pair]
<1> DEFINE b == Label(own2)[pair]
<1>1. pair \in In(own1) /\ pair \in In(own2)
  BY DEF Both
<1>2. /\ pair \in SUBSET DOMAIN own1 /\ pair # {} /\ a \in Owners(own1)
      /\ \A x \in pair : own1[x] = a
  BY <1>1, LabelIs
<1>3. pair \in SUBSET DOMAIN own2 /\ b \in Owners(own2) /\ \A x \in pair : own2[x] = b
  BY <1>1, LabelIs
<1>4. CellLabel(own1, own2)[pair] = <<a, b>>
  BY DEF CellLabel
<1> HIDE DEF a, b
<1>5. pair \subseteq Cut(own1, own2, <<a, b>>)
  BY <1>2, <1>3 DEF Cut, Class, Fibre
<1>6. <<a, b>> \in Owners(own1) \X Owners(own2) /\ Cut(own1, own2, <<a, b>>) # {}
  BY <1>2, <1>3, <1>5
<1> QED BY <1>4, <1>6, FullAre

(***************************************************************************)
(* The pairs with one cell are those of its records.                       *)
(***************************************************************************)
LEMMA InCell ==
    ASSUME NEW n \in Nat, NEW own1, IsOwner(own1, n), NEW m \in Nat, NEW own2, IsOwner(own2, m),
           NEW a \in Owners(own1), NEW b \in Owners(own2)
    PROVE  Fibre(Both(own1, own2), CellLabel(own1, own2), {<<a, b>>}) = Pairs(Cut(own1, own2, <<a, b>>))
<1> DEFINE both == Both(own1, own2)
<1>1. ASSUME NEW pair \in Fibre(both, CellLabel(own1, own2), {<<a, b>>})
      PROVE  pair \in Pairs(Cut(own1, own2, <<a, b>>))
  <2>1. pair \in both /\ CellLabel(own1, own2)[pair] = <<a, b>>
    BY DEF Fibre
  <2>2. pair \in In(own1) /\ pair \in In(own2) /\ Label(own1)[pair] = a /\ Label(own2)[pair] = b
    BY <2>1 DEF CellLabel, Both
  <2>3. pair \in Pairs(Class(own1, a)) /\ pair \in Pairs(Class(own2, b))
    BY <2>2, InClass DEF Fibre
  <2>4. pair \subseteq Cut(own1, own2, <<a, b>>) /\ Cardinality(pair) = 2
    BY <2>3, PairsAre DEF Cut
  <2> QED BY <2>4, PairsAre
<1>2. ASSUME NEW pair \in Pairs(Cut(own1, own2, <<a, b>>))
      PROVE  pair \in Fibre(both, CellLabel(own1, own2), {<<a, b>>})
  <2>1. pair \in Pairs(Class(own1, a)) /\ pair \in Pairs(Class(own2, b))
    BY PairsAre DEF Cut
  <2>2. pair \in In(own1) /\ Label(own1)[pair] = a
    BY <2>1, InClass DEF Fibre
  <2>3. pair \in In(own2) /\ Label(own2)[pair] = b
    BY <2>1, InClass DEF Fibre
  <2>4. pair \in both /\ CellLabel(own1, own2)[pair] = <<a, b>>
    BY <2>2, <2>3 DEF CellLabel, Both
  <2> QED BY <2>4 DEF Fibre
<1> QED BY <1>1, <1>2

(***************************************************************************)
(* The cell counts them.                                                   *)
(***************************************************************************)
LEMMA CellPairs ==
    ASSUME NEW n \in Nat, NEW own1, IsOwner(own1, n), NEW m \in Nat, NEW own2, IsOwner(own2, m),
           NEW cell \in DOMAIN Full(own1, own2)
    PROVE  choose_2(Full(own1, own2)[cell])
            = Cardinality(Fibre(Both(own1, own2), CellLabel(own1, own2), {cell}))
<1>1. cell \in Owners(own1) \X Owners(own2) /\ Full(own1, own2)[cell] = Cardinality(Cut(own1, own2, cell))
  BY FullAre
<1>2. PICK a \in Owners(own1), b \in Owners(own2) : cell = <<a, b>>
  BY <1>1
<1>3. IsFiniteSet(Class(own1, cell[1]))
  BY OwnersFinite
<1>4. IsFiniteSet(Cut(own1, own2, cell))
  BY <1>3, FS_Intersection DEF Cut
<1>5. Cardinality(Pairs(Cut(own1, own2, cell))) = choose_2(Cardinality(Cut(own1, own2, cell)))
  BY <1>4, PairsCount
<1>6. Fibre(Both(own1, own2), CellLabel(own1, own2), {cell}) = Pairs(Cut(own1, own2, cell))
  BY <1>2, InCell
<1> QED BY <1>1, <1>5, <1>6, Zenon

(***************************************************************************)
(* Some cells count the pairs in them.                                     *)
(***************************************************************************)
LEMMA CellsSum ==
    ASSUME NEW n \in Nat, NEW own1, IsOwner(own1, n), NEW m \in Nat, NEW own2, IsOwner(own2, m),
           NEW A \in SUBSET DOMAIN Full(own1, own2)
    PROVE  SumOf([cell \in A |-> choose_2(Full(own1, own2)[cell])])
            = Cardinality(Fibre(Both(own1, own2), CellLabel(own1, own2), A))
<1> DEFINE f == [cell \in A |-> choose_2(Full(own1, own2)[cell])]
<1> DEFINE S == Both(own1, own2)
<1> DEFINE l == CellLabel(own1, own2)
<1>1. ASSUME NEW cell \in A PROVE f[cell] = Cardinality(Fibre(S, l, {cell}))
  <2>1. choose_2(Full(own1, own2)[cell]) = Cardinality(Fibre(S, l, {cell}))
    BY CellPairs
  <2>2. f[cell] = choose_2(Full(own1, own2)[cell])
    OBVIOUS
  <2> QED BY <2>1, <2>2, Zenon
<1>2. IsFiniteSet(S)
  BY InFinite, FS_Intersection DEF Both
<1>3. IsFiniteSet(A)
  <2>1. IsFiniteSet(Owners(own1)) /\ IsFiniteSet(Owners(own2))
    BY OwnersFinite
  <2>2. IsFiniteSet(Owners(own1) \X Owners(own2))
    BY <2>1, FS_Product
  <2>3. A \in SUBSET (Owners(own1) \X Owners(own2))
    BY FullAre
  <2> QED BY <2>2, <2>3, FS_Subset
<1>4. DOMAIN f = A
  OBVIOUS
<1> HIDE DEF f, S, l
<1>5. SumOn(f, A) = Cardinality(Fibre(S, l, A))
  BY <1>1, <1>2, <1>3, SumOfFibres
<1>6. SumOf(f) = Cardinality(Fibre(S, l, A))
  BY <1>4, <1>5, SumOfDef, Zenon
<1> QED BY <1>6 DEF f, S, l

(***************************************************************************)
(* All cells count all of these pairs.                                     *)
(***************************************************************************)
LEMMA AllCells ==
    ASSUME NEW n \in Nat, NEW own1, IsOwner(own1, n), NEW m \in Nat, NEW own2, IsOwner(own2, m)
    PROVE  CombinationSum(Full(own1, own2)) = Cardinality(Both(own1, own2))
<1> DEFINE A == DOMAIN Full(own1, own2)
<1>1. Fibre(Both(own1, own2), CellLabel(own1, own2), A) = Both(own1, own2)
  BY CellLabelIs DEF Fibre
<1>2. A \in SUBSET DOMAIN Full(own1, own2)
  OBVIOUS
<1>3. SumOf([cell \in A |-> choose_2(Full(own1, own2)[cell])])
        = Cardinality(Fibre(Both(own1, own2), CellLabel(own1, own2), A))
  BY <1>2, CellsSum
<1> QED BY <1>1, <1>3, Zenon DEF CombinationSum

(***************************************************************************)
(* The cells of a row, or column, count those with the row's, or column's, *)
(* label.                                                                  *)
(***************************************************************************)
LEMMA RowCells ==
    ASSUME NEW n \in Nat, NEW own1, IsOwner(own1, n), NEW m \in Nat, NEW own2, IsOwner(own2, m), NEW id
    PROVE  /\ InRow(Full(own1, own2), id) = Cardinality(Fibre(Both(own1, own2), Label(own1), {id}))
           /\ InCol(Full(own1, own2), id) = Cardinality(Fibre(Both(own1, own2), Label(own2), {id}))
<1> DEFINE full == Full(own1, own2)
<1> DEFINE both == Both(own1, own2)
<1> DEFINE A == {c \in DOMAIN full : c[1] = id}
<1> DEFINE B == {c \in DOMAIN full : c[2] = id}
<1>1. \A pair \in both :
            /\ CellLabel(own1, own2)[pair] \in DOMAIN full
            /\ CellLabel(own1, own2)[pair][1] = Label(own1)[pair]
            /\ CellLabel(own1, own2)[pair][2] = Label(own2)[pair]
  <2> SUFFICES ASSUME NEW pair \in both
               PROVE  /\ CellLabel(own1, own2)[pair] \in DOMAIN full
                      /\ CellLabel(own1, own2)[pair][1] = Label(own1)[pair]
                      /\ CellLabel(own1, own2)[pair][2] = Label(own2)[pair]
    OBVIOUS
  <2>1. CellLabel(own1, own2)[pair] \in DOMAIN full
    BY CellLabelIs
  <2>2. CellLabel(own1, own2)[pair] = <<Label(own1)[pair], Label(own2)[pair]>>
    BY DEF CellLabel
  <2> QED BY <2>1, <2>2
<1>2. A \in SUBSET DOMAIN full /\ B \in SUBSET DOMAIN full
  OBVIOUS
<1> HIDE DEF full, both
<1>3. Fibre(both, CellLabel(own1, own2), A) = Fibre(both, Label(own1), {id})
  BY <1>1 DEF Fibre
<1>4. Fibre(both, CellLabel(own1, own2), B) = Fibre(both, Label(own2), {id})
  BY <1>1 DEF Fibre
<1> HIDE DEF A, B
<1>5. SumOf([cell \in A |-> choose_2(full[cell])]) = Cardinality(Fibre(both, CellLabel(own1, own2), A))
  BY <1>2, CellsSum DEF full, both
<1>6. SumOf([cell \in B |-> choose_2(full[cell])]) = Cardinality(Fibre(both, CellLabel(own1, own2), B))
  BY <1>2, CellsSum DEF full, both
<1>7. InRow(full, id) = Cardinality(Fibre(both, Label(own1), {id}))
  BY <1>3, <1>5, Zenon DEF InRow, A
<1>8. InCol(full, id) = Cardinality(Fibre(both, Label(own2), {id}))
  BY <1>4, <1>6, Zenon DEF InCol, B
<1> QED BY <1>7, <1>8 DEF full, both

(***************************************************************************)
(* False positives: pairs together in the first partition alone.           *)
(***************************************************************************)
LEMMA OutsideRows ==
    ASSUME NEW n \in Nat, NEW own1, IsOwner(own1, n), NEW m \in Nat, NEW own2, IsOwner(own2, m)
    PROVE  Outside(RowsOf(own1), [id \in DOMAIN RowsOf(own1) |-> InRow(Full(own1, own2), id)])
            = Cardinality(In(own1) \ In(own2))
<1> DEFINE within == [id \in DOMAIN RowsOf(own1) |-> InRow(Full(own1, own2), id)]
<1>1. DOMAIN RowsOf(own1) = Owners(own1)
  BY DEF RowsOf
<1>2. ASSUME NEW id \in Owners(own1)
      PROVE  within[id] = Cardinality(Fibre(In(own1) \cap In(own2), Label(own1), {id}))
  <2>1. within[id] = InRow(Full(own1, own2), id)
    BY <1>1
  <2>2. InRow(Full(own1, own2), id) = Cardinality(Fibre(Both(own1, own2), Label(own1), {id}))
    BY RowCells
  <2>3. Both(own1, own2) = In(own1) \cap In(own2)
    BY DEF Both
  <2> QED BY <2>1, <2>2, <2>3, Zenon
<1> HIDE DEF within
<1>3. Outside(RowsOf(own1), within) = Cardinality(In(own1) \ In(own2))
  BY <1>2, OutsideIs
<1> QED BY <1>3 DEF within

(***************************************************************************)
(* False negatives: pairs together in the second partition alone.          *)
(***************************************************************************)
LEMMA OutsideCols ==
    ASSUME NEW n \in Nat, NEW own1, IsOwner(own1, n), NEW m \in Nat, NEW own2, IsOwner(own2, m)
    PROVE  Outside(RowsOf(own2), [id \in DOMAIN RowsOf(own2) |-> InCol(Full(own1, own2), id)])
            = Cardinality(In(own2) \ In(own1))
<1> DEFINE within == [id \in DOMAIN RowsOf(own2) |-> InCol(Full(own1, own2), id)]
<1>1. DOMAIN RowsOf(own2) = Owners(own2) /\ In(own1) \cap In(own2) = In(own2) \cap In(own1)
  BY DEF RowsOf
<1>2. ASSUME NEW id \in Owners(own2)
      PROVE  within[id] = Cardinality(Fibre(In(own2) \cap In(own1), Label(own2), {id}))
  <2>1. within[id] = InCol(Full(own1, own2), id)
    BY <1>1
  <2>2. InCol(Full(own1, own2), id) = Cardinality(Fibre(Both(own1, own2), Label(own2), {id}))
    BY RowCells
  <2>3. Both(own1, own2) = In(own2) \cap In(own1)
    BY DEF Both
  <2> QED BY <2>1, <2>2, <2>3, Zenon
<1> HIDE DEF within
<1>3. Outside(RowsOf(own2), within) = Cardinality(In(own2) \ In(own1))
  BY <1>2, OutsideIs
<1> QED BY <1>3 DEF within

(***************************************************************************)
(* Records that came after the build are never in a pair.                  *)
(***************************************************************************)
LEMMA OldPairs ==
    ASSUME NEW events \in Hierarchical, NEW t \in Nat, NEW m \in Sizes,
           NEW pair \in In(Own(events, t, m))
    PROVE  pair \subseteq BuildRecords
<1> DEFINE own == Own(events, t, m)
<1> DEFINE k == Upto(events, t)
<1> DEFINE id == Label(own)[pair]
<1>1. IsOwner(own, m) /\ k \in 0 .. Len(events) /\ m \in Nat
  BY OwnIs
<1>2. DOMAIN own = 0 .. m - 1
  BY <1>1 DEF IsOwner
<1>3. /\ pair \in SUBSET (0 .. m - 1) /\ Cardinality(pair) = 2 /\ id \in Owners(own)
      /\ \A x \in pair : own[x] = id
  BY <1>1, <1>2, LabelIs
<1> SUFFICES ASSUME NEW x \in pair, x \notin BuildRecords PROVE FALSE
  OBVIOUS
<1>4. x \in Nat /\ own[x] = Root(events, k, x)
  BY <1>1, <1>3 DEF Own, At
<1>5. \A y \in pair : y \in Nat /\ own[y] = Root(events, k, y)
  BY <1>1, <1>3 DEF Own, At
<1> HIDE DEF own, k, id
<1>6. ASSUME NEW y \in pair PROVE y = x
  <2>1. Root(events, k, y) = Root(events, k, x) /\ y \in Nat
    BY <1>3, <1>4, <1>5
  <2> QED BY <2>1, <1>1, <1>4, NewRecordAlone
<1>7. pair = {x}
  BY <1>6
<1>8. Cardinality({x}) = 1
  BY FS_Singleton
<1> QED BY <1>3, <1>7, <1>8

(***************************************************************************)
(* Two sets in three disjoint parts.                                       *)
(***************************************************************************)
LEMMA UnionSize ==
    ASSUME NEW A, NEW B, IsFiniteSet(A), IsFiniteSet(B)
    PROVE  /\ Cardinality(A \cup B)
                = Cardinality(A \cap B) + Cardinality(A \ B) + Cardinality(B \ A)
           /\ Cardinality(A \cap B) \in Nat /\ Cardinality(A \ B) \in Nat /\ Cardinality(B \ A) \in Nat
<1>1. IsFiniteSet(A \cap B) /\ IsFiniteSet(A \ B) /\ IsFiniteSet(B \ A) /\ IsFiniteSet(A \cup B)
  BY FS_Intersection, FS_Difference, FS_Union
<1>2. Cardinality(A) \in Nat /\ Cardinality(B) \in Nat /\ Cardinality(A \cap B) \in Nat
      /\ Cardinality(A \ B) \in Nat /\ Cardinality(B \ A) \in Nat
  BY <1>1, FS_CardinalityType
<1>3. Cardinality(A \cup B) = Cardinality(A) + Cardinality(B) - Cardinality(A \cap B)
  BY FS_Union
<1>4. Cardinality(A \ B) = Cardinality(A) - Cardinality(A \cap B)
  BY FS_Difference
<1>5. Cardinality(B \ A) = Cardinality(B) - Cardinality(B \cap A)
  BY FS_Difference
<1>6. B \cap A = A \cap B
  OBVIOUS
<1>7. Cardinality(B \ A) = Cardinality(B) - Cardinality(A \cap B)
  BY <1>5, <1>6, Zenon
<1> QED BY <1>2, <1>3, <1>4, <1>7

-----------------------------------------------------------------------------
(***************************************************************************)
(* Pair counts are counts of pairs.                                        *)
(***************************************************************************)

(***************************************************************************)
(* The pair counts of a state that stands for a comparison.                *)
(***************************************************************************)
LEMMA StandingPairs ==
    ASSUME NEW events \in Hierarchical, NEW t \in Nat, NEW truth \in Nat,
           NEW n \in Sizes, NEW m \in Sizes, NEW s, Stands(s, events, t, n, truth, m)
    PROVE  LET in1 == In(Own(events, t, n))
               in2 == In(Own(events, truth, m))
               tp == Cardinality(in1 \cap in2)
               fp == Cardinality(in1 \ in2)
               fn == Cardinality(in2 \ in1)
           IN  s.pairs = [tp |-> tp, fp |-> fp, fn |-> fn, tn |-> Monus(choose_2(n), tp + fp + fn)]
<1> DEFINE own1 == Own(events, t, n)
<1> DEFINE own2 == Own(events, truth, m)
<1> DEFINE full == Full(own1, own2)
<1>1. IsOwner(own1, n) /\ IsOwner(own2, m) /\ n \in Nat /\ m \in Nat
  BY OwnIs
<1>2. s.pairs = PairCounts(RowsOf(own1), RowsOf(own2), full, n)
  BY Zenon DEF Stands
<1> HIDE DEF own1, own2
<1>3. PairCounts(RowsOf(own1), RowsOf(own2), full, n)
        = PairsOf(CombinationSum(full),
                  Outside(RowsOf(own1), [id \in DOMAIN RowsOf(own1) |-> InRow(full, id)]),
                  Outside(RowsOf(own2), [id \in DOMAIN RowsOf(own2) |-> InCol(full, id)]), n)
  BY PairCountsAre, Zenon
<1>4. CombinationSum(full) = Cardinality(In(own1) \cap In(own2))
  BY <1>1, AllCells DEF Both
<1>5. Outside(RowsOf(own1), [id \in DOMAIN RowsOf(own1) |-> InRow(full, id)])
        = Cardinality(In(own1) \ In(own2))
  BY <1>1, OutsideRows
<1>6. Outside(RowsOf(own2), [id \in DOMAIN RowsOf(own2) |-> InCol(full, id)])
        = Cardinality(In(own2) \ In(own1))
  BY <1>1, OutsideCols
<1> HIDE DEF full
<1>7. s.pairs = PairsOf(Cardinality(In(own1) \cap In(own2)), Cardinality(In(own1) \ In(own2)),
                        Cardinality(In(own2) \ In(own1)), n)
  BY <1>2, <1>3, <1>4, <1>5, <1>6, Zenon
<1> QED BY <1>7, Zenon DEF PairsOf, own1, own2

(***************************************************************************)
(* There are no more of them than pairs of the first partition's records,  *)
(* although the second may cover more: true negatives do not saturate      *)
(* either.                                                                 *)
(***************************************************************************)
LEMMA FewerThanAll ==
    ASSUME NEW events \in Hierarchical, NEW t \in Nat, NEW truth \in Nat,
           NEW n \in Sizes, NEW m \in Sizes
    PROVE  LET in1 == In(Own(events, t, n))
               in2 == In(Own(events, truth, m))
           IN  /\ Cardinality(in1 \cap in2) \in Nat /\ Cardinality(in1 \ in2) \in Nat
               /\ Cardinality(in2 \ in1) \in Nat /\ choose_2(n) \in Nat
               /\ Cardinality(in1 \cap in2) + Cardinality(in1 \ in2) + Cardinality(in2 \ in1)
                    <= choose_2(n)
               /\ choose_2(n) = Cardinality(kSubset(2, 0 .. n - 1))
<1> DEFINE in1 == In(Own(events, t, n))
<1> DEFINE in2 == In(Own(events, truth, m))
<1> DEFINE all == Pairs(0 .. n - 1)
<1>1. /\ IsOwner(Own(events, t, n), n) /\ IsOwner(Own(events, truth, m), m) /\ n \in Nat /\ m \in Nat
      /\ BuildRecords \subseteq 0 .. n - 1
  BY OwnIs, RecordsFinite
<1>2. /\ IsFiniteSet(0 .. n - 1) /\ Cardinality(0 .. n - 1) = n
      /\ DOMAIN Own(events, t, n) = 0 .. n - 1
  BY <1>1, OwnersFinite
<1>3. IsFiniteSet(in1) /\ IsFiniteSet(in2)
  BY <1>1, InFinite
<1>4. in1 \subseteq all
  BY <1>2 DEF In
<1>5. in2 \subseteq all
  <2> SUFFICES ASSUME NEW pair \in in2 PROVE pair \in all
    OBVIOUS
  <2>1. pair \subseteq BuildRecords /\ Cardinality(pair) = 2
    BY <1>1, OldPairs, LabelIs
  <2>2. pair \subseteq 0 .. n - 1
    BY <2>1, <1>1
  <2> QED BY <2>1, <2>2, PairsAre
<1>6. Cardinality(all) = choose_2(n)
  BY <1>2, PairsCount
<1>7. IsFiniteSet(all) /\ choose_2(n) \in Nat
  BY <1>1, <1>2, PairsFinite, Choose2Type
<1>8. all = kSubset(2, 0 .. n - 1)
  BY DEF Pairs
<1> HIDE DEF in1, in2, all
<1>9. Cardinality(in1 \cup in2) <= Cardinality(all)
  BY <1>4, <1>5, <1>7, FS_Subset
<1>10. /\ Cardinality(in1 \cup in2)
            = Cardinality(in1 \cap in2) + Cardinality(in1 \ in2) + Cardinality(in2 \ in1)
       /\ Cardinality(in1 \cap in2) \in Nat /\ Cardinality(in1 \ in2) \in Nat
       /\ Cardinality(in2 \ in1) \in Nat
  BY <1>3, UnionSize
<1>11. Cardinality(in1 \cap in2) + Cardinality(in1 \ in2) + Cardinality(in2 \ in1) <= choose_2(n)
  BY <1>6, <1>9, <1>10
<1>12. choose_2(n) = Cardinality(kSubset(2, 0 .. n - 1))
  BY <1>6, <1>8
<1> QED BY <1>7, <1>10, <1>11, <1>12 DEF in1, in2

(***************************************************************************)
(* So the invariant gives what the runs check.                             *)
(***************************************************************************)
LEMMA AnswersAsCounted == Typed /\ Standing => PairsAsCounted
<1> DEFINE t == call.thresholds[1]
<1> DEFINE n == call.records
<1> DEFINE m == call.truth_records
<1> DEFINE truth == call.truth
<1> DEFINE in1 == In(Own(Current, t, n))
<1> DEFINE in2 == In(Own(Current, truth, m))
<1> DEFINE tp == Cardinality(in1 \cap in2)
<1> DEFINE fp == Cardinality(in1 \ in2)
<1> DEFINE fn == Cardinality(in2 \ in1)
<1> DEFINE s == answer[1]
<1> SUFFICES ASSUME Typed, Standing, Compared, sources = {call.collection}
             PROVE  LET together1 == Together(Entities1(1))
                        together2 == Together(Entities2)
                    IN  /\ s.pairs.tp = Cardinality(together1 \cap together2)
                        /\ s.pairs.fp = Cardinality(together1 \ together2)
                        /\ s.pairs.fn = Cardinality(together2 \ together1)
                        /\ s.pairs.tp + s.pairs.fp + s.pairs.fn + s.pairs.tn
                            = Cardinality(kSubset(2, 0 .. n - 1))
  BY Zenon DEF PairsAsCounted
<1>1. /\ call.collection \in Collections /\ truth \in Truths /\ truth \in Thresholds /\ t \in Thresholds
      /\ n \in Sizes /\ m \in Sizes
  BY AnswersTyped
<1>2. t \in Nat /\ truth \in Nat /\ Current \in Hierarchical
  BY <1>1, HierarchyIs, ThresholdsAssumption DEF Typed, Current
<1>3. Stands(s, Current, t, n, truth, m)
  BY DEF Standing, AnswerStands
<1>4. Together(Entities1(1)) = in1
  <2>1. Partition(call.collection, t, n) = Classes(Own(Current, t, n))
    BY <1>1, PartitionOwn DEF Current
  <2>2. Together(Classes(Own(Current, t, n))) = In(Own(Current, t, n))
    BY <1>1, <1>2, OwnIs, TogetherIs
  <2> QED BY <2>1, <2>2, Zenon DEF Entities1
<1>5. Together(Entities2) = in2
  <2>1. Partition(call.collection, truth, m) = Classes(Own(Current, truth, m))
    BY <1>1, PartitionOwn DEF Current
  <2>2. Together(Classes(Own(Current, truth, m))) = In(Own(Current, truth, m))
    BY <1>1, <1>2, OwnIs, TogetherIs
  <2> QED BY <2>1, <2>2, Zenon DEF Entities2
<1> HIDE DEF t, n, m, truth, s
<1>6. s.pairs = [tp |-> tp, fp |-> fp, fn |-> fn, tn |-> Monus(choose_2(n), tp + fp + fn)]
  BY <1>1, <1>2, <1>3, StandingPairs
<1>7. /\ tp \in Nat /\ fp \in Nat /\ fn \in Nat /\ choose_2(n) \in Nat /\ tp + fp + fn <= choose_2(n)
      /\ choose_2(n) = Cardinality(kSubset(2, 0 .. n - 1))
  BY <1>1, <1>2, FewerThanAll
<1> HIDE DEF tp, fp, fn
<1>8. Monus(choose_2(n), tp + fp + fn) = choose_2(n) - (tp + fp + fn)
  BY <1>7 DEF Monus
<1>9. s.pairs.tp = tp /\ s.pairs.fp = fp /\ s.pairs.fn = fn /\ s.pairs.tn = choose_2(n) - (tp + fp + fn)
  BY <1>6, <1>8
<1>10. s.pairs.tp + s.pairs.fp + s.pairs.fn + s.pairs.tn = Cardinality(kSubset(2, 0 .. n - 1))
  BY <1>7, <1>9
<1> QED BY <1>4, <1>5, <1>9, <1>10, Zenon DEF tp, fp, fn

(***************************************************************************)
(* PairsAsCounted: true and false positives and false negatives are the    *)
(* pairs of records together in both partitions, in the first alone and in *)
(* the second alone, and with the true negatives all pairs of the records  *)
(* compared, whichever calls led to the state.                             *)
(***************************************************************************)
THEOREM PairsAsCountedCorrect == Spec => []PairsAsCounted
  BY AlwaysTyped, AlwaysStanding, AnswersAsCounted, PTL
=============================================================================
