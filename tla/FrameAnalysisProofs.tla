------------------------ MODULE FrameAnalysisProofs ------------------------
(***************************************************************************)
(* Proofs about FrameAnalysis for any collections, hierarchies, analyses   *)
(* and limits of the caches: that every reverse index covers its           *)
(* partition, and that every answer is labelled with what it is of and     *)
(* counts exactly the pairs the two hierarchies have. Sums and products    *)
(* over finite functions are folds; what they are is proved by taking a    *)
(* smallest set for which the claim fails.                                 *)
(***************************************************************************)
EXTENDS FrameAnalysis, FiniteSetTheorems, SequenceTheorems, WellFoundedInduction, TLAPS

-----------------------------------------------------------------------------
(***************************************************************************)
(* A non-empty set of naturals has a smallest element, and Min finds it.   *)
(***************************************************************************)
LEMMA MinOfNaturals ==
    ASSUME NEW S \in SUBSET Nat, S # {}
    PROVE  Min(S) \in S /\ \A x \in S : Min(S) <= x
<1> DEFINE Less == {p \in Nat \X Nat : p[1] < p[2]}
<1>1. IsWellFoundedOn(Less, Nat)
  BY ONLY NatLessThanWellFounded, Zenon DEF OpToRel
<1>2. PICK m \in S : \A x \in S : ~ (<<x, m>> \in Less)
  BY <1>1, WFMin
<1>3. ASSUME NEW x \in S PROVE m <= x
  <2>1. x \in Nat /\ m \in Nat
    BY <1>2
  <2>2. ~ (x < m)
    BY <1>2, <2>1, Zenon
  <2> QED BY <2>1, <2>2
<1>4. \E x \in S : \A y \in S : x <= y
  BY <1>3
<1> QED BY <1>4 DEF Min

(***************************************************************************)
(* Among the subsets of a finite set with some property one is minimal.    *)
(* All inductions below are on this.                                       *)
(***************************************************************************)
LEMMA MinimalSet ==
    ASSUME NEW S, IsFiniteSet(S), NEW T, T \subseteq SUBSET S, T # {}
    PROVE  \E x \in T : \A y \in SUBSET x : y # x => y \notin T
<1>1. IsWellFoundedOn(StrictSubsetOrdering(S), SUBSET S)
  BY FS_StrictSubsetOrderingWellFounded, FS_FiniteSubsetsOfFinite, Zenon
<1>2. PICK x \in T : \A y \in T : ~ (<<y, x>> \in StrictSubsetOrdering(S))
  BY <1>1, WFMin
<1>3. \A y \in SUBSET x : y # x /\ y \in T => <<y, x>> \in StrictSubsetOrdering(S)
  BY DEF StrictSubsetOrdering
<1>4. \A y \in SUBSET x : y # x => y \notin T
  BY <1>2, <1>3, Zenon
<1> QED BY <1>4, Zenon

-----------------------------------------------------------------------------
(***************************************************************************)
(* Folds over finite sets: choose an element, combine its value with what  *)
(* the rest comes to.  With unit 1 that is a product, with any other a     *)
(* sum.                                                                    *)
(***************************************************************************)

Choice(s) == CHOOSE x \in s : TRUE

Combine(unit, a, b) == IF unit = 1 THEN a * b ELSE a + b

(***************************************************************************)
(* The fold as a function of the subsets of S.                             *)
(***************************************************************************)
IsIter(unit, g, f, S) ==
    g = [s \in SUBSET S |-> IF s = {} THEN unit
                            ELSE Combine(unit, f[Choice(s)], g[s \ {Choice(s)}])]

(***************************************************************************)
(* The element chosen is one of the set.                                   *)
(***************************************************************************)
LEMMA ChoiceIn == \A s : s # {} => Choice(s) \in s
  BY DEF Choice

(***************************************************************************)
(* The fold over nothing.                                                  *)
(***************************************************************************)
LEMMA IterEmpty ==
    ASSUME NEW unit, NEW f, NEW S, NEW g, IsIter(unit, g, f, S)
    PROVE  g[{}] = unit
  BY DEF IsIter

(***************************************************************************)
(* The fold over a set that is not empty.                                  *)
(***************************************************************************)
LEMMA IterNonempty ==
    ASSUME NEW unit, NEW f, NEW S, NEW g, IsIter(unit, g, f, S), NEW s \in SUBSET S, s # {}
    PROVE  g[s] = Combine(unit, f[Choice(s)], g[s \ {Choice(s)}])
  BY DEF IsIter

(***************************************************************************)
(* The fold over a set is the same whichever larger set it is reached      *)
(* from.                                                                   *)
(***************************************************************************)
LEMMA IterUnique ==
    ASSUME NEW unit, NEW f, NEW A, NEW S \in SUBSET A, IsFiniteSet(S),
           NEW g, NEW h, IsIter(unit, g, f, A), IsIter(unit, h, f, S)
    PROVE  g[S] = h[S]
<1> DEFINE T == {s \in SUBSET S : g[s] # h[s]}
<1> SUFFICES ASSUME T # {} PROVE FALSE
  OBVIOUS
<1> HIDE DEF T
<1>1. PICK x \in T : \A y \in SUBSET x : y # x => y \notin T
  <2>1. T \subseteq SUBSET S BY DEF T
  <2> QED BY <2>1, MinimalSet
<1>2. x \subseteq S /\ g[x] # h[x]
  BY <1>1 DEF T
<1>a. x \in SUBSET A /\ x \in SUBSET S
  BY <1>2
<1>b. g[{}] = unit /\ h[{}] = unit
  BY IterEmpty
<1>3. x # {}
  BY <1>b, <1>2, Zenon
<1>d. g[x] = Combine(unit, f[Choice(x)], g[x \ {Choice(x)}]) /\ h[x] = Combine(unit, f[Choice(x)], h[x \ {Choice(x)}])
  BY <1>a, <1>3, IterNonempty
<1>4. Choice(x) \in x
  BY <1>3, ChoiceIn
<1> DEFINE y == x \ {Choice(x)}
<1>5. y \in SUBSET x /\ y # x /\ y \in SUBSET S
  BY <1>4, <1>2
<1> HIDE DEF y
<1>6. g[y] = h[y]
  BY <1>5, <1>1 DEF T
<1>7. g[x] = Combine(unit, f[Choice(x)], g[y]) /\ h[x] = Combine(unit, f[Choice(x)], h[y])
  BY <1>d DEF y
<1> QED BY <1>2, <1>6, <1>7

(***************************************************************************)
(* Every finite set has such folds.                                        *)
(***************************************************************************)
LEMMA IterExists ==
    ASSUME NEW unit, NEW f, NEW S, IsFiniteSet(S)
    PROVE  \E g : IsIter(unit, g, f, S)
<1> DEFINE T == {s \in SUBSET S : ~ \E g : IsIter(unit, g, f, s)}
<1> SUFFICES ASSUME T # {} PROVE FALSE
  OBVIOUS
<1> HIDE DEF T
<1>1. PICK x \in T : \A y \in SUBSET x : y # x => y \notin T
  <2>1. T \subseteq SUBSET S BY DEF T
  <2> QED BY <2>1, MinimalSet
<1>2. x \subseteq S /\ ~ \E g : IsIter(unit, g, f, x)
  BY <1>1 DEF T
<1> DEFINE G(s) == CHOOSE g : IsIter(unit, g, f, s)
<1>3. \A y \in SUBSET x : y # x => IsIter(unit, G(y), f, y)
  <2> SUFFICES ASSUME NEW y \in SUBSET x, y # x PROVE IsIter(unit, G(y), f, y)
    OBVIOUS
  <2>1. \E g : IsIter(unit, g, f, y)
    BY <1>1, <1>2 DEF T
  <2> QED BY <2>1
<1>4. \A y \in SUBSET x : IsFiniteSet(y)
  BY <1>2, FS_Subset
<1> DEFINE F == [s \in SUBSET x |-> IF s = {} THEN unit
                    ELSE IF s = x THEN Combine(unit, f[Choice(s)], G(s \ {Choice(s)})[s \ {Choice(s)}])
                    ELSE G(s)[s]]
<1> HIDE DEF G
<1>5. ASSUME NEW s \in SUBSET x, s # {}
      PROVE  F[s] = Combine(unit, f[Choice(s)], F[s \ {Choice(s)}])
  <2> DEFINE y == s \ {Choice(s)}
  <2>1. Choice(s) \in s
    BY <1>5, ChoiceIn
  <2>2. y \in SUBSET s /\ y # s /\ y \in SUBSET x /\ y # x
    BY <2>1
  <2>3. F[y] = G(y)[y]
    <3>1. CASE y = {}
      <4>1. IsIter(unit, G(y), f, y)
        BY <1>3, <2>2
      <4> HIDE DEF y
      <4>3. G(y)[y] = unit
        BY <4>1, <3>1, IterEmpty
      <4> HIDE DEF y
      <4> QED BY <4>3, <3>1, <2>2
    <3>2. CASE y # {}
      <4> HIDE DEF y
      <4> QED BY <3>2, <2>2
    <3> QED BY <3>1, <3>2
  <2>4. CASE s = x
    BY <2>3, <2>4, <1>5
  <2>5. CASE s # x
    <3>1. IsIter(unit, G(s), f, s) /\ IsIter(unit, G(y), f, y)
      BY <1>3, <2>2, <2>5
    <3>2. G(s)[s] = Combine(unit, f[Choice(s)], G(s)[y])
      BY <3>1, <1>5, IterNonempty
    <3>3. G(s)[y] = G(y)[y]
      BY <3>1, <2>2, <1>4, IterUnique
    <3>4. F[s] = G(s)[s]
      <4>1. s # {} /\ s # x /\ s \in SUBSET x
        BY <2>5, <1>5
      <4> QED BY <4>1
    <3> QED BY <3>2, <3>3, <3>4, <2>3
  <2> QED BY <2>4, <2>5
<1>6. F[{}] = unit
  OBVIOUS
<1>7. F = [s \in SUBSET x |-> F[s]]
  OBVIOUS
<1> HIDE DEF F
<1>8. [s \in SUBSET x |-> F[s]] =
        [s \in SUBSET x |-> IF s = {} THEN unit ELSE Combine(unit, f[Choice(s)], F[s \ {Choice(s)}])]
  BY <1>5, <1>6
<1>9. IsIter(unit, F, f, x)
  BY <1>7, <1>8 DEF IsIter
<1> QED BY <1>9, <1>2

(***************************************************************************)
(* choose_2 is a natural.                                                  *)
(***************************************************************************)
LEMMA Choose2Type == \A n \in Nat : choose_2(n) \in Nat
<1> SUFFICES ASSUME NEW n \in Nat PROVE choose_2(n) \in Nat
  OBVIOUS
<1>1. CASE n = 0
  BY <1>1 DEF choose_2
<1>2. CASE n > 0
  <2>1. n - 1 \in Nat
    BY <1>2
  <2>2. n * (n - 1) \in Nat
    BY <2>1
  <2>3. \A k \in Nat : k \div 2 \in Nat
    OBVIOUS
  <2>4. (n * (n - 1)) \div 2 \in Nat
    BY <2>2, <2>3, Zenon
  <2> QED BY <2>4, Zenon DEF choose_2
<1> QED BY <1>1, <1>2

(***************************************************************************)
(* Pascal's rule for pairs: one more element makes as many more pairs as   *)
(* there were elements.                                                    *)
(***************************************************************************)
LEMMA Choose2Step == \A n \in Nat : choose_2(n + 1) = choose_2(n) + n
<1> SUFFICES ASSUME NEW n \in Nat PROVE choose_2(n + 1) = choose_2(n) + n
  OBVIOUS
<1> DEFINE p == n * (n - 1)
<1>1. p \in Int
  OBVIOUS
<1>2. (n + 1) * ((n + 1) - 1) = p + 2 * n
  OBVIOUS
<1> HIDE DEF p
<1>3. \A q \in Int : (q + 2 * n) \div 2 = (q \div 2) + n
  OBVIOUS
<1>4. (p + 2 * n) \div 2 = (p \div 2) + n
  BY <1>1, <1>3
<1> QED BY <1>2, <1>4 DEF choose_2, p

(***************************************************************************)
(* A fold is the chosen element's value and the fold over the rest.        *)
(***************************************************************************)
LEMMA IterChoice ==
    ASSUME NEW unit, NEW f, NEW S, IsFiniteSet(S), S # {}, NEW g, NEW h,
           IsIter(unit, g, f, S), IsIter(unit, h, f, S \ {Choice(S)})
    PROVE  g[S] = Combine(unit, f[Choice(S)], h[S \ {Choice(S)}])
<1> DEFINE R == S \ {Choice(S)}
<1>1. g[S] = Combine(unit, f[Choice(S)], g[R])
  BY IterNonempty
<1>2. R \in SUBSET S /\ IsFiniteSet(R) /\ IsIter(unit, h, f, R)
  BY FS_Subset
<1> HIDE DEF R
<1>3. g[R] = h[R]
  BY <1>2, IterUnique
<1> QED BY <1>1, <1>3 DEF R

-----------------------------------------------------------------------------
(***************************************************************************)
(* The folds of the model, without the library's operators.                *)
(***************************************************************************)

IsSum(g, f, S) ==
    g = [s \in SUBSET S |-> IF s = {} THEN 0 ELSE f[Choice(s)] + g[s \ {Choice(s)}]]
SumIter(f, S) == CHOOSE g : IsSum(g, f, S)
SumOn(f, S) == SumIter(f, S)[S]

IsProduct(g, f, S) ==
    g = [s \in SUBSET S |-> IF s = {} THEN 1 ELSE f[Choice(s)] * g[s \ {Choice(s)}]]
ProductIter(f, S) == CHOOSE g : IsProduct(g, f, S)
ProductOn(f, S) == ProductIter(f, S)[S]

(***************************************************************************)
(* SumOf is the sum over a function's domain.                              *)
(***************************************************************************)
LEMMA SumOfDef == \A f : SumOf(f) = SumOn(f, DOMAIN f)
  BY DEF SumOf, FoldFunction, FoldFunctionOnSet, MapThenFoldSet, SumOn, SumIter, IsSum, Choice

(***************************************************************************)
(* Product is the product of the threshold lists' lengths.                 *)
(***************************************************************************)
LEMMA ProductDef ==
    \A first : Product(first) = ProductOn(Lengths, first .. Len(expressions))
  BY DEF Product, FoldFunctionOnSet, MapThenFoldSet, ProductOn, ProductIter, IsProduct, Choice

(***************************************************************************)
(* Sums are folds with unit 0.                                             *)
(***************************************************************************)
LEMMA SumIsIter == \A g, f, S : IsSum(g, f, S) <=> IsIter(0, g, f, S)
<1>1. \A a, b : Combine(0, a, b) = a + b
  BY DEF Combine
<1>2. ASSUME NEW g, NEW f, NEW S PROVE IsSum(g, f, S) <=> IsIter(0, g, f, S)
  BY <1>1 DEF IsSum, IsIter
<1> QED BY <1>2, Zenon

(***************************************************************************)
(* Products are folds with unit 1.                                         *)
(***************************************************************************)
LEMMA ProductIsIter == \A g, f, S : IsProduct(g, f, S) <=> IsIter(1, g, f, S)
<1>1. \A a, b : Combine(1, a, b) = a * b
  BY DEF Combine
<1>2. ASSUME NEW g, NEW f, NEW S PROVE IsProduct(g, f, S) <=> IsIter(1, g, f, S)
  BY <1>1 DEF IsProduct, IsIter
<1> QED BY <1>2, Zenon

(***************************************************************************)
(* Every finite set has its sums.                                          *)
(***************************************************************************)
LEMMA SumIterIs ==
    ASSUME NEW f, NEW S, IsFiniteSet(S)
    PROVE  IsIter(0, SumIter(f, S), f, S)
<1>1. \E g : IsIter(0, g, f, S)
  BY IterExists
<1>2. \E g : IsSum(g, f, S)
  BY <1>1, SumIsIter, Zenon
<1>3. IsSum(SumIter(f, S), f, S)
  BY <1>2, Zenon DEF SumIter
<1> QED BY <1>3, SumIsIter, Zenon

(***************************************************************************)
(* Every finite set has its products.                                      *)
(***************************************************************************)
LEMMA ProductIterIs ==
    ASSUME NEW f, NEW S, IsFiniteSet(S)
    PROVE  IsIter(1, ProductIter(f, S), f, S)
<1>1. \E g : IsIter(1, g, f, S)
  BY IterExists
<1>2. \E g : IsProduct(g, f, S)
  BY <1>1, ProductIsIter, Zenon
<1>3. IsProduct(ProductIter(f, S), f, S)
  BY <1>2, Zenon DEF ProductIter
<1> QED BY <1>3, ProductIsIter, Zenon

(***************************************************************************)
(* The sum over nothing is zero.                                           *)
(***************************************************************************)
LEMMA SumOnEmpty == \A f : SumOn(f, {}) = 0
<1> SUFFICES ASSUME NEW f PROVE SumOn(f, {}) = 0
  OBVIOUS
<1>1. IsIter(0, SumIter(f, {}), f, {})
  BY SumIterIs, FS_EmptySet
<1>2. SumIter(f, {})[{}] = 0
  BY <1>1, IterEmpty
<1> QED BY <1>2 DEF SumOn

(***************************************************************************)
(* The product over nothing is one.                                        *)
(***************************************************************************)
LEMMA ProductOnEmpty == \A f : ProductOn(f, {}) = 1
<1> SUFFICES ASSUME NEW f PROVE ProductOn(f, {}) = 1
  OBVIOUS
<1>1. IsIter(1, ProductIter(f, {}), f, {})
  BY ProductIterIs, FS_EmptySet
<1>2. ProductIter(f, {})[{}] = 1
  BY <1>1, IterEmpty
<1> QED BY <1>2 DEF ProductOn

(***************************************************************************)
(* A sum is the chosen element's value and the rest.                       *)
(***************************************************************************)
LEMMA SumOnChoice ==
    ASSUME NEW f, NEW S, IsFiniteSet(S), S # {}
    PROVE  SumOn(f, S) = f[Choice(S)] + SumOn(f, S \ {Choice(S)})
<1> DEFINE R == S \ {Choice(S)}
<1>1. IsFiniteSet(R)
  BY FS_Subset
<1>2. IsIter(0, SumIter(f, S), f, S) /\ IsIter(0, SumIter(f, R), f, R)
  BY <1>1, SumIterIs
<1>3. SumIter(f, S)[S] = Combine(0, f[Choice(S)], SumIter(f, R)[R])
  <2>1. PICK g, h : g = SumIter(f, S) /\ h = SumIter(f, R)
    OBVIOUS
  <2>2. IsIter(0, g, f, S) /\ IsIter(0, h, f, S \ {Choice(S)})
    BY <1>2, <2>1, Zenon
  <2>3. g[S] = Combine(0, f[Choice(S)], h[S \ {Choice(S)}])
    BY <2>2, IterChoice
  <2> QED BY <2>1, <2>3, Zenon
<1> HIDE DEF R
<1> QED BY <1>3 DEF SumOn, Combine, R

(***************************************************************************)
(* A product is the chosen element's value times the rest.                 *)
(***************************************************************************)
LEMMA ProductOnChoice ==
    ASSUME NEW f, NEW S, IsFiniteSet(S), S # {}
    PROVE  ProductOn(f, S) = f[Choice(S)] * ProductOn(f, S \ {Choice(S)})
<1> DEFINE R == S \ {Choice(S)}
<1>1. IsFiniteSet(R)
  BY FS_Subset
<1>2. IsIter(1, ProductIter(f, S), f, S) /\ IsIter(1, ProductIter(f, R), f, R)
  BY <1>1, ProductIterIs
<1>3. ProductIter(f, S)[S] = Combine(1, f[Choice(S)], ProductIter(f, R)[R])
  <2>1. PICK g, h : g = ProductIter(f, S) /\ h = ProductIter(f, R)
    OBVIOUS
  <2>2. IsIter(1, g, f, S) /\ IsIter(1, h, f, S \ {Choice(S)})
    BY <1>2, <2>1, Zenon
  <2>3. g[S] = Combine(1, f[Choice(S)], h[S \ {Choice(S)}])
    BY <2>2, IterChoice
  <2> QED BY <2>1, <2>3, Zenon
<1> HIDE DEF R
<1> QED BY <1>3 DEF ProductOn, Combine, R

(***************************************************************************)
(* Products of naturals are naturals, and zero only if a factor is.        *)
(***************************************************************************)
LEMMA ProductFacts ==
    ASSUME NEW f, NEW S, IsFiniteSet(S), \A x \in S : f[x] \in Nat
    PROVE  /\ ProductOn(f, S) \in Nat
           /\ ProductOn(f, S) # 0 <=> \A x \in S : f[x] # 0
<1> DEFINE Good(s) == ProductOn(f, s) \in Nat /\ (ProductOn(f, s) # 0 <=> \A x \in s : f[x] # 0)
<1> DEFINE T == {s \in SUBSET S : ~Good(s)}
<1> SUFFICES ASSUME T # {} PROVE FALSE
  OBVIOUS
<1> HIDE DEF T
<1>1. PICK s \in T : \A y \in SUBSET s : y # s => y \notin T
  <2>1. T \subseteq SUBSET S BY DEF T
  <2> QED BY <2>1, MinimalSet
<1>2. s \subseteq S /\ ~Good(s) /\ IsFiniteSet(s)
  BY <1>1, FS_Subset DEF T
<1>3. s # {}
  BY <1>2, ProductOnEmpty
<1> DEFINE c == Choice(s)
<1> DEFINE y == s \ {c}
<1>4. y \in SUBSET s /\ y # s /\ c \in s /\ y \in SUBSET S
  BY <1>2, <1>3, ChoiceIn
<1>5. Good(y)
  BY <1>1, <1>4 DEF T
<1>6. ProductOn(f, s) = f[c] * ProductOn(f, y)
  BY <1>2, <1>3, ProductOnChoice
<1>7. (\A x \in s : f[x] # 0) <=> f[c] # 0 /\ (\A x \in y : f[x] # 0)
  BY <1>4
<1>8. f[c] \in Nat
  BY <1>2, <1>4
<1>9. \A a, b \in Nat : a * b \in Nat /\ (a * b # 0 <=> a # 0 /\ b # 0)
  OBVIOUS
<1> HIDE DEF c, y
<1>10. /\ f[c] * ProductOn(f, y) \in Nat
       /\ f[c] * ProductOn(f, y) # 0 <=> f[c] # 0 /\ ProductOn(f, y) # 0
  BY <1>5, <1>8, <1>9
<1> QED BY <1>2, <1>5, <1>6, <1>7, <1>10

(***************************************************************************)
(* The product of a single factor.                                         *)
(***************************************************************************)
LEMMA ProductOfOne ==
    ASSUME NEW f, NEW a, f[a] \in Nat
    PROVE  ProductOn(f, {a}) = f[a]
<1>1. IsFiniteSet({a}) /\ Choice({a}) = a /\ {a} \ {a} = {}
  BY FS_Singleton, ChoiceIn
<1>2. ProductOn(f, {a}) = f[a] * ProductOn(f, {})
  BY <1>1, ProductOnChoice
<1> QED BY <1>2, ProductOnEmpty

(***************************************************************************)
(* The product of two factors, whichever is chosen first.                  *)
(***************************************************************************)
LEMMA ProductOfTwo ==
    ASSUME NEW f, NEW a, NEW b, a # b, f[a] \in Nat, f[b] \in Nat
    PROVE  ProductOn(f, {a, b}) = f[a] * f[b]
<1> DEFINE S == {a, b}
<1>1. IsFiniteSet(S) /\ S # {}
  <2>1. IsFiniteSet({a} \cup {b})
    BY FS_Singleton, FS_AddElement
  <2>2. S = {a} \cup {b}
    OBVIOUS
  <2> QED BY <2>1, <2>2
<1>2. Choice(S) \in S
  BY <1>1, ChoiceIn
<1>3. ProductOn(f, S) = f[Choice(S)] * ProductOn(f, S \ {Choice(S)})
  BY <1>1, ProductOnChoice
<1>4. CASE Choice(S) = a
  <2>1. S \ {Choice(S)} = {b}
    BY <1>4
  <2>2. ProductOn(f, {b}) = f[b]
    BY ProductOfOne
  <2> HIDE DEF S
  <2> QED BY <1>3, <1>4, <2>1, <2>2 DEF S
<1>5. CASE Choice(S) = b
  <2>1. S \ {Choice(S)} = {a}
    BY <1>5
  <2>2. ProductOn(f, {a}) = f[a]
    BY ProductOfOne
  <2> HIDE DEF S
  <2>3. ProductOn(f, S) = f[b] * f[a]
    BY <1>3, <1>5, <2>1, <2>2
  <2> QED BY <2>3 DEF S
<1> QED BY <1>2, <1>4, <1>5

-----------------------------------------------------------------------------
(***************************************************************************)
(* Counting.                                                               *)
(***************************************************************************)

(***************************************************************************)
(* The sizes of sets that have nothing in common add up to the size of     *)
(* their union.                                                            *)
(***************************************************************************)
LEMMA TotalSize ==
    ASSUME NEW A, IsFiniteSet(A), NEW F, NEW f,
           \A a \in A : IsFiniteSet(F[a]) /\ f[a] = Cardinality(F[a]),
           \A a, b \in A : a # b => F[a] \cap F[b] = {}
    PROVE  /\ IsFiniteSet(UNION {F[a] : a \in A})
           /\ Cardinality(UNION {F[a] : a \in A}) = SumOn(f, A)
<1> DEFINE All(B) == UNION {F[a] : a \in B}
<1> DEFINE Good(B) == IsFiniteSet(All(B)) /\ Cardinality(All(B)) = SumOn(f, B)
<1> DEFINE T == {B \in SUBSET A : ~Good(B)}
<1> SUFFICES ASSUME T # {} PROVE FALSE
  OBVIOUS
<1> HIDE DEF T
<1>1. PICK B \in T : \A C \in SUBSET B : C # B => C \notin T
  <2>1. T \subseteq SUBSET A BY DEF T
  <2> QED BY <2>1, MinimalSet
<1>2. B \subseteq A /\ ~Good(B) /\ IsFiniteSet(B)
  BY <1>1, FS_Subset DEF T
<1>3. B # {}
  <2>1. All({}) = {}
    OBVIOUS
  <2>2. Good({})
    BY <2>1, SumOnEmpty, FS_EmptySet
  <2> QED BY <1>2, <2>2
<1> DEFINE c == Choice(B)
<1> DEFINE C == B \ {c}
<1>4. C \in SUBSET B /\ C # B /\ c \in B /\ C \in SUBSET A /\ c \in A
  BY <1>2, <1>3, ChoiceIn
<1>5. Good(C)
  BY <1>1, <1>4 DEF T
<1>6. SumOn(f, B) = f[c] + SumOn(f, C)
  BY <1>2, <1>3, SumOnChoice
<1>7. IsFiniteSet(F[c]) /\ f[c] = Cardinality(F[c])
  BY <1>4
<1>8. All(B) = F[c] \cup All(C)
  BY <1>4
<1>9. F[c] \cap All(C) = {}
  <2> SUFFICES ASSUME NEW a \in C PROVE F[c] \cap F[a] = {}
    OBVIOUS
  <2> QED BY <1>4
<1> HIDE DEF c, C, All
<1>10. /\ IsFiniteSet(F[c] \cup All(C))
       /\ Cardinality(F[c] \cup All(C))
            = Cardinality(F[c]) + Cardinality(All(C)) - Cardinality(F[c] \cap All(C))
  BY <1>5, <1>7, FS_Union
<1>11. Cardinality(F[c] \cap All(C)) = 0
  BY <1>9, FS_EmptySet
<1>12. Cardinality(F[c]) \in Nat /\ Cardinality(All(C)) \in Nat
  BY <1>5, <1>7, FS_CardinalityType
<1> QED BY <1>2, <1>5, <1>6, <1>7, <1>8, <1>10, <1>11, <1>12

-----------------------------------------------------------------------------
(***************************************************************************)
(* Pairs of records, each with the smaller record first.                   *)
(***************************************************************************)

(***************************************************************************)
(* The pairs within a set.                                                 *)
(***************************************************************************)
PairsIn(S) == {p \in Records \X Records : p[1] < p[2] /\ p[1] \in S /\ p[2] \in S}

(***************************************************************************)
(* Two records as a pair.                                                  *)
(***************************************************************************)
Ordered(b, c) == IF c < b THEN <<c, b>> ELSE <<b, c>>

(***************************************************************************)
(* There are finitely many records.                                        *)
(***************************************************************************)
LEMMA RecordsAre ==
    /\ Records \subseteq Nat /\ IsFiniteSet(Records)
    /\ IsFiniteSet(Records \X Records)
<1>1. MaxRecords \in Nat
  BY SizesAssumption
<1>2. IsFiniteSet(Records)
  BY <1>1, FS_Interval DEF Records
<1>3. Records \subseteq Nat
  BY <1>1 DEF Records
<1> QED BY <1>2, <1>3, FS_Product

(***************************************************************************)
(* Any set of pairs of records is finite.                                  *)
(***************************************************************************)
LEMMA PairsFinite ==
    ASSUME NEW S \in SUBSET (Records \X Records)
    PROVE  IsFiniteSet(S) /\ Cardinality(S) \in Nat
<1>1. IsFiniteSet(S)
  BY RecordsAre, FS_Subset
<1> QED BY <1>1, FS_CardinalityType

(***************************************************************************)
(* In particular the pairs within a set.                                   *)
(***************************************************************************)
LEMMA PairsInType ==
    ASSUME NEW S
    PROVE  /\ PairsIn(S) \in SUBSET (Records \X Records)
           /\ IsFiniteSet(PairsIn(S)) /\ Cardinality(PairsIn(S)) \in Nat
<1>1. PairsIn(S) \in SUBSET (Records \X Records)
  BY DEF PairsIn
<1> QED BY <1>1, PairsFinite

(***************************************************************************)
(* One more record makes as many more pairs as there were records.         *)
(***************************************************************************)
LEMMA PairsWithOne ==
    ASSUME NEW B \in SUBSET Records, NEW b \in B
    PROVE  Cardinality(PairsIn(B)) = Cardinality(PairsIn(B \ {b})) + Cardinality(B \ {b})
<1> DEFINE C == B \ {b}
<1> DEFINE F == {Ordered(b, c) : c \in C}
<1> DEFINE g == [c \in C |-> Ordered(b, c)]
<1>1. IsFiniteSet(C) /\ C \subseteq Nat /\ b \in Nat /\ Cardinality(C) \in Nat
  <2>1. IsFiniteSet(C)
    BY RecordsAre, FS_Subset
  <2> QED BY <2>1, RecordsAre, FS_CardinalityType
<1>2. \A c \in C : /\ Ordered(b, c) \in Records \X Records
                   /\ Ordered(b, c)[1] < Ordered(b, c)[2]
                   /\ {Ordered(b, c)[1], Ordered(b, c)[2]} = {b, c}
  <2> SUFFICES ASSUME NEW c \in C
               PROVE  /\ Ordered(b, c) \in Records \X Records
                      /\ Ordered(b, c)[1] < Ordered(b, c)[2]
                      /\ {Ordered(b, c)[1], Ordered(b, c)[2]} = {b, c}
    OBVIOUS
  <2>1. c \in Nat /\ b \in Nat /\ c # b /\ c \in Records /\ b \in Records
    BY <1>1
  <2>2. CASE c < b
    BY <2>1, <2>2 DEF Ordered
  <2>3. CASE ~(c < b)
    <3>1. b < c
      BY <2>1, <2>3
    <3> QED BY <2>1, <2>3, <3>1 DEF Ordered
  <2> QED BY <2>2, <2>3
<1>3. F \subseteq PairsIn(B)
  <2> SUFFICES ASSUME NEW c \in C PROVE Ordered(b, c) \in PairsIn(B)
    OBVIOUS
  <2>1. {Ordered(b, c)[1], Ordered(b, c)[2]} = {b, c} /\ b \in B /\ c \in B
    BY <1>2
  <2> QED BY <2>1, <1>2 DEF PairsIn
<1>4. PairsIn(C) \subseteq PairsIn(B)
  BY DEF PairsIn
<1>5. ASSUME NEW p \in PairsIn(B), p \notin PairsIn(C) PROVE p \in F
  <2>1. /\ p \in Records \X Records /\ p[1] < p[2] /\ p[1] \in B /\ p[2] \in B
        /\ p = <<p[1], p[2]>> /\ p[1] \in Nat /\ p[2] \in Nat
    <3>1. p \in Records \X Records /\ p[1] < p[2] /\ p[1] \in B /\ p[2] \in B
      BY DEF PairsIn
    <3>2. p = <<p[1], p[2]>> /\ p[1] \in Records /\ p[2] \in Records
      BY <3>1
    <3> QED BY <3>1, <3>2, RecordsAre
  <2>2. p[1] = b \/ p[2] = b
    BY <2>1, <1>5 DEF PairsIn
  <2>3. CASE p[1] = b
    <3>1. p[2] \in C /\ ~(p[2] < b)
      BY <2>1, <2>3
    <3>2. p = Ordered(b, p[2])
      BY <2>1, <2>3, <3>1 DEF Ordered
    <3> QED BY <3>1, <3>2
  <2>4. CASE p[2] = b
    <3>1. p[1] \in C /\ p[1] < b
      BY <2>1, <2>4
    <3>2. p = Ordered(b, p[1])
      BY <2>1, <2>4, <3>1 DEF Ordered
    <3> QED BY <3>1, <3>2
  <2> QED BY <2>2, <2>3, <2>4
<1>6. PairsIn(B) = PairsIn(C) \cup F
  <2> HIDE DEF C, F
  <2> QED BY <1>3, <1>4, <1>5
<1>7. PairsIn(C) \cap F = {}
  <2> SUFFICES ASSUME NEW c \in C, Ordered(b, c) \in PairsIn(C) PROVE FALSE
    OBVIOUS
  <2>1. {Ordered(b, c)[1], Ordered(b, c)[2]} = {b, c}
    BY <1>2
  <2>2. Ordered(b, c)[1] \in C /\ Ordered(b, c)[2] \in C
    BY DEF PairsIn
  <2> QED BY <2>1, <2>2
<1>8. g \in Bijection(C, F)
  <2>1. g \in [C -> F]
    OBVIOUS
  <2>2. \A c, d \in C : g[c] = g[d] => c = d
    <3> SUFFICES ASSUME NEW c \in C, NEW d \in C, Ordered(b, c) = Ordered(b, d) PROVE c = d
      OBVIOUS
    <3>1. {b, c} = {b, d}
      BY <1>2
    <3>2. c \in {b, d} /\ c # b
      BY <3>1
    <3> QED BY <3>2
  <2>3. \A f \in F : \E c \in C : g[c] = f
    OBVIOUS
  <2>4. IsInjective(g)
    BY <2>2 DEF IsInjective
  <2> HIDE DEF g, C, F
  <2> QED BY <2>1, <2>3, <2>4 DEF Bijection, Injection, Surjection
<1>9. IsFiniteSet(PairsIn(C)) /\ Cardinality(PairsIn(C)) \in Nat
  BY PairsInType
<1> HIDE DEF C, F, g
<1>10. IsFiniteSet(F) /\ Cardinality(F) = Cardinality(C)
  BY <1>1, <1>8, FS_Bijection DEF ExistsBijection
<1>11. Cardinality(PairsIn(C) \cup F)
        = Cardinality(PairsIn(C)) + Cardinality(F) - Cardinality(PairsIn(C) \cap F)
  BY <1>9, <1>10, FS_Union
<1>12. Cardinality(PairsIn(C) \cap F) = 0
  BY <1>7, FS_EmptySet
<1> QED BY <1>1, <1>6, <1>9, <1>10, <1>11, <1>12 DEF C

(***************************************************************************)
(* choose_2 of a set's size is the number of pairs in it.                  *)
(***************************************************************************)
LEMMA PairsCount ==
    ASSUME NEW S \in SUBSET Records
    PROVE  Cardinality(PairsIn(S)) = choose_2(Cardinality(S))
<1> DEFINE T == {B \in SUBSET S : Cardinality(PairsIn(B)) # choose_2(Cardinality(B))}
<1> SUFFICES ASSUME T # {} PROVE FALSE
  OBVIOUS
<1> HIDE DEF T
<1>0. IsFiniteSet(S)
  BY RecordsAre, FS_Subset
<1>1. PICK B \in T : \A C \in SUBSET B : C # B => C \notin T
  <2>1. T \subseteq SUBSET S
    BY DEF T
  <2> QED BY <1>0, <2>1, MinimalSet
<1>2. /\ B \subseteq S /\ Cardinality(PairsIn(B)) # choose_2(Cardinality(B)) /\ IsFiniteSet(B)
      /\ B \in SUBSET Records
  BY <1>0, <1>1, FS_Subset DEF T
<1>3. B # {}
  <2>1. PairsIn({}) = {}
    BY DEF PairsIn
  <2>2. Cardinality({}) = 0 /\ choose_2(0) = 0
    BY FS_EmptySet DEF choose_2
  <2>3. Cardinality(PairsIn({})) = choose_2(Cardinality({}))
    BY <2>1, <2>2, Zenon
  <2> QED BY <2>3, <1>2, Zenon
<1>4. PICK b : b \in B
  BY <1>3
<1> DEFINE C == B \ {b}
<1>5. C \in SUBSET B /\ C # B /\ C \in SUBSET S
  BY <1>2, <1>4
<1>6. IsFiniteSet(C) /\ Cardinality(C) \in Nat /\ Cardinality(C) = Cardinality(B) - 1
      /\ Cardinality(B) \in Nat
  BY <1>2, <1>4, FS_RemoveElement, FS_CardinalityType
<1>7. Cardinality(PairsIn(C)) = choose_2(Cardinality(C))
  BY <1>1, <1>5 DEF T
<1>8. Cardinality(PairsIn(B)) = Cardinality(PairsIn(C)) + Cardinality(C)
  BY <1>2, <1>4, PairsWithOne
<1>9. choose_2(Cardinality(C) + 1) = choose_2(Cardinality(C)) + Cardinality(C)
  BY <1>6, Choose2Step
<1> HIDE DEF C
<1>10. Cardinality(C) + 1 = Cardinality(B)
  BY <1>6
<1> QED BY <1>2, <1>7, <1>8, <1>9, <1>10

-----------------------------------------------------------------------------
(***************************************************************************)
(* Entities and the pairs within them.                                     *)
(***************************************************************************)

(***************************************************************************)
(* The record that stands for the entity of x.                             *)
(***************************************************************************)
Canon(key, x) == Canonical(EventsOf[key[1]], key[2], x)

(***************************************************************************)
(* It is x or an earlier record, and records added after the build stand   *)
(* for themselves.                                                         *)
(***************************************************************************)
LEMMA CanonFacts ==
    ASSUME NEW key \in Key, NEW x \in Nat
    PROVE  /\ Canon(key, x) \in Nat /\ Canon(key, x) <= x
           /\ x >= FirstRecords => Canon(key, x) = x
<1> DEFINE events == EventsOf[key[1]]
<1> DEFINE joins == {k \in DOMAIN events : /\ events[k].threshold >= key[2]
                                           /\ x \in events[k].child_nodes}
<1> DEFINE S == {x} \cup {events[k].parent_id : k \in joins}
<1>1. FirstRecords \in Nat /\ BuildRecords \subseteq Nat /\ \A y \in BuildRecords : y < FirstRecords
  BY SizesAssumption DEF BuildRecords
<1>2. \A k \in DOMAIN events : events[k] \in MergeEvent
  <2>1. key[1] \in Collections
    BY DEF Key
  <2>2. events \in Seq(MergeEvent)
    BY <2>1, EventsAssumption
  <2> HIDE DEF events
  <2> QED BY <2>2
<1>3. \A k \in DOMAIN events : events[k].parent_id \in Nat /\ events[k].child_nodes \subseteq BuildRecords
  BY <1>1, <1>2 DEF MergeEvent
<1>4. Canon(key, x) = Min(S)
  BY DEF Canon, Canonical
<1> HIDE DEF events
<1>5. S \in SUBSET Nat /\ S # {} /\ x \in S
  BY <1>3
<1>6. Min(S) \in S /\ \A y \in S : Min(S) <= y
  BY <1>5, MinOfNaturals
<1>7. ASSUME x >= FirstRecords PROVE S = {x}
  <2>1. joins = {}
    BY <1>1, <1>3, <1>7
  <2> QED BY <2>1
<1> HIDE DEF S
<1> QED BY <1>4, <1>5, <1>6, <1>7

(***************************************************************************)
(* The records of a partition.                                             *)
(***************************************************************************)
Covers(level) == 0 .. level.covers - 1

(***************************************************************************)
(* They are records of the context, the build's among them.                *)
(***************************************************************************)
LEMMA LevelFacts ==
    ASSUME NEW level \in Level
    PROVE  /\ level.key \in Key /\ level.covers \in Sizes /\ level.covers \in Nat
           /\ FirstRecords <= level.covers /\ level.covers <= MaxRecords
           /\ Covers(level) \subseteq Records /\ Covers(level) \subseteq Nat
<1>1. level.key \in Key /\ level.covers \in Sizes
  BY DEF Level
<1>2. FirstRecords \in Nat /\ MaxRecords \in Nat
  BY SizesAssumption
<1> DEFINE n == level.covers
<1>3. n \in FirstRecords .. MaxRecords
  BY <1>1 DEF Sizes
<1> HIDE DEF n
<1>4. n \in Nat /\ FirstRecords <= n /\ n <= MaxRecords
  BY <1>2, <1>3
<1>5. 0 .. n - 1 \subseteq 0 .. MaxRecords - 1 /\ 0 .. n - 1 \subseteq Nat
  BY <1>2, <1>4
<1> QED BY <1>1, <1>4, <1>5 DEF n, Covers, Records

(***************************************************************************)
(* The entity of x in a partition.                                         *)
(***************************************************************************)
EntityAround(level, x) == {y \in Covers(level) : Canon(level.key, y) = Canon(level.key, x)}

(***************************************************************************)
(* A partition's entities are those of its records.                        *)
(***************************************************************************)
LEMMA EntitiesAre ==
    ASSUME NEW level \in Level
    PROVE  Entities[level] = {EntityAround(level, x) : x \in Covers(level)}
<1>1. Entities[level] = EntitiesAt(EventsOf[level.key[1]], level.key[2], level.covers)
  BY DEF Entities
<1>2. @ = {EntityAround(level, x) : x \in Covers(level)}
  BY DEF EntitiesAt, EntityAround, Covers, Canon
<1> QED BY <1>1, <1>2

(***************************************************************************)
(* They are finitely many, disjoint, and sets of the partition's records.  *)
(***************************************************************************)
LEMMA EntitiesFacts ==
    ASSUME NEW level \in Level
    PROVE  /\ IsFiniteSet(Entities[level])
           /\ \A e \in Entities[level] : e \in SUBSET Covers(level) /\ e \in SUBSET Records
           /\ \A e, d \in Entities[level] : e # d => e \cap d = {}
<1>1. Entities[level] = {EntityAround(level, x) : x \in Covers(level)}
  BY EntitiesAre
<1>2. \A e \in Entities[level] : e \in SUBSET Covers(level)
  BY <1>1 DEF EntityAround
<1>3. Covers(level) \subseteq Records
  BY LevelFacts
<1>4. IsFiniteSet(Entities[level])
  <2>1. IsFiniteSet(SUBSET Records)
    BY RecordsAre, FS_SUBSET
  <2>2. Entities[level] \subseteq SUBSET Records
    BY <1>2, <1>3
  <2> QED BY <2>1, <2>2, FS_Subset
<1>5. ASSUME NEW e \in Entities[level], NEW d \in Entities[level], NEW z \in e \cap d
      PROVE  e = d
  <2>1. PICK x \in Covers(level) : e = EntityAround(level, x)
    BY <1>1
  <2>2. PICK y \in Covers(level) : d = EntityAround(level, y)
    BY <1>1
  <2>3. Canon(level.key, x) = Canon(level.key, y)
    BY <2>1, <2>2 DEF EntityAround
  <2> QED BY <2>1, <2>2, <2>3 DEF EntityAround
<1> QED BY <1>2, <1>3, <1>4, <1>5

(***************************************************************************)
(* The pairs a hierarchy has together at a threshold, of all the records   *)
(* there will ever be.                                                     *)
(***************************************************************************)
Joined(key) == {p \in Records \X Records : p[1] < p[2] /\ Together(key, p[1], p[2])}

(***************************************************************************)
(* They are the pairs within the entities of any partition at that         *)
(* threshold, of however many records: a record added after the build is   *)
(* on its own, and in no such pair.                                        *)
(***************************************************************************)
LEMMA JoinedIs ==
    ASSUME NEW level \in Level
    PROVE  /\ \A e \in Entities[level] : PairsIn(e) \subseteq Joined(level.key)
           /\ \A p \in Joined(level.key) : \E e \in Entities[level] : p \in PairsIn(e)
<1>1. Entities[level] = {EntityAround(level, x) : x \in Covers(level)}
  BY EntitiesAre
<1>2. \A x, y : Together(level.key, x, y) <=> Canon(level.key, x) = Canon(level.key, y)
  BY DEF Together, Canon
<1>3. ASSUME NEW x \in Covers(level) PROVE PairsIn(EntityAround(level, x)) \subseteq Joined(level.key)
  BY <1>2 DEF PairsIn, EntityAround, Joined
<1>4. ASSUME NEW p \in Joined(level.key)
      PROVE  \E x \in Covers(level) : p \in PairsIn(EntityAround(level, x))
  <2> DEFINE x == p[1]
  <2> DEFINE y == p[2]
  <2>1. p \in Records \X Records /\ x < y /\ Canon(level.key, x) = Canon(level.key, y)
    BY <1>2 DEF Joined
  <2>2. x \in Nat /\ y \in Nat
    BY <2>1, RecordsAre
  <2>3. level.covers \in Nat /\ FirstRecords <= level.covers /\ level.key \in Key
        /\ FirstRecords \in Nat
    BY LevelFacts, SizesAssumption
  <2>4. Canon(level.key, x) <= x /\ Canon(level.key, x) \in Nat
    BY <2>2, <2>3, CanonFacts
  <2>5. y >= FirstRecords => Canon(level.key, y) = y
    BY <2>2, <2>3, CanonFacts
  <2> HIDE DEF x, y
  <2>6. ~(y >= FirstRecords)
    BY <2>1, <2>2, <2>4, <2>5
  <2>7. x \in Covers(level) /\ y \in Covers(level)
    BY <2>1, <2>2, <2>3, <2>6 DEF Covers
  <2>8. x \in EntityAround(level, x) /\ y \in EntityAround(level, x)
    BY <2>1, <2>7 DEF EntityAround
  <2>9. p \in PairsIn(EntityAround(level, x))
    BY <2>1, <2>8 DEF PairsIn, x, y
  <2> QED BY <2>7, <2>9
<1> QED BY <1>1, <1>3, <1>4

(***************************************************************************)
(* What both reverse indices have an entry for, where nothing is missing   *)
(* of either partition that the other could share.                         *)
(***************************************************************************)
Knows(known, level1, level2) == Covers(level1) \cap Covers(level2) \subseteq known

(***************************************************************************)
(* Then a cell counts the pairs in both entities.                          *)
(***************************************************************************)
LEMMA CellPairsAre ==
    ASSUME NEW level1 \in Level, NEW level2 \in Level, NEW known, Knows(known, level1, level2),
           NEW e \in Entities[level1], NEW d \in Entities[level2]
    PROVE  CellPairs(known, e, d) = Cardinality(PairsIn(e \cap d))
<1>1. e \subseteq Covers(level1) /\ d \subseteq Covers(level2) /\ e \in SUBSET Records
  BY EntitiesFacts
<1>2. e \cap d \cap known = e \cap d
  BY <1>1 DEF Knows
<1>3. Cardinality(PairsIn(e \cap d)) = choose_2(Cardinality(e \cap d))
  BY <1>1, PairsCount
<1> QED BY <1>2, <1>3 DEF CellPairs

(***************************************************************************)
(* The pairs in both of two sets.                                          *)
(***************************************************************************)
LEMMA PairsInBoth ==
    ASSUME NEW S, NEW T
    PROVE  PairsIn(S \cap T) = PairsIn(S) \cap PairsIn(T)
  BY DEF PairsIn

(***************************************************************************)
(* Disjoint sets share no pair.                                            *)
(***************************************************************************)
LEMMA PairsApart ==
    ASSUME NEW S, NEW T, S \cap T = {}
    PROVE  PairsIn(S) \cap PairsIn(T) = {}
  BY DEF PairsIn

(***************************************************************************)
(* A row counts the pairs in its entity that the other hierarchy does not  *)
(* have together.                                                          *)
(***************************************************************************)
LEMMA RowPairsAre ==
    ASSUME NEW level1 \in Level, NEW level2 \in Level, NEW known, Knows(known, level1, level2),
           NEW e \in Entities[level1]
    PROVE  RowPairs(known, e, Entities[level2]) = Cardinality(PairsIn(e) \ Joined(level2.key))
<1> DEFINE A == Entities[level2]
<1> DEFINE F == [d \in A |-> PairsIn(e \cap d)]
<1> DEFINE f == [d \in A |-> CellPairs(known, e, d)]
<1>1. IsFiniteSet(A) /\ e \in SUBSET Records
  BY EntitiesFacts
<1>2. \A d \in A : IsFiniteSet(F[d]) /\ f[d] = Cardinality(F[d])
  <2> SUFFICES ASSUME NEW d \in A PROVE IsFiniteSet(F[d]) /\ f[d] = Cardinality(F[d])
    OBVIOUS
  <2>1. F[d] = PairsIn(e \cap d) /\ f[d] = CellPairs(known, e, d)
    OBVIOUS
  <2> HIDE DEF F, f
  <2> QED BY <2>1, CellPairsAre, PairsInType
<1>3. \A d, c \in A : d # c => F[d] \cap F[c] = {}
  <2> SUFFICES ASSUME NEW d \in A, NEW c \in A, d # c
               PROVE  PairsIn(e \cap d) \cap PairsIn(e \cap c) = {}
    OBVIOUS
  <2>1. d \cap c = {}
    BY EntitiesFacts
  <2>2. PairsIn(d) \cap PairsIn(c) = {}
    BY <2>1, PairsApart
  <2> QED BY <2>2, PairsInBoth
<1>4. UNION {F[d] : d \in A} = PairsIn(e) \cap Joined(level2.key)
  <2>1. \A d \in A : F[d] = PairsIn(e) \cap PairsIn(d)
    BY PairsInBoth
  <2>2. \A d \in A : PairsIn(d) \subseteq Joined(level2.key)
    BY JoinedIs
  <2>3. \A p \in Joined(level2.key) : \E d \in A : p \in PairsIn(d)
    BY JoinedIs
  <2> HIDE DEF F, A
  <2> QED BY <2>1, <2>2, <2>3
<1>5. DOMAIN f = A
  OBVIOUS
<1>6. RowPairs(known, e, A) = choose_2(Cardinality(e)) - SumOf(f)
  BY DEF RowPairs
<1> HIDE DEF F, f, A
<1>7. SumOn(f, A) = Cardinality(UNION {F[d] : d \in A})
  BY <1>1, <1>2, <1>3, TotalSize
<1>8. SumOf(f) = Cardinality(PairsIn(e) \cap Joined(level2.key))
  <2>1. SumOf(f) = SumOn(f, A)
    BY <1>5, SumOfDef, Zenon
  <2> QED BY <2>1, <1>4, <1>7, Zenon
<1>9. choose_2(Cardinality(e)) = Cardinality(PairsIn(e))
  BY <1>1, PairsCount
<1>10. IsFiniteSet(PairsIn(e))
  BY PairsInType
<1>11. Cardinality(PairsIn(e) \ Joined(level2.key))
        = Cardinality(PairsIn(e)) - Cardinality(PairsIn(e) \cap Joined(level2.key))
  BY <1>10, FS_Difference
<1> QED BY <1>6, <1>8, <1>9, <1>11 DEF A

-----------------------------------------------------------------------------
(***************************************************************************)
(* Pair counts are counts of pairs.                                        *)
(***************************************************************************)

(***************************************************************************)
(* All rows count the pairs that only the one hierarchy has together.      *)
(***************************************************************************)
LEMMA SumOfRows ==
    ASSUME NEW level1 \in Level, NEW level2 \in Level, NEW known, Knows(known, level1, level2)
    PROVE  SumOf([e \in Entities[level1] |-> RowPairs(known, e, Entities[level2])])
            = Cardinality(Joined(level1.key) \ Joined(level2.key))
<1> DEFINE A == Entities[level1]
<1> DEFINE F == [e \in A |-> PairsIn(e) \ Joined(level2.key)]
<1> DEFINE f == [e \in A |-> RowPairs(known, e, Entities[level2])]
<1>1. IsFiniteSet(A)
  BY EntitiesFacts
<1>2. \A e \in A : IsFiniteSet(F[e]) /\ f[e] = Cardinality(F[e])
  <2> SUFFICES ASSUME NEW e \in A PROVE IsFiniteSet(F[e]) /\ f[e] = Cardinality(F[e])
    OBVIOUS
  <2>1. F[e] = PairsIn(e) \ Joined(level2.key) /\ f[e] = RowPairs(known, e, Entities[level2])
    OBVIOUS
  <2>2. IsFiniteSet(PairsIn(e) \ Joined(level2.key))
    BY PairsInType, FS_Difference
  <2> HIDE DEF F, f
  <2> QED BY <2>1, <2>2, RowPairsAre
<1>3. \A e, d \in A : e # d => F[e] \cap F[d] = {}
  <2> SUFFICES ASSUME NEW e \in A, NEW d \in A, e # d
               PROVE  PairsIn(e) \cap PairsIn(d) = {}
    OBVIOUS
  <2>1. e \cap d = {}
    BY EntitiesFacts
  <2> QED BY <2>1, PairsApart
<1>4. UNION {F[e] : e \in A} = Joined(level1.key) \ Joined(level2.key)
  <2>1. \A e \in A : F[e] = PairsIn(e) \ Joined(level2.key)
    OBVIOUS
  <2>2. \A e \in A : PairsIn(e) \subseteq Joined(level1.key)
    BY JoinedIs
  <2>3. \A p \in Joined(level1.key) : \E e \in A : p \in PairsIn(e)
    BY JoinedIs
  <2> HIDE DEF F, A
  <2> QED BY <2>1, <2>2, <2>3
<1>5. DOMAIN f = A
  OBVIOUS
<1> HIDE DEF F, f, A
<1>6. SumOn(f, A) = Cardinality(UNION {F[e] : e \in A})
  BY <1>1, <1>2, <1>3, TotalSize
<1>7. SumOf(f) = SumOn(f, A)
  BY <1>5, SumOfDef, Zenon
<1>8. SumOf(f) = Cardinality(Joined(level1.key) \ Joined(level2.key))
  BY <1>4, <1>6, <1>7, Zenon
<1> QED BY <1>8 DEF f, A

(***************************************************************************)
(* All cells count the pairs that both have together.                      *)
(***************************************************************************)
LEMMA SumOfCells ==
    ASSUME NEW level1 \in Level, NEW level2 \in Level, NEW known, Knows(known, level1, level2)
    PROVE  SumOf([cell \in Entities[level1] \X Entities[level2] |->
                    CellPairs(known, cell[1], cell[2])])
            = Cardinality(Joined(level1.key) \cap Joined(level2.key))
<1> DEFINE A == Entities[level1] \X Entities[level2]
<1> DEFINE F == [cell \in A |-> PairsIn(cell[1] \cap cell[2])]
<1> DEFINE f == [cell \in A |-> CellPairs(known, cell[1], cell[2])]
<1>1. IsFiniteSet(A)
  BY EntitiesFacts, FS_Product
<1>2. \A cell \in A : IsFiniteSet(F[cell]) /\ f[cell] = Cardinality(F[cell])
  <2> SUFFICES ASSUME NEW cell \in A PROVE IsFiniteSet(F[cell]) /\ f[cell] = Cardinality(F[cell])
    OBVIOUS
  <2>1. F[cell] = PairsIn(cell[1] \cap cell[2]) /\ f[cell] = CellPairs(known, cell[1], cell[2])
    OBVIOUS
  <2>2. cell[1] \in Entities[level1] /\ cell[2] \in Entities[level2]
    OBVIOUS
  <2> HIDE DEF F, f, A
  <2> QED BY <2>1, <2>2, CellPairsAre, PairsInType
<1>3. \A a, b \in A : a # b => F[a] \cap F[b] = {}
  <2> SUFFICES ASSUME NEW a \in A, NEW b \in A, a # b
               PROVE  PairsIn(a[1] \cap a[2]) \cap PairsIn(b[1] \cap b[2]) = {}
    OBVIOUS
  <2>1. a[1] # b[1] \/ a[2] # b[2]
    OBVIOUS
  <2>2. a[1] # b[1] => a[1] \cap b[1] = {}
    BY EntitiesFacts
  <2>3. a[2] # b[2] => a[2] \cap b[2] = {}
    BY EntitiesFacts
  <2>4. (a[1] \cap a[2]) \cap (b[1] \cap b[2]) = {}
    BY <2>1, <2>2, <2>3
  <2> QED BY <2>4, PairsApart
<1>4. UNION {F[cell] : cell \in A} = Joined(level1.key) \cap Joined(level2.key)
  <2>1. \A cell \in A : F[cell] = PairsIn(cell[1]) \cap PairsIn(cell[2])
    BY PairsInBoth
  <2>2. /\ \A e \in Entities[level1] : PairsIn(e) \subseteq Joined(level1.key)
        /\ \A d \in Entities[level2] : PairsIn(d) \subseteq Joined(level2.key)
    BY JoinedIs
  <2>3. ASSUME NEW p \in Joined(level1.key) \cap Joined(level2.key)
        PROVE  \E cell \in A : p \in F[cell]
    <3>1. PICK e \in Entities[level1] : p \in PairsIn(e)
      BY JoinedIs
    <3>2. PICK d \in Entities[level2] : p \in PairsIn(d)
      BY JoinedIs
    <3>3. <<e, d>> \in A /\ <<e, d>>[1] = e /\ <<e, d>>[2] = d
      OBVIOUS
    <3>4. PICK cell \in A : cell[1] = e /\ cell[2] = d
      BY <3>3, Zenon
    <3> HIDE DEF F, A
    <3>5. F[cell] = PairsIn(e) \cap PairsIn(d)
      BY <2>1, <3>4, Zenon
    <3> QED BY <3>1, <3>2, <3>4, <3>5, Zenon
  <2>4. \A cell \in A : cell[1] \in Entities[level1] /\ cell[2] \in Entities[level2]
    OBVIOUS
  <2>5. ASSUME NEW cell \in A
        PROVE  F[cell] \subseteq Joined(level1.key) \cap Joined(level2.key)
    <3>1. F[cell] = PairsIn(cell[1]) \cap PairsIn(cell[2])
      BY <2>1
    <3>2. PairsIn(cell[1]) \subseteq Joined(level1.key)
      BY <2>2, <2>4
    <3>3. PairsIn(cell[2]) \subseteq Joined(level2.key)
      BY <2>2, <2>4
    <3> HIDE DEF F, A
    <3> QED BY <3>1, <3>2, <3>3
  <2> HIDE DEF F, A
  <2> QED BY <2>3, <2>5
<1>5. DOMAIN f = A
  OBVIOUS
<1> HIDE DEF F, f, A
<1>6. SumOn(f, A) = Cardinality(UNION {F[cell] : cell \in A})
  BY <1>1, <1>2, <1>3, TotalSize
<1>7. SumOf(f) = SumOn(f, A)
  BY <1>5, SumOfDef, Zenon
<1>8. SumOf(f) = Cardinality(Joined(level1.key) \cap Joined(level2.key))
  BY <1>4, <1>6, <1>7, Zenon
<1> QED BY <1>8 DEF f, A

(***************************************************************************)
(* The three counts, as sizes of sets of pairs.                            *)
(***************************************************************************)
PairTable(key1, key2) ==
    [tp |-> Cardinality(Joined(key1) \cap Joined(key2)),
     fp |-> Cardinality(Joined(key1) \ Joined(key2)),
     fn |-> Cardinality(Joined(key2) \ Joined(key1))]

(***************************************************************************)
(* That is what the table of two hierarchies is by definition.             *)
(***************************************************************************)
LEMMA TrueTableIs ==
    ASSUME NEW key1 \in Key, NEW key2 \in Key
    PROVE  TrueTables[<<key1, key2>>] = PairTable(key1, key2)
<1> DEFINE both == {pair \in Records \X Records : pair[1] < pair[2] /\
                        (Together(key1, pair[1], pair[2]) /\ Together(key2, pair[1], pair[2]))}
<1> DEFINE first == {pair \in Records \X Records : pair[1] < pair[2] /\
                        (Together(key1, pair[1], pair[2]) /\ ~Together(key2, pair[1], pair[2]))}
<1> DEFINE second == {pair \in Records \X Records : pair[1] < pair[2] /\
                        (~Together(key1, pair[1], pair[2]) /\ Together(key2, pair[1], pair[2]))}
<1>1. <<key1, key2>> \in Key \X Key /\ <<key1, key2>>[1] = key1 /\ <<key1, key2>>[2] = key2
  OBVIOUS
<1>2. TrueTables[<<key1, key2>>]
        = [tp |-> Cardinality(both), fp |-> Cardinality(first), fn |-> Cardinality(second)]
  BY <1>1 DEF TrueTables, PairsWith
<1>3. /\ both = Joined(key1) \cap Joined(key2)
      /\ first = Joined(key1) \ Joined(key2)
      /\ second = Joined(key2) \ Joined(key1)
  BY DEF Joined
<1> HIDE DEF both, first, second
<1> QED BY <1>2, <1>3 DEF PairTable

(***************************************************************************)
(* The counts are naturals.                                                *)
(***************************************************************************)
LEMMA PairTableType ==
    ASSUME NEW key1, NEW key2
    PROVE  PairTable(key1, key2) \in Tables
<1>1. Joined(key1) \subseteq Records \X Records /\ Joined(key2) \subseteq Records \X Records
  BY DEF Joined
<1>2. /\ Cardinality(Joined(key1) \cap Joined(key2)) \in Nat
      /\ Cardinality(Joined(key1) \ Joined(key2)) \in Nat
      /\ Cardinality(Joined(key2) \ Joined(key1)) \in Nat
  BY <1>1, PairsFinite
<1> QED BY <1>2 DEF PairTable, Tables

(***************************************************************************)
(* A table taken from indices that cover their partitions is the           *)
(* hierarchies' own, whatever the sizes of partitions, indices and         *)
(* context.                                                                *)
(***************************************************************************)
LEMMA TableIs ==
    ASSUME NEW level1 \in Level, NEW level2 \in Level, NEW index,
           num_records \in Nat, index[level1] \in Nat, index[level2] \in Nat,
           level1.covers <= num_records, level2.covers <= num_records,
           level1.covers <= index[level1], level2.covers <= index[level2]
    PROVE  Table(level1, level2, index) = TrueTables[<<level1.key, level2.key>>]
<1> DEFINE least == Min({num_records, index[level1], index[level2]})
<1> DEFINE known == 0 .. least - 1
<1>1. least \in {num_records, index[level1], index[level2]}
  <2> DEFINE S == {num_records, index[level1], index[level2]}
  <2>1. S \in SUBSET Nat /\ S # {}
    OBVIOUS
  <2> HIDE DEF S
  <2>2. Min(S) \in S
    BY <2>1, MinOfNaturals
  <2> QED BY <2>2 DEF S
<1>2. level1.covers \in Nat /\ level2.covers \in Nat
  BY LevelFacts
<1> HIDE DEF least
<1>3. Knows(known, level1, level2)
  <2>1. least \in Nat /\ (level1.covers <= least \/ level2.covers <= least)
    BY <1>1, <1>2
  <2> QED BY <1>2, <2>1 DEF Knows, Covers
<1>4. Knows(known, level2, level1)
  BY <1>3 DEF Knows
<1>5. level1.key \in Key /\ level2.key \in Key
  BY LevelFacts
<1> DEFINE rows == Entities[level1]
<1> DEFINE cols == Entities[level2]
<1>6. Table(level1, level2, index)
        = [tp |-> SumOf([cell \in rows \X cols |-> CellPairs(known, cell[1], cell[2])]),
           fp |-> SumOf([row \in rows |-> RowPairs(known, row, cols)]),
           fn |-> SumOf([col \in cols |-> RowPairs(known, col, rows)])]
  BY DEF Table, least
<1> HIDE DEF known
<1>7. /\ SumOf([cell \in rows \X cols |-> CellPairs(known, cell[1], cell[2])])
            = Cardinality(Joined(level1.key) \cap Joined(level2.key))
      /\ SumOf([row \in rows |-> RowPairs(known, row, cols)])
            = Cardinality(Joined(level1.key) \ Joined(level2.key))
      /\ SumOf([col \in cols |-> RowPairs(known, col, rows)])
            = Cardinality(Joined(level2.key) \ Joined(level1.key))
  <2>1. SumOf([cell \in rows \X cols |-> CellPairs(known, cell[1], cell[2])])
            = Cardinality(Joined(level1.key) \cap Joined(level2.key))
    BY <1>3, SumOfCells
  <2>2. SumOf([row \in rows |-> RowPairs(known, row, cols)])
            = Cardinality(Joined(level1.key) \ Joined(level2.key))
    BY <1>3, SumOfRows
  <2>3. SumOf([col \in cols |-> RowPairs(known, col, rows)])
            = Cardinality(Joined(level2.key) \ Joined(level1.key))
    BY <1>4, SumOfRows
  <2> QED BY <2>1, <2>2, <2>3
<1>8. Table(level1, level2, index) = PairTable(level1.key, level2.key)
  BY <1>6, <1>7, Zenon DEF PairTable
<1> QED BY <1>5, <1>8, TrueTableIs

-----------------------------------------------------------------------------
(***************************************************************************)
(* Combinations of thresholds.                                             *)
(***************************************************************************)

(***************************************************************************)
(* What an analysis is of.                                                 *)
(***************************************************************************)
LEMMA LengthsAre ==
    ASSUME expressions \in Seq(Expression)
    PROVE  /\ Len(expressions) \in Nat /\ DOMAIN expressions = 1 .. Len(expressions)
           /\ \A i \in 1 .. Len(expressions) :
                /\ expressions[i] \in Expression
                /\ expressions[i].collection \in Collections
                /\ expressions[i].thresholds \in Seq(Thresholds)
                /\ Lengths[i] = Len(expressions[i].thresholds)
                /\ Lengths[i] \in Nat
<1>1. Len(expressions) \in Nat /\ DOMAIN expressions = 1 .. Len(expressions)
  OBVIOUS
<1>2. ASSUME NEW i \in 1 .. Len(expressions)
      PROVE  /\ expressions[i] \in Expression
             /\ expressions[i].collection \in Collections
             /\ expressions[i].thresholds \in Seq(Thresholds)
             /\ Lengths[i] = Len(expressions[i].thresholds)
             /\ Lengths[i] \in Nat
  <2>1. expressions[i] \in Expression
    BY <1>1
  <2>2. expressions[i].collection \in Collections /\ expressions[i].thresholds \in Seq(Thresholds)
    BY <2>1 DEF Expression
  <2>3. Lengths[i] = Len(expressions[i].thresholds)
    BY <1>1 DEF Lengths
  <2>4. Len(expressions[i].thresholds) \in Nat
    BY <2>2
  <2> QED BY <2>1, <2>2, <2>3, <2>4
<1> QED BY <1>1, <1>2

(***************************************************************************)
(* Products of list lengths are naturals; where there are combinations no  *)
(* list is empty.                                                          *)
(***************************************************************************)
LEMMA ProductType ==
    ASSUME expressions \in Seq(Expression), NEW first \in Nat \ {0}
    PROVE  /\ Product(first) \in Nat
           /\ Product(1) # 0 => Product(first) # 0
           /\ Product(1) # 0 => \A i \in 1 .. Len(expressions) : Lengths[i] # 0
<1> DEFINE n == Len(expressions)
<1>1. n \in Nat /\ \A i \in 1 .. n : Lengths[i] \in Nat
  BY LengthsAre
<1>2. /\ Product(first) = ProductOn(Lengths, first .. n)
      /\ Product(1) = ProductOn(Lengths, 1 .. n)
  BY ProductDef
<1> HIDE DEF n
<1>3. /\ IsFiniteSet(first .. n) /\ IsFiniteSet(1 .. n)
      /\ first .. n \subseteq 1 .. n
  BY <1>1, FS_Interval
<1>4. /\ ProductOn(Lengths, first .. n) \in Nat
      /\ ProductOn(Lengths, first .. n) # 0 <=> \A i \in first .. n : Lengths[i] # 0
  BY <1>1, <1>3, ProductFacts
<1>5. ProductOn(Lengths, 1 .. n) # 0 <=> \A i \in 1 .. n : Lengths[i] # 0
  BY <1>1, <1>3, ProductFacts
<1> QED BY <1>2, <1>3, <1>4, <1>5 DEF n

(***************************************************************************)
(* Where a remainder lies.                                                 *)
(***************************************************************************)
LEMMA Remainder == \A q \in Int, l \in Nat : l # 0 => q % l \in 0 .. l - 1
  OBVIOUS

(***************************************************************************)
(* Every combination is a sequence of keys.                                *)
(***************************************************************************)
LEMMA CombinationType ==
    ASSUME expressions \in Seq(Expression), NEW k \in Nat \ {0}, Product(1) # 0
    PROVE  /\ Combination(k) \in Seq(Key)
           /\ DOMAIN Combination(k) = 1 .. Len(expressions)
<1> DEFINE n == Len(expressions)
<1> DEFINE At(i) == (((k - 1) \div Product(i + 1)) % Lengths[i]) + 1
<1> DEFINE c == [i \in 1 .. n |-> <<expressions[i].collection, expressions[i].thresholds[At(i)]>>]
<1>1. n \in Nat /\ DOMAIN expressions = 1 .. n
  BY LengthsAre
<1>2. Combination(k) = c
  BY <1>1 DEF Combination
<1>3. ASSUME NEW i \in 1 .. n
      PROVE  <<expressions[i].collection, expressions[i].thresholds[At(i)]>> \in Key
  <2> DEFINE p == Product(i + 1)
  <2> DEFINE l == Lengths[i]
  <2>1. i + 1 \in Nat \ {0}
    BY <1>1
  <2>2. p \in Nat /\ p # 0 /\ l # 0
    BY <2>1, ProductType
  <2>3. /\ l \in Nat /\ expressions[i].collection \in Collections
        /\ expressions[i].thresholds \in Seq(Thresholds)
        /\ l = Len(expressions[i].thresholds)
    BY LengthsAre
  <2>4. At(i) = (((k - 1) \div p) % l) + 1
    OBVIOUS
  <2> HIDE DEF p, l, At
  <2>5. (k - 1) \div p \in Int
    BY <2>2
  <2>6. At(i) \in 1 .. l
    <3> DEFINE q == (k - 1) \div p
    <3> HIDE DEF q
    <3>1. q \in Int
      BY <2>5 DEF q
    <3>2. q % l \in 0 .. l - 1
      <4>1. l \in Nat /\ l # 0
        BY <2>2, <2>3
      <4> QED BY <3>1, <4>1, Remainder
    <3>3. At(i) = (q % l) + 1
      BY <2>4 DEF q
    <3> QED BY <2>3, <3>2, <3>3
  <2>7. expressions[i].thresholds[At(i)] \in Thresholds
    BY <2>3, <2>6
  <2> QED BY <2>3, <2>7 DEF Key
<1> HIDE DEF n, At
<1>4. c \in Seq(Key)
  BY <1>1, <1>3
<1>5. DOMAIN c = 1 .. n
  OBVIOUS
<1> QED BY <1>2, <1>4, <1>5 DEF n

(***************************************************************************)
(* The place of a pair in a batch, in rows of length b.                    *)
(***************************************************************************)
LEMMA RowsAndColumns ==
    ASSUME NEW n \in Nat, NEW a \in Nat, NEW b \in Nat, n < a * b
    PROVE  (n \div b) + 1 \in 1 .. a /\ (n % b) + 1 \in 1 .. b
<1>1. b > 0
  <2>1. CASE b = 0
    <3>1. a * b = 0
      BY <2>1
    <3>2. QED
      BY <3>1
  <2>2. QED
    BY <2>1
<1>2. DEFINE q == n \div b
             r == n % b
<1>3. q \in Int /\ r \in 0 .. b - 1 /\ n = b * q + r
  BY <1>1
<1> HIDE DEF q, r
<1>4. q >= 0
  <2>1. CASE q <= -1
    <3>1. b * q <= -b
      BY <1>1, <1>3, <2>1
    <3>2. QED
      BY <1>3, <3>1
  <2>2. QED
    BY <1>3, <2>1
<1>5. q < a
  <2>1. CASE q >= a
    <3>1. b * q >= b * a
      BY <1>1, <1>3, <2>1
    <3>2. QED
      BY <1>3, <3>1
  <2>2. QED
    BY <1>3, <2>1
<1>6. QED
  BY <1>3, <1>4, <1>5 DEF q, r

(***************************************************************************)
(* The products for two expressions.                                       *)
(***************************************************************************)
LEMMA PairProducts ==
    ASSUME expressions \in Seq(Expression), Len(expressions) = 2
    PROVE  /\ Product(1) = Lengths[1] * Lengths[2]
           /\ Product(2) = Lengths[2]
           /\ Product(3) = 1
<1>1. Lengths[1] \in Nat /\ Lengths[2] \in Nat
  BY LengthsAre
<1>2. /\ Product(1) = ProductOn(Lengths, 1 .. 2)
      /\ Product(2) = ProductOn(Lengths, 2 .. 2)
      /\ Product(3) = ProductOn(Lengths, 3 .. 2)
  BY ProductDef
<1>3. 1 .. 2 = {1, 2} /\ 2 .. 2 = {2} /\ 3 .. 2 = {}
  OBVIOUS
<1>4. ProductOn(Lengths, {1, 2}) = Lengths[1] * Lengths[2]
  BY <1>1, ProductOfTwo
<1>5. ProductOn(Lengths, {2}) = Lengths[2] /\ ProductOn(Lengths, {}) = 1
  BY <1>1, ProductOfOne, ProductOnEmpty
<1> QED BY <1>2, <1>3, <1>4, <1>5, Zenon

(***************************************************************************)
(* The combinations of two expressions, row by row.                        *)
(***************************************************************************)
LEMMA PairCombination ==
    ASSUME expressions \in Seq(Expression), Len(expressions) = 2,
           NEW n \in Nat, n < Lengths[1] * Lengths[2]
    PROVE  LET at == Combination(n + 1)
           IN  /\ at[1] = <<expressions[1].collection,
                            expressions[1].thresholds[(n \div Lengths[2]) + 1]>>
               /\ at[2] = <<expressions[2].collection,
                            expressions[2].thresholds[(n % Lengths[2]) + 1]>>
<1> DEFINE a == Lengths[1]
<1> DEFINE b == Lengths[2]
<1>1. a \in Nat /\ b \in Nat /\ DOMAIN expressions = 1 .. 2
  BY LengthsAre
<1>2. Product(1 + 1) = b /\ Product(2 + 1) = 1 /\ n + 1 - 1 = n
  BY PairProducts
<1>3. /\ Combination(n + 1)[1] = <<expressions[1].collection,
            expressions[1].thresholds[(((n + 1 - 1) \div Product(1 + 1)) % a) + 1]>>
      /\ Combination(n + 1)[2] = <<expressions[2].collection,
            expressions[2].thresholds[(((n + 1 - 1) \div Product(2 + 1)) % b) + 1]>>
  BY <1>1 DEF Combination
<1> HIDE DEF a, b
<1>4. n < a * b
  BY DEF a, b
<1>5. (n \div b) + 1 \in 1 .. a /\ (n % b) + 1 \in 1 .. b
  BY <1>1, <1>4, RowsAndColumns
<1>6. ((n \div b) % a) = n \div b
  <2> DEFINE q == n \div b
  <2>1. b # 0
    BY <1>1, <1>5
  <2>2. q \in Int
    BY <1>1, <2>1
  <2> HIDE DEF q
  <2>3. q \in 0 .. a - 1
    BY <1>1, <1>5, <2>2 DEF q
  <2>4. q % a = q
    BY <1>1, <2>3
  <2> QED BY <2>4 DEF q
<1>7. n \div 1 = n
  OBVIOUS
<1> QED BY <1>2, <1>3, <1>6, <1>7, Zenon DEF a, b

(***************************************************************************)
(* ProductDef of the next state.                                           *)
(***************************************************************************)
LEMMA ProductNext ==
    \A first : Product(first)' = ProductOn(Lengths', first .. Len(expressions'))
  BY DEF Product, FoldFunctionOnSet, MapThenFoldSet, ProductOn, ProductIter, IsProduct, Choice

(***************************************************************************)
(* The combinations change with the analysis only.                         *)
(***************************************************************************)
LEMMA CombinationsStand ==
    ASSUME expressions' = expressions
    PROVE  /\ \A k : Combination(k)' = Combination(k)
           /\ Combinations' = Combinations
<1>1. Lengths' = Lengths
  BY DEF Lengths
<1>2. \A first : Product(first)' = Product(first)
  <2> SUFFICES ASSUME NEW first PROVE Product(first)' = Product(first)
    OBVIOUS
  <2>1. Product(first)' = ProductOn(Lengths', first .. Len(expressions'))
    BY ProductNext, Zenon
  <2>2. Product(first) = ProductOn(Lengths, first .. Len(expressions))
    BY ProductDef, Zenon
  <2> QED BY <1>1, <2>1, <2>2, Zenon
<1>3. Combinations' = Combinations
  BY <1>2 DEF Combinations
<1>4. ASSUME NEW CONSTANT k PROVE Combination(k)' = Combination(k)
  BY <1>1, <1>2 DEF Combination
<1> QED BY <1>3, <1>4

-----------------------------------------------------------------------------
(***************************************************************************)
(* The invariant.                                                          *)
(***************************************************************************)

(***************************************************************************)
(* No partition has more records than the context.                         *)
(***************************************************************************)
Covered(levels) == levels \subseteq Level /\ \A level \in levels : level.covers <= num_records

(***************************************************************************)
(* A sweep's partitions are of its thresholds, in order.                   *)
(***************************************************************************)
ListCovered(levels, i) ==
    /\ levels \in Seq(Level)
    /\ \A j \in 1 .. Len(levels) : levels[j].covers <= num_records
    /\ levels # <<>> =>
        /\ Batch
        /\ Len(levels) = Lengths[i]
        /\ \A j \in 1 .. Len(levels) :
            levels[j].key = <<expressions[i].collection, expressions[i].thresholds[j]>>

(***************************************************************************)
(* Those got so far for a combination are of its thresholds, in order.     *)
(***************************************************************************)
OwnedCovered ==
    /\ owned_partitions \in Seq(Level)
    /\ \A j \in 1 .. Len(owned_partitions) : owned_partitions[j].covers <= num_records
    /\ ~Batch => \A j \in 1 .. Len(owned_partitions) : owned_partitions[j].key = AtHand[j]

(***************************************************************************)
(* Whoever can ask a partition for its index has had it from one of these. *)
(***************************************************************************)
LevelsCovered ==
    /\ Covered(hierarchy_cache)
    /\ Covered(partition_cache)
    /\ OwnedCovered
    /\ ListCovered(partitions1, 1)
    /\ ListCovered(partitions2, 2)

(***************************************************************************)
(* What is analysed was asked for.                                         *)
(***************************************************************************)
Asked == expressions \in Analyses \cup {<<>>}

(***************************************************************************)
(* A table is that of the hierarchies at the thresholds of its partitions, *)
(* though these may be older than the analysis that reads it from the      *)
(* cache.                                                                  *)
(***************************************************************************)
RightTable(answer) ==
    answer.table # None => answer.table = TrueTables[<<answer.first.key, answer.second.key>>]

(***************************************************************************)
(* The k-th answer compares what the k-th combination names.               *)
(***************************************************************************)
Labelled(answer, k) ==
    /\ answer.combination = Combination(k)
    /\ answer.first.key = Combination(k)[1]
    /\ answer.second.key = Combination(k)[2]

(***************************************************************************)
(* The answers so far.                                                     *)
(***************************************************************************)
ResultsRight ==
    /\ results \in Seq(Answers)
    /\ Len(results) <= Combinations
    /\ \A k \in 1 .. Len(results) : RightTable(results[k]) /\ Labelled(results[k], k)

(***************************************************************************)
(* The answers kept, whichever combination they were first given for.      *)
(***************************************************************************)
CacheRight == metrics_cache \subseteq Answers /\ \A answer \in metrics_cache : RightTable(answer)

(***************************************************************************)
(* The reverse indices.                                                    *)
(***************************************************************************)
IndexesRight == indexed \in [Level -> Sizes \cup {None}] /\ IndexesComplete

(***************************************************************************)
(* The inductive invariant.                                                *)
(***************************************************************************)
IInv ==
    /\ num_records \in Sizes
    /\ IndexesRight
    /\ LevelsCovered
    /\ Asked
    /\ ResultsRight
    /\ CacheRight
    /\ analyses \in 0 .. MaxAnalyses

-----------------------------------------------------------------------------
(***************************************************************************)
(* Sizes are naturals.                                                     *)
(***************************************************************************)
LEMMA SizeFacts == Sizes \subseteq Nat /\ None \notin Sizes
  BY SizesAssumption, NoneAssumption DEF Sizes

(***************************************************************************)
(* The empty sequence.                                                     *)
(***************************************************************************)
LEMMA EmptyLists == \A S : <<>> \in Seq(S) /\ Len(<<>>) = 0 /\ 1 .. 0 = {}
  OBVIOUS

(***************************************************************************)
(* A sweep before its partitions are built.                                *)
(***************************************************************************)
LEMMA EmptyListCovered == \A i : ListCovered(<<>>, i)
  BY EmptyLists DEF ListCovered

(***************************************************************************)
(* What is asked has two expressions, and so many combinations.            *)
(***************************************************************************)
LEMMA AnalysisFacts ==
    ASSUME Asked
    PROVE  /\ expressions # <<>> => expressions \in Seq(Expression) /\ Len(expressions) >= 2
           /\ expressions = <<>> => Combinations = 0
           /\ Combinations \in Nat
           /\ Combinations # 0 => Combinations = Product(1) /\ expressions # <<>>
<1>1. ASSUME expressions # <<>> PROVE expressions \in Seq(Expression) /\ Len(expressions) >= 2
  BY <1>1, AnalysesAssumption DEF Asked
<1>2. expressions = <<>> => Combinations = 0
  BY DEF Combinations
<1>3. ASSUME expressions # <<>> PROVE Combinations = Product(1) /\ Product(1) \in Nat
  <2>1. Combinations = Product(1)
    BY <1>3 DEF Combinations
  <2>2. Product(1) \in Nat
    BY <1>1, <1>3, ProductType
  <2> QED BY <2>1, <2>2
<1> QED BY <1>1, <1>2, <1>3

(***************************************************************************)
(* The invariant holds to begin with.                                      *)
(***************************************************************************)
LEMMA InitHolds == Init => IInv
<1> SUFFICES ASSUME Init PROVE IInv
  OBVIOUS
<1>1. num_records \in Sizes
  BY SizesAssumption DEF Init, Sizes
<1>2. IndexesRight
  BY DEF Init, IndexesRight, IndexesComplete
<1>3. LevelsCovered
  <2>1. OwnedCovered
    BY EmptyLists DEF Init, OwnedCovered
  <2> QED BY <2>1, EmptyListCovered DEF Init, LevelsCovered, Covered
<1>4. Asked
  BY DEF Init, Asked
<1>5. ResultsRight
  <2>1. results = <<>> /\ Combinations \in Nat
    BY <1>4, AnalysisFacts DEF Init
  <2> QED BY <2>1, EmptyLists DEF ResultsRight
<1>6. CacheRight
  BY DEF Init, CacheRight
<1>7. analyses \in 0 .. MaxAnalyses
  BY LimitAssumption DEF Init
<1> QED BY <1>1, <1>2, <1>3, <1>4, <1>5, <1>6, <1>7 DEF IInv

(***************************************************************************)
(* An index built now has every record of its partition.                   *)
(***************************************************************************)
LEMMA IndexBuilt ==
    ASSUME IInv, num_records' = num_records, NEW levels, Covered(levels),
           indexed' = WithIndex(levels, num_records)
    PROVE  IndexesRight' /\ \A level \in levels : indexed'[level] # None
<1>1. num_records \in Sizes /\ num_records \in Nat /\ num_records # None
  BY SizeFacts DEF IInv
<1>2. indexed \in [Level -> Sizes \cup {None}] /\ IndexesComplete
  BY DEF IInv, IndexesRight
<1>3. \A level \in Level :
        indexed'[level] = IF level \in levels /\ indexed[level] = None
                          THEN num_records ELSE indexed[level]
  BY DEF WithIndex
<1>4. indexed' \in [Level -> Sizes \cup {None}]
  BY <1>1, <1>2 DEF WithIndex
<1>5. ASSUME NEW level \in Level, indexed'[level] # None
      PROVE  indexed'[level] >= level.covers
  <2>1. CASE level \in levels /\ indexed[level] = None
    <3>1. level.covers <= num_records /\ level.covers \in Nat
      BY <2>1, LevelFacts DEF Covered
    <3>2. indexed'[level] = num_records
      BY <1>3, <2>1
    <3>3. QED
      BY <1>1, <3>1, <3>2
  <2>2. CASE ~(level \in levels /\ indexed[level] = None)
    <3>1. indexed'[level] = indexed[level]
      BY <1>3, <2>2
    <3>2. QED
      BY <1>2, <1>5, <3>1 DEF IndexesComplete
  <2>3. QED
    BY <2>1, <2>2
<1>6. \A level \in levels : indexed'[level] # None
  BY <1>1, <1>3 DEF Covered
<1> QED BY <1>4, <1>5, <1>6 DEF IndexesRight, IndexesComplete

(***************************************************************************)
(* One more answer that is right and rightly labelled.                     *)
(***************************************************************************)
LEMMA AnswerAdded ==
    ASSUME ResultsRight, Asked, expressions' = expressions, Len(results) < Combinations,
           NEW answer \in Answers, RightTable(answer), Labelled(answer, Len(results) + 1),
           results' = Append(results, answer)
    PROVE  ResultsRight' /\ results'[Len(results')] = answer
<1> DEFINE n == Len(results)
<1>1. results \in Seq(Answers) /\ n \in Nat /\ Combinations \in Nat
  BY AnalysisFacts DEF ResultsRight
<1>2. /\ results' \in Seq(Answers) /\ Len(results') = n + 1
      /\ results'[n + 1] = answer
      /\ \A k \in 1 .. n : results'[k] = results[k]
  BY <1>1
<1>3. Combinations' = Combinations /\ \A k : Combination(k)' = Combination(k)
  BY CombinationsStand
<1>4. Len(results') <= Combinations'
  <2> HIDE DEF n
  <2>1. n < Combinations
    BY DEF n
  <2> QED BY <1>1, <1>2, <1>3, <2>1
<1>5. ASSUME NEW CONSTANT k \in 1 .. n + 1
      PROVE  RightTable(results'[k]) /\ Labelled(results'[k], k)
  <2>1. CASE k = n + 1
    BY <1>2, <2>1
  <2>2. CASE k # n + 1
    <3>1. k \in 1 .. n
      BY <1>1, <2>2
    <3>2. results'[k] = results[k]
      BY <1>2, <3>1
    <3> QED BY <3>1, <3>2 DEF ResultsRight
  <2> QED BY <2>1, <2>2
<1>6. ASSUME NEW CONSTANT k \in 1 .. n + 1
      PROVE  (RightTable(results[k]) /\ Labelled(results[k], k))'
  BY <1>3, <1>5 DEF RightTable, Labelled
<1> QED BY <1>2, <1>4, <1>6 DEF ResultsRight

-----------------------------------------------------------------------------
(***************************************************************************)
(* What a cache or a hierarchy hands out.                                  *)
(***************************************************************************)

(***************************************************************************)
(* A new partition has all the records there are.                          *)
(***************************************************************************)
LEMMA FreshFacts ==
    ASSUME IInv, NEW key \in Key
    PROVE  Fresh(key) \in Level /\ Fresh(key).key = key /\ Fresh(key).covers <= num_records
<1>1. num_records \in Sizes /\ num_records \in Nat
  BY SizeFacts DEF IInv
<1> QED BY <1>1 DEF Fresh, Level

(***************************************************************************)
(* at_threshold returns a partition for the key, cached or new.            *)
(***************************************************************************)
LEMMA AtThresholdFacts ==
    ASSUME IInv, NEW key \in Key, NEW level \in AtThreshold(key)
    PROVE  level \in Level /\ level.key = key /\ level.covers <= num_records
<1>1. CASE Cached(hierarchy_cache, key) # {}
  <2>1. level \in hierarchy_cache /\ level.key = key
    BY <1>1 DEF AtThreshold, Cached
  <2> QED BY <2>1 DEF IInv, LevelsCovered, Covered
<1>2. CASE Cached(hierarchy_cache, key) = {}
  <2>1. level = Fresh(key)
    BY <1>2 DEF AtThreshold
  <2> QED BY <2>1, FreshFacts
<1> QED BY <1>1, <1>2

(***************************************************************************)
(* An insert of partitions that are no larger than the context.            *)
(***************************************************************************)
LEMMA InsertedCovered ==
    ASSUME NEW cache, Covered(cache), NEW levels, Covered(levels)
    PROVE  Covered(Inserted(cache, levels))
  BY DEF Covered, Inserted

(***************************************************************************)
(* What a sweep builds.                                                    *)
(***************************************************************************)
LEMMA LevelsOfFacts ==
    ASSUME IInv, Batch, NEW i \in 1 .. 2
    PROVE  \A levels : levels = LevelsOf(expressions[i]) =>
                ListCovered(levels, i) /\ Covered(Range(levels))
<1> DEFINE expression == expressions[i]
<1> DEFINE thresholds == expression.thresholds
<1> DEFINE levels == LevelsOf(expression)
<1> DEFINE n == Len(thresholds)
<1> DEFINE KeyAt(j) == <<expression.collection, thresholds[j]>>
<1>1. Len(expressions) = 2 /\ expressions # <<>>
  BY DEF Batch
<1>2. expressions \in Seq(Expression)
  BY <1>1, AnalysisFacts DEF IInv
<1>3. /\ expression.collection \in Collections /\ thresholds \in Seq(Thresholds)
      /\ Lengths[i] = n /\ n \in Nat
  BY <1>1, <1>2, LengthsAre
<1>4. DOMAIN thresholds = 1 .. n /\ \A j \in 1 .. n : thresholds[j] \in Thresholds
  BY <1>3
<1>5. levels = [j \in 1 .. n |-> Fresh(KeyAt(j))]
  BY <1>4 DEF LevelsOf
<1> HIDE DEF n, levels, thresholds
<1>6. \A j \in 1 .. n : KeyAt(j) \in Key
  BY <1>3, <1>4 DEF Key
<1>7. \A j \in 1 .. n : /\ Fresh(KeyAt(j)) \in Level /\ Fresh(KeyAt(j)).key = KeyAt(j)
                        /\ Fresh(KeyAt(j)).covers <= num_records
  BY <1>6, FreshFacts
<1>8. \A j \in 1 .. n : levels[j] = Fresh(KeyAt(j))
  BY <1>5
<1>9. DOMAIN levels = 1 .. n
  BY <1>5
<1>10. levels \in Seq(Level) /\ Len(levels) = n
  <2> HIDE DEF KeyAt
  <2>1. levels \in [1 .. n -> Level]
    BY <1>5, <1>7
  <2> QED BY <1>3, <2>1
<1>11. ListCovered(levels, i)
  <2>1. \A j \in 1 .. n : levels[j].covers <= num_records /\ levels[j].key = KeyAt(j)
    BY <1>7, <1>8
  <2> QED BY <1>3, <1>10, <2>1 DEF ListCovered, thresholds
<1>12. ASSUME NEW level \in Range(levels) PROVE level \in Level /\ level.covers <= num_records
  <2>1. PICK j \in 1 .. n : level = levels[j]
    BY <1>9 DEF Range
  <2> HIDE DEF KeyAt
  <2> QED BY <1>7, <1>8, <2>1
<1> QED BY <1>11, <1>12 DEF levels, Covered

(***************************************************************************)
(* A comparison of the two partitions that the next combination names      *)
(* gives the next answer, and a right one.                                 *)
(***************************************************************************)
LEMMA ComparedFacts ==
    ASSUME IInv, num_records' = num_records, expressions' = expressions,
           Len(results) < Combinations,
           NEW level1 \in Level, NEW level2 \in Level, NEW comparison_type,
           level1.covers <= num_records, level2.covers <= num_records,
           level1.key = Combination(Len(results) + 1)[1],
           level2.key = Combination(Len(results) + 1)[2],
           Compared(level1, level2, comparison_type)
    PROVE  /\ IndexesRight' /\ ResultsRight'
           /\ results'[Len(results')] \in Answers /\ RightTable(results'[Len(results')])
<1> DEFINE n == Len(results)
<1>1. /\ Asked /\ ResultsRight /\ IndexesRight /\ num_records \in Nat
      /\ results \in Seq(Answers) /\ n \in Nat
  BY SizeFacts DEF IInv, ResultsRight
<1>2. Combination(n + 1) \in Seq(Key)
  <2>1. Combinations # 0
    BY <1>1, AnalysisFacts
  <2>2. expressions \in Seq(Expression) /\ Product(1) # 0
    BY <1>1, <2>1, AnalysisFacts
  <2>3. n + 1 \in Nat \ {0}
    BY <1>1
  <2> HIDE DEF n
  <2> QED BY <2>2, <2>3, CombinationType
<1>3. ASSUME NEW table, table \in Tables \cup {None},
             table # None => table = TrueTables[<<level1.key, level2.key>>],
             results' = Append(results, Answer(n + 1, level1, level2, table))
      PROVE  /\ ResultsRight'
             /\ results'[Len(results')] \in Answers /\ RightTable(results'[Len(results')])
  <2> DEFINE answer == Answer(n + 1, level1, level2, table)
  <2>1. answer \in Answers
    BY <1>2, <1>3 DEF Answer, Answers
  <2>2. RightTable(answer) /\ Labelled(answer, n + 1)
    BY <1>3 DEF RightTable, Labelled, Answer
  <2> HIDE DEF answer
  <2>3. results' = Append(results, answer)
    BY <1>3 DEF answer
  <2>4. ResultsRight' /\ results'[Len(results')] = answer
    BY <1>1, <2>1, <2>2, <2>3, AnswerAdded
  <2> QED BY <2>1, <2>2, <2>4
<1>4. CASE RecordHandles(comparison_type, level1.key[1] = level2.key[1])
  <2> DEFINE table == Table(level1, level2, indexed')
  <2>1. /\ indexed' = WithIndex({level1, level2}, num_records)
        /\ results' = Append(results, Answer(n + 1, level1, level2, table))
    BY <1>4 DEF Compared
  <2>2. Covered({level1, level2})
    BY DEF Covered
  <2>3. IndexesRight' /\ \A level \in {level1, level2} : indexed'[level] # None
    BY <2>1, <2>2, IndexBuilt
  <2>4. /\ indexed'[level1] \in Nat /\ level1.covers <= indexed'[level1]
        /\ indexed'[level2] \in Nat /\ level2.covers <= indexed'[level2]
    <3>1. \A level \in {level1, level2} :
                indexed'[level] \in Sizes /\ indexed'[level] >= level.covers
      BY <2>3 DEF IndexesRight, IndexesComplete
    <3>2. indexed'[level1] \in Nat /\ indexed'[level2] \in Nat
      BY <3>1, SizeFacts
    <3>3. level1.covers \in Nat /\ level2.covers \in Nat
      BY LevelFacts
    <3> QED BY <3>1, <3>2, <3>3
  <2>5. table = TrueTables[<<level1.key, level2.key>>]
    <3>1. PICK index : index = indexed'
      OBVIOUS
    <3>2. Table(level1, level2, index) = TrueTables[<<level1.key, level2.key>>]
      BY <1>1, <2>4, <3>1, TableIs
    <3> QED BY <3>1, <3>2
  <2>6. table \in Tables
    <3>1. level1.key \in Key /\ level2.key \in Key
      BY LevelFacts
    <3>2. TrueTables[<<level1.key, level2.key>>] \in Tables
      BY <3>1, TrueTableIs, PairTableType
    <3> QED BY <2>5, <3>2
  <2> HIDE DEF table
  <2> QED BY <1>3, <2>1, <2>3, <2>5, <2>6
<1>5. CASE ~RecordHandles(comparison_type, level1.key[1] = level2.key[1])
  <2>1. /\ indexed' = indexed
        /\ results' = Append(results, Answer(n + 1, level1, level2, None))
    BY <1>5 DEF Compared
  <2>2. IndexesRight'
    BY <1>1, <2>1 DEF IndexesRight, IndexesComplete
  <2> QED BY <1>3, <2>1, <2>2
<1> QED BY <1>4, <1>5

-----------------------------------------------------------------------------
(***************************************************************************)
(* What stays as it was.                                                   *)
(***************************************************************************)

(***************************************************************************)
(* A sweep's partitions, while the context grows.                          *)
(***************************************************************************)
LEMMA ListStands ==
    ASSUME NEW levels, NEW i, ListCovered(levels, i), expressions' = expressions,
           num_records \in Nat, num_records' \in Nat, num_records <= num_records'
    PROVE  /\ levels \in Seq(Level)
           /\ \A j \in 1 .. Len(levels) : levels[j].covers <= num_records'
           /\ levels # <<>> =>
                /\ Batch'
                /\ Len(levels) = Lengths'[i]
                /\ \A j \in 1 .. Len(levels) :
                    levels[j].key = <<expressions'[i].collection, expressions'[i].thresholds[j]>>
<1>1. Batch' = Batch /\ Lengths' = Lengths
  BY DEF Batch, Lengths
<1>2. levels \in Seq(Level)
  BY DEF ListCovered
<1>3. ASSUME NEW j \in 1 .. Len(levels) PROVE levels[j].covers <= num_records'
  <2>1. levels[j] \in Level
    BY <1>2
  <2>2. levels[j].covers \in Nat
    BY <2>1, LevelFacts
  <2>3. levels[j].covers <= num_records
    BY DEF ListCovered
  <2> QED BY <2>2, <2>3
<1>4. levels # <<>> =>
        /\ Batch
        /\ Len(levels) = Lengths[i]
        /\ \A j \in 1 .. Len(levels) :
            levels[j].key = <<expressions[i].collection, expressions[i].thresholds[j]>>
  BY DEF ListCovered
<1> QED BY <1>1, <1>2, <1>3, <1>4

(***************************************************************************)
(* Caches that only lose partitions, and sweeps that are left alone.       *)
(***************************************************************************)
LEMMA LevelsStand ==
    ASSUME LevelsCovered, expressions' = expressions,
           num_records \in Nat, num_records' \in Nat, num_records <= num_records'
    PROVE  /\ hierarchy_cache' \subseteq hierarchy_cache => Covered(hierarchy_cache)'
           /\ owned_partitions' = owned_partitions /\ (results' = results \/ Batch) =>
                OwnedCovered'
           /\ partition_cache' \subseteq partition_cache => Covered(partition_cache)'
           /\ partitions1' = partitions1 => ListCovered(partitions1, 1)'
           /\ partitions2' = partitions2 => ListCovered(partitions2, 2)'
<1>1. \A level \in Level : level.covers <= num_records => level.covers <= num_records'
  BY LevelFacts
<1>2. ASSUME hierarchy_cache' \subseteq hierarchy_cache PROVE Covered(hierarchy_cache)'
  BY <1>1, <1>2 DEF LevelsCovered, Covered
<1>3. ASSUME partition_cache' \subseteq partition_cache PROVE Covered(partition_cache)'
  BY <1>1, <1>3 DEF LevelsCovered, Covered
<1>4. ASSUME partitions1' = partitions1 PROVE ListCovered(partitions1, 1)'
  <2>1. ListCovered(partitions1, 1)
    BY DEF LevelsCovered
  <2>2. PICK levels : levels = partitions1
    OBVIOUS
  <2>3. ListCovered(levels, 1)
    BY <2>1, <2>2
  <2>4. /\ levels \in Seq(Level)
        /\ \A j \in 1 .. Len(levels) : levels[j].covers <= num_records'
        /\ levels # <<>> =>
            /\ Batch'
            /\ Len(levels) = Lengths'[1]
            /\ \A j \in 1 .. Len(levels) :
                levels[j].key = <<expressions'[1].collection, expressions'[1].thresholds[j]>>
    BY <2>3, ListStands
  <2>5. partitions1' = levels
    BY <1>4, <2>2
  <2> QED BY <2>4, <2>5 DEF ListCovered
<1>5. ASSUME partitions2' = partitions2 PROVE ListCovered(partitions2, 2)'
  <2>1. ListCovered(partitions2, 2)
    BY DEF LevelsCovered
  <2>2. PICK levels : levels = partitions2
    OBVIOUS
  <2>3. ListCovered(levels, 2)
    BY <2>1, <2>2
  <2>4. /\ levels \in Seq(Level)
        /\ \A j \in 1 .. Len(levels) : levels[j].covers <= num_records'
        /\ levels # <<>> =>
            /\ Batch'
            /\ Len(levels) = Lengths'[2]
            /\ \A j \in 1 .. Len(levels) :
                levels[j].key = <<expressions'[2].collection, expressions'[2].thresholds[j]>>
    BY <2>3, ListStands
  <2>5. partitions2' = levels
    BY <1>5, <2>2
  <2> QED BY <2>4, <2>5 DEF ListCovered
<1>6. ASSUME owned_partitions' = owned_partitions, results' = results \/ Batch
      PROVE  OwnedCovered'
  <2>1. /\ owned_partitions \in Seq(Level)
        /\ \A j \in 1 .. Len(owned_partitions) : owned_partitions[j].covers <= num_records
        /\ ~Batch => \A j \in 1 .. Len(owned_partitions) : owned_partitions[j].key = AtHand[j]
    BY DEF LevelsCovered, OwnedCovered
  <2>2. \A j \in 1 .. Len(owned_partitions) : owned_partitions[j].covers <= num_records'
    BY <1>1, <2>1
  <2>3. Batch' = Batch
    BY DEF Batch
  <2>4. results' = results => AtHand' = AtHand
    <3>1. \A k : Combination(k)' = Combination(k)
      BY CombinationsStand
    <3> QED BY <3>1 DEF AtHand
  <2> QED BY <1>6, <2>1, <2>2, <2>3, <2>4 DEF OwnedCovered
<1> QED BY <1>2, <1>3, <1>4, <1>5, <1>6

(***************************************************************************)
(* Answers that are left alone.                                            *)
(***************************************************************************)
LEMMA ResultsStand ==
    ASSUME ResultsRight, results' = results, expressions' = expressions
    PROVE  ResultsRight'
<1>1. Combinations' = Combinations /\ \A k : Combination(k)' = Combination(k)
  BY CombinationsStand
<1>2. ASSUME NEW CONSTANT k \in 1 .. Len(results)
      PROVE  (RightTable(results[k]) /\ Labelled(results[k], k))'
  <2>1. RightTable(results[k]) /\ Labelled(results[k], k)
    BY DEF ResultsRight
  <2> QED BY <1>1, <2>1 DEF RightTable, Labelled
<1> QED BY <1>1, <1>2 DEF ResultsRight

(***************************************************************************)
(* A cache that only loses answers.                                        *)
(***************************************************************************)
LEMMA CacheStands ==
    ASSUME CacheRight, metrics_cache' \subseteq metrics_cache
    PROVE  CacheRight'
BY DEF CacheRight, RightTable

-----------------------------------------------------------------------------
(***************************************************************************)
(* The steps of other users of the context.                                *)
(***************************************************************************)

(***************************************************************************)
(* A record is added.                                                      *)
(***************************************************************************)
LEMMA GrowStep == IInv /\ Grow => IInv'
<1> SUFFICES ASSUME IInv, Grow PROVE IInv'
  OBVIOUS
<1>1. /\ num_records' = num_records + 1 /\ num_records < MaxRecords
      /\ hierarchy_cache' = hierarchy_cache /\ indexed' = indexed
      /\ expressions' = expressions /\ partition_cache' = partition_cache
      /\ partitions1' = partitions1 /\ partitions2' = partitions2
      /\ owned_partitions' = owned_partitions
      /\ results' = results /\ metrics_cache' = metrics_cache /\ analyses' = analyses
  BY DEF Grow, callVars
<1>2. num_records \in Nat /\ num_records' \in Sizes /\ num_records' \in Nat
      /\ num_records <= num_records'
  BY <1>1, SizeFacts, SizesAssumption DEF IInv, Sizes
<1>3. LevelsCovered'
  BY <1>1, <1>2, LevelsStand DEF IInv, LevelsCovered
<1>4. ResultsRight' /\ CacheRight'
  BY <1>1, ResultsStand, CacheStands DEF IInv
<1>5. Asked' /\ IndexesRight'
  BY <1>1 DEF IInv, Asked, IndexesRight, IndexesComplete
<1> QED BY <1>1, <1>2, <1>3, <1>4, <1>5 DEF IInv

(***************************************************************************)
(* The hierarchies' cache lets go of a partition.                          *)
(***************************************************************************)
LEMMA EvictStep == IInv /\ Evict => IInv'
<1> SUFFICES ASSUME IInv, Evict PROVE IInv'
  OBVIOUS
<1>1. /\ hierarchy_cache' \subseteq hierarchy_cache
      /\ num_records' = num_records /\ indexed' = indexed
      /\ expressions' = expressions /\ partition_cache' = partition_cache
      /\ partitions1' = partitions1 /\ partitions2' = partitions2
      /\ owned_partitions' = owned_partitions
      /\ results' = results /\ metrics_cache' = metrics_cache /\ analyses' = analyses
  BY DEF Evict, callVars
<1>2. num_records \in Nat
  BY SizeFacts DEF IInv
<1>3. LevelsCovered'
  BY <1>1, <1>2, LevelsStand DEF IInv, LevelsCovered
<1>4. ResultsRight' /\ CacheRight'
  BY <1>1, ResultsStand, CacheStands DEF IInv
<1>5. Asked' /\ IndexesRight'
  BY <1>1 DEF IInv, Asked, IndexesRight, IndexesComplete
<1> QED BY <1>1, <1>3, <1>4, <1>5 DEF IInv

(***************************************************************************)
(* Another user asks a partition for its index.                            *)
(***************************************************************************)
LEMMA IndexElsewhereStep == IInv /\ IndexElsewhere => IInv'
<1> SUFFICES ASSUME IInv, IndexElsewhere PROVE IInv'
  OBVIOUS
<1>1. /\ hierarchy_cache' = hierarchy_cache /\ num_records' = num_records
      /\ expressions' = expressions /\ partition_cache' = partition_cache
      /\ partitions1' = partitions1 /\ partitions2' = partitions2
      /\ owned_partitions' = owned_partitions
      /\ results' = results /\ metrics_cache' = metrics_cache /\ analyses' = analyses
  BY DEF IndexElsewhere, callVars
<1>2. PICK level \in hierarchy_cache : indexed' = WithIndex({level}, num_records)
  BY DEF IndexElsewhere
<1>3. Covered({level})
  BY DEF IInv, LevelsCovered, Covered
<1>4. IndexesRight'
  BY <1>1, <1>2, <1>3, IndexBuilt
<1>5. num_records \in Nat
  BY SizeFacts DEF IInv
<1>6. LevelsCovered'
  BY <1>1, <1>5, LevelsStand DEF IInv, LevelsCovered
<1>7. ResultsRight' /\ CacheRight'
  BY <1>1, ResultsStand, CacheStands DEF IInv
<1>8. Asked'
  BY <1>1 DEF IInv, Asked
<1> QED BY <1>1, <1>4, <1>6, <1>7, <1>8 DEF IInv

-----------------------------------------------------------------------------
(***************************************************************************)
(* The steps of an analysis.                                               *)
(***************************************************************************)

(***************************************************************************)
(* AnalysisFacts of the next state.                                        *)
(***************************************************************************)
LEMMA CombinationsNext == (Asked => Combinations \in Nat)'
<1>1. Asked => Combinations \in Nat
  BY AnalysisFacts
<1> QED BY <1>1, PTL

(***************************************************************************)
(* An analysis begins.                                                     *)
(***************************************************************************)
LEMMA StartStep == IInv /\ StartAnalysis => IInv'
<1> SUFFICES ASSUME IInv, StartAnalysis PROVE IInv'
  OBVIOUS
<1>1. /\ hierarchy_cache' = hierarchy_cache /\ num_records' = num_records /\ indexed' = indexed
      /\ expressions' \in Analyses /\ partition_cache' = {}
      /\ partitions1' = <<>> /\ partitions2' = <<>> /\ owned_partitions' = <<>>
      /\ results' = <<>> /\ metrics_cache' = {}
      /\ analyses' = analyses + 1 /\ analyses < MaxAnalyses
  BY DEF StartAnalysis, contextVars
<1>2. num_records \in Nat
  BY SizeFacts DEF IInv
<1>3. LevelsCovered'
  <2>1. Covered(hierarchy_cache)'
    BY <1>1, <1>2, LevelFacts DEF IInv, LevelsCovered, Covered
  <2>2. Covered(partition_cache)'
    BY <1>1 DEF Covered
  <2>3. ListCovered(partitions1, 1)' /\ ListCovered(partitions2, 2)'
    BY <1>1, EmptyLists DEF ListCovered
  <2>4. OwnedCovered'
    BY <1>1, EmptyLists DEF OwnedCovered
  <2> QED BY <2>1, <2>2, <2>3, <2>4 DEF LevelsCovered
<1>4. Asked'
  BY <1>1 DEF Asked
<1>5. ResultsRight'
  <2>1. Combinations' \in Nat
    BY <1>4, CombinationsNext
  <2> QED BY <1>1, <2>1, EmptyLists DEF ResultsRight
<1>6. CacheRight'
  BY <1>1 DEF CacheRight
<1>7. IndexesRight'
  BY <1>1 DEF IInv, IndexesRight, IndexesComplete
<1>8. analyses' \in 0 .. MaxAnalyses
  BY <1>1, LimitAssumption DEF IInv
<1> QED BY <1>1, <1>3, <1>4, <1>5, <1>6, <1>7, <1>8 DEF IInv

(***************************************************************************)
(* A sweep's partitions are built.                                         *)
(***************************************************************************)
LEMMA BuildStep == IInv /\ BuildPartitions => IInv'
<1> SUFFICES ASSUME IInv, BuildPartitions PROVE IInv'
  OBVIOUS
<1>1. /\ num_records' = num_records /\ indexed' = indexed /\ expressions' = expressions
      /\ partition_cache' = partition_cache /\ metrics_cache' = metrics_cache
      /\ owned_partitions' = owned_partitions
      /\ results' = results /\ analyses' = analyses /\ Batch
  BY DEF BuildPartitions
<1>2. num_records \in Nat
  BY SizeFacts DEF IInv
<1>3. Batch' = Batch /\ Lengths' = Lengths
  BY <1>1 DEF Batch, Lengths
<1>4. Covered(partition_cache)' /\ OwnedCovered' /\ Covered(hierarchy_cache)
  BY <1>1, <1>2, LevelsStand DEF IInv, LevelsCovered
<1>5. ASSUME partitions1' = LevelsOf(expressions[1]), partitions2' = partitions2,
             hierarchy_cache' = Inserted(hierarchy_cache, Range(partitions1'))
      PROVE  LevelsCovered'
  <2>1. PICK levels : levels = LevelsOf(expressions[1])
    OBVIOUS
  <2>2. ListCovered(levels, 1) /\ Covered(Range(levels))
    BY <1>1, <2>1, LevelsOfFacts
  <2>3. Covered(hierarchy_cache)'
    <3>1. Covered(Inserted(hierarchy_cache, Range(levels)))
      BY <1>4, <2>2, InsertedCovered
    <3> QED BY <1>1, <1>5, <2>1, <3>1 DEF Covered
  <2>4. ListCovered(partitions1, 1)'
    BY <1>1, <1>3, <1>5, <2>1, <2>2 DEF ListCovered
  <2>5. ListCovered(partitions2, 2)'
    BY <1>1, <1>2, <1>5, LevelsStand DEF IInv
  <2> QED BY <1>4, <2>3, <2>4, <2>5 DEF LevelsCovered
<1>6. ASSUME partitions2' = LevelsOf(expressions[2]), partitions1' = partitions1,
             hierarchy_cache' = Inserted(hierarchy_cache, Range(partitions2'))
      PROVE  LevelsCovered'
  <2>1. PICK levels : levels = LevelsOf(expressions[2])
    OBVIOUS
  <2>2. ListCovered(levels, 2) /\ Covered(Range(levels))
    BY <1>1, <2>1, LevelsOfFacts
  <2>3. Covered(hierarchy_cache)'
    <3>1. Covered(Inserted(hierarchy_cache, Range(levels)))
      BY <1>4, <2>2, InsertedCovered
    <3> QED BY <1>1, <1>6, <2>1, <3>1 DEF Covered
  <2>4. ListCovered(partitions2, 2)'
    BY <1>1, <1>3, <1>6, <2>1, <2>2 DEF ListCovered
  <2>5. ListCovered(partitions1, 1)'
    BY <1>1, <1>2, <1>6, LevelsStand DEF IInv
  <2> QED BY <1>4, <2>3, <2>4, <2>5 DEF LevelsCovered
<1>7. LevelsCovered'
  BY <1>5, <1>6 DEF BuildPartitions
<1>8. ResultsRight' /\ CacheRight'
  BY <1>1, ResultsStand, CacheStands DEF IInv
<1>9. Asked' /\ IndexesRight'
  BY <1>1 DEF IInv, Asked, IndexesRight, IndexesComplete
<1> QED BY <1>1, <1>7, <1>8, <1>9 DEF IInv

(***************************************************************************)
(* The two loops of a batch visit the pairs in the order of the            *)
(* combinations.                                                           *)
(***************************************************************************)
LEMMA BatchOrder ==
    ASSUME IInv, Batch, partitions2 # <<>>, Len(results) < Len(partitions1) * Len(partitions2),
           NEW at, at = Positions(Len(results) + 1)
    PROVE  /\ Len(results) < Combinations
           /\ partitions1[at[1]] \in Level /\ partitions1[at[1]].covers <= num_records
           /\ partitions1[at[1]].key = Combination(Len(results) + 1)[1]
           /\ partitions2[at[2]] \in Level /\ partitions2[at[2]].covers <= num_records
           /\ partitions2[at[2]].key = Combination(Len(results) + 1)[2]
<1> DEFINE n == Len(results)
<1> DEFINE a == Len(partitions1)
<1> DEFINE b == Len(partitions2)
<1>1. Len(expressions) = 2 /\ expressions # <<>>
  BY DEF Batch
<1>2. expressions \in Seq(Expression)
  BY <1>1, AnalysisFacts DEF IInv
<1>3. /\ partitions1 \in Seq(Level) /\ partitions2 \in Seq(Level) /\ results \in Seq(Answers)
      /\ n \in Nat /\ a \in Nat /\ b \in Nat
  BY DEF IInv, LevelsCovered, ListCovered, ResultsRight
<1>4. n < a * b
  OBVIOUS
<1>5. (n \div b) + 1 \in 1 .. a /\ (n % b) + 1 \in 1 .. b
  <2> HIDE DEF n, a, b
  <2> QED BY <1>3, <1>4, RowsAndColumns
<1>6. partitions1 # <<>>
  <2>1. a # 0
    <3> HIDE DEF n, a, b
    <3> QED BY <1>3, <1>5
  <2> QED BY <2>1
<1>7. /\ a = Lengths[1]
      /\ \A j \in 1 .. a :
            /\ partitions1[j].covers <= num_records
            /\ partitions1[j].key = <<expressions[1].collection, expressions[1].thresholds[j]>>
  BY <1>6 DEF IInv, LevelsCovered, ListCovered
<1>8. /\ b = Lengths[2]
      /\ \A j \in 1 .. b :
            /\ partitions2[j].covers <= num_records
            /\ partitions2[j].key = <<expressions[2].collection, expressions[2].thresholds[j]>>
  BY DEF IInv, LevelsCovered, ListCovered
<1>9. at[1] = (n \div b) + 1 /\ at[2] = (n % b) + 1
  <2>1. n + 1 - 1 = n
    <3> HIDE DEF n
    <3> QED BY <1>3
  <2> QED BY <2>1 DEF Positions
<1>10. Len(results) < Combinations
  <2>1. Combinations = Lengths[1] * Lengths[2]
    BY <1>1, <1>2, PairProducts DEF Combinations
  <2> HIDE DEF n, a, b
  <2>2. n < Combinations
    BY <1>4, <1>7, <1>8, <2>1
  <2> QED BY <2>2 DEF n
<1>11. /\ partitions1[at[1]] \in Level /\ partitions1[at[1]].covers <= num_records
       /\ partitions2[at[2]] \in Level /\ partitions2[at[2]].covers <= num_records
  <2>1. \A j \in 1 .. a : partitions1[j] \in Level
    BY <1>3
  <2>2. \A j \in 1 .. b : partitions2[j] \in Level
    BY <1>3
  <2> HIDE DEF n, a, b
  <2> QED BY <1>5, <1>7, <1>8, <1>9, <2>1, <2>2
<1> HIDE DEF n, a, b
<1>12. n < Lengths[1] * Lengths[2]
  BY <1>4, <1>7, <1>8
<1>13. PICK combination : combination = Combination(n + 1)
  OBVIOUS
<1>14. /\ combination[1] = <<expressions[1].collection,
                             expressions[1].thresholds[(n \div Lengths[2]) + 1]>>
       /\ combination[2] = <<expressions[2].collection,
                             expressions[2].thresholds[(n % Lengths[2]) + 1]>>
  BY <1>1, <1>2, <1>3, <1>12, <1>13, PairCombination
<1>15. /\ partitions1[at[1]].key = combination[1]
       /\ partitions2[at[2]].key = combination[2]
  BY <1>5, <1>7, <1>8, <1>9, <1>14
<1> QED BY <1>10, <1>11, <1>13, <1>15 DEF n

(***************************************************************************)
(* One comparison of a batch.                                              *)
(***************************************************************************)
LEMMA CompareInBatchStep == IInv /\ CompareInBatch => IInv'
<1> SUFFICES ASSUME IInv, CompareInBatch PROVE IInv'
  OBVIOUS
<1>1. /\ num_records' = num_records /\ expressions' = expressions
      /\ hierarchy_cache' = hierarchy_cache /\ partition_cache' = partition_cache
      /\ partitions1' = partitions1 /\ partitions2' = partitions2
      /\ metrics_cache' = metrics_cache /\ analyses' = analyses
      /\ owned_partitions' = owned_partitions
      /\ Batch /\ partitions2 # <<>> /\ Len(results) < Len(partitions1) * Len(partitions2)
  BY DEF CompareInBatch
<1>2. num_records \in Nat /\ num_records <= num_records
  BY SizeFacts DEF IInv
<1>3. PICK at : at = Positions(Len(results) + 1)
  OBVIOUS
<1>4. PICK comparison_type :
        Compared(partitions1[at[1]], partitions2[at[2]], comparison_type)
  BY <1>3 DEF CompareInBatch
<1>5. IndexesRight' /\ ResultsRight'
  <2>1. PICK level1, level2 : level1 = partitions1[at[1]] /\ level2 = partitions2[at[2]]
    OBVIOUS
  <2>2. /\ Len(results) < Combinations
        /\ level1 \in Level /\ level1.covers <= num_records
        /\ level1.key = Combination(Len(results) + 1)[1]
        /\ level2 \in Level /\ level2.covers <= num_records
        /\ level2.key = Combination(Len(results) + 1)[2]
    BY <1>1, <1>3, <2>1, BatchOrder
  <2>3. Compared(level1, level2, comparison_type)
    BY <1>4, <2>1
  <2> QED BY <1>1, <2>2, <2>3, ComparedFacts
<1>6. LevelsCovered'
  BY <1>1, <1>2, LevelsStand DEF IInv, LevelsCovered
<1>7. CacheRight'
  BY <1>1, CacheStands DEF IInv
<1>8. Asked'
  BY <1>1 DEF IInv, Asked
<1> QED BY <1>1, <1>5, <1>6, <1>7, <1>8 DEF IInv

(***************************************************************************)
(* The keys of the next combination.                                       *)
(***************************************************************************)
LEMMA AtHandFacts ==
    ASSUME IInv, Len(results) < Combinations
    PROVE  /\ AtHand \in Seq(Key) /\ DOMAIN AtHand = 1 .. Len(expressions)
           /\ Len(expressions) \in Nat /\ Len(expressions) >= 2
<1> DEFINE n == Len(results)
<1>1. Asked /\ n \in Nat
  BY DEF IInv, ResultsRight
<1>2. expressions \in Seq(Expression) /\ Len(expressions) >= 2 /\ Product(1) # 0
  <2>1. Combinations # 0
    BY <1>1, AnalysisFacts
  <2> QED BY <1>1, <2>1, AnalysisFacts
<1>3. n + 1 \in Nat \ {0}
  BY <1>1
<1>4. AtHand = Combination(n + 1)
  BY DEF AtHand
<1> HIDE DEF n
<1>5. AtHand \in Seq(Key) /\ DOMAIN AtHand = 1 .. Len(expressions)
  BY <1>2, <1>3, <1>4, CombinationType
<1> QED BY <1>2, <1>5

(***************************************************************************)
(* One more partition is got for the combination at hand.                  *)
(***************************************************************************)
LEMMA TakeStep == IInv /\ TakePartition => IInv'
<1> SUFFICES ASSUME IInv, TakePartition PROVE IInv'
  OBVIOUS
<1>1. /\ num_records' = num_records /\ indexed' = indexed /\ expressions' = expressions
      /\ partitions1' = partitions1 /\ partitions2' = partitions2
      /\ results' = results /\ metrics_cache' = metrics_cache /\ analyses' = analyses
      /\ ~Batch /\ Len(results) < Combinations
      /\ Len(owned_partitions) < Len(expressions)
  BY DEF TakePartition
<1>2. num_records \in Nat /\ num_records <= num_records
  BY SizeFacts DEF IInv
<1>3. /\ Covered(hierarchy_cache) /\ Covered(partition_cache) /\ OwnedCovered
      /\ owned_partitions \in Seq(Level) /\ Len(owned_partitions) \in Nat
  BY DEF IInv, LevelsCovered, OwnedCovered
<1>4. PICK n : n = Len(owned_partitions)
  OBVIOUS
<1>5. AtHand[n + 1] \in Key
  <2>1. n \in Nat /\ n < Len(expressions)
    BY <1>1, <1>3, <1>4
  <2>2. n + 1 \in DOMAIN AtHand /\ AtHand \in Seq(Key)
    BY <1>1, <2>1, AtHandFacts
  <2> QED BY <2>2
<1>6. PICK key \in Key : key = AtHand[n + 1]
  BY <1>5
<1>7. PICK level : /\ owned_partitions' = Append(owned_partitions, level)
                   /\ level \in Level /\ level.key = key /\ level.covers <= num_records
                   /\ Covered(hierarchy_cache)' /\ Covered(partition_cache)'
  <2>1. CASE /\ \E level \in Cached(partition_cache, key) :
                    owned_partitions' = Append(owned_partitions, level)
             /\ UNCHANGED <<hierarchy_cache, partition_cache>>
    <3>1. PICK level \in Cached(partition_cache, key) :
                owned_partitions' = Append(owned_partitions, level)
      BY <2>1
    <3>2. level \in Level /\ level.key = key /\ level.covers <= num_records
      BY <1>3, <3>1 DEF Cached, Covered
    <3>3. Covered(hierarchy_cache)' /\ Covered(partition_cache)'
      BY <1>1, <1>3, <2>1 DEF Covered
    <3> QED BY <3>1, <3>2, <3>3
  <2>2. CASE \E level \in AtThreshold(key) :
                /\ owned_partitions' = Append(owned_partitions, level)
                /\ hierarchy_cache' = Inserted(hierarchy_cache, {level})
                /\ partition_cache' = Inserted(partition_cache, {level})
    <3>1. PICK level \in AtThreshold(key) :
                /\ owned_partitions' = Append(owned_partitions, level)
                /\ hierarchy_cache' = Inserted(hierarchy_cache, {level})
                /\ partition_cache' = Inserted(partition_cache, {level})
      BY <2>2
    <3>2. level \in Level /\ level.key = key /\ level.covers <= num_records
      BY <3>1, AtThresholdFacts
    <3>3. Covered({level})
      BY <3>2 DEF Covered
    <3>4. /\ Covered(Inserted(hierarchy_cache, {level}))
          /\ Covered(Inserted(partition_cache, {level}))
      BY <1>3, <3>3, InsertedCovered
    <3>5. Covered(hierarchy_cache)' /\ Covered(partition_cache)'
      BY <1>1, <3>1, <3>4 DEF Covered
    <3> QED BY <3>1, <3>2, <3>5
  <2> QED BY <1>4, <1>6, <2>1, <2>2 DEF TakePartition
<1>8. OwnedCovered'
  <2>1. /\ n \in Nat /\ owned_partitions' \in Seq(Level) /\ Len(owned_partitions') = n + 1
        /\ owned_partitions'[n + 1] = level
        /\ \A j \in 1 .. n : owned_partitions'[j] = owned_partitions[j]
    BY <1>3, <1>4, <1>7
  <2>2. \A j \in 1 .. n : /\ owned_partitions[j].covers <= num_records
                          /\ owned_partitions[j].key = AtHand[j]
    BY <1>1, <1>3, <1>4 DEF OwnedCovered
  <2>3. \A j \in 1 .. n + 1 : j \in 1 .. n \/ j = n + 1
    BY <2>1
  <2>4. \A j \in 1 .. n + 1 : /\ owned_partitions'[j].covers <= num_records
                              /\ owned_partitions'[j].key = AtHand[j]
    BY <1>6, <1>7, <2>1, <2>2, <2>3
  <2>5. AtHand' = AtHand
    <3>1. \A k : Combination(k)' = Combination(k)
      BY <1>1, CombinationsStand
    <3> QED BY <1>1, <3>1 DEF AtHand
  <2> QED BY <1>1, <2>1, <2>4, <2>5 DEF OwnedCovered
<1>9. LevelsCovered'
  <2>1. ListCovered(partitions1, 1)' /\ ListCovered(partitions2, 2)'
    BY <1>1, <1>2, LevelsStand DEF IInv
  <2> QED BY <1>7, <1>8, <2>1 DEF LevelsCovered
<1>10. ResultsRight' /\ CacheRight'
  BY <1>1, ResultsStand, CacheStands DEF IInv
<1>11. Asked' /\ IndexesRight'
  BY <1>1 DEF IInv, Asked, IndexesRight, IndexesComplete
<1> QED BY <1>1, <1>9, <1>10, <1>11 DEF IInv

(***************************************************************************)
(* One combination of any other analysis, compared or found in the call's  *)
(* cache.                                                                  *)
(***************************************************************************)
LEMMA CompareCombinationStep == IInv /\ CompareCombination => IInv'
<1> SUFFICES ASSUME IInv, CompareCombination PROVE IInv'
  OBVIOUS
<1>1. /\ num_records' = num_records /\ expressions' = expressions
      /\ hierarchy_cache' = hierarchy_cache /\ owned_partitions' = <<>>
      /\ partitions1' = partitions1 /\ partitions2' = partitions2
      /\ analyses' = analyses /\ Len(results) < Combinations /\ ~Batch
      /\ Len(owned_partitions) = Len(expressions)
  BY DEF CompareCombination
<1>2. num_records \in Nat /\ num_records <= num_records
  BY SizeFacts DEF IInv
<1>3. PICK combination : combination = Combination(Len(results) + 1)
  OBVIOUS
<1>4. PICK owned : owned = owned_partitions
  OBVIOUS
<1> DEFINE hits == {answer \in metrics_cache : /\ answer.first.key = combination[1]
                                               /\ answer.second.key = combination[2]}
<1>5. /\ partition_cache' = Limited(partition_cache, PartitionLimit)
      /\ \/ /\ Compared(owned[1], owned[2], "PointPoint")
            /\ metrics_cache' =
                    Limited(metrics_cache \cup {results'[Len(results')]}, MetricsLimit)
         \/ /\ \E answer \in hits :
                    results' = Append(results, [answer EXCEPT !.combination = combination])
            /\ metrics_cache' = Limited(metrics_cache, MetricsLimit)
            /\ indexed' = indexed
  BY <1>3, <1>4 DEF CompareCombination, AtHand
<1>6. /\ combination \in Seq(Key)
      /\ \A i \in 1 .. 2 : /\ owned[i] \in Level /\ owned[i].key = combination[i]
                           /\ owned[i].covers <= num_records
  <2>1. AtHand = combination
    BY <1>3 DEF AtHand
  <2>2. AtHand \in Seq(Key) /\ Len(owned) \in Nat /\ Len(owned) >= 2
    BY <1>1, <1>4, AtHandFacts
  <2>3. 1 .. 2 \subseteq 1 .. Len(owned)
    BY <2>2
  <2>4. /\ owned \in Seq(Level)
        /\ \A i \in 1 .. Len(owned) : owned[i].covers <= num_records /\ owned[i].key = AtHand[i]
    BY <1>1, <1>4 DEF IInv, LevelsCovered, OwnedCovered
  <2>5. \A i \in 1 .. 2 : owned[i] \in Level
    BY <2>3, <2>4
  <2> QED BY <2>1, <2>2, <2>3, <2>4, <2>5
<1>7. LevelsCovered'
  <2>1. Covered(hierarchy_cache)' /\ Covered(partition_cache)'
    <3>1. partition_cache' \subseteq partition_cache
      BY <1>5 DEF Limited
    <3> QED BY <1>1, <1>2, <3>1, LevelsStand DEF IInv
  <2>2. OwnedCovered'
    BY <1>1, EmptyLists DEF OwnedCovered
  <2>3. ListCovered(partitions1, 1)' /\ ListCovered(partitions2, 2)'
    BY <1>1, <1>2, LevelsStand DEF IInv
  <2> QED BY <2>1, <2>2, <2>3 DEF LevelsCovered
<1>8. ASSUME Compared(owned[1], owned[2], "PointPoint"),
             metrics_cache' = Limited(metrics_cache \cup {results'[Len(results')]}, MetricsLimit)
      PROVE  IndexesRight' /\ ResultsRight' /\ CacheRight'
  <2>1. PICK level1, level2 : level1 = owned[1] /\ level2 = owned[2]
    OBVIOUS
  <2>2. /\ level1 \in Level /\ level1.covers <= num_records
        /\ level1.key = Combination(Len(results) + 1)[1]
        /\ level2 \in Level /\ level2.covers <= num_records
        /\ level2.key = Combination(Len(results) + 1)[2]
    BY <1>3, <1>6, <2>1
  <2>3. Compared(level1, level2, "PointPoint")
    BY <1>8, <2>1
  <2>4. /\ IndexesRight' /\ ResultsRight'
        /\ results'[Len(results')] \in Answers /\ RightTable(results'[Len(results')])
    BY <1>1, <2>2, <2>3, ComparedFacts
  <2>5. metrics_cache' \subseteq metrics_cache \cup {results'[Len(results')]}
    BY <1>8 DEF Limited
  <2>6. CacheRight'
    <3>1. \A answer \in metrics_cache' : answer \in Answers /\ RightTable(answer)
      BY <2>4, <2>5 DEF IInv, CacheRight
    <3> QED BY <3>1 DEF CacheRight, RightTable
  <2> QED BY <2>4, <2>6
<1>9. ASSUME NEW answer \in hits, indexed' = indexed,
             results' = Append(results, [answer EXCEPT !.combination = combination]),
             metrics_cache' = Limited(metrics_cache, MetricsLimit)
      PROVE  IndexesRight' /\ ResultsRight' /\ CacheRight'
  <2>1. CacheRight'
    <3>1. metrics_cache' \subseteq metrics_cache
      BY <1>9 DEF Limited
    <3> QED BY <3>1, CacheStands DEF IInv
  <2>2. /\ answer \in Answers /\ RightTable(answer)
        /\ answer.first.key = combination[1] /\ answer.second.key = combination[2]
    BY DEF IInv, CacheRight
  <2>3. PICK labelled : labelled = [answer EXCEPT !.combination = combination]
    OBVIOUS
  <2>4. /\ labelled.combination = combination /\ labelled.first = answer.first
        /\ labelled.second = answer.second /\ labelled.table = answer.table
        /\ labelled \in Answers
    BY <1>6, <2>2, <2>3 DEF Answers
  <2>5. RightTable(labelled) /\ Labelled(labelled, Len(results) + 1)
    BY <1>3, <2>2, <2>4 DEF RightTable, Labelled
  <2>6. results' = Append(results, labelled)
    BY <1>9, <2>3
  <2>7. ResultsRight'
    BY <1>1, <2>4, <2>5, <2>6, AnswerAdded DEF IInv
  <2> QED BY <1>9, <2>1, <2>7 DEF IInv, IndexesRight, IndexesComplete
<1>10. IndexesRight' /\ ResultsRight' /\ CacheRight'
  BY <1>5, <1>8, <1>9
<1>11. Asked'
  BY <1>1 DEF IInv, Asked
<1> QED BY <1>1, <1>7, <1>10, <1>11 DEF IInv

(***************************************************************************)
(* Every step keeps the invariant.                                         *)
(***************************************************************************)
LEMMA NextHolds == IInv /\ [Next]_vars => IInv'
<1> SUFFICES ASSUME IInv, [Next]_vars PROVE IInv'
  OBVIOUS
<1>1. CASE UNCHANGED vars
  <2>1. /\ hierarchy_cache' = hierarchy_cache /\ num_records' = num_records /\ indexed' = indexed
        /\ expressions' = expressions /\ partition_cache' = partition_cache
        /\ partitions1' = partitions1 /\ partitions2' = partitions2
        /\ owned_partitions' = owned_partitions
        /\ results' = results /\ metrics_cache' = metrics_cache /\ analyses' = analyses
    BY <1>1 DEF vars, contextVars, callVars
  <2>2. num_records \in Nat
    BY SizeFacts DEF IInv
  <2>3. LevelsCovered'
    BY <2>1, <2>2, LevelsStand DEF IInv, LevelsCovered
  <2>4. ResultsRight' /\ CacheRight'
    BY <2>1, ResultsStand, CacheStands DEF IInv
  <2>5. Asked' /\ IndexesRight'
    BY <2>1 DEF IInv, Asked, IndexesRight, IndexesComplete
  <2> QED BY <2>1, <2>3, <2>4, <2>5 DEF IInv
<1> QED BY <1>1, GrowStep, EvictStep, IndexElsewhereStep, StartStep, BuildStep,
           CompareInBatchStep, TakeStep, CompareCombinationStep DEF Next

-----------------------------------------------------------------------------
(***************************************************************************)
(* The theorems.                                                           *)
(***************************************************************************)

(***************************************************************************)
(* The invariant holds of any analyses over any growing context.           *)
(***************************************************************************)
THEOREM Invariance == Spec => []IInv
<1> QED BY InitHolds, NextHolds, PTL DEF Spec

(***************************************************************************)
(* Every variable has its type, and an analysis never has more answers     *)
(* than its thresholds have combinations, though the loops of a batch      *)
(* count the partitions it built.                                          *)
(***************************************************************************)
THEOREM TypeCorrect == Spec => []TypeOK
<1>1. ASSUME IInv PROVE TypeOK
  <2>1. /\ num_records \in Sizes /\ indexed \in [Level -> Sizes \cup {None}]
        /\ expressions \in Analyses \cup {<<>>} /\ analyses \in 0 .. MaxAnalyses
        /\ Len(results) <= Combinations
    BY <1>1 DEF IInv, IndexesRight, Asked, ResultsRight
  <2>2. /\ hierarchy_cache \subseteq Level /\ partition_cache \subseteq Level
        /\ partitions1 \in Seq(Level) /\ partitions2 \in Seq(Level)
        /\ owned_partitions \in Seq(Level)
    BY <1>1 DEF IInv, LevelsCovered, Covered, ListCovered, OwnedCovered
  <2>3. ASSUME NEW answer \in metrics_cache \cup Range(results) PROVE answer \in Answers
    <3>1. metrics_cache \subseteq Answers /\ results \in Seq(Answers)
      BY <1>1 DEF IInv, CacheRight, ResultsRight
    <3>2. Range(results) \subseteq Answers
      BY <3>1 DEF Range
    <3> QED BY <3>1, <3>2
  <2> QED BY <2>1, <2>2, <2>3 DEF TypeOK
<1> QED BY <1>1, Invariance, PTL

(***************************************************************************)
(* A partition's reverse index finds all its records for ever, though it   *)
(* is built once, by whoever asks first, and other users add records.      *)
(***************************************************************************)
THEOREM IndexesCorrect == Spec => []IndexesComplete
<1>1. IInv => IndexesComplete
  BY DEF IInv, IndexesRight
<1> QED BY <1>1, Invariance, PTL

(***************************************************************************)
(* Every answer is labelled with the thresholds it is of and has the exact *)
(* pair counts of the two hierarchies there: in either order of loops,     *)
(* from partitions, indices and tables that may be older than the records, *)
(* and from partitions of different sizes.                                 *)
(***************************************************************************)
THEOREM AnswersCorrect == Spec => []AnswersExact
<1>1. ASSUME IInv PROVE AnswersExact
  <2>1. DOMAIN results = 1 .. Len(results)
    BY <1>1 DEF IInv, ResultsRight
  <2>2. ASSUME NEW k \in DOMAIN results PROVE RightTable(results[k]) /\ Labelled(results[k], k)
    BY <1>1, <2>1 DEF IInv, ResultsRight
  <2>3. ASSUME NEW k \in DOMAIN results
        PROVE  LET answer == results[k]
                   key1 == answer.combination[1]
                   key2 == answer.combination[2]
               IN  /\ answer.combination = Combination(k)
                   /\ answer.first.key = key1 /\ answer.second.key = key2
                   /\ answer.table # None => answer.table = TrueTables[<<key1, key2>>]
    BY <2>2 DEF RightTable, Labelled
  <2> QED BY <2>3 DEF AnswersExact
<1> QED BY <1>1, Invariance, PTL
=============================================================================
