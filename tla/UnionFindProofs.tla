-------------------------- MODULE UnionFindProofs --------------------------
(***************************************************************************)
(* Proofs about UnionFind for any number of elements a u32 can name (or    *)
(* any other number below 2^RankLimit).                                    *)
(***************************************************************************)
EXTENDS UnionFind, FiniteSetTheorems, TLAPS

(***************************************************************************)
(* The inductive invariant: links stay inside classes, roots are their own *)
(* parents, and the two loops of find climb from the arguments of the call *)
(* without leaving their classes.                                          *)
(***************************************************************************)
LinksStayInside ==
    \A x \in Elements :
        /\ root[parent[x]] = root[x]
        /\ parent[x] = x => root[x] = x
        /\ parent[root[x]] = root[x]

Climbing ==
    /\ pc = "idle" <=> call = NoCall
    /\ pc = "find_x" => root[cursor] = root[call.x]
    /\ pc = "find_y" =>
          /\ call.op # "find"
          /\ root_x = root[call.x]
          /\ root[cursor] = root[call.y]

IInv ==
    /\ TypeOK
    /\ RanksGrowUpwards
    /\ LinksStayInside
    /\ Climbing
    /\ RankNeedsElements

(***************************************************************************)
(* What RanksNeverFall says of a step.                                     *)
(***************************************************************************)
RanksRise == \A x \in Elements : rank'[x] >= rank[x]

LEMMA ZeroIsElement == 0 \in Elements
BY SizeAssumption DEF Elements

LEMMA CallFields ==
    ASSUME NEW c \in Calls
    PROVE  /\ c.x \in Elements /\ c.y \in Elements /\ c # NoCall
           /\ c.op \in {"find", "connected", "union"}
BY DEF Calls, NoCall

LEMMA RankRange ==
    ASSUME TypeOK
    PROVE  /\ RankLimit \in Nat \ {0}
           /\ \A x \in Elements : rank[x] \in Nat /\ rank[x] \in 0 .. RankLimit - 1
BY RankLimitAssumption DEF TypeOK, Ranks

LEMMA ClassesFinite ==
    ASSUME NEW S \in SUBSET Elements
    PROVE  IsFiniteSet(S) /\ Cardinality(S) \in Nat /\ Cardinality(S) <= Size
<1>1. IsFiniteSet(Elements) /\ Cardinality(Elements) = Size
  <2>1. 0 \in Int /\ Size - 1 \in Int
    BY SizeAssumption
  <2>2. /\ IsFiniteSet(0 .. Size - 1)
        /\ Cardinality(0 .. Size - 1) = IF 0 > Size - 1 THEN 0 ELSE Size - 1 - 0 + 1
    BY <2>1, FS_Interval
  <2>3. QED
    BY <2>2, SizeAssumption DEF Elements
<1>2. IsFiniteSet(S) /\ Cardinality(S) <= Cardinality(Elements)
  BY <1>1, FS_Subset
<1>3. QED
  BY <1>1, <1>2, FS_CardinalityType

LEMMA InitIInv == Init => IInv
<1> SUFFICES ASSUME Init PROVE IInv
  OBVIOUS
<1> USE DEF Init
<1>1. TypeOK
  BY ZeroIsElement, RankLimitAssumption DEF TypeOK, Ranks
<1>2. RanksGrowUpwards /\ LinksStayInside /\ Climbing
  BY DEF RanksGrowUpwards, LinksStayInside, Climbing
<1>3. ASSUME NEW r \in Elements PROVE 2^rank[r] <= Cardinality(Class(r))
  <2>1. Class(r) = {r}
    BY DEF Class
  <2>2. Cardinality(Class(r)) = 1
    BY <2>1, FS_Singleton
  <2>3. rank[r] = 0 /\ 2^0 = 1
    OBVIOUS
  <2>4. QED
    BY <2>2, <2>3
<1>4. QED
  BY <1>1, <1>2, <1>3 DEF IInv, RankNeedsElements

(***************************************************************************)
(* Steps that leave the tree alone.                                        *)
(***************************************************************************)
LEMMA TreeUnchanged ==
    ASSUME IInv, UNCHANGED tree, TypeOK', Climbing'
    PROVE  IInv'
<1> USE DEF tree
<1>1. RanksGrowUpwards' /\ LinksStayInside'
  BY DEF IInv, RanksGrowUpwards, LinksStayInside
<1>2. RankNeedsElements'
  BY DEF IInv, RankNeedsElements, Class
<1>3. QED
  BY <1>1, <1>2 DEF IInv

LEMMA ReturnKeeps ==
    ASSUME TypeOK, NEW value \in Nat, Return(value),
           parent' \in [Elements -> Elements], rank' \in [Elements -> Ranks],
           root' \in [Elements -> Elements]
    PROVE  TypeOK' /\ Climbing'
BY ZeroIsElement DEF Return, TypeOK, Climbing

LEMMA CallKeeps == ASSUME IInv, NEW c \in Calls, Call(c) PROVE IInv'
<1>1. TypeOK'
  BY CallFields DEF IInv, TypeOK, Call, tree
<1>2. Climbing'
  BY CallFields DEF IInv, Climbing, Call
<1>3. QED
  BY <1>1, <1>2, TreeUnchanged DEF Call

(***************************************************************************)
(* A call under way has arguments, and cursor is where its loop stands.    *)
(***************************************************************************)
LEMMA CallUnderWay ==
    ASSUME IInv, pc # "idle"
    PROVE  /\ call \in Calls /\ call # NoCall
           /\ call.x \in Elements /\ call.y \in Elements
           /\ call.op \in {"find", "connected", "union"}
           /\ cursor \in Elements /\ cursor \in Nat
           /\ AtRoot => root[cursor] = cursor
<1>1. call \in Calls
  BY DEF IInv, TypeOK, Climbing
<1>2. cursor \in Elements /\ cursor \in Nat
  BY SizeAssumption DEF IInv, TypeOK, Elements
<1>3. QED
  BY <1>1, <1>2, CallFields DEF IInv, LinksStayInside, AtRoot

LEMMA HalveKeeps == ASSUME IInv, Halve PROVE IInv'
<1> DEFINE grandparent == parent[parent[cursor]]
<1>1. /\ pc # "idle" /\ parent[cursor] # cursor
      /\ parent' = [parent EXCEPT ![cursor] = grandparent]
      /\ cursor' = grandparent
      /\ UNCHANGED <<rank, root, call, pc, root_x, result>>
  BY DEF Halve, AtRoot
<1>2. /\ parent \in [Elements -> Elements] /\ cursor \in Elements
      /\ parent[cursor] \in Elements /\ grandparent \in Elements
  BY DEF IInv, TypeOK
<1>3. rank[cursor] < rank[grandparent]
  <2>1. rank[cursor] < rank[parent[cursor]]
    BY <1>1, <1>2 DEF IInv, RanksGrowUpwards
  <2>2. CASE grandparent = parent[cursor]
    BY <2>1, <2>2
  <2>3. CASE grandparent # parent[cursor]
    <3>1. rank[parent[cursor]] < rank[grandparent]
      BY <1>2, <2>3 DEF IInv, RanksGrowUpwards
    <3>2. rank[cursor] \in Nat /\ rank[parent[cursor]] \in Nat /\ rank[grandparent] \in Nat
      BY <1>2, RankRange DEF IInv
    <3>3. QED
      BY <2>1, <3>1, <3>2
  <2>4. QED
    BY <2>2, <2>3
<1>4. root[grandparent] = root[cursor]
  BY <1>2 DEF IInv, LinksStayInside
<1>5. rank[cursor] \in Nat /\ grandparent # cursor
  BY <1>2, <1>3, RankRange DEF IInv
<1> HIDE DEF grandparent
<1>6. \A x \in Elements : parent'[x] = IF x = cursor THEN grandparent ELSE parent[x]
  BY <1>1, <1>2
<1>7. TypeOK'
  BY <1>1, <1>2 DEF IInv, TypeOK
<1>8. RanksGrowUpwards'
  BY <1>1, <1>3, <1>6 DEF IInv, RanksGrowUpwards
<1>9. LinksStayInside'
  <2> SUFFICES ASSUME NEW x \in Elements
               PROVE  /\ root[parent'[x]] = root[x]
                      /\ parent'[x] = x => root[x] = x
                      /\ parent'[root[x]] = root[x]
    BY <1>1 DEF LinksStayInside
  <2>1. root[x] \in Elements /\ root[x] # cursor
    BY <1>1, <1>2 DEF IInv, TypeOK, LinksStayInside
  <2>2. QED
    BY <1>4, <1>5, <1>6, <2>1 DEF IInv, LinksStayInside
<1>10. Climbing'
  BY <1>1, <1>4 DEF IInv, Climbing
<1>11. RankNeedsElements'
  <2> SUFFICES ASSUME NEW r \in Elements, parent'[r] = r
               PROVE  2^rank[r] <= Cardinality(Class(r))
    BY <1>1 DEF RankNeedsElements, Class
  <2>1. parent[r] = r
    BY <1>5, <1>6
  <2>2. QED
    BY <2>1 DEF IInv, RankNeedsElements
<1>12. QED
  BY <1>7, <1>8, <1>9, <1>10, <1>11 DEF IInv

LEMMA FindReturnsKeeps == ASSUME IInv, FindReturns PROVE IInv'
<1>1. cursor \in Nat
  BY CallUnderWay DEF FindReturns
<1>2. QED
  BY <1>1, ReturnKeeps, TreeUnchanged DEF FindReturns, IInv, TypeOK, tree

LEMMA FoundRootXKeeps == ASSUME IInv, FoundRootX PROVE IInv'
<1>1. pc = "find_x" /\ root[cursor] = cursor /\ call.y \in Elements
  BY CallUnderWay DEF FoundRootX
<1>2. TypeOK'
  BY <1>1 DEF IInv, TypeOK, FoundRootX, tree
<1>3. Climbing'
  BY <1>1 DEF IInv, Climbing, FoundRootX, tree
<1>4. QED
  BY <1>2, <1>3, TreeUnchanged DEF FoundRootX

LEMMA SameRootsKeeps == ASSUME IInv, SameRoots PROVE IInv'
<1>1. (IF call.op = "connected" THEN 1 ELSE 0) \in Nat
  OBVIOUS
<1>2. QED
  BY <1>1, ReturnKeeps, TreeUnchanged DEF SameRoots, IInv, TypeOK, tree

LEMMA DifferentRootsKeeps == ASSUME IInv, DifferentRoots PROVE IInv'
BY ReturnKeeps, TreeUnchanged DEF DifferentRoots, IInv, TypeOK, tree

-----------------------------------------------------------------------------
(***************************************************************************)
(* One root is hung under another, whose rank is above the child's then    *)
(* and whose class counts for it.                                          *)
(***************************************************************************)
LEMMA HangKeeps ==
    ASSUME IInv, Link,
           NEW child \in Elements, NEW above \in Elements, child # above,
           parent[child] = child, parent[above] = above, Hang(child, above),
           NEW k \in Ranks, rank' = [rank EXCEPT ![above] = k],
           rank[above] <= k, rank[child] < k,
           2^k <= Cardinality(Class(child)) + Cardinality(Class(above))
    PROVE  IInv' /\ RanksRise
<1>1. /\ parent \in [Elements -> Elements] /\ rank \in [Elements -> Ranks]
      /\ root \in [Elements -> Elements]
  BY DEF IInv, TypeOK
<1>2. \A x \in Elements : parent'[x] = IF x = child THEN above ELSE parent[x]
  BY <1>1 DEF Hang
<1>3. \A x \in Elements : root'[x] = IF root[x] = child THEN above ELSE root[x]
  BY DEF Hang
<1>4. \A x \in Elements : rank'[x] = IF x = above THEN k ELSE rank[x]
  BY <1>1
<1>5. root[child] = child /\ root[above] = above
  BY DEF IInv, LinksStayInside
<1>6. parent' \in [Elements -> Elements] /\ rank' \in [Elements -> Ranks]
      /\ root' \in [Elements -> Elements]
  BY <1>1 DEF Hang
<1>7. TypeOK' /\ Climbing'
  <2>1. Return(1) /\ 1 \in Nat
    BY DEF Link
  <2>2. QED
    BY <1>6, <2>1, ReturnKeeps DEF IInv
<1>8. RanksGrowUpwards'
  <2> SUFFICES ASSUME NEW x \in Elements, parent'[x] # x
               PROVE  rank'[x] < rank'[parent'[x]]
    BY DEF RanksGrowUpwards
  <2>1. CASE x = child
    BY <1>2, <1>4, <2>1
  <2>2. CASE x # child
    <3>1. parent'[x] = parent[x] /\ parent[x] # x /\ parent[x] \in Elements
      BY <1>1, <1>2, <2>2
    <3>2. rank[x] < rank[parent[x]] /\ x # above
      BY <3>1 DEF IInv, RanksGrowUpwards
    <3>3. rank'[x] = rank[x]
      BY <1>4, <3>2
    <3>4. CASE parent[x] = above
      <4>1. rank[x] \in Nat /\ rank[above] \in Nat /\ k \in Nat
        BY RankRange, RankLimitAssumption DEF IInv, Ranks
      <4>2. rank[x] < rank[above] /\ rank[above] <= k
        BY <3>2, <3>4
      <4>3. rank[x] < k
        BY <4>1, <4>2
      <4>4. rank'[parent'[x]] = k
        BY <1>4, <3>1, <3>4
      <4>5. QED
        BY <3>3, <4>3, <4>4
    <3>5. CASE parent[x] # above
      BY <1>4, <3>1, <3>2, <3>3, <3>5
    <3>6. QED
      BY <3>4, <3>5
  <2>3. QED
    BY <2>1, <2>2
<1>9. LinksStayInside'
  <2> SUFFICES ASSUME NEW x \in Elements
               PROVE  /\ root'[parent'[x]] = root'[x]
                      /\ parent'[x] = x => root'[x] = x
                      /\ parent'[root'[x]] = root'[x]
    BY DEF LinksStayInside
  <2>1. /\ root[x] \in Elements /\ parent[x] \in Elements
        /\ root[parent[x]] = root[x] /\ parent[root[x]] = root[x]
        /\ parent[x] = x => root[x] = x
    BY <1>1 DEF IInv, LinksStayInside
  <2>2. root'[parent'[x]] = root'[x]
    <3>1. CASE x = child
      BY <1>2, <1>3, <1>5, <3>1
    <3>2. CASE x # child
      BY <1>2, <1>3, <2>1, <3>2
    <3>3. QED
      BY <3>1, <3>2
  <2>3. ASSUME parent'[x] = x PROVE root'[x] = x
    <3>1. x # child
      BY <1>2, <2>3
    <3>2. root[x] = x
      BY <1>2, <2>1, <2>3, <3>1
    <3>3. QED
      BY <1>3, <3>1, <3>2
  <2>4. parent'[root'[x]] = root'[x]
    BY <1>2, <1>3, <2>1
  <2>5. QED
    BY <2>2, <2>3, <2>4
<1>10. RankNeedsElements'
  <2> SUFFICES ASSUME NEW r \in Elements, parent'[r] = r
               PROVE  2^rank'[r] <= Cardinality(Class(r)')
    BY DEF RankNeedsElements
  <2>1. r # child /\ parent[r] = r
    BY <1>2
  <2>2. CASE r = above
    <3>1. Class(r)' = Class(child) \cup Class(above)
      BY <1>3, <2>2 DEF Class
    <3>2. Class(child) \cap Class(above) = {}
      BY DEF Class
    <3>3. /\ IsFiniteSet(Class(child)) /\ IsFiniteSet(Class(above))
          /\ Cardinality(Class(child)) \in Nat /\ Cardinality(Class(above)) \in Nat
      BY ClassesFinite DEF Class
    <3>4. Cardinality(Class(r)') = Cardinality(Class(child)) + Cardinality(Class(above))
      <4>1. Cardinality(Class(child) \cup Class(above)) =
              Cardinality(Class(child)) + Cardinality(Class(above))
                - Cardinality(Class(child) \cap Class(above))
        BY <3>3, FS_Union
      <4>2. Cardinality(Class(child) \cap Class(above)) = 0
        BY <3>2, FS_EmptySet
      <4>3. QED
        BY <3>1, <3>3, <4>1, <4>2
    <3>5. rank'[r] = k
      BY <1>4, <2>2
    <3>6. QED
      BY <3>4, <3>5
  <2>3. CASE r # above
    <3>1. Class(r)' = Class(r)
      BY <1>3, <2>1, <2>3 DEF Class
    <3>2. rank'[r] = rank[r]
      BY <1>4, <2>3
    <3>3. 2^rank[r] <= Cardinality(Class(r))
      BY <2>1 DEF IInv, RankNeedsElements
    <3>4. QED
      BY <3>1, <3>2, <3>3
  <2>4. QED
    BY <2>2, <2>3
<1>11. RanksRise
  <2>1. \A x \in Elements : rank[x] \in Nat /\ k \in Nat
    BY RankRange, RankLimitAssumption DEF IInv, Ranks
  <2>2. QED
    BY <1>4, <2>1 DEF RanksRise
<1>12. QED
  BY <1>7, <1>8, <1>9, <1>10, <1>11 DEF IInv

(***************************************************************************)
(* A rank that grew past its width would need more elements than there     *)
(* are.                                                                    *)
(***************************************************************************)
LEMMA LinkKeeps == ASSUME IInv, Link PROVE IInv' /\ RanksRise
<1>1. /\ pc = "find_y" /\ parent[cursor] = cursor /\ root_x # cursor /\ HangByRank
  BY DEF Link, FoundBoth, AtRoot, root_y
<1>2. /\ cursor \in Elements /\ root_x \in Elements /\ call.x \in Elements
      /\ parent[root_x] = root_x
  <2>1. root_x = root[call.x] /\ call.x \in Elements /\ cursor \in Elements
    BY <1>1, CallUnderWay DEF IInv, Climbing
  <2>2. root_x \in Elements
    BY DEF IInv, TypeOK
  <2>3. QED
    BY <2>1, <2>2 DEF IInv, LinksStayInside
<1>3. /\ rank[cursor] \in Ranks /\ rank[root_x] \in Ranks
      /\ rank[cursor] \in Nat /\ rank[root_x] \in Nat
      /\ rank \in [Elements -> Ranks] /\ RankLimit \in Nat \ {0}
  BY <1>2, RankRange DEF IInv, TypeOK, Ranks
<1>4. /\ 2^rank[cursor] <= Cardinality(Class(cursor))
      /\ 2^rank[root_x] <= Cardinality(Class(root_x))
      /\ Cardinality(Class(cursor)) \in Nat /\ Cardinality(Class(root_x)) \in Nat
  BY <1>1, <1>2, ClassesFinite DEF IInv, RankNeedsElements, Class
<1>5. 2^rank[cursor] \in Nat /\ 2^rank[root_x] \in Nat
  BY <1>3, DoublingAssumption DEF Ranks
<1>6. CASE rank[root_x] < rank[cursor] /\ Hang(root_x, cursor) /\ UNCHANGED rank
  <2>1. rank' = [rank EXCEPT ![cursor] = rank[cursor]]
    BY <1>3, <1>6
  <2>2. 2^rank[cursor] <= Cardinality(Class(root_x)) + Cardinality(Class(cursor))
    BY <1>4, <1>5
  <2>3. rank[cursor] <= rank[cursor]
    BY <1>3
  <2>4. QED
    BY <1>1, <1>2, <1>3, <1>6, <2>1, <2>2, <2>3, HangKeeps
<1>7. CASE rank[root_x] > rank[cursor] /\ Hang(cursor, root_x) /\ UNCHANGED rank
  <2>1. rank' = [rank EXCEPT ![root_x] = rank[root_x]]
    BY <1>3, <1>7
  <2>2. 2^rank[root_x] <= Cardinality(Class(cursor)) + Cardinality(Class(root_x))
    BY <1>4, <1>5
  <2>3. rank[root_x] <= rank[root_x] /\ rank[cursor] < rank[root_x]
    BY <1>3, <1>7
  <2>4. QED
    BY <1>1, <1>2, <1>3, <1>7, <2>1, <2>2, <2>3, HangKeeps
<1>8. CASE /\ rank[root_x] = rank[cursor] /\ Hang(cursor, root_x)
           /\ rank' = [rank EXCEPT ![root_x] = (@ + 1) % RankLimit]
  <2> DEFINE k == rank[root_x] + 1
  <2>1. 2^k = 2 * 2^rank[root_x]
    BY <1>3, DoublingAssumption DEF Ranks
  <2>2. 2^k <= Cardinality(Class(cursor)) + Cardinality(Class(root_x))
    BY <1>4, <1>5, <1>8, <2>1
  <2>3. Cardinality(Class(cursor)) + Cardinality(Class(root_x)) <= Size
    <3>1. Class(cursor) \cap Class(root_x) = {}
      BY <1>1 DEF Class
    <3>2. IsFiniteSet(Class(cursor)) /\ IsFiniteSet(Class(root_x))
      BY ClassesFinite DEF Class
    <3>3. Cardinality(Class(cursor) \cup Class(root_x)) =
            Cardinality(Class(cursor)) + Cardinality(Class(root_x))
              - Cardinality(Class(cursor) \cap Class(root_x))
      BY <3>2, FS_Union
    <3>4. Cardinality(Class(cursor) \cap Class(root_x)) = 0
      BY <3>1, FS_EmptySet
    <3>5. Cardinality(Class(cursor) \cup Class(root_x)) <= Size
      BY ClassesFinite DEF Class
    <3>6. QED
      BY <1>4, <3>3, <3>4, <3>5
  <2>4. k # RankLimit
    <3>1. ASSUME k = RankLimit PROVE FALSE
      <4>1. 2^k \in Nat /\ Size \in Nat
        BY <1>5, <2>1, SizeAssumption
      <4>2. Size < 2^k
        BY <3>1, CapacityAssumption
      <4>3. QED
        BY <1>4, <2>2, <2>3, <4>1, <4>2
    <3>2. QED
      BY <3>1
  <2>5. k \in Ranks /\ (rank[root_x] + 1) % RankLimit = k
    BY <1>3, <2>4 DEF Ranks
  <2>6. rank[root_x] <= k /\ rank[cursor] < k
    BY <1>3, <1>8
  <2>7. rank' = [rank EXCEPT ![root_x] = k]
    BY <1>8, <2>5
  <2> HIDE DEF k
  <2>8. QED
    BY <1>1, <1>2, <1>8, <2>2, <2>5, <2>6, <2>7, HangKeeps
<1>9. QED
  BY <1>1, <1>6, <1>7, <1>8 DEF HangByRank, root_y

LEMMA StepIInv == IInv /\ [Next]_vars => IInv'
<1> SUFFICES ASSUME IInv, [Next]_vars PROVE IInv'
  OBVIOUS
<1>1. CASE UNCHANGED vars
  BY <1>1, TreeUnchanged DEF vars, IInv, TypeOK, Climbing, tree
<1>2. QED
  BY <1>1, CallKeeps, HalveKeeps, FindReturnsKeeps, FoundRootXKeeps, SameRootsKeeps,
     DifferentRootsKeeps, LinkKeeps DEF Next, Work

LEMMA Invariance == Spec => []IInv
BY InitIInv, StepIInv, PTL DEF Spec

(***************************************************************************)
(* TypeOK: parents, ranks and what a call holds are well typed.  That      *)
(* ranks are, the modulo in HangByRank gives; that it never acts is        *)
(* RanksNeverFallCorrect.                                                  *)
(***************************************************************************)
THEOREM TypeCorrect == Spec => []TypeOK
<1>1. IInv => TypeOK
  BY DEF IInv
<1>2. QED
  BY <1>1, Invariance, PTL

(***************************************************************************)
(* RanksGrowUpwards: no chain of parents closes on itself, in the middle   *)
(* of a find's halving neither.                                            *)
(***************************************************************************)
THEOREM RanksCorrect == Spec => []RanksGrowUpwards
<1>1. IInv => RanksGrowUpwards
  BY DEF IInv
<1>2. QED
  BY <1>1, Invariance, PTL

(***************************************************************************)
(* RankNeedsElements: a root of rank k stands for 2^k elements or more.    *)
(***************************************************************************)
THEOREM RankNeedsCorrect == Spec => []RankNeedsElements
<1>1. IInv => RankNeedsElements
  BY DEF IInv
<1>2. QED
  BY <1>1, Invariance, PTL

(***************************************************************************)
(* RanksNeverFall: on fewer than 2^RankLimit elements no sequence of calls *)
(* wraps a rank.                                                           *)
(***************************************************************************)
THEOREM RanksNeverFallCorrect == Spec => RanksNeverFall
<1>1. IInv /\ [Next]_vars => [RanksRise]_rank
  <2> SUFFICES ASSUME IInv, [Next]_vars PROVE [RanksRise]_rank
    OBVIOUS
  <2>1. CASE Link
    BY <2>1, LinkKeeps
  <2>2. CASE ~Link
    <3>1. UNCHANGED rank
      BY <2>2 DEF Next, Work, Call, Halve, FindReturns, FoundRootX, SameRoots, DifferentRoots,
                  vars, tree
    <3>2. QED
      BY <3>1
  <2>3. QED
    BY <2>1, <2>2
<1>2. QED
  BY <1>1, Invariance, PTL DEF RanksNeverFall, RanksRise, Spec

-----------------------------------------------------------------------------
LEMMA UnseenStep ==
    ASSUME UNCHANGED <<root, call, result>>
    PROVE  [Answers!Next]_<<root, call, result>>
OBVIOUS

LEMMA StepAnswers == IInv /\ [Next]_vars => [Answers!Next]_<<root, call, result>>
<1> SUFFICES ASSUME IInv, [Next]_vars PROVE [Answers!Next]_<<root, call, result>>
  OBVIOUS
<1>1. ASSUME NEW c \in Calls, Call(c) PROVE Answers!Ask
  BY <1>1 DEF Call, tree, Answers!Ask, IInv, Climbing
<1>2. CASE FindReturns
  <2>1. pc = "find_x" /\ call # NoCall /\ root[cursor] = cursor
    BY <1>2, CallUnderWay DEF FindReturns
  <2>2. Answers!Answer
    BY <1>2, <2>1 DEF FindReturns, Return, tree, Answers!Answer, IInv, Climbing
  <2>3. QED
    BY <2>2 DEF Answers!Next
<1>3. ASSUME FoundBoth
      PROVE  /\ call # NoCall /\ call.op \in {"connected", "union"}
             /\ root_x = root[call.x] /\ root_y = root[call.y]
  BY <1>3, CallUnderWay DEF FoundBoth, root_y, IInv, Climbing
<1>4. CASE SameRoots
  <2>1. call.op = "union" => Answers!Unite(call.x, call.y)
    <3>1. root[call.x] = root[call.y] /\ UNCHANGED root /\ root \in [Elements -> Elements]
      BY <1>3, <1>4 DEF SameRoots, tree, IInv, TypeOK
    <3>2. root' = [z \in Elements |-> IF root[z] \in {root[call.x], root[call.y]}
                                      THEN root[call.x] ELSE root[z]]
      BY <3>1
    <3>3. QED
      BY <3>2 DEF Answers!Unite
  <2>2. Answers!Answer
    BY <1>3, <1>4, <2>1 DEF SameRoots, Return, tree, Answers!Answer
  <2>3. QED
    BY <2>2 DEF Answers!Next
<1>5. CASE DifferentRoots
  <2>1. Answers!Answer
    BY <1>3, <1>5 DEF DifferentRoots, Return, tree, Answers!Answer
  <2>2. QED
    BY <2>1 DEF Answers!Next
<1>6. CASE Link
  <2>1. FoundBoth /\ root_x # root_y /\ call.op = "union" /\ HangByRank /\ Return(1)
    BY <1>6 DEF Link
  <2>2. /\ call # NoCall
        /\ root_x = root[call.x] /\ root_y = root[call.y]
    BY <1>3, <2>1
  <2>3. Hang(root_x, root_y) \/ Hang(root_y, root_x)
    BY <2>1 DEF HangByRank
  <2>4. \E kept \in {root_x, root_y} :
            root' = [z \in Elements |->
                        IF root[z] \in {root_x, root_y} THEN kept ELSE root[z]]
    <3>1. CASE Hang(root_x, root_y)
      <4>1. root' = [z \in Elements |->
                        IF root[z] \in {root_x, root_y} THEN root_y ELSE root[z]]
        BY <3>1 DEF Hang
      <4>2. QED
        BY <4>1
    <3>2. CASE Hang(root_y, root_x)
      <4>1. root' = [z \in Elements |->
                        IF root[z] \in {root_x, root_y} THEN root_x ELSE root[z]]
        BY <3>2 DEF Hang
      <4>2. QED
        BY <4>1
    <3>3. QED
      BY <2>3, <3>1, <3>2
  <2>5. Answers!Unite(call.x, call.y)
    BY <2>2, <2>4 DEF Answers!Unite
  <2>6. result' = 1 /\ call' = NoCall
    BY <2>1 DEF Return
  <2>7. Answers!Answer
    BY <2>1, <2>2, <2>5, <2>6 DEF Answers!Answer
  <2>8. QED
    BY <2>7 DEF Answers!Next
<1>7. CASE Halve
  BY <1>7 DEF Halve
<1>8. CASE FoundRootX
  BY <1>8 DEF FoundRootX, tree
<1>9. CASE UNCHANGED vars
  BY <1>9 DEF vars, tree
<1>10. QED
  BY <1>1, <1>2, <1>4, <1>5, <1>6, <1>7, <1>8, <1>9 DEF Next, Work, Answers!Next

(***************************************************************************)
(* AnswersAsRootMap: halving and hanging by rank are invisible to callers. *)
(***************************************************************************)
THEOREM AnswersCorrect == Spec => AnswersAsRootMap
BY Invariance, StepAnswers, PTL DEF Spec, AnswersAsRootMap

(***************************************************************************)
(* With AnswersAsRootMap for its steps, the union-find implements RootMap. *)
(***************************************************************************)
THEOREM Implementation == Spec => Answers!Spec
<1>1. Init => Answers!Init
  BY DEF Init, Answers!Init
<1>2. QED
  BY <1>1, Invariance, StepAnswers, PTL DEF Spec, Answers!Spec
=============================================================================
