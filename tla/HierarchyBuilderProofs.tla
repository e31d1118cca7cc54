----------------------- MODULE HierarchyBuilderProofs -----------------------
(***************************************************************************)
(* Proofs about HierarchyBuilder for every number of records, every set of *)
(* weights and every list of edges.                                        *)
(***************************************************************************)
EXTENDS HierarchyBuilder, SequenceTheorems, WellFoundedInduction, TLAPS

(***************************************************************************)
(* The smallest element of a non-empty set of naturals, as Min gives it.   *)
(***************************************************************************)
LEMMA MinOfNaturals ==
    ASSUME NEW S \in SUBSET Nat, S # {}
    PROVE  Min(S) \in S /\ \A x \in S : Min(S) <= x
<1> DEFINE Less == {p \in Nat \X Nat : p[1] < p[2]}
<1>1. IsWellFoundedOn(Less, Nat)
  BY ONLY NatLessThanWellFounded, Zenon DEF OpToRel
<1>2. PICK m \in S : \A x \in S : ~ (<<x, m>> \in Less)
  BY <1>1, WFMin
<1>3. ASSUME NEW x \in S PROVE m <= x
  <2>1. x \in Nat /\ m \in Nat
    BY <1>2
  <2>2. ~ (x < m)
    BY <1>2, <2>1, Zenon
  <2>3. QED
    BY <2>1, <2>2
<1>4. QED
  BY <1>2, <1>3 DEF Min

(***************************************************************************)
(* The fields of an edge of a list.                                        *)
(***************************************************************************)
LEMMA EdgeFields ==
    ASSUME NEW es \in Seq(Edge), NEW i \in 1 .. Len(es)
    PROVE  /\ es[i].src \in Records /\ es[i].dst \in Records
           /\ es[i].weight \in Thresholds /\ es[i].weight \in Nat
<1>1. es[i] \in Edge
  BY ElementOfSeq
<1>2. es[i].src \in Records /\ es[i].dst \in Records /\ es[i].weight \in Thresholds
  BY <1>1 DEF Edge
<1>3. QED
  BY <1>2, ThresholdsAssumption

-----------------------------------------------------------------------------
(***************************************************************************)
(* The records with root r, and the least of the class of a record.        *)
(***************************************************************************)
ClassOf(roots, r) == {x \in Records : roots[x] = r}

LeastOf(roots, x) == Min(ClassOf(roots, roots[x]))

(***************************************************************************)
(* A least element of a set of naturals is its Min.                        *)
(***************************************************************************)
LEMMA MinIs ==
    ASSUME NEW S \in SUBSET Nat, NEW m \in S, \A x \in S : m <= x
    PROVE  Min(S) = m
<1>1. Min(S) \in S /\ Min(S) <= m
  BY MinOfNaturals
<1>2. m <= Min(S) /\ Min(S) \in Nat /\ m \in Nat
  BY <1>1
<1>3. QED
  BY <1>1, <1>2

(***************************************************************************)
(* The records by which a reader at level t may know x: x itself, and the  *)
(* parent of every event at t or above that took it as a child.            *)
(***************************************************************************)
Parents(ev, t, x) ==
    {x} \cup {ev[k].parent_id :
                k \in {k \in DOMAIN ev : ev[k].threshold >= t /\ x \in ev[k].child_nodes}}

(***************************************************************************)
(* Canonical is the least of these records.                                *)
(***************************************************************************)
LEMMA CanonicalIs ==
    ASSUME NEW ev \in Seq(MergeEvent), NEW t, NEW x \in Records
    PROVE  /\ Canonical(ev, t, x) = Min(Parents(ev, t, x))
           /\ Parents(ev, t, x) \in SUBSET Nat
           /\ Canonical(ev, t, x) \in Parents(ev, t, x)
           /\ Canonical(ev, t, x) \in Nat
           /\ \A y \in Parents(ev, t, x) : Canonical(ev, t, x) <= y
<1>1. Canonical(ev, t, x) = Min(Parents(ev, t, x))
  BY DEF Canonical, Parents
<1>2. Records \subseteq Nat
  BY NumRecordsAssumption DEF Records
<1>3. ASSUME NEW k \in DOMAIN ev PROVE ev[k].parent_id \in Records
  <2>1. ev[k] \in MergeEvent
    BY ElementOfSeq, LenProperties
  <2>2. QED
    BY <2>1 DEF MergeEvent
<1>4. Parents(ev, t, x) \in SUBSET Nat /\ Parents(ev, t, x) # {}
  BY <1>2, <1>3 DEF Parents
<1>5. QED
  BY <1>1, <1>4, MinOfNaturals

(***************************************************************************)
(* One more event adds its parent to those of its children, at the levels  *)
(* it reaches.                                                             *)
(***************************************************************************)
LEMMA ParentsNext ==
    ASSUME NEW ev \in Seq(MergeEvent), NEW e \in MergeEvent, NEW t, NEW x
    PROVE  Parents(Append(ev, e), t, x) =
             IF e.threshold >= t /\ x \in e.child_nodes
             THEN Parents(ev, t, x) \cup {e.parent_id} ELSE Parents(ev, t, x)
<1> DEFINE n == Len(ev)
<1> DEFINE new == Append(ev, e)
<1>1. /\ n \in Nat /\ DOMAIN ev = 1 .. n /\ DOMAIN new = 1 .. n + 1
      /\ new[n + 1] = e /\ \A k \in 1 .. n : new[k] = ev[k]
  BY AppendProperties, LenProperties
<1> HIDE DEF new, n
<1>2. \A k : k \in 1 .. n + 1 <=> k \in 1 .. n \/ k = n + 1
  BY <1>1
<1> DEFINE J(s) == {k \in DOMAIN s : s[k].threshold >= t /\ x \in s[k].child_nodes}
<1>3. J(new) = J(ev) \cup (IF e.threshold >= t /\ x \in e.child_nodes THEN {n + 1} ELSE {})
  BY <1>1, <1>2
<1>4. \A k \in J(ev) : new[k].parent_id = ev[k].parent_id
  BY <1>1
<1>5. Parents(new, t, x) = {x} \cup {new[k].parent_id : k \in J(new)}
  BY DEF Parents
<1>6. Parents(ev, t, x) = {x} \cup {ev[k].parent_id : k \in J(ev)}
  BY DEF Parents
<1> HIDE DEF J
<1>7. {new[k].parent_id : k \in J(ev)} = {ev[k].parent_id : k \in J(ev)}
  BY <1>4
<1>8. CASE e.threshold >= t /\ x \in e.child_nodes
  <2>1. J(new) = J(ev) \cup {n + 1}
    BY <1>3, <1>8
  <2>2. {new[k].parent_id : k \in J(new)} = {new[k].parent_id : k \in J(ev)} \cup {e.parent_id}
    BY <1>1, <2>1
  <2>3. QED
    BY <1>5, <1>6, <1>7, <1>8, <2>2 DEF new
<1>9. CASE ~(e.threshold >= t /\ x \in e.child_nodes)
  <2>1. J(new) = J(ev)
    BY <1>3, <1>9
  <2>2. QED
    BY <1>5, <1>6, <1>7, <1>9, <2>1 DEF new
<1>10. QED
  BY <1>8, <1>9

(***************************************************************************)
(* What a reader sees after one more event: nothing new at levels above    *)
(* the event's or outside its child, and its parent for the records of its *)
(* child when no smaller record stood for them.                            *)
(***************************************************************************)
LEMMA CanonicalNext ==
    ASSUME NEW ev \in Seq(MergeEvent), NEW e \in MergeEvent, NEW t, NEW x \in Records
    PROVE  /\ ~(e.threshold >= t /\ x \in e.child_nodes) =>
                Canonical(Append(ev, e), t, x) = Canonical(ev, t, x)
           /\ e.threshold >= t /\ x \in e.child_nodes /\ e.parent_id <= Canonical(ev, t, x) =>
                Canonical(Append(ev, e), t, x) = e.parent_id
<1> DEFINE new == Append(ev, e)
<1>1. new \in Seq(MergeEvent)
  BY AppendProperties
<1>2. Parents(new, t, x) =
             IF e.threshold >= t /\ x \in e.child_nodes
             THEN Parents(ev, t, x) \cup {e.parent_id} ELSE Parents(ev, t, x)
  BY ParentsNext
<1> HIDE DEF new
<1>3. ASSUME ~(e.threshold >= t /\ x \in e.child_nodes)
      PROVE  Canonical(new, t, x) = Canonical(ev, t, x)
  BY <1>1, <1>2, <1>3, CanonicalIs
<1>4. ASSUME e.threshold >= t /\ x \in e.child_nodes /\ e.parent_id <= Canonical(ev, t, x)
      PROVE  Canonical(new, t, x) = e.parent_id
  <2> DEFINE m == Canonical(ev, t, x)
  <2>1. Parents(new, t, x) = Parents(ev, t, x) \cup {e.parent_id}
    BY <1>2, <1>4
  <2>2. /\ m \in Nat /\ Parents(ev, t, x) \in SUBSET Nat
        /\ \A y \in Parents(ev, t, x) : m <= y
    BY CanonicalIs
  <2>3. Parents(new, t, x) \in SUBSET Nat /\ Canonical(new, t, x) = Min(Parents(new, t, x))
    BY <1>1, CanonicalIs
  <2>4. e.parent_id \in Nat /\ e.parent_id <= m
    BY <1>4, <2>1, <2>3
  <2> HIDE DEF m
  <2>5. \A y \in Parents(new, t, x) : e.parent_id <= y
    BY <2>1, <2>2, <2>4
  <2>6. QED
    BY <2>1, <2>3, <2>5, MinIs
<1>5. QED
  BY <1>3, <1>4 DEF new

(***************************************************************************)
(* The class of a record under a map of roots, and the least record of     *)
(* that class.                                                             *)
(***************************************************************************)
LEMMA ClassFacts ==
    ASSUME NEW roots \in [Records -> Records], NEW x \in Records
    PROVE  /\ ClassOf(roots, roots[x]) \in SUBSET Nat
           /\ x \in ClassOf(roots, roots[x])
           /\ LeastOf(roots, x) \in ClassOf(roots, roots[x])
           /\ LeastOf(roots, x) \in Records /\ LeastOf(roots, x) \in Nat
           /\ roots[LeastOf(roots, x)] = roots[x]
           /\ \A y \in ClassOf(roots, roots[x]) : LeastOf(roots, x) <= y
<1>1. ClassOf(roots, roots[x]) \in SUBSET Nat /\ x \in ClassOf(roots, roots[x])
  BY NumRecordsAssumption DEF ClassOf, Records
<1>2. /\ LeastOf(roots, x) \in ClassOf(roots, roots[x])
      /\ \A y \in ClassOf(roots, roots[x]) : LeastOf(roots, x) <= y
  BY <1>1, MinOfNaturals DEF LeastOf
<1>3. QED
  BY <1>1, <1>2 DEF ClassOf

(***************************************************************************)
(* What IsHierarchy asks of one event, beyond the order of levels.         *)
(***************************************************************************)
WellJoined(earlier, e) ==
    /\ e.parent_id \in Records
    /\ Canonical(earlier, 0, e.parent_id) = e.parent_id
    /\ e.child_nodes # {}
    /\ \E r \in Records : e.child_nodes = {y \in Records : Canonical(earlier, 0, y) = r}
    /\ e.parent_id < Min(e.child_nodes)

(***************************************************************************)
(* IsHierarchy, in terms of WellJoined.                                    *)
(***************************************************************************)
LEMMA HierarchyIs ==
    \A ev : IsHierarchy(ev, Records) <=>
                \A k \in DOMAIN ev :
                    /\ \A j \in 1 .. k : ev[j].threshold >= ev[k].threshold
                    /\ WellJoined(SubSeq(ev, 1, k - 1), ev[k])
BY DEF IsHierarchy, WellJoined

(***************************************************************************)
(* The events before the k-th are the same after one more event.           *)
(***************************************************************************)
LEMMA EarlierOfAppend ==
    ASSUME NEW S, NEW ev \in Seq(S), NEW e \in S, NEW k \in 1 .. Len(ev) + 1
    PROVE  SubSeq(Append(ev, e), 1, k - 1) = SubSeq(ev, 1, k - 1)
<1> DEFINE new == Append(ev, e)
<1>1. /\ Len(ev) \in Nat /\ new \in Seq(S) /\ Len(new) = Len(ev) + 1
      /\ \A j \in 1 .. Len(ev) : new[j] = ev[j]
  BY AppendProperties, LenProperties
<1> HIDE DEF new
<1>2. k - 1 \in 0 .. Len(ev)
  BY <1>1
<1>3. SubSeq(new, 1, k - 1) = [j \in 1 .. k - 1 |-> new[j]]
  BY <1>1, <1>2
<1>4. SubSeq(ev, 1, k - 1) = [j \in 1 .. k - 1 |-> ev[j]]
  BY <1>1, <1>2
<1>5. \A j \in 1 .. k - 1 : new[j] = ev[j]
  BY <1>1, <1>2
<1>6. QED
  BY <1>3, <1>4, <1>5 DEF new

(***************************************************************************)
(* One merge of the build, for any roots and events that stand for the     *)
(* same components: an event that puts the whole class of c under the      *)
(* least record of the class of p.                                         *)
(***************************************************************************)
MergeOf(ev, roots, p, c, e, n, joined) ==
    /\ ev \in Seq(MergeEvent) /\ IsHierarchy(ev, Records)
    /\ roots \in [Records -> Records]
    /\ \A x \in Records : Canonical(ev, 0, x) = LeastOf(roots, x)
    /\ p \in Records /\ c \in Records /\ p # c /\ roots[p] = p /\ roots[c] = c
    /\ e \in MergeEvent
    /\ \A k \in 1 .. Len(ev) : ev[k].threshold >= e.threshold
    /\ e.child_nodes = ClassOf(roots, c) /\ e.parent_id \in ClassOf(roots, p)
    /\ \A x \in ClassOf(roots, p) \cup ClassOf(roots, c) : e.parent_id <= x
    /\ n \in {p, c}
    /\ joined = [x \in Records |-> IF roots[x] \in {p, c} THEN n ELSE roots[x]]

(***************************************************************************)
(* Such an event extends a hierarchy to a hierarchy, and leaves every      *)
(* record known by the least of its joined class.                          *)
(***************************************************************************)
LEMMA OneMoreEvent ==
    ASSUME NEW ev, NEW roots, NEW p, NEW c, NEW e, NEW n, NEW joined,
           MergeOf(ev, roots, p, c, e, n, joined)
    PROVE  /\ IsHierarchy(Append(ev, e), Records)
           /\ \A x \in Records : Canonical(Append(ev, e), 0, x) = LeastOf(joined, x)
<1>0. /\ ev \in Seq(MergeEvent) /\ IsHierarchy(ev, Records)
      /\ roots \in [Records -> Records]
      /\ \A x \in Records : Canonical(ev, 0, x) = LeastOf(roots, x)
      /\ p \in Records /\ c \in Records /\ p # c /\ roots[p] = p /\ roots[c] = c
      /\ e \in MergeEvent
      /\ \A k \in 1 .. Len(ev) : ev[k].threshold >= e.threshold
      /\ e.child_nodes = ClassOf(roots, c) /\ e.parent_id \in ClassOf(roots, p)
      /\ \A x \in ClassOf(roots, p) \cup ClassOf(roots, c) : e.parent_id <= x
      /\ n \in {p, c}
      /\ joined = [x \in Records |-> IF roots[x] \in {p, c} THEN n ELSE roots[x]]
  BY DEF MergeOf
<1> USE <1>0
<1>1. Records \subseteq Nat /\ e.threshold \in Nat /\ e.parent_id \in Records
  <2>1. Records \subseteq Nat
    BY NumRecordsAssumption DEF Records
  <2>2. e.threshold \in Thresholds /\ e.parent_id \in Records
    BY DEF MergeEvent
  <2>3. QED
    BY <2>1, <2>2, ThresholdsAssumption
<1>2. p \in ClassOf(roots, p) /\ c \in ClassOf(roots, c)
  BY DEF ClassOf
<1>3. LeastOf(roots, p) = e.parent_id
  <2>1. /\ LeastOf(roots, p) \in ClassOf(roots, p) /\ LeastOf(roots, p) \in Nat
        /\ \A y \in ClassOf(roots, p) : LeastOf(roots, p) <= y
    BY ClassFacts
  <2> DEFINE least == LeastOf(roots, p)
  <2> DEFINE parent == e.parent_id
  <2>2. least \in Nat /\ parent \in Nat /\ least <= parent /\ parent <= least
    BY <1>1, <2>1
  <2> HIDE DEF least, parent
  <2>3. least = parent
    BY <2>2
  <2>4. QED
    BY <2>3 DEF least, parent
<1>4. /\ LeastOf(roots, c) \in ClassOf(roots, c) /\ LeastOf(roots, c) \in Nat
      /\ LeastOf(roots, c) = Min(e.child_nodes)
  BY ClassFacts DEF LeastOf
<1>5. e.parent_id <= LeastOf(roots, c) /\ e.parent_id # LeastOf(roots, c)
  <2>1. roots[e.parent_id] = p /\ roots[LeastOf(roots, c)] = c
    BY <1>4 DEF ClassOf
  <2>2. QED
    BY <1>4, <2>1
<1>6. \A x, y \in Records : roots[x] = roots[y] => LeastOf(roots, x) = LeastOf(roots, y)
  BY DEF LeastOf
<1>7. WellJoined(ev, e)
  <2>1. Canonical(ev, 0, e.parent_id) = e.parent_id
    <3>1. roots[e.parent_id] = roots[p]
      BY DEF ClassOf
    <3>2. LeastOf(roots, e.parent_id) = LeastOf(roots, p)
      BY <1>1, <1>6, <3>1
    <3>3. QED
      BY <1>1, <1>3, <3>2
  <2>2. e.child_nodes = {y \in Records : Canonical(ev, 0, y) = LeastOf(roots, c)}
    <3>1. ASSUME NEW y \in Records, LeastOf(roots, y) = LeastOf(roots, c) PROVE roots[y] = c
      <4>1. roots[LeastOf(roots, y)] = roots[y] /\ roots[LeastOf(roots, c)] = c
        BY ClassFacts
      <4>2. QED
        BY <3>1, <4>1
    <3>2. ASSUME NEW y \in Records, roots[y] = c PROVE LeastOf(roots, y) = LeastOf(roots, c)
      BY <1>6, <3>2
    <3>3. \A y \in Records : roots[y] = c <=> LeastOf(roots, y) = LeastOf(roots, c)
      BY <3>1, <3>2
    <3>4. QED
      BY <3>3 DEF ClassOf
  <2>3. LeastOf(roots, c) \in Records
    BY ClassFacts
  <2>4. e.parent_id < Min(e.child_nodes)
    <3> DEFINE parent == e.parent_id
    <3> DEFINE least == Min(e.child_nodes)
    <3>1. parent \in Nat /\ least \in Nat /\ parent <= least /\ parent # least
      BY <1>1, <1>4, <1>5
    <3> HIDE DEF parent, least
    <3>2. parent < least
      BY <3>1
    <3>3. QED
      BY <3>2 DEF parent, least
  <2>5. QED
    BY <1>1, <1>2, <2>1, <2>2, <2>3, <2>4 DEF WellJoined
<1> DEFINE new == Append(ev, e)
<1>8. /\ Len(ev) \in Nat /\ new \in Seq(MergeEvent) /\ Len(new) = Len(ev) + 1
      /\ DOMAIN new = 1 .. Len(ev) + 1 /\ DOMAIN ev = 1 .. Len(ev)
      /\ new[Len(ev) + 1] = e /\ \A j \in 1 .. Len(ev) : new[j] = ev[j]
  BY AppendProperties, LenProperties
<1>9. \A k \in 1 .. Len(ev) + 1 : SubSeq(new, 1, k - 1) = SubSeq(ev, 1, k - 1)
  BY EarlierOfAppend
<1>10. SubSeq(ev, 1, Len(ev)) = ev
  BY SubSeqFull
<1> HIDE DEF new
<1>11. ASSUME NEW k \in DOMAIN new
       PROVE  /\ \A j \in 1 .. k : new[j].threshold >= new[k].threshold
              /\ WellJoined(SubSeq(new, 1, k - 1), new[k])
  <2>1. CASE k = Len(ev) + 1
    <3>1. new[k] = e /\ SubSeq(new, 1, k - 1) = ev
      <4>1. k - 1 = Len(ev)
        BY <1>8, <2>1
      <4>2. QED
        BY <1>8, <1>9, <1>10, <2>1, <4>1
    <3>2. ASSUME NEW j \in 1 .. k PROVE new[j].threshold >= e.threshold
      <4>1. CASE j = k
        BY <1>1, <3>1, <4>1
      <4>2. CASE j # k
        <5>1. j \in 1 .. Len(ev)
          BY <1>8, <2>1, <4>2
        <5>2. QED
          BY <1>8, <5>1
      <4>3. QED
        BY <4>1, <4>2
    <3>3. QED
      BY <1>7, <3>1, <3>2
  <2>2. CASE k # Len(ev) + 1
    <3>1. k \in 1 .. Len(ev) /\ \A j \in 1 .. k : j \in 1 .. Len(ev)
      BY <1>8, <2>2
    <3>2. /\ \A j \in 1 .. k : ev[j].threshold >= ev[k].threshold
          /\ WellJoined(SubSeq(ev, 1, k - 1), ev[k])
      BY <1>8, <3>1, HierarchyIs
    <3>3. SubSeq(new, 1, k - 1) = SubSeq(ev, 1, k - 1) /\ new[k] = ev[k]
      BY <1>8, <1>9, <3>1
    <3>4. \A j \in 1 .. k : new[j] = ev[j]
      BY <1>8, <3>1
    <3>5. QED
      BY <3>2, <3>3, <3>4
  <2>3. QED
    BY <2>1, <2>2
<1>12. IsHierarchy(new, Records)
  BY <1>11, HierarchyIs
<1>13. joined \in [Records -> Records]
  OBVIOUS
<1>14. ASSUME NEW x \in Records PROVE Canonical(new, 0, x) = LeastOf(joined, x)
  <2>1. CASE roots[x] \in {p, c}
    <3>1. ClassOf(joined, joined[x]) = ClassOf(roots, p) \cup ClassOf(roots, c)
      <4>1. joined[x] = n
        BY <2>1
      <4>2. \A y \in Records : joined[y] = n <=> roots[y] \in {p, c}
        OBVIOUS
      <4>3. QED
        BY <4>1, <4>2 DEF ClassOf
    <3>2. LeastOf(joined, x) = e.parent_id
      <4>1. ClassOf(roots, p) \cup ClassOf(roots, c) \in SUBSET Nat
        BY <1>1 DEF ClassOf
      <4>2. QED
        BY <3>1, <4>1, MinIs DEF LeastOf
    <3>3. CASE roots[x] = c
      <4>1. x \in e.child_nodes /\ Canonical(ev, 0, x) = LeastOf(roots, c)
        BY <1>6, <3>3 DEF ClassOf
      <4>2. e.threshold >= 0
        BY <1>1
      <4>3. Canonical(new, 0, x) = e.parent_id
        BY <1>5, <4>1, <4>2, CanonicalNext DEF new
      <4>4. QED
        BY <3>2, <4>3
    <3>4. CASE roots[x] = p
      <4>1. x \notin e.child_nodes /\ Canonical(ev, 0, x) = LeastOf(roots, p)
        BY <1>6, <3>4 DEF ClassOf
      <4>2. Canonical(new, 0, x) = Canonical(ev, 0, x)
        BY <4>1, CanonicalNext DEF new
      <4>3. QED
        BY <1>3, <3>2, <4>1, <4>2
    <3>5. QED
      BY <2>1, <3>3, <3>4
  <2>2. CASE roots[x] \notin {p, c}
    <3>1. ClassOf(joined, joined[x]) = ClassOf(roots, roots[x])
      <4>1. joined[x] = roots[x]
        BY <2>2
      <4>2. \A y \in Records : joined[y] = roots[x] <=> roots[y] = roots[x]
        BY <2>2
      <4>3. QED
        BY <4>1, <4>2 DEF ClassOf
    <3>2. LeastOf(joined, x) = LeastOf(roots, x)
      BY <3>1 DEF LeastOf
    <3>3. x \notin e.child_nodes
      BY <2>2 DEF ClassOf
    <3>4. Canonical(new, 0, x) = Canonical(ev, 0, x)
      BY <3>3, CanonicalNext DEF new
    <3>5. QED
      BY <3>2, <3>4
  <2>3. QED
    BY <2>1, <2>2
<1>15. QED
  BY <1>12, <1>14 DEF new

(***************************************************************************)
(* A reader at a level no event is below leaves uncut the sets that the    *)
(* build's roots leave uncut.                                              *)
(***************************************************************************)
LEMMA ReadsRoots ==
    ASSUME NEW ev \in Seq(MergeEvent), NEW t \in Nat,
           \A k \in 1 .. Len(ev) : ev[k].threshold >= t,
           NEW roots \in [Records -> Records],
           \A x \in Records : Canonical(ev, 0, x) = LeastOf(roots, x),
           NEW S \in SUBSET Records
    PROVE  (\A x \in Records : roots[roots[x]] = roots[x]) =>
             (UncutByRoots(S, [x \in Records |-> Canonical(ev, t, x)]) <=> UncutByRoots(S, roots))
<1>1. ASSUME NEW x \in Records PROVE Canonical(ev, t, x) = LeastOf(roots, x)
  <2>1. DOMAIN ev = 1 .. Len(ev)
    BY LenProperties
  <2>2. \A k \in DOMAIN ev : ev[k].threshold >= 0 /\ ev[k].threshold >= t
    <3>1. \A k \in DOMAIN ev : ev[k].threshold \in Nat
      <4> SUFFICES ASSUME NEW k \in DOMAIN ev PROVE ev[k].threshold \in Nat
        OBVIOUS
      <4>1. ev[k] \in MergeEvent
        BY <2>1, ElementOfSeq
      <4>2. QED
        BY <4>1, ThresholdsAssumption DEF MergeEvent
    <3>2. QED
      BY <2>1, <3>1
  <2>3. Parents(ev, t, x) = Parents(ev, 0, x)
    BY <2>2 DEF Parents
  <2>4. QED
    BY <2>3, CanonicalIs
<1> DEFINE canonical == [x \in Records |-> Canonical(ev, t, x)]
<1> SUFFICES ASSUME \A x \in Records : roots[roots[x]] = roots[x]
             PROVE  UncutByRoots(S, canonical) <=> UncutByRoots(S, roots)
  OBVIOUS
<1>2. canonical = [x \in Records |-> LeastOf(roots, x)]
  BY <1>1
<1> HIDE DEF canonical
<1>3. UncutByRoots(S, canonical) <=> \A x \in Records : x \in S <=> LeastOf(roots, x) \in S
  BY <1>2 DEF UncutByRoots
<1>4. UncutByRoots(S, roots) <=> \A x \in Records : x \in S <=> roots[x] \in S
  BY DEF UncutByRoots
<1>5. \A x \in Records : /\ LeastOf(roots, x) \in Records
                         /\ roots[LeastOf(roots, x)] = roots[x]
                         /\ LeastOf(roots, roots[x]) = LeastOf(roots, x)
  BY ClassFacts DEF LeastOf
<1>6. ASSUME \A x \in Records : x \in S <=> LeastOf(roots, x) \in S
      PROVE  \A x \in Records : x \in S <=> roots[x] \in S
  BY <1>5, <1>6
<1>7. ASSUME \A x \in Records : x \in S <=> roots[x] \in S
      PROVE  \A x \in Records : x \in S <=> LeastOf(roots, x) \in S
  BY <1>5, <1>7
<1>8. QED
  BY <1>3, <1>4, <1>6, <1>7

-----------------------------------------------------------------------------
(***************************************************************************)
(* The inductive invariant.  Beyond the properties themselves it says that *)
(* roots are their own roots, that the edges before `next` weigh at least  *)
(* as much as the current group and the others at most, that a pair in     *)
(* processed_pairs cannot come up again, one of its two roots being gone,  *)
(* and that a reader of all events knows a component of the union-find by  *)
(* its least record: the parent_id of an event is one.                     *)
(***************************************************************************)
Sorted ==
    \A i, j \in 1 .. Len(edges) : i < j => edges[i].weight >= edges[j].weight

RootsFixed == \A x \in Records : root[root[x]] = root[x]

Position ==
    status = "building" =>
        /\ threshold \in Thresholds
        /\ \A i \in 1 .. Len(edges) :
              /\ i < next => edges[i].weight >= threshold
              /\ i >= next => edges[i].weight <= threshold

PairsSpent ==
    status = "building" => \A a, b \in Records :
        {a, b} \in processed_pairs => a = b \/ root[a] # a \/ root[b] # b

Least == status # "error" => \A x \in Records : Canonical(events, 0, x) = LeastOf(root, x)

EventLevels ==
    status = "building" => \A k \in 1 .. Len(events) : events[k].threshold >= threshold

IInv ==
    /\ TypeOK
    /\ Sorted
    /\ RootsFixed
    /\ Position
    /\ PairsSpent
    /\ EventLevels
    /\ BitmapsAreComponents
    /\ ClassesAreComponents
    /\ EventsReproduceEdges
    /\ EventsDescending
    /\ Least
    /\ BuildsHierarchy

LEMMA InitIInv == Init => IInv
<1> SUFFICES ASSUME Init PROVE IInv
  OBVIOUS
<1> USE DEF Init
<1>1. edges \in Seq(Edge) /\ Sorted
  BY EdgeListsAssumption DEF Sorted
<1>2. edges # <<>> => edges[1].weight \in Thresholds
  <2>1. edges # <<>> => 1 \in 1 .. Len(edges)
    BY <1>1, EmptySeq, LenProperties
  <2>2. QED
    BY <1>1, <2>1, EdgeFields
<1>3. TypeOK
  BY <1>1, <1>2 DEF TypeOK
<1>4. Position
  <2>1. ASSUME NEW i \in 1 .. Len(edges)
        PROVE  edges[i].weight <= edges[1].weight /\ i >= 1
    <3>1. i \in Nat /\ i >= 1 /\ 1 \in 1 .. Len(edges)
      BY <1>1, LenProperties
    <3>2. edges[i].weight \in Nat /\ edges[1].weight \in Nat
      BY <1>1, <3>1, EdgeFields
    <3>3. QED
      BY <1>1, <3>1, <3>2 DEF Sorted
  <2>2. QED
    BY <1>2, <2>1 DEF Position
<1>5. RootsFixed /\ PairsSpent /\ EventLevels /\ BitmapsAreComponents /\ EventsDescending
  BY DEF RootsFixed, PairsSpent, EventLevels, BitmapsAreComponents, EventsDescending, Class
<1>6. ClassesAreComponents /\ EventsReproduceEdges
  BY DEF ClassesAreComponents, EventsReproduceEdges, UncutByRoots, UncutByEdges, UncutByEvents
<1>7. Least /\ BuildsHierarchy
  <2>1. events = <<>> /\ events \in Seq(MergeEvent) /\ DOMAIN events = {} /\ next - 1 = 0
    BY <1>3 DEF TypeOK
  <2>2. ASSUME NEW t, NEW x \in Records
        PROVE  Canonical(events, t, x) = x
    <3>1. Parents(events, t, x) = {x}
      BY <2>1 DEF Parents
    <3>2. QED
      BY <2>1, <3>1, CanonicalIs
  <2>3. ASSUME NEW x \in Records
        PROVE  LeastOf(root, x) = x
    <3>1. root \in [Records -> Records] /\ ClassOf(root, root[x]) = {x}
      BY DEF ClassOf
    <3>2. QED
      BY <3>1, ClassFacts
  <2>4. IsHierarchy(events, Records)
    BY <2>1, HierarchyIs
  <2>5. ASSUME NEW t, NEW S
        PROVE  UncutByRoots(S, [x \in Records |-> Canonical(events, t, x)])
                 <=> UncutByEdges(S, edges, next - 1, t)
    BY <2>1, <2>2 DEF UncutByRoots, UncutByEdges
  <2>6. QED
    BY <2>2, <2>3, <2>4, <2>5 DEF Least, BuildsHierarchy
<1>8. QED
  BY <1>1, <1>3, <1>4, <1>5, <1>6, <1>7 DEF IInv

-----------------------------------------------------------------------------
(***************************************************************************)
(* While a group is processed, the edges at or above any level up to its   *)
(* weight are all the edges processed so far.                              *)
(***************************************************************************)
LEMMA EdgesAtLevel ==
    ASSUME IInv, status = "building", InGroup,
           NEW t \in Thresholds, t <= threshold, NEW S \in SUBSET Records
    PROVE  UncutByEdges(S, edges, next - 1, t) <=> UncutByRoots(S, root)
<1>1. ASSUME NEW i \in 1 .. next - 1
      PROVE  edges[i].weight \in Nat /\ edges[i].weight >= t
  <2>1. i \in 1 .. Len(edges) /\ i < next
    BY LenProperties DEF IInv, TypeOK, InGroup
  <2>2. edges[i].weight \in Nat
    BY <2>1, EdgeFields DEF IInv, TypeOK
  <2>3. edges[i].weight >= threshold /\ threshold \in Nat /\ t \in Nat
    BY <2>1, ThresholdsAssumption DEF IInv, Position
  <2>4. QED
    BY <2>2, <2>3
<1>2. UncutByEdges(S, edges, next - 1, t) <=> UncutByEdges(S, edges, next - 1, 0)
  BY <1>1 DEF UncutByEdges
<1>3. QED
  BY <1>2 DEF IInv, ClassesAreComponents

(***************************************************************************)
(* The edge at hand, its endpoints and their roots.                        *)
(***************************************************************************)
LEMMA CurrentEdge ==
    ASSUME IInv, InGroup
    PROVE  /\ next \in 1 .. Len(edges)
           /\ edges[next].weight = threshold
           /\ edges[next].src \in Records /\ edges[next].dst \in Records
           /\ RootSrc \in Records /\ RootDst \in Records
           /\ root[RootSrc] = RootSrc /\ root[RootDst] = RootDst
<1>1. next \in 1 .. Len(edges)
  BY LenProperties DEF IInv, TypeOK, InGroup
<1>2. edges[next].src \in Records /\ edges[next].dst \in Records
  BY <1>1, EdgeFields DEF IInv, TypeOK
<1>3. QED
  BY <1>1, <1>2 DEF IInv, TypeOK, RootsFixed, InGroup, RootSrc, RootDst

(***************************************************************************)
(* processed_pairs never hides a merge: an edge the build passes over      *)
(* joins two records of one component.                                     *)
(***************************************************************************)
LEMMA RedundantEdge ==
    ASSUME IInv, status = "building", InGroup, Redundant
    PROVE  RootSrc = RootDst
BY CurrentEdge DEF IInv, PairsSpent, Redundant

(***************************************************************************)
(* One more edge whose endpoints are in one component cuts nothing new.    *)
(***************************************************************************)
LEMMA NextEdge ==
    ASSUME IInv, InGroup, NEW t, NEW S
    PROVE  UncutByEdges(S, edges, next, t)
             <=> /\ UncutByEdges(S, edges, next - 1, t)
                 /\ threshold >= t => (edges[next].src \in S <=> edges[next].dst \in S)
<1>1. \A i : i \in 1 .. next <=> i \in 1 .. next - 1 \/ i = next
  BY CurrentEdge
<1>2. QED
  BY <1>1, CurrentEdge DEF UncutByEdges

LEMMA SkipPreserves == IInv /\ SkipEdge => IInv'
<1> SUFFICES ASSUME IInv, SkipEdge PROVE IInv'
  OBVIOUS
<1> USE DEF SkipEdge
<1>1. RootSrc = RootDst
  BY RedundantEdge
<1>2. next' - 1 = next /\ next \in 1 .. Len(edges)
  BY CurrentEdge
<1>3. ASSUME NEW S \in SUBSET Records, UncutByRoots(S, root)
      PROVE  edges[next].src \in S <=> edges[next].dst \in S
  BY <1>1, <1>3, CurrentEdge DEF UncutByRoots, RootSrc, RootDst, IInv, TypeOK
<1>4. TypeOK' /\ Sorted' /\ RootsFixed' /\ PairsSpent' /\ EventLevels' /\ EventsDescending'
  BY <1>2 DEF IInv, TypeOK, Sorted, RootsFixed, PairsSpent, EventLevels, EventsDescending
<1>5. Position'
  BY <1>2, CurrentEdge, ThresholdsAssumption DEF IInv, TypeOK, Position, Edge
<1>6. BitmapsAreComponents'
  BY DEF IInv, BitmapsAreComponents, Class
<1>7. ClassesAreComponents'
  <2> SUFFICES ASSUME NEW S \in SUBSET Records
               PROVE  UncutByRoots(S, root) <=> UncutByEdges(S, edges, next, 0)
    BY <1>2 DEF ClassesAreComponents
  <2>1. UncutByRoots(S, root) <=> UncutByEdges(S, edges, next - 1, 0)
    BY DEF IInv, ClassesAreComponents
  <2>2. QED
    BY <1>3, <2>1, NextEdge, ThresholdsAssumption DEF IInv, Position
<1>8. ASSUME NEW t \in Thresholds, NEW S \in SUBSET Records
      PROVE  UncutByEdges(S, edges, next, t) <=> UncutByEdges(S, edges, next - 1, t)
  <2>1. CASE t <= threshold
    BY <1>3, <2>1, EdgesAtLevel, NextEdge
  <2>2. CASE ~ (t <= threshold)
    BY <2>2, NextEdge, ThresholdsAssumption DEF IInv, Position
  <2>3. QED
    BY <2>1, <2>2
<1>9. EventsReproduceEdges'
  <2> SUFFICES ASSUME NEW t \in Thresholds, NEW S \in SUBSET Records
               PROVE  UncutByEvents(S, events, Len(events), t) <=> UncutByEdges(S, edges, next, t)
    BY <1>2 DEF EventsReproduceEdges
  <2>1. UncutByEvents(S, events, Len(events), t) <=> UncutByEdges(S, edges, next - 1, t)
    BY DEF IInv, EventsReproduceEdges
  <2>2. QED
    BY <1>8, <2>1
<1>10. Least' /\ BuildsHierarchy'
  <2>1. UNCHANGED <<edges, root, events>> /\ next' - 1 = next
    BY <1>2
  <2>2. QED
    BY <1>8, <2>1 DEF IInv, Least, BuildsHierarchy
<1>11. QED
  BY <1>4, <1>5, <1>6, <1>7, <1>9, <1>10 DEF IInv

-----------------------------------------------------------------------------
(***************************************************************************)
(* The bitmaps a merge takes are the two whole components.                 *)
(***************************************************************************)
LEMMA BitmapsTaken ==
    ASSUME IInv, status = "building", InGroup
    PROVE  /\ Component(RootSrc, edges[next].src) = Class(RootSrc)
           /\ Component(RootDst, edges[next].dst) = Class(RootDst)
<1>1. edges[next].src \in Class(RootSrc) /\ edges[next].dst \in Class(RootDst)
  BY CurrentEdge DEF Class, RootSrc, RootDst
<1>2. QED
  BY <1>1, CurrentEdge DEF IInv, BitmapsAreComponents, Component

(***************************************************************************)
(* The event of a merge: the whole of one component, and the smallest      *)
(* record of the other and of both.                                        *)
(***************************************************************************)
LEMMA EventOfMerge ==
    ASSUME IInv, status = "building", InGroup, RootSrc # RootDst,
           NEW e, e = EventFor(Class(RootSrc), Class(RootDst))
    PROVE  /\ e \in MergeEvent
           /\ e.threshold = threshold
           /\ \E p, c \in Records :
                 /\ {p, c} = {RootSrc, RootDst} /\ p # c
                 /\ e = [threshold |-> threshold, parent_id |-> Min(Class(p)),
                         child_nodes |-> Class(c)]
                 /\ e.child_nodes = Class(c)
                 /\ e.parent_id \in Class(p)
                 /\ \A x \in Class(p) \cup Class(c) : e.parent_id <= x
<1> DEFINE A == Class(RootSrc)
           B == Class(RootDst)
<1>1. /\ A \in SUBSET Nat /\ A # {} /\ A \subseteq Records
      /\ B \in SUBSET Nat /\ B # {} /\ B \subseteq Records
  BY CurrentEdge, NumRecordsAssumption DEF Class, Records
<1>2. /\ Min(A) \in A /\ \A x \in A : Min(A) <= x
      /\ Min(B) \in B /\ \A x \in B : Min(B) <= x
  BY <1>1, MinOfNaturals
<1>3. threshold \in Thresholds
  BY DEF IInv, Position
<1> HIDE DEF A, B
<1>4. Min(A) \in Nat /\ Min(B) \in Nat
  BY <1>1, <1>2
<1>5. e = IF Min(A) < Min(B)
          THEN [threshold |-> threshold, parent_id |-> Min(A), child_nodes |-> B]
          ELSE [threshold |-> threshold, parent_id |-> Min(B), child_nodes |-> A]
  BY DEF EventFor, A, B
<1>6. CASE Min(A) < Min(B)
  <2>1. e = [threshold |-> threshold, parent_id |-> Min(A), child_nodes |-> B]
    BY <1>5, <1>6
  <2>2. \A x \in A \cup B : Min(A) <= x
    BY <1>1, <1>2, <1>4, <1>6
  <2>3. e \in MergeEvent
    <3>1. Min(A) \in Records /\ B \in SUBSET Records
      BY <1>1, <1>2
    <3>2. QED
      BY <1>3, <2>1, <3>1 DEF MergeEvent
  <2>4. QED
    BY <1>2, <2>1, <2>2, <2>3, CurrentEdge DEF A, B
<1>7. CASE ~ (Min(A) < Min(B))
  <2>1. e = [threshold |-> threshold, parent_id |-> Min(B), child_nodes |-> A]
    BY <1>5, <1>7
  <2>2. \A x \in A \cup B : Min(B) <= x
    BY <1>1, <1>2, <1>4, <1>7
  <2>3. e \in MergeEvent
    <3>1. Min(B) \in Records /\ A \in SUBSET Records
      BY <1>1, <1>2
    <3>2. QED
      BY <1>3, <2>1, <3>1 DEF MergeEvent
  <2>4. QED
    BY <1>2, <2>1, <2>2, <2>3, CurrentEdge DEF A, B
<1>8. QED
  BY <1>6, <1>7

LEMMA MergePreserves == IInv /\ MergeEdge => IInv'
<1> SUFFICES ASSUME IInv, MergeEdge PROVE IInv'
  OBVIOUS
<1> DEFINE a == RootSrc
           b == RootDst
           e == EventFor(Class(a), Class(b))
<1>1. status = "building" /\ InGroup /\ a # b /\ a \in Records /\ b \in Records
  BY CurrentEdge DEF MergeEdge, Redundant
<1>2. PICK n \in {a, b} :
        /\ root' = [x \in Records |-> IF root[x] \in {a, b} THEN n ELSE root[x]]
        /\ active_components' = [x \in Records |->
              IF x = n THEN Class(a) \cup Class(b)
              ELSE IF x \in {a, b} THEN {} ELSE active_components[x]]
        /\ events' = Append(events, e)
  <2>1. /\ Component(RootSrc, edges[next].src) = Class(a)
        /\ Component(RootDst, edges[next].dst) = Class(b)
    BY <1>1, BitmapsTaken
  <2> HIDE DEF e
  <2>2. e = EventFor(Class(a), Class(b))
    BY DEF e
  <2>3. QED
    BY <2>1, <2>2 DEF MergeEdge, Union
<1>3. /\ processed_pairs' = processed_pairs \cup {{a, b}}
      /\ next' = next + 1 /\ next' - 1 = next
      /\ UNCHANGED <<edges, threshold, status>>
  BY CurrentEdge, <1>1 DEF MergeEdge
<1>4. PICK p, c \in Records :
        /\ {p, c} = {a, b} /\ p # c
        /\ e.child_nodes = Class(c)
        /\ e.parent_id \in Class(p)
        /\ \A x \in Class(p) \cup Class(c) : e.parent_id <= x
  BY <1>1, EventOfMerge
<1>5. e \in MergeEvent /\ e.threshold = threshold
  BY <1>1, EventOfMerge
<1>6. /\ next \in 1 .. Len(edges)
      /\ edges[next].weight = threshold
      /\ root[a] = a /\ root[b] = b /\ a = root[edges[next].src] /\ b = root[edges[next].dst]
      /\ edges[next].src \in Records /\ edges[next].dst \in Records
  BY <1>1, CurrentEdge DEF RootSrc, RootDst
<1>7. /\ root \in [Records -> Records]
      /\ threshold \in Thresholds /\ threshold \in Nat
      /\ events \in Seq(MergeEvent)
  BY <1>1, ThresholdsAssumption DEF IInv, TypeOK, Position
<1>8. Len(events') = Len(events) + 1 /\ events'[Len(events')] = e
      /\ \A k \in 1 .. Len(events) : events'[k] = events[k]
  BY <1>2, <1>5, <1>7, AppendProperties
<1> HIDE DEF a, b, e
<1>9. TypeOK'
  <2>1. active_components' \in [Records -> SUBSET Records]
    BY <1>2 DEF IInv, TypeOK, Class
  <2>2. root' \in [Records -> Records]
    BY <1>1, <1>2, <1>7
  <2>3. processed_pairs' \subseteq SUBSET Records
    BY <1>1, <1>3 DEF IInv, TypeOK
  <2>4. events' \in Seq(MergeEvent)
    BY <1>2, <1>5, <1>7, AppendProperties
  <2>5. next' \in 1 .. Len(edges') + 1
    BY <1>3, <1>6
  <2>6. QED
    BY <1>3, <2>1, <2>2, <2>3, <2>4, <2>5 DEF IInv, TypeOK
<1>10. Sorted' /\ Position'
  BY <1>3, <1>6, <1>7 DEF IInv, TypeOK, Sorted, Position
<1>11. RootsFixed'
  BY <1>1, <1>2, <1>6, <1>7 DEF IInv, RootsFixed
<1>12. PairsSpent'
  <2> SUFFICES ASSUME NEW x \in Records, NEW y \in Records,
                      {x, y} \in processed_pairs', x # y
               PROVE  root'[x] # x \/ root'[y] # y
    BY DEF PairsSpent
  <2>1. CASE {x, y} \in processed_pairs
    <3>1. root[x] # x \/ root[y] # y
      BY <1>1, <2>1 DEF IInv, PairsSpent
    <3>2. root[n] = n
      BY <1>6
    <3>3. QED
      BY <1>2, <3>1, <3>2
  <2>2. CASE {x, y} = {a, b}
    BY <1>1, <1>2, <1>6, <2>2
  <2>3. QED
    BY <1>3, <2>1, <2>2
<1>13. EventLevels' /\ EventsDescending'
  <2>1. \A k \in 1 .. Len(events') : events'[k].threshold \in Nat /\ events'[k].threshold >= threshold
    <3> SUFFICES ASSUME NEW k \in 1 .. Len(events')
                 PROVE  events'[k].threshold \in Nat /\ events'[k].threshold >= threshold
      OBVIOUS
    <3>1. CASE k \in 1 .. Len(events)
      <4>1. events[k] \in MergeEvent
        BY <1>7, <3>1, ElementOfSeq
      <4>2. events[k].threshold \in Nat
        BY <4>1, ThresholdsAssumption DEF MergeEvent
      <4>3. QED
        BY <1>1, <1>8, <3>1, <4>2 DEF IInv, EventLevels
    <3>2. CASE k = Len(events')
      BY <1>5, <1>7, <1>8, <3>2
    <3>3. QED
      BY <1>7, <1>8, <3>1, <3>2, LenProperties
  <2>2. EventsDescending'
    <3> SUFFICES ASSUME NEW i \in 1 .. Len(events'), NEW j \in 1 .. Len(events'), i < j
                 PROVE  events'[i].threshold >= events'[j].threshold
      BY DEF EventsDescending
    <3>1. Len(events) \in Nat
      BY <1>7, LenProperties
    <3>2. i \in 1 .. Len(events)
      BY <1>8, <3>1
    <3>3. CASE j \in 1 .. Len(events)
      <4>1. events[i].threshold >= events[j].threshold
        BY <3>2, <3>3 DEF IInv, EventsDescending
      <4>2. events'[i] = events[i] /\ events'[j] = events[j]
        BY <1>8, <3>2, <3>3
      <4>3. QED
        BY <4>1, <4>2
    <3>4. CASE j = Len(events')
      <4>1. events'[j].threshold = threshold
        BY <1>5, <1>8, <3>4
      <4>2. QED
        BY <2>1, <4>1
    <3>5. QED
      BY <1>8, <3>1, <3>3, <3>4
  <2>3. QED
    BY <1>3, <2>1, <2>2 DEF EventLevels
<1>14. BitmapsAreComponents'
  <2>1. \A r \in Records : Class(r)' = IF r = n THEN Class(a) \cup Class(b)
                                       ELSE IF r \in {a, b} THEN {} ELSE Class(r)
    BY <1>1, <1>2, <1>7 DEF Class
  <2>2. \A r \in Records : root'[r] = r => r = n \/ (r \notin {a, b} /\ root[r] = r)
    BY <1>2
  <2>3. QED
    BY <1>1, <1>2, <1>3, <2>1, <2>2 DEF IInv, BitmapsAreComponents
<1>15. ASSUME NEW S \in SUBSET Records
       PROVE  UncutByRoots(S, root)' <=> /\ UncutByRoots(S, root)
                                         /\ edges[next].src \in S <=> edges[next].dst \in S
  <2>1. UncutByRoots(S, root) <=> \A x \in Records : x \in S <=> root[x] \in S
    BY <1>7 DEF UncutByRoots
  <2>2. UncutByRoots(S, root)' <=> \A x \in Records : x \in S <=> root'[x] \in S
    BY <1>2 DEF UncutByRoots
  <2>3. ASSUME UncutByRoots(S, root), edges[next].src \in S <=> edges[next].dst \in S
        PROVE  UncutByRoots(S, root)'
    <3>1. a \in S <=> b \in S
      BY <1>6, <2>1, <2>3
    <3>2. QED
      BY <1>1, <1>2, <1>7, <2>1, <2>2, <2>3, <3>1
  <2>4. ASSUME UncutByRoots(S, root)'
        PROVE  UncutByRoots(S, root) /\ (edges[next].src \in S <=> edges[next].dst \in S)
    <3>1. \A x \in Records : root[x] \in {a, b} => (x \in S <=> n \in S)
      BY <1>2, <2>2, <2>4
    <3>2. (a \in S <=> n \in S) /\ (b \in S <=> n \in S)
      BY <1>1, <1>6, <3>1
    <3>3. \A x \in Records : x \in S <=> root[x] \in S
      BY <1>2, <2>2, <2>4, <3>1, <3>2
    <3>4. QED
      BY <1>6, <2>1, <3>2, <3>3
  <2>5. QED
    BY <2>3, <2>4
<1>16. ClassesAreComponents'
  <2> SUFFICES ASSUME NEW S \in SUBSET Records
               PROVE  UncutByRoots(S, root)' <=> UncutByEdges(S, edges, next, 0)
    BY <1>3 DEF ClassesAreComponents
  <2>1. UncutByRoots(S, root) <=> UncutByEdges(S, edges, next - 1, 0)
    BY <1>1 DEF IInv, ClassesAreComponents
  <2>2. QED
    BY <1>1, <1>7, <1>15, <2>1, NextEdge
<1>17. EventsReproduceEdges'
  <2> SUFFICES ASSUME NEW t \in Thresholds, NEW S \in SUBSET Records
               PROVE  UncutByEvents(S, events', Len(events'), t) <=> UncutByEdges(S, edges, next, t)
    BY <1>3 DEF EventsReproduceEdges
  <2>1. UncutByEvents(S, events, Len(events), t) <=> UncutByEdges(S, edges, next - 1, t)
    BY DEF IInv, EventsReproduceEdges
  <2>2. UncutByEvents(S, events', Len(events'), t)
          <=> /\ UncutByEvents(S, events, Len(events), t)
              /\ threshold >= t => \A x \in Class(c) : x \in S <=> e.parent_id \in S
    <3>1. \A k : k \in 1 .. Len(events') <=> k \in 1 .. Len(events) \/ k = Len(events')
      BY <1>7, <1>8, LenProperties
    <3>2. QED
      BY <1>4, <1>5, <1>8, <3>1 DEF UncutByEvents
  <2>3. ASSUME UncutByRoots(S, root)
        PROVE  (\A x \in Class(c) : x \in S <=> e.parent_id \in S)
                 <=> (edges[next].src \in S <=> edges[next].dst \in S)
    <3>1. \A x \in Records : x \in S <=> root[x] \in S
      BY <1>7, <2>3 DEF UncutByRoots
    <3>2. /\ c \in Class(c) /\ \A x \in Class(c) : x \in S <=> c \in S
          /\ e.parent_id \in S <=> p \in S
      BY <1>4, <1>6, <3>1 DEF Class
    <3>3. (edges[next].src \in S <=> a \in S) /\ (edges[next].dst \in S <=> b \in S)
      BY <1>6, <3>1
    <3>4. QED
      BY <1>4, <3>2, <3>3
  <2>4. CASE t <= threshold
    BY <1>1, <1>7, <2>1, <2>2, <2>3, <2>4, EdgesAtLevel, NextEdge
  <2>5. CASE ~ (t <= threshold)
    BY <1>1, <1>7, <2>1, <2>2, <2>5, NextEdge, ThresholdsAssumption
  <2>6. QED
    BY <2>4, <2>5
<1>18. IsHierarchy(events', Records) /\ Least'
  <2>1. \A r : Class(r) = ClassOf(root, r)
    BY DEF Class, ClassOf
  <2>2. /\ root[p] = p /\ root[c] = c /\ n \in {p, c}
        /\ root' = [x \in Records |-> IF root[x] \in {p, c} THEN n ELSE root[x]]
    BY <1>2, <1>4, <1>6
  <2>3. \A k \in 1 .. Len(events) : events[k].threshold >= e.threshold
    BY <1>1, <1>5 DEF IInv, EventLevels
  <2>4. /\ e.child_nodes = ClassOf(root, c) /\ e.parent_id \in ClassOf(root, p)
        /\ \A x \in ClassOf(root, p) \cup ClassOf(root, c) : e.parent_id <= x
    BY <1>4, <2>1
  <2>5. /\ IsHierarchy(events, Records)
        /\ \A x \in Records : Canonical(events, 0, x) = LeastOf(root, x)
    BY <1>1 DEF IInv, BuildsHierarchy, Least
  <2>6. PICK ev, roots, new, joined :
            ev = events /\ roots = root /\ new = e /\ joined = root'
    OBVIOUS
  <2>7. /\ ev \in Seq(MergeEvent) /\ roots \in [Records -> Records] /\ new \in MergeEvent
        /\ IsHierarchy(ev, Records)
        /\ \A x \in Records : Canonical(ev, 0, x) = LeastOf(roots, x)
    BY <1>5, <1>7, <2>5, <2>6
  <2>8. /\ p # c /\ roots[p] = p /\ roots[c] = c /\ n \in {p, c}
        /\ joined = [x \in Records |-> IF roots[x] \in {p, c} THEN n ELSE roots[x]]
    BY <1>4, <2>2, <2>6
  <2>9. /\ \A k \in 1 .. Len(ev) : ev[k].threshold >= new.threshold
        /\ new.child_nodes = ClassOf(roots, c) /\ new.parent_id \in ClassOf(roots, p)
        /\ \A x \in ClassOf(roots, p) \cup ClassOf(roots, c) : new.parent_id <= x
    BY <2>3, <2>4, <2>6
  <2>10. /\ IsHierarchy(Append(ev, new), Records)
         /\ \A x \in Records : Canonical(Append(ev, new), 0, x) = LeastOf(joined, x)
    <3>1. MergeOf(ev, roots, p, c, new, n, joined)
      BY <2>7, <2>8, <2>9 DEF MergeOf
    <3>2. QED
      BY <3>1, OneMoreEvent, SMT
  <2>11. QED
    BY <1>2, <2>6, <2>10 DEF Least
<1>19. BuildsHierarchy'
  <2> SUFFICES ASSUME NEW t \in Thresholds, NEW S \in SUBSET Records
               PROVE  UncutByRoots(S, [x \in Records |-> Canonical(events', t, x)])
                        <=> UncutByEdges(S, edges, next, t)
    BY <1>3, <1>18 DEF BuildsHierarchy
  <2>1. CASE t <= threshold
    <3>1. t \in Nat /\ \A k \in 1 .. Len(events') : events'[k].threshold >= t
      <4>1. t \in Nat
        BY ThresholdsAssumption
      <4>2. ASSUME NEW k \in 1 .. Len(events')
            PROVE  events'[k].threshold >= t
        <5>1. events'[k] \in MergeEvent
          BY <1>9, ElementOfSeq DEF TypeOK
        <5>2. events'[k].threshold \in Nat /\ events'[k].threshold >= threshold
          BY <1>1, <1>3, <1>13, <5>1, ThresholdsAssumption DEF EventLevels, MergeEvent
        <5>3. QED
          BY <1>7, <2>1, <4>1, <5>2
      <4>3. QED
        BY <4>1, <4>2
    <3>2. /\ events' \in Seq(MergeEvent) /\ root' \in [Records -> Records]
          /\ \A x \in Records : Canonical(events', 0, x) = LeastOf(root', x)
          /\ \A x \in Records : root'[root'[x]] = root'[x]
      BY <1>1, <1>3, <1>9, <1>11, <1>18 DEF TypeOK, Least, RootsFixed
    <3>3. UncutByRoots(S, [x \in Records |-> Canonical(events', t, x)]) <=> UncutByRoots(S, root')
      BY <3>1, <3>2, ReadsRoots
    <3>4. UncutByRoots(S, root') <=> UncutByEdges(S, edges, next, t)
      BY <1>1, <1>7, <1>15, <2>1, EdgesAtLevel, NextEdge
    <3>5. QED
      BY <3>3, <3>4
  <2>2. CASE ~ (t <= threshold)
    <3>1. ~ (threshold >= t)
      BY <1>7, <2>2, ThresholdsAssumption
    <3>2. \A x \in Records : Canonical(events', t, x) = Canonical(events, t, x)
      BY <1>2, <1>5, <1>7, <3>1, CanonicalNext
    <3>3. UncutByEdges(S, edges, next, t) <=> UncutByEdges(S, edges, next - 1, t)
      BY <1>1, <3>1, NextEdge
    <3>4. UncutByRoots(S, [x \in Records |-> Canonical(events, t, x)])
            <=> UncutByEdges(S, edges, next - 1, t)
      BY DEF IInv, BuildsHierarchy
    <3>5. QED
      BY <3>2, <3>3, <3>4
  <2>3. QED
    BY <2>1, <2>2
<1>20. QED
  BY <1>9, <1>10, <1>11, <1>12, <1>13, <1>14, <1>16, <1>17, <1>18, <1>19 DEF IInv

-----------------------------------------------------------------------------
(***************************************************************************)
(* The steps that change no component.                                     *)
(***************************************************************************)
LEMMA UnchangedHierarchy ==
    ASSUME IInv, UNCHANGED <<edges, next, root, events>>, status = "error" => status' = "error",
           TypeOK', Position', PairsSpent',
           EventLevels', BitmapsAreComponents'
    PROVE  IInv'
<1>1. Sorted' /\ RootsFixed' /\ EventsDescending'
  BY DEF IInv, Sorted, RootsFixed, EventsDescending
<1>2. ClassesAreComponents' /\ EventsReproduceEdges'
  BY DEF IInv, ClassesAreComponents, EventsReproduceEdges
<1>3. Least' /\ BuildsHierarchy'
  BY DEF IInv, Least, BuildsHierarchy
<1>4. QED
  BY <1>1, <1>2, <1>3 DEF IInv

LEMMA EndGroupPreserves == IInv /\ EndGroup => IInv'
<1> SUFFICES ASSUME IInv, EndGroup PROVE IInv'
  OBVIOUS
<1> USE DEF EndGroup, GroupEnded
<1>1. next \in 1 .. Len(edges) /\ edges \in Seq(Edge) /\ status = "building"
  BY LenProperties DEF IInv, TypeOK
<1>2. edges[next].weight \in Thresholds /\ edges[next].weight \in Nat
  BY <1>1, EdgeFields
<1>3. TypeOK'
  BY <1>2 DEF IInv, TypeOK
<1>4. edges[next].weight <= threshold /\ threshold \in Nat
  <2>1. next \in Nat /\ next >= next
    BY <1>1
  <2>2. QED
    BY <1>1, <2>1, ThresholdsAssumption DEF IInv, Position
<1>5. Position'
  <2> SUFFICES ASSUME NEW i \in 1 .. Len(edges)
               PROVE  /\ i < next => edges[i].weight >= edges[next].weight
                      /\ i >= next => edges[i].weight <= edges[next].weight
    BY <1>2 DEF Position
  <2>1. edges[i].weight \in Nat
    BY <1>1, EdgeFields
  <2>2. QED
    BY <1>1, <1>2, <2>1, LenProperties DEF IInv, Sorted
<1>6. EventLevels'
  <2> SUFFICES ASSUME NEW k \in 1 .. Len(events)
               PROVE  events[k].threshold >= edges[next].weight
    BY DEF EventLevels
  <2>1. events[k] \in MergeEvent
    BY ElementOfSeq DEF IInv, TypeOK
  <2>2. events[k].threshold \in Nat /\ events[k].threshold >= threshold
    BY <1>1, <2>1, ThresholdsAssumption DEF IInv, EventLevels, MergeEvent
  <2>3. QED
    BY <1>2, <1>4, <2>2
<1>7. PairsSpent' /\ BitmapsAreComponents'
  BY <1>1 DEF IInv, PairsSpent, BitmapsAreComponents, Class
<1>8. QED
  BY <1>3, <1>5, <1>6, <1>7, UnchangedHierarchy

(***************************************************************************)
(* What a failed push leaves: its events are those of the edges before it. *)
(***************************************************************************)
LEMMA PushFailsPreserves == IInv /\ PushFails => IInv'
<1> SUFFICES ASSUME IInv, PushFails PROVE IInv'
  OBVIOUS
<1> DEFINE a == RootSrc
           b == RootDst
<1>1. /\ status = "building" /\ status' = "error" /\ InGroup
      /\ a \in Records /\ b \in Records /\ root[a] = a /\ root[b] = b
      /\ UNCHANGED <<edges, next, threshold, events>>
  BY CurrentEdge DEF PushFails
<1>2. PICK n \in {a, b} :
        root' = [x \in Records |-> IF root[x] \in {a, b} THEN n ELSE root[x]]
  BY DEF PushFails, Union
<1>3. /\ active_components' = [x \in Records |-> IF x \in {a, b} THEN {} ELSE active_components[x]]
      /\ processed_pairs' = processed_pairs \cup {{a, b}}
  BY DEF PushFails
<1> HIDE DEF a, b
<1>4. TypeOK'
  <2>1. /\ active_components' \in [Records -> SUBSET Records]
        /\ root' \in [Records -> Records]
        /\ processed_pairs' \subseteq SUBSET Records
    BY <1>1, <1>2, <1>3 DEF IInv, TypeOK
  <2>2. QED
    BY <1>1, <2>1 DEF IInv, TypeOK
<1>5. Sorted' /\ RootsFixed' /\ EventsDescending'
  <2>1. RootsFixed'
    BY <1>1, <1>2 DEF IInv, TypeOK, RootsFixed
  <2>2. QED
    BY <1>1, <2>1 DEF IInv, Sorted, EventsDescending
<1>6. /\ Position' /\ PairsSpent' /\ EventLevels' /\ BitmapsAreComponents'
      /\ ClassesAreComponents' /\ Least'
  BY <1>1 DEF Position, PairsSpent, EventLevels, BitmapsAreComponents, ClassesAreComponents, Least
<1>7. EventsReproduceEdges' /\ BuildsHierarchy'
  BY <1>1 DEF IInv, EventsReproduceEdges, BuildsHierarchy
<1>8. QED
  BY <1>4, <1>5, <1>6, <1>7 DEF IInv

LEMMA StopPreserves == IInv /\ (ChainDetected \/ Finish) => IInv'
<1> SUFFICES ASSUME IInv, ChainDetected \/ Finish PROVE IInv'
  OBVIOUS
<1>1. /\ UNCHANGED <<edges, next, root, events>>
      /\ status = "building"
      /\ status' \in {"done", "error"}
      /\ threshold' = threshold
      /\ processed_pairs' \in {{}, processed_pairs}
      /\ active_components' \in {[x \in Records |-> {}], active_components}
  BY DEF ChainDetected, Finish, GroupEnded
<1>2. status' # "building"
  BY <1>1
<1>3. TypeOK'
  BY <1>1 DEF IInv, TypeOK
<1>4. Position' /\ EventLevels' /\ BitmapsAreComponents'
  BY <1>2 DEF Position, EventLevels, BitmapsAreComponents
<1>5. PairsSpent'
  BY <1>2 DEF PairsSpent
<1>6. QED
  BY <1>1, <1>3, <1>4, <1>5, UnchangedHierarchy

LEMMA NextPreserves == IInv /\ [Next]_vars => IInv'
<1> SUFFICES ASSUME IInv, [Next]_vars PROVE IInv'
  OBVIOUS
<1>1. CASE SkipEdge
  BY <1>1, SkipPreserves
<1>2. CASE MergeEdge
  BY <1>2, MergePreserves
<1>3. CASE EndGroup
  BY <1>3, EndGroupPreserves
<1>4. CASE ChainDetected \/ Finish
  BY <1>4, StopPreserves
<1>5. CASE UNCHANGED vars
  <2>1. TypeOK' /\ Position' /\ PairsSpent' /\ EventLevels' /\ BitmapsAreComponents'
    BY <1>5 DEF vars, IInv, TypeOK, Position, PairsSpent, EventLevels, BitmapsAreComponents, Class
  <2>2. QED
    BY <1>5, <2>1, UnchangedHierarchy DEF vars
<1>6. CASE PushFails
  BY <1>6, PushFailsPreserves
<1>7. QED
  BY <1>1, <1>2, <1>3, <1>4, <1>5, <1>6 DEF Next

LEMMA Invariance == Spec => []IInv
BY InitIInv, NextPreserves, PTL DEF Spec

-----------------------------------------------------------------------------
(***************************************************************************)
(* The state of a build keeps its types.                                   *)
(***************************************************************************)
THEOREM TypeCorrect == Spec => []TypeOK
<1>1. IInv => TypeOK
  BY DEF IInv
<1>2. QED
  BY <1>1, Invariance, PTL

(***************************************************************************)
(* Every bitmap build_merge_events merges or stores as a child is a whole  *)
(* component.                                                              *)
(***************************************************************************)
THEOREM BitmapsCorrect == Spec => []BitmapsAreComponents
<1>1. IInv => BitmapsAreComponents
  BY DEF IInv
<1>2. QED
  BY <1>1, Invariance, PTL

(***************************************************************************)
(* The union-find of a build holds the connected components of the edges   *)
(* processed so far.                                                       *)
(***************************************************************************)
THEOREM ClassesCorrect == Spec => []ClassesAreComponents
<1>1. IInv => ClassesAreComponents
  BY DEF IInv
<1>2. QED
  BY <1>1, Invariance, PTL

(***************************************************************************)
(* The stored events give, at every threshold, the connected components of *)
(* the edges at or above it.                                               *)
(***************************************************************************)
THEOREM EventsCorrect == Spec => []EventsReproduceEdges
<1>1. IInv => EventsReproduceEdges
  BY DEF IInv
<1>2. QED
  BY <1>1, Invariance, PTL

(***************************************************************************)
(* The stored events descend, so a reader may stop at the first one below  *)
(* its threshold.                                                          *)
(***************************************************************************)
THEOREM EventsOrdered == Spec => []EventsDescending
<1>1. IInv => EventsDescending
  BY DEF IInv
<1>2. QED
  BY <1>1, Invariance, PTL

(***************************************************************************)
(* What a build leaves is a hierarchy as metrics and frame analyses rely   *)
(* on, and the partition a reader takes from it at a threshold is that of  *)
(* the edges.                                                              *)
(***************************************************************************)
THEOREM HierarchyBuilt == Spec => []BuildsHierarchy
<1>1. IInv => BuildsHierarchy
  BY DEF IInv
<1>2. QED
  BY <1>1, Invariance, PTL

-----------------------------------------------------------------------------
(***************************************************************************)
(* Step simulation: the build implements single-linkage agglomeration.     *)
(***************************************************************************)
LEMMA MaxOfNaturals ==
    ASSUME NEW S \in SUBSET Nat, NEW m \in S, \A x \in S : x <= m
    PROVE  Max(S) = m
<1>1. \A n \in S : (\A x \in S : n >= x) => n = m
  OBVIOUS
<1>2. m \in S /\ \A x \in S : m >= x
  OBVIOUS
<1>3. QED
  BY <1>1, <1>2 DEF Max

LEMMA InitLinkage == Init => Linkage!Init
<1> SUFFICES ASSUME Init PROVE Linkage!Init
  OBVIOUS
<1>1. edges \in Seq(Edge) /\ Sorted
  BY EdgeListsAssumption DEF Init, Sorted
<1>2. threshold = IF edges = <<>> THEN 0 ELSE Max({edges[i].weight : i \in 1 .. Len(edges)})
  <2>1. CASE edges = <<>>
    BY <2>1 DEF Init
  <2>2. CASE edges # <<>>
    <3>1. 1 \in 1 .. Len(edges)
      BY <1>1, <2>2, EmptySeq, LenProperties
    <3>2. \A i \in 1 .. Len(edges) : edges[i].weight \in Nat
      BY <1>1, EdgeFields
    <3>3. \A i \in 1 .. Len(edges) : edges[i].weight <= edges[1].weight
      BY <1>1, <3>1, <3>2 DEF Sorted
    <3>4. Max({edges[i].weight : i \in 1 .. Len(edges)}) = edges[1].weight
      BY <3>1, <3>2, <3>3, MaxOfNaturals
    <3>5. QED
      BY <2>2, <3>4 DEF Init
  <2>3. QED
    BY <2>1, <2>2
<1>3. Blocks = {{x} : x \in Records}
  <2>1. \A x \in Records : root[x] = x /\ Class(x) = {x}
    BY DEF Init, Class
  <2>2. QED
    BY <2>1 DEF Blocks
<1>4. events = <<>>
  BY DEF Init
<1>5. edges \in Seq([src : Records, dst : Records, weight : Thresholds])
  BY <1>1 DEF Edge
<1>6. (status = "error") = FALSE
  BY DEF Init
<1>7. QED
  <2>1. \A S : Linkage!Max(S) = Max(S)
    BY DEF Linkage!Max, Max
  <2>2. QED
    BY <1>2, <1>3, <1>4, <1>5, <1>6, <2>1 DEF Linkage!Init

(***************************************************************************)
(* The endpoints of a processed edge are in one component.                 *)
(***************************************************************************)
LEMMA ProcessedEdges ==
    ASSUME IInv, status = "building", NEW i \in 1 .. Len(edges), i < next
    PROVE  root[edges[i].src] = root[edges[i].dst]
<1>1. /\ edges[i].src \in Records /\ edges[i].dst \in Records
      /\ edges[i].weight \in Nat /\ i \in 1 .. next - 1
  BY EdgeFields, LenProperties DEF IInv, TypeOK
<1> DEFINE S == Class(root[edges[i].src])
<1>2. UncutByRoots(S, root) /\ S \in SUBSET Records /\ edges[i].src \in S
  BY <1>1 DEF UncutByRoots, Class, IInv, TypeOK, RootsFixed
<1>3. UncutByEdges(S, edges, next - 1, 0)
  BY <1>2 DEF IInv, ClassesAreComponents
<1>4. edges[i].dst \in S
  BY <1>1, <1>2, <1>3 DEF UncutByEdges
<1>5. QED
  BY <1>4 DEF Class

(***************************************************************************)
(* uf.union replaces two blocks by one.                                    *)
(***************************************************************************)
LEMMA UnionJoins ==
    ASSUME IInv, NEW a \in Records, NEW b \in Records, root[a] = a, root[b] = b,
           NEW n \in {a, b},
           root' = [x \in Records |-> IF root[x] \in {a, b} THEN n ELSE root[x]]
    PROVE  Blocks' = (Blocks \ {Class(a), Class(b)}) \cup {Class(a) \cup Class(b)}
<1>0. root \in [Records -> Records] /\ n \in Records
  BY DEF IInv, TypeOK
<1>1. \A r \in Records : Class(r)' = IF r = n THEN Class(a) \cup Class(b)
                                     ELSE IF r \in {a, b} THEN {} ELSE Class(r)
  BY <1>0 DEF Class
<1>2. \A r \in Records : root'[r] = r <=> r = n \/ (r \notin {a, b} /\ root[r] = r)
  BY <1>0
<1>3. \A r \in Records : root[r] = r => r \in Class(r)
  BY DEF Class
<1>4. \A r, q \in Records : root[r] = r /\ Class(r) = Class(q) => r = q
  BY <1>3 DEF Class
<1>6. Blocks' = {Class(r)' : r \in {x \in Records : root'[x] = x}}
  BY DEF Blocks
<1>7. ASSUME NEW B \in Blocks'
      PROVE  B \in (Blocks \ {Class(a), Class(b)}) \cup {Class(a) \cup Class(b)}
  <2>1. PICK r \in Records : root'[r] = r /\ B = Class(r)'
    BY <1>6
  <2>2. CASE r = n
    BY <1>1, <2>1, <2>2
  <2>3. CASE r \notin {a, b} /\ root[r] = r
    BY <1>0, <1>1, <1>4, <2>1, <2>3 DEF Blocks
  <2>4. QED
    BY <1>2, <2>1, <2>2, <2>3
<1>8. ASSUME NEW B \in (Blocks \ {Class(a), Class(b)}) \cup {Class(a) \cup Class(b)}
      PROVE  B \in Blocks'
  <2>1. CASE B = Class(a) \cup Class(b)
    <3>1. n \in Records /\ root'[n] = n /\ Class(n)' = B
      BY <1>0, <1>1, <1>2, <2>1
    <3>2. QED
      BY <1>6, <3>1
  <2>2. CASE B \in Blocks /\ B # Class(a) /\ B # Class(b)
    <3>1. PICK r \in Records : root[r] = r /\ B = Class(r)
      BY <2>2 DEF Blocks
    <3>2. r \notin {a, b}
      BY <2>2, <3>1
    <3>3. root'[r] = r /\ Class(r)' = Class(r)
      BY <1>1, <1>2, <3>1, <3>2
    <3>4. QED
      BY <1>6, <3>1, <3>3
  <2>3. QED
    BY <2>1, <2>2
<1>9. QED
  BY <1>7, <1>8

LEMMA MergeLinkage == IInv /\ MergeEdge => Linkage!Next
<1> SUFFICES ASSUME IInv, MergeEdge PROVE Linkage!Next
  OBVIOUS
<1> DEFINE a == RootSrc
           b == RootDst
           e == EventFor(Class(a), Class(b))
<1>1. status = "building" /\ InGroup /\ a # b /\ a \in Records /\ b \in Records
  BY CurrentEdge DEF MergeEdge, Redundant
<1>2. PICK n \in {a, b} :
        /\ root' = [x \in Records |-> IF root[x] \in {a, b} THEN n ELSE root[x]]
        /\ events' = Append(events, e)
  <2>1. /\ Component(RootSrc, edges[next].src) = Class(a)
        /\ Component(RootDst, edges[next].dst) = Class(b)
    BY <1>1, BitmapsTaken
  <2> HIDE DEF e
  <2>2. e = EventFor(Class(a), Class(b))
    BY DEF e
  <2>3. QED
    BY <2>1, <2>2 DEF MergeEdge, Union
<1>3. PICK p, c \in Records :
        /\ {p, c} = {a, b} /\ p # c
        /\ e = [threshold |-> threshold, parent_id |-> Min(Class(p)), child_nodes |-> Class(c)]
        /\ e.parent_id \in Class(p)
        /\ \A x \in Class(p) \cup Class(c) : e.parent_id <= x
  BY <1>1, EventOfMerge
<1>4. /\ next \in 1 .. Len(edges)
      /\ edges[next].weight = threshold
      /\ root[a] = a /\ root[b] = b /\ a = root[edges[next].src] /\ b = root[edges[next].dst]
      /\ edges[next].src \in Records /\ edges[next].dst \in Records
      /\ root \in [Records -> Records]
  BY <1>1, CurrentEdge DEF RootSrc, RootDst, IInv, TypeOK
<1>5. UNCHANGED <<edges, threshold, status>>
  BY DEF MergeEdge
<1> HIDE DEF a, b, e
<1>6. Class(p) \in Blocks /\ Class(c) \in Blocks
  BY <1>3, <1>4 DEF Blocks
<1>7. p \in Class(p) /\ c \in Class(c) /\ Class(p) \cap Class(c) = {}
  BY <1>3, <1>4 DEF Class
<1>8. Min(Class(p)) < Min(Class(c))
  <2>1. Class(c) \in SUBSET Nat /\ Class(p) \in SUBSET Nat
    BY NumRecordsAssumption DEF Class, Records
  <2>2. Min(Class(c)) \in Class(c)
    BY <1>7, <2>1, MinOfNaturals
  <2>3. Min(Class(p)) \in Class(p) /\ Min(Class(p)) <= Min(Class(c))
    BY <1>3, <2>2
  <2>4. Min(Class(p)) \in Nat /\ Min(Class(c)) \in Nat /\ Min(Class(p)) # Min(Class(c))
    BY <1>7, <2>1, <2>2, <2>3
  <2>5. QED
    BY <2>3, <2>4
<1>9. Linkage!Joins(next, Class(p), Class(c))
  <2>1. edges[next].src \in Class(a) /\ edges[next].dst \in Class(b)
    BY <1>4 DEF Class
  <2>2. QED
    BY <1>3, <2>1 DEF Linkage!Joins
<1>10. Blocks' = (Blocks \ {Class(p), Class(c)}) \cup {Class(p) \cup Class(c)}
  <2>1. /\ root[p] = p /\ root[c] = c /\ n \in {p, c}
        /\ root' = [x \in Records |-> IF root[x] \in {p, c} THEN n ELSE root[x]]
    BY <1>2, <1>3, <1>4
  <2>2. QED
    BY <2>1, UnionJoins
<1>11. Linkage!Merge(Class(p), Class(c))
  <2>1. \A S : Linkage!Min(S) = Min(S)
    BY DEF Linkage!Min, Min
  <2>2. Class(p) # Class(c)
    BY <1>7
  <2>3. events' = Append(events, [threshold |-> threshold, parent_id |-> Linkage!Min(Class(p)),
                                  child_nodes |-> Class(c)])
    BY <1>2, <1>3, <2>1
  <2>4. QED
    BY <1>1, <1>4, <1>5, <1>8, <1>9, <1>10, <2>1, <2>2, <2>3 DEF Linkage!Merge, Linkage!Joined
<1>12. QED
  BY <1>6, <1>11 DEF Linkage!Next

(***************************************************************************)
(* A failed push stops agglomeration between a join and its log entry.     *)
(***************************************************************************)
LEMMA PushFailsLinkage == IInv /\ PushFails => Linkage!Next
<1> SUFFICES ASSUME IInv, PushFails PROVE Linkage!Fail
  BY DEF Linkage!Next
<1> DEFINE a == RootSrc
           b == RootDst
<1>1. /\ status = "building" /\ status' = "error" /\ InGroup /\ a # b
      /\ a \in Records /\ b \in Records /\ root[a] = a /\ root[b] = b
      /\ next \in 1 .. Len(edges) /\ edges[next].weight = threshold
      /\ UNCHANGED <<edges, threshold, events>>
  BY CurrentEdge DEF PushFails, Redundant
<1>2. edges[next].src \in Class(a) /\ edges[next].dst \in Class(b)
  BY CurrentEdge, <1>1 DEF Class, RootSrc, RootDst
<1>3. PICK p, c \in Records : p = a /\ c = b
  BY <1>1
<1>4. PICK n \in {p, c} :
        root' = [x \in Records |-> IF root[x] \in {p, c} THEN n ELSE root[x]]
  BY <1>3 DEF PushFails, Union
<1> HIDE DEF a, b
<1>5. /\ root[p] = p /\ root[c] = c
      /\ Class(p) # Class(c) /\ Class(p) \in Blocks /\ Class(c) \in Blocks
  BY <1>1, <1>3 DEF Class, Blocks
<1>6. Linkage!Joined(Class(p), Class(c))
  <2>1. Blocks' = (Blocks \ {Class(p), Class(c)}) \cup {Class(p) \cup Class(c)}
    BY <1>4, <1>5, UnionJoins
  <2>2. QED
    BY <1>1, <1>2, <1>3, <1>5, <2>1 DEF Linkage!Joined, Linkage!Joins
<1>7. QED
  BY <1>1, <1>5, <1>6 DEF Linkage!Fail

LEMMA EndGroupLinkage == IInv /\ EndGroup => Linkage!Next
<1> SUFFICES ASSUME IInv, EndGroup PROVE Linkage!Lower
  BY DEF Linkage!Next
<1>1. /\ next \in 1 .. Len(edges) /\ edges \in Seq(Edge) /\ status = "building"
      /\ edges[next].weight # threshold
  BY LenProperties DEF IInv, TypeOK, EndGroup, GroupEnded, InGroup
<1>2. threshold \in Nat /\ \A i \in 1 .. Len(edges) : edges[i].weight \in Nat
  BY <1>1, EdgeFields, ThresholdsAssumption DEF IInv, Position
<1>3. edges[next].weight < threshold
  <2>1. next \in Nat /\ next >= next
    BY <1>1
  <2>2. QED
    BY <1>1, <1>2, <2>1 DEF IInv, Position
<1>4. \A i \in 1 .. Len(edges) : edges[i].weight = threshold => i < next
  <2> SUFFICES ASSUME NEW i \in 1 .. Len(edges), i >= next
               PROVE  edges[i].weight < threshold
    BY <1>1, <1>2
  <2>1. edges[i].weight <= edges[next].weight
    BY <1>1, <1>2 DEF IInv, Sorted
  <2>2. QED
    BY <1>1, <1>2, <1>3, <2>1
<1>5. ASSUME NEW P \in Blocks, NEW C \in Blocks, P # C, NEW i \in 1 .. Len(edges),
             edges[i].weight = threshold, Linkage!Joins(i, P, C)
      PROVE  FALSE
  <2>1. root[edges[i].src] = root[edges[i].dst]
    BY <1>1, <1>4, <1>5, ProcessedEdges
  <2>2. PICK p \in Records, c \in Records : P = Class(p) /\ C = Class(c)
    BY DEF Blocks
  <2>3. QED
    BY <1>5, <2>1, <2>2 DEF Linkage!Joins, Class
<1>6. \A j \in 1 .. Len(edges) : edges[j].weight < threshold => edges[j].weight <= edges[next].weight
  <2> SUFFICES ASSUME NEW j \in 1 .. Len(edges), edges[j].weight < threshold
               PROVE  edges[j].weight <= edges[next].weight
    OBVIOUS
  <2>1. j >= next
    BY <1>1, <1>2 DEF IInv, Position
  <2>2. QED
    BY <1>1, <1>2, <2>1 DEF IInv, Sorted
<1>7. /\ threshold' = edges[next].weight
      /\ UNCHANGED <<edges, root, events, status>>
  BY DEF EndGroup
<1>8. Blocks' = Blocks
  BY <1>7 DEF Blocks, Class
<1>9. QED
  BY <1>1, <1>3, <1>5, <1>6, <1>7, <1>8 DEF Linkage!Lower

(***************************************************************************)
(* HierarchyBuilder implements SingleLinkage: the events a build stores    *)
(* are those of single-linkage agglomeration, in its order.                *)
(***************************************************************************)
THEOREM Implementation == Spec => ImplementsSingleLinkage
<1>1. Init => Linkage!Init
  BY InitLinkage
<1>2. IInv /\ [Next]_vars
        => [Linkage!Next]_<<edges, threshold, Blocks, events, status = "error">>
  <2> SUFFICES ASSUME IInv, [Next]_vars
               PROVE  [Linkage!Next]_<<edges, threshold, Blocks, events, status = "error">>
    OBVIOUS
  <2>1. CASE MergeEdge
    BY <2>1, MergeLinkage
  <2>2. CASE EndGroup
    BY <2>2, EndGroupLinkage
  <2>3. CASE PushFails
    BY <2>3, PushFailsLinkage
  <2>4. CASE SkipEdge \/ ChainDetected \/ Finish \/ UNCHANGED vars
    <3>1. UNCHANGED <<edges, threshold, root, events>>
      BY <2>4 DEF SkipEdge, ChainDetected, Finish, vars
    <3>2. UNCHANGED Blocks
      BY <3>1 DEF Blocks, Class
    <3>3. \/ UNCHANGED (status = "error")
          \/ status # "error" /\ (status' = "error") = TRUE
      BY <2>4 DEF SkipEdge, ChainDetected, Finish, GroupEnded, vars
    <3>4. QED
      BY <3>1, <3>2, <3>3 DEF Linkage!Next, Linkage!Fail
  <2>5. QED
    BY <2>1, <2>2, <2>3, <2>4 DEF Next
<1>3. QED
  BY <1>1, <1>2, Invariance, PTL DEF Spec, ImplementsSingleLinkage, Linkage!Spec
=============================================================================
