------------------------ MODULE FrameTranslationProofs ------------------------
(***************************************************************************)
(* Proofs about FrameTranslation for any names, contexts and hierarchies;  *)
(* the theorems that speak of InOrder or FromOrdered are about hierarchies *)
(* whose records are numbered by position.                                 *)
(***************************************************************************)
EXTENDS FrameTranslation, SequenceTheorems, FiniteSetTheorems, TLAPS

(***************************************************************************)
(* What is assumed of a source hierarchy.                                  *)
(***************************************************************************)
LEMMA SourceFacts ==
    ASSUME NEW c \in Sources
    PROVE  /\ RecordsOf[c] \in Seq(Identities)
           /\ Len(RecordsOf[c]) \in Nat
           /\ DOMAIN RecordsOf[c] = 1 .. Len(RecordsOf[c])
           /\ \A p \in DOMAIN RecordsOf[c] : RecordsOf[c][p] \in Identities
           /\ EventsOf[c] \in Seq(Event({IdsOf[c][p] : p \in DOMAIN RecordsOf[c]}))
           /\ Len(EventsOf[c]) \in Nat /\ DOMAIN EventsOf[c] = 1 .. Len(EventsOf[c])
           /\ \A k \in DOMAIN EventsOf[c] :
                    EventsOf[c][k] \in Event({IdsOf[c][p] : p \in DOMAIN RecordsOf[c]})
<1>1. /\ RecordsOf[c] \in Seq(Identities)
      /\ EventsOf[c] \in Seq(Event({IdsOf[c][p] : p \in DOMAIN RecordsOf[c]}))
  BY SourcesAssumption
<1>2. QED
  BY <1>1, LenProperties, ElementOfSeq

(***************************************************************************)
(* Where records are numbered by position, every id of an event is the     *)
(* position of a record.                                                   *)
(***************************************************************************)
LEMMA IdsArePositions ==
    ASSUME NEW c \in Sources, InOrder(c), NEW k \in DOMAIN EventsOf[c],
           NEW id \in EventsOf[c][k].child_nodes \cup {EventsOf[c][k].parent_id}
    PROVE  id \in 0 .. Len(RecordsOf[c]) - 1 /\ id + 1 \in DOMAIN RecordsOf[c]
<1>1. EventsOf[c][k] \in Event({IdsOf[c][p] : p \in DOMAIN RecordsOf[c]})
  BY SourceFacts
<1>2. PICK p \in DOMAIN RecordsOf[c] : id = IdsOf[c][p]
  BY <1>1 DEF Event
<1>3. id = p - 1
  BY <1>2 DEF InOrder
<1>4. p \in 1 .. Len(RecordsOf[c]) /\ Len(RecordsOf[c]) \in Nat
  BY SourceFacts
<1>5. id + 1 = p /\ id \in 0 .. Len(RecordsOf[c]) - 1
  BY <1>3, <1>4
<1>6. QED
  BY <1>5

(***************************************************************************)
(* What is read of a source's events is the first of them.                 *)
(***************************************************************************)
LEMMA ReadsFacts ==
    ASSUME NEW c \in Sources, NEW read \in Reads(c)
    PROVE  /\ read \in 0 .. Len(EventsOf[c])
           /\ 1 .. read \subseteq DOMAIN EventsOf[c]
           /\ Len(SubSeq(EventsOf[c], 1, read)) = read
           /\ DOMAIN SubSeq(EventsOf[c], 1, read) = 1 .. read
           /\ \A k \in 1 .. read : SubSeq(EventsOf[c], 1, read)[k] = EventsOf[c][k]
<1>1. Len(EventsOf[c]) \in Nat /\ DOMAIN EventsOf[c] = 1 .. Len(EventsOf[c])
  BY SourceFacts
<1>2. read \in 0 .. Len(EventsOf[c])
  BY <1>1 DEF Reads
<1> DEFINE n == Len(EventsOf[c])
           sub == SubSeq(EventsOf[c], 1, read)
<1>3. sub = [k \in 1 .. read |-> EventsOf[c][k]]
  <2>1. sub = [k \in 1 .. (1 + read) - 1 |-> EventsOf[c][k + 1 - 1]]
    BY <1>1, <1>2
  <2>2. (1 + read) - 1 = read /\ \A k \in 1 .. read : k + 1 - 1 = k
    BY <1>1, <1>2
  <2> HIDE DEF sub
  <2>3. QED
    BY <2>1, <2>2
<1>4. Len(sub) = read
  BY <1>1, <1>2
<1> HIDE DEF sub
<1>5. DOMAIN sub = 1 .. read /\ \A k \in 1 .. read : sub[k] = EventsOf[c][k]
  BY <1>3
<1>6. 1 .. read \subseteq DOMAIN EventsOf[c]
  BY <1>1, <1>2
<1>7. QED
  BY <1>2, <1>4, <1>5, <1>6 DEF sub

-----------------------------------------------------------------------------
(***************************************************************************)
(* The invariant: numbers are handed out in order and once each; what has  *)
(* been translated so far is what the map says; and the events of a        *)
(* collection are those read of its source with the map's numbers for ids, *)
(* not one missing.                                                        *)
(***************************************************************************)
Numbered ==
    /\ \A i \in Identities : identity_map[i] # None => identity_map[i] < next_record_id
    /\ \A i, j \in Identities :
            identity_map[i] # None /\ identity_map[i] = identity_map[j] => i = j

InTranslation ==
    adding # None =>
        /\ Len(old_to_new) <= Len(Source)
        /\ \A p \in 1 .. Len(old_to_new) : old_to_new[p] = identity_map[Source[p]]

NumberOf(map, c, id) == map[RecordsOf[c][id + 1]]

Renumbered(map, c, merge) ==
    [threshold |-> merge.threshold,
     parent_id |-> NumberOf(map, c, merge.parent_id),
     child_nodes |-> {NumberOf(map, c, id) : id \in merge.child_nodes}]

Rewritten(map, c, read, events) ==
    /\ \A p \in DOMAIN RecordsOf[c] : map[RecordsOf[c][p]] # None
    /\ \A i \in DOMAIN events : \E k \in 1 .. read :
            events[i] = Renumbered(map, c, EventsOf[c][k])
    /\ \A k \in 1 .. read : \E i \in DOMAIN events :
            events[i] = Renumbered(map, c, EventsOf[c][k])

RewrittenFrom(map, c, events) == \E read \in Reads(c) : Rewritten(map, c, read, events)

AllRewritten ==
    \A n \in Names :
        FromOrdered(collections[n])
            => RewrittenFrom(identity_map, collections[n].source, collections[n].events)

IInv ==
    /\ TypeOK
    /\ Numbered
    /\ InTranslation
    /\ AllRewritten
    /\ NeverUndercounts

LEMMA InitHolds == Init => IInv
<1> SUFFICES ASSUME Init PROVE IInv
  OBVIOUS
<1>1. TypeOK
  BY IdLimitAssumption DEF Init, TypeOK, Numbers
<1>2. Numbered /\ InTranslation /\ AllRewritten
  BY DEF Init, Numbered, InTranslation, AllRewritten, FromOrdered
<1>3. NeverUndercounts
  BY DEF Init, NeverUndercounts
<1>4. QED
  BY <1>1, <1>2, <1>3 DEF IInv

-----------------------------------------------------------------------------
(***************************************************************************)
(* The context: a number drawn from the counter is new.                    *)
(***************************************************************************)
Stable == \A i \in Identities : identity_map[i] # None => identity_map'[i] = identity_map[i]

LEMMA NumberDrawn ==
    ASSUME TypeOK, Numbered, NEW i \in Identities,
           identity_map[i] = None, next_record_id < IdLimit,
           identity_map' = [identity_map EXCEPT ![i] = next_record_id],
           next_record_id' = next_record_id + 1
    PROVE  Numbered' /\ Stable
<1>1. /\ next_record_id \in Nat
      /\ \A j \in Identities : identity_map[j] \in Nat \cup {None}
      /\ identity_map \in [Identities -> Numbers \cup {None}]
  BY IdLimitAssumption DEF TypeOK, Numbers
<1>2. \A j \in Identities :
        identity_map'[j] = IF j = i THEN next_record_id ELSE identity_map[j]
  BY <1>1
<1>3. ASSUME NEW j \in Identities, identity_map'[j] # None
      PROVE  identity_map'[j] < next_record_id'
  <2>1. CASE j = i
    BY <1>1, <1>2, <2>1
  <2>2. CASE j # i
    <3>1. identity_map[j] \in Nat /\ identity_map[j] < next_record_id
      BY <1>1, <1>2, <1>3, <2>2 DEF Numbered
    <3>2. QED
      BY <1>1, <1>2, <2>2, <3>1
  <2>3. QED
    BY <2>1, <2>2
<1>4. ASSUME NEW j \in Identities, NEW k \in Identities,
             identity_map'[j] # None, identity_map'[j] = identity_map'[k]
      PROVE  j = k
  <2>1. \A l \in Identities : l # i /\ identity_map[l] # None => identity_map[l] # next_record_id
    BY <1>1 DEF Numbered
  <2>2. CASE j = i \/ k = i
    BY <1>2, <1>4, <2>1, <2>2
  <2>3. CASE j # i /\ k # i
    BY <1>2, <1>4, <2>3 DEF Numbered
  <2>4. QED
    BY <2>2, <2>3
<1>5. QED
  BY <1>2, <1>3, <1>4 DEF Numbered, Stable

LEMMA MapStep ==
    ASSUME IInv, [Next]_vars
    PROVE  /\ identity_map' \in [Identities -> Numbers \cup {None}]
           /\ next_record_id' \in 0 .. IdLimit
           /\ Numbered'
           /\ Stable
<1>1. /\ TypeOK /\ Numbered /\ next_record_id \in Nat /\ IdLimit \in Nat
      /\ identity_map \in [Identities -> Numbers \cup {None}]
      /\ next_record_id \in 0 .. IdLimit
  BY IdLimitAssumption DEF IInv, TypeOK
<1>2. ASSUME NEW i \in Identities, identity_map[i] = None, next_record_id < IdLimit,
             identity_map' = [identity_map EXCEPT ![i] = next_record_id],
             next_record_id' = next_record_id + 1
      PROVE  /\ identity_map' \in [Identities -> Numbers \cup {None}]
             /\ next_record_id' \in 0 .. IdLimit
             /\ Numbered' /\ Stable
  <2>1. next_record_id \in Numbers /\ next_record_id' \in 0 .. IdLimit
    BY <1>1, <1>2 DEF Numbers
  <2>2. Numbered' /\ Stable
    BY <1>1, <1>2, NumberDrawn
  <2>3. QED
    BY <1>1, <1>2, <2>1, <2>2
<1>3. ASSUME identity_map' = identity_map, next_record_id' = next_record_id
      PROVE  /\ identity_map' \in [Identities -> Numbers \cup {None}]
             /\ next_record_id' \in 0 .. IdLimit
             /\ Numbered' /\ Stable
  BY <1>1, <1>3 DEF Numbered, Stable
<1>4. CASE Grow
  <2>1. PICK i \in Identities : identity_map[i] = None /\
            identity_map' \in {identity_map, [identity_map EXCEPT ![i] = next_record_id]}
    BY <1>4 DEF Grow
  <2>2. next_record_id < IdLimit /\ next_record_id' = next_record_id + 1
    BY <1>4 DEF Grow
  <2>3. CASE identity_map' = identity_map
    <3>1. next_record_id' \in 0 .. IdLimit
      BY <1>1, <2>2
    <3>2. \A j \in Identities : identity_map[j] # None => identity_map[j] < next_record_id'
      <4>1. \A j \in Identities : identity_map[j] \in Nat \cup {None}
        BY <1>1 DEF Numbers
      <4>2. QED
        BY <1>1, <2>2, <4>1 DEF Numbered
    <3>3. QED
      BY <1>1, <2>3, <3>1, <3>2 DEF Numbered, Stable
  <2>4. QED
    BY <1>2, <2>1, <2>2, <2>3
<1>5. CASE CreateRecord
  <2>1. Source[OldIdx + 1] \in Identities
    <3>1. adding # None /\ adding.source \in Sources /\ Len(old_to_new) \in Nat
          /\ Len(old_to_new) < Len(Source)
      BY <1>1, <1>5, LenProperties DEF CreateRecord, Resolved, TypeOK, Call, OldIdx
    <3>2. Len(old_to_new) + 1 \in DOMAIN RecordsOf[adding.source]
      BY <3>1, SourceFacts DEF Source
    <3>3. QED
      BY <3>1, <3>2, SourceFacts DEF Source, OldIdx
  <2>2. QED
    BY <1>2, <1>5, <2>1 DEF CreateRecord
<1>6. QED
  BY <1>3, <1>4, <1>5 DEF Next, vars, AddShared, AddInPlace, StartAdd, FindRecord, FailResolve,
                          FinishAdd, FailAdd, RemoveCollection

-----------------------------------------------------------------------------
(***************************************************************************)
(* Translating a record.                                                   *)
(***************************************************************************)
LEMMA CallFacts ==
    ASSUME TypeOK, adding # None
    PROVE  /\ adding \in Call /\ adding.source \in Sources /\ adding.name \in Names
           /\ Source \in Seq(Identities) /\ Len(Source) \in Nat
           /\ \A p \in 1 .. Len(Source) : Source[p] \in Identities
           /\ old_to_new \in Seq(Numbers) /\ Len(old_to_new) \in Nat
<1>1. adding \in Call /\ old_to_new \in Seq(Numbers)
  BY DEF TypeOK
<1>2. adding.source \in Sources /\ adding.name \in Names
  BY <1>1 DEF Call
<1>3. QED
  BY <1>1, <1>2, SourceFacts, LenProperties DEF Source

LEMMA TranslatedStep ==
    ASSUME IInv, adding # None, OldIdx < Len(Source), NEW new_idx \in Numbers,
           Translated(new_idx), identity_map'[Source[OldIdx + 1]] = new_idx, Stable
    PROVE  InTranslation' /\ old_to_new' \in Seq(Numbers)
<1>1. /\ Len(old_to_new) \in Nat /\ Len(Source) \in Nat /\ Len(old_to_new) < Len(Source)
      /\ old_to_new \in Seq(Numbers)
      /\ \A p \in 1 .. Len(Source) : Source[p] \in Identities
  BY CallFacts DEF IInv, OldIdx
<1>2. adding' = adding /\ old_to_new' = Append(old_to_new, new_idx)
  BY DEF Translated
<1>3. /\ old_to_new' \in Seq(Numbers)
      /\ Len(old_to_new') = Len(old_to_new) + 1
      /\ \A p \in 1 .. Len(old_to_new) : old_to_new'[p] = old_to_new[p]
      /\ old_to_new'[Len(old_to_new) + 1] = new_idx
  BY <1>1, <1>2, AppendProperties
<1>4. Source' = Source
  BY <1>2 DEF Source
<1>5. ASSUME NEW p \in 1 .. Len(old_to_new')
      PROVE  old_to_new'[p] = identity_map'[Source[p]]
  <2>1. CASE p = Len(old_to_new) + 1
    BY <1>3, <2>1 DEF OldIdx
  <2>2. CASE p # Len(old_to_new) + 1
    <3>1. p \in 1 .. Len(old_to_new)
      BY <1>1, <1>3, <1>5, <2>2
    <3>2. old_to_new[p] = identity_map[Source[p]] /\ old_to_new[p] \in Numbers
      BY <1>1, <3>1, ElementOfSeq DEF IInv, InTranslation
    <3>3. Source[p] \in Identities /\ identity_map[Source[p]] # None
      <4>1. p \in 1 .. Len(Source)
        BY <1>1, <3>1
      <4>2. QED
        BY <1>1, <3>2, <4>1, NoneAssumption DEF Numbers
    <3>4. QED
      BY <1>3, <3>1, <3>2, <3>3 DEF Stable
  <2>3. QED
    BY <2>1, <2>2
<1>6. QED
  BY <1>1, <1>3, <1>4, <1>5 DEF InTranslation

(***************************************************************************)
(* The numbers of the records translated so far are all different, and     *)
(* below the counter: there are no more of them than it has counted.       *)
(***************************************************************************)
LEMMA TranslatedBelowCounter ==
    ASSUME IInv, adding # None
    PROVE  Len(old_to_new) <= next_record_id
<1> DEFINE n == Len(old_to_new)
           Drawn == 0 .. next_record_id - 1
<1>1. /\ n \in Nat /\ n <= Len(Source) /\ Len(Source) \in Nat
      /\ next_record_id \in Nat
      /\ adding.source \in Sources
  BY CallFacts, IdLimitAssumption DEF IInv, TypeOK, InTranslation
<1>2. ASSUME NEW p \in 1 .. n
      PROVE  /\ p \in DOMAIN RecordsOf[adding.source] /\ Source[p] \in Identities
             /\ old_to_new[p] = identity_map[Source[p]]
             /\ old_to_new[p] # None /\ old_to_new[p] \in Drawn
  <2>1. p \in DOMAIN RecordsOf[adding.source] /\ Source[p] \in Identities
    <3>1. p \in 1 .. Len(Source)
      BY <1>1
    <3>2. QED
      BY <1>1, <3>1, SourceFacts, CallFacts DEF IInv, Source
  <2>2. old_to_new[p] = identity_map[Source[p]]
    BY DEF IInv, InTranslation
  <2>3. old_to_new[p] \in Nat
    <3>1. old_to_new \in Seq(Numbers) /\ p \in 1 .. Len(old_to_new)
      BY CallFacts DEF IInv
    <3>2. old_to_new[p] \in Numbers
      BY <3>1, ElementOfSeq
    <3>3. QED
      BY <3>2 DEF Numbers
  <2>4. old_to_new[p] < next_record_id
    BY <2>1, <2>2, <2>3, NoneAssumption DEF IInv, Numbered
  <2>5. QED
    BY <1>1, <2>1, <2>2, <2>3, <2>4, NoneAssumption
<1> DEFINE Number == [p \in 1 .. n |-> old_to_new[p]]
<1>3. Number \in Injection(1 .. n, Drawn)
  <2>1. Number \in [1 .. n -> Drawn]
    BY <1>2
  <2>2. ASSUME NEW p \in 1 .. n, NEW q \in 1 .. n, Number[p] = Number[q] PROVE p = q
    <3>1. Source[p] = Source[q]
      BY <1>2, <2>2 DEF IInv, Numbered
    <3>2. QED
      BY <1>1, <1>2, <3>1, SourcesAssumption DEF Source
  <2>3. QED
    BY <2>1, <2>2 DEF Injection, IsInjective
<1>4. /\ IsFiniteSet(1 .. n) /\ Cardinality(1 .. n) = n
      /\ IsFiniteSet(Drawn) /\ Cardinality(Drawn) = next_record_id
  <2>1. 0 \in Int /\ 1 \in Int /\ n \in Int /\ next_record_id - 1 \in Int
    BY <1>1
  <2>2. IsFiniteSet(1 .. n) /\ IsFiniteSet(Drawn)
    BY <2>1, FS_Interval, Zenon
  <2>3. Cardinality(1 .. n) = IF 1 > n THEN 0 ELSE n - 1 + 1
    BY <2>1, FS_Interval, Zenon
  <2>4. Cardinality(Drawn) = IF 0 > next_record_id - 1 THEN 0 ELSE next_record_id - 1 - 0 + 1
    BY <2>1, FS_Interval, Zenon
  <2> HIDE DEF n, Drawn
  <2>5. QED
    BY <1>1, <2>2, <2>3, <2>4
<1>5. QED
  <2>1. next_record_id \in Nat /\ n \in Nat
    BY <1>1
  <2> HIDE DEF Number, n, Drawn
  <2>2. Cardinality(1 .. n) <= Cardinality(Drawn)
    BY <1>3, <1>4, FS_Injection
  <2>3. n <= next_record_id
    BY <1>4, <2>2
  <2>4. QED
    BY <2>3 DEF n

-----------------------------------------------------------------------------
(***************************************************************************)
(* What a collection says stays true while the context grows.              *)
(***************************************************************************)
LEMMA RewrittenStays ==
    ASSUME NEW c \in Sources, InOrder(c), NEW events, RewrittenFrom(identity_map, c, events),
           Stable
    PROVE  RewrittenFrom(identity_map', c, events)
<1>. PICK read \in Reads(c) : Rewritten(identity_map, c, read, events)
  BY DEF RewrittenFrom
<1>1. ASSUME NEW p \in DOMAIN RecordsOf[c]
      PROVE  identity_map'[RecordsOf[c][p]] = identity_map[RecordsOf[c][p]]
  <2>1. RecordsOf[c][p] \in Identities
    BY SourceFacts
  <2>2. QED
    BY <2>1 DEF Rewritten, Stable
<1>2. ASSUME NEW k \in DOMAIN EventsOf[c]
      PROVE  Renumbered(identity_map', c, EventsOf[c][k]) = Renumbered(identity_map, c, EventsOf[c][k])
  <2> DEFINE merge == EventsOf[c][k]
  <2>1. ASSUME NEW id \in merge.child_nodes \cup {merge.parent_id}
        PROVE  NumberOf(identity_map', c, id) = NumberOf(identity_map, c, id)
    <3>1. id + 1 \in DOMAIN RecordsOf[c]
      BY IdsArePositions
    <3>2. QED
      BY <1>1, <3>1 DEF NumberOf
  <2>2. NumberOf(identity_map', c, merge.parent_id) = NumberOf(identity_map, c, merge.parent_id)
    BY <2>1
  <2>3. {NumberOf(identity_map', c, id) : id \in merge.child_nodes}
            = {NumberOf(identity_map, c, id) : id \in merge.child_nodes}
    BY <2>1
  <2>4. QED
    BY <2>2, <2>3 DEF Renumbered
<1>3. \A p \in DOMAIN RecordsOf[c] : identity_map'[RecordsOf[c][p]] # None
  BY <1>1 DEF Rewritten
<1>4. \A k \in 1 .. read : Renumbered(identity_map', c, EventsOf[c][k])
                                = Renumbered(identity_map, c, EventsOf[c][k])
  BY <1>2, ReadsFacts
<1>5. Rewritten(identity_map', c, read, events)
  BY <1>3, <1>4 DEF Rewritten
<1>6. QED
  BY <1>5 DEF RewrittenFrom

(***************************************************************************)
(* The collection that a call adds.                                        *)
(***************************************************************************)
LEMMA Finished ==
    ASSUME IInv, FinishAdd
    PROVE  \E events \in Seq(Event(Numbers)) :
                /\ collections' = Insert(adding.name, [source |-> adding.source,
                                                       events |-> events])
                /\ InOrder(adding.source)
                        => RewrittenFrom(identity_map, adding.source, events)
<1> DEFINE c == adding.source
<1>1. adding # None /\ Len(old_to_new) = Len(Source)
  BY DEF FinishAdd, AllTranslated, OldIdx
<1>2. /\ c \in Sources /\ Len(Source) \in Nat /\ old_to_new \in Seq(Numbers)
      /\ \A p \in 1 .. Len(Source) : Source[p] \in Identities
  BY <1>1, CallFacts DEF IInv
<1>0. PICK read \in Reads(c) :
        LET merges == SubSeq(EventsOf[c], 1, read)
        IN  /\ \A k \in DOMAIN merges : merges[k].parent_id \in Known
            /\ \E kept \in Numberings(merges) :
                collections' = Insert(adding.name, [source |-> c,
                    events |-> [i \in DOMAIN kept |-> TranslateEvent(merges[kept[i]])]])
  BY DEF FinishAdd
<1> DEFINE merges == SubSeq(EventsOf[c], 1, read)
           stay == {k \in DOMAIN merges : TranslateBitmap(merges[k].child_nodes) # {}}
<1>R. /\ read \in Nat /\ DOMAIN merges = 1 .. read
      /\ \A k \in DOMAIN merges : k \in DOMAIN EventsOf[c] /\ merges[k] = EventsOf[c][k]
  <2>1. Len(EventsOf[c]) \in Nat
    BY <1>2, SourceFacts
  <2>2. /\ read \in 0 .. Len(EventsOf[c]) /\ DOMAIN merges = 1 .. read
        /\ 1 .. read \subseteq DOMAIN EventsOf[c]
        /\ \A k \in 1 .. read : merges[k] = EventsOf[c][k]
    BY <1>2, ReadsFacts
  <2>3. QED
    BY <2>1, <2>2
<1>3. \A k \in DOMAIN merges : merges[k].parent_id \in Known
  BY <1>0
<1>4. PICK kept \in Numberings(merges) :
        collections' = Insert(adding.name, [source |-> c,
            events |-> [i \in DOMAIN kept |-> TranslateEvent(merges[kept[i]])]])
  BY <1>0
<1> HIDE DEF merges
<1> DEFINE events == [i \in DOMAIN kept |-> TranslateEvent(merges[kept[i]])]
<1>5. /\ Cardinality(stay) \in Nat /\ kept \in [1 .. Cardinality(stay) -> stay]
      /\ \A k \in stay : \E i \in DOMAIN kept : kept[i] = k
  <2>1. 1 \in Int /\ read \in Int
    BY <1>R
  <2>2. IsFiniteSet(DOMAIN merges)
    <3>1. IsFiniteSet(1 .. read)
      BY <2>1, FS_Interval, Zenon
    <3>2. QED
      BY <1>R, <3>1
  <2>3. IsFiniteSet(stay)
    BY <2>2, FS_Subset
  <2>4. Cardinality(stay) \in Nat
    BY <2>3, FS_CardinalityType
  <2>5. QED
    BY <1>4, <2>4 DEF Numberings
<1>6. ASSUME NEW id \in Known
      PROVE  Translate(id) \in Numbers /\ Translate(id) = NumberOf(identity_map, c, id)
  <2>1. id + 1 \in 1 .. Len(old_to_new)
    BY <1>1, <1>2, <1>6 DEF Known
  <2>2. old_to_new[id + 1] \in Numbers
    BY <1>2, <2>1, ElementOfSeq
  <2>3. old_to_new[id + 1] = identity_map[Source[id + 1]]
    BY <1>1, <2>1 DEF IInv, InTranslation
  <2>4. QED
    BY <2>2, <2>3 DEF Translate, NumberOf, Source
<1>7. ASSUME NEW k \in stay PROVE TranslateEvent(merges[k]) \in Event(Numbers)
  <2>1. merges[k].threshold \in Nat
    BY <1>2, <1>R, SourceFacts DEF Event
  <2>2. Translate(merges[k].parent_id) \in Numbers
    BY <1>3, <1>6
  <2>3. TranslateBitmap(merges[k].child_nodes) \in (SUBSET Numbers) \ {{}}
    BY <1>6, <1>7 DEF TranslateBitmap
  <2>4. QED
    BY <2>1, <2>2, <2>3 DEF TranslateEvent, Event
<1>8. events \in Seq(Event(Numbers))
  <2>1. events \in [1 .. Cardinality(stay) -> Event(Numbers)]
    BY <1>5, <1>7
  <2> DEFINE n == Cardinality(stay)
             type == Event(Numbers)
  <2> HIDE DEF events, n, type
  <2>2. n \in Nat /\ events \in [1 .. n -> type]
    BY <1>5, <2>1 DEF n, type
  <2>3. events \in Seq(type)
    BY <2>2
  <2>4. QED
    BY <2>3 DEF type
<1>9. ASSUME InOrder(c) PROVE RewrittenFrom(identity_map, c, events)
  <2>1. ASSUME NEW k \in DOMAIN merges
        PROVE  k \in stay /\ TranslateEvent(merges[k]) = Renumbered(identity_map, c, merges[k])
    <3>1. merges[k].child_nodes # {}
      BY <1>2, <1>R, SourceFacts DEF Event
    <3>2. merges[k].child_nodes \subseteq Known
      <4>1. \A id \in merges[k].child_nodes : id \in 0 .. Len(RecordsOf[c]) - 1
        BY <1>2, <1>9, <1>R, IdsArePositions
      <4>2. QED
        BY <1>1, <4>1 DEF Known, Source
    <3>3. TranslateBitmap(merges[k].child_nodes)
                = {NumberOf(identity_map, c, id) : id \in merges[k].child_nodes}
      BY <1>6, <3>2 DEF TranslateBitmap
    <3>4. k \in stay
      BY <3>1, <3>3
    <3>5. Translate(merges[k].parent_id) = NumberOf(identity_map, c, merges[k].parent_id)
      BY <1>3, <1>6
    <3>6. QED
      BY <3>3, <3>4, <3>5 DEF TranslateEvent, Renumbered
  <2>2. \A p \in DOMAIN RecordsOf[c] : identity_map[RecordsOf[c][p]] # None
    <3>1. ASSUME NEW p \in DOMAIN RecordsOf[c] PROVE identity_map[RecordsOf[c][p]] # None
      <4>1. p \in 1 .. Len(old_to_new)
        BY <1>1, <1>2, SourceFacts DEF Source
      <4>2. old_to_new[p] = identity_map[Source[p]]
        BY <1>1, <4>1 DEF IInv, InTranslation
      <4>3. old_to_new[p] \in Numbers
        BY <1>2, <4>1, ElementOfSeq
      <4>4. QED
        BY <4>2, <4>3, NoneAssumption DEF Source, Numbers
    <3>2. QED
      BY <3>1
  <2>3. ASSUME NEW i \in DOMAIN events
        PROVE  \E k \in 1 .. read : events[i] = Renumbered(identity_map, c, EventsOf[c][k])
    <3>1. kept[i] \in DOMAIN merges /\ events[i] = TranslateEvent(merges[kept[i]])
      BY <1>5
    <3>2. QED
      BY <1>R, <2>1, <3>1
  <2>4. ASSUME NEW k \in 1 .. read
        PROVE  \E i \in DOMAIN events : events[i] = Renumbered(identity_map, c, EventsOf[c][k])
    <3>1. PICK i \in DOMAIN kept : kept[i] = k
      BY <1>5, <1>R, <2>1
    <3>2. i \in DOMAIN events /\ events[i] = TranslateEvent(merges[k])
      BY <3>1
    <3>3. QED
      BY <1>R, <2>1, <3>2
  <2> HIDE DEF events
  <2>5. Rewritten(identity_map, c, read, events)
    BY <2>2, <2>3, <2>4 DEF Rewritten
  <2>6. QED
    BY <2>5 DEF RewrittenFrom
<1>10. QED
  BY <1>4, <1>8, <1>9

-----------------------------------------------------------------------------
(***************************************************************************)
(* The steps.  Those that leave the call and the collections alone need    *)
(* nothing but what has been said of the context.                          *)
(***************************************************************************)
LEMMA CollectionFacts ==
    ASSUME TypeOK, NEW n \in Names, collections[n] # None
    PROVE  /\ collections[n] \in Collection
           /\ collections[n].source \in Sources \cup {None}
           /\ collections[n].events \in Seq(Event(Numbers))
BY DEF TypeOK, Collection

(***************************************************************************)
(* A step that puts into each name what some name held, or nothing.        *)
(***************************************************************************)
LEMMA Rearranged ==
    ASSUME IInv, Stable,
           \A n \in Names : collections'[n] # None =>
                \E m \in Names : collections[m] # None /\ collections'[n] = collections[m]
    PROVE  AllRewritten'
<1>1. ASSUME NEW n \in Names, FromOrdered(collections'[n])
      PROVE  RewrittenFrom(identity_map', collections'[n].source, collections'[n].events)
  <2>1. PICK m \in Names : collections[m] # None /\ collections'[n] = collections[m]
    BY <1>1 DEF FromOrdered
  <2>2. collections[m].source \in Sources
    BY <1>1, <2>1, CollectionFacts DEF IInv, FromOrdered
  <2>3. PICK c \in Sources, events \in Seq(Event(Numbers)) :
            c = collections[m].source /\ events = collections[m].events
    BY <2>1, <2>2, CollectionFacts DEF IInv
  <2>4. InOrder(c) /\ RewrittenFrom(identity_map, c, events)
    BY <1>1, <2>1, <2>3 DEF IInv, AllRewritten, FromOrdered
  <2>5. RewrittenFrom(identity_map', c, events)
    BY <2>4, RewrittenStays
  <2>6. c = collections'[n].source /\ events = collections'[n].events
    BY <2>1, <2>3
  <2>7. QED
    BY <2>5, <2>6
<1>2. QED
  BY <1>1 DEF AllRewritten, FromOrdered

(***************************************************************************)
(* What every step does to the collections.                                *)
(***************************************************************************)
LEMMA CollectionsStep ==
    ASSUME IInv, [Next]_vars
    PROVE  collections' \in [Names -> Collection \cup {None}] /\ AllRewritten'
<1>1. Stable /\ TypeOK /\ collections \in [Names -> Collection \cup {None}]
  BY MapStep DEF IInv, TypeOK
<1>2. CASE collections' = collections
  <2>1. \A n \in Names : collections'[n] # None =>
            \E m \in Names : collections[m] # None /\ collections'[n] = collections[m]
    BY <1>2
  <2>2. QED
    BY <1>1, <1>2, <2>1, Rearranged
<1>3. CASE AddShared
  <2>1. PICK name \in Names, other \in Names :
            /\ collections[other] # None
            /\ collections' = [collections EXCEPT ![name] = collections[other]]
    BY <1>3 DEF AddShared, Insert
  <2>2. \A n \in Names : collections'[n] =
            IF n = name THEN collections[other] ELSE collections[n]
    BY <1>1, <2>1
  <2>3. \A n \in Names : collections'[n] # None =>
            \E m \in Names : collections[m] # None /\ collections'[n] = collections[m]
    BY <2>1, <2>2
  <2>4. collections' \in [Names -> Collection \cup {None}]
    BY <1>1, <2>1
  <2>5. QED
    BY <1>1, <2>3, <2>4, Rearranged
<1>4. CASE RemoveCollection
  <2>1. PICK name \in Names : collections' = [collections EXCEPT ![name] = None]
    BY <1>4 DEF RemoveCollection
  <2>2. \A n \in Names : collections'[n] = IF n = name THEN None ELSE collections[n]
    BY <1>1, <2>1
  <2>3. \A n \in Names : collections'[n] # None =>
            \E m \in Names : collections[m] # None /\ collections'[n] = collections[m]
    BY <2>2
  <2>4. collections' \in [Names -> Collection \cup {None}]
    BY <1>1, <2>1
  <2>5. QED
    BY <1>1, <2>3, <2>4, Rearranged
<1>5. CASE FinishAdd
  <2>1. adding.source \in Sources /\ adding.name \in Names
    BY <1>1, <1>5, CallFacts DEF FinishAdd, AllTranslated
  <2>2. PICK events \in Seq(Event(Numbers)) :
            /\ collections' = Insert(adding.name, [source |-> adding.source, events |-> events])
            /\ InOrder(adding.source) => RewrittenFrom(identity_map, adding.source, events)
    BY <1>5, Finished
  <2> DEFINE new == [source |-> adding.source, events |-> events]
  <2>3. new \in Collection /\ new.source = adding.source /\ new.events = events
    BY <2>1, <2>2 DEF Collection
  <2>4. collections' = [collections EXCEPT ![adding.name] = new]
    BY <2>2 DEF Insert
  <2> HIDE DEF new
  <2>5. collections' \in [Names -> Collection \cup {None}]
    BY <1>1, <2>3, <2>4
  <2>6. identity_map' = identity_map
    BY <1>5 DEF FinishAdd
  <2>7. ASSUME NEW n \in Names, FromOrdered(collections'[n])
        PROVE  RewrittenFrom(identity_map', collections'[n].source, collections'[n].events)
    <3>1. CASE n = adding.name
      <4>1. collections'[n] = new
        BY <1>1, <2>4, <3>1
      <4>2. InOrder(adding.source)
        BY <2>3, <2>7, <4>1 DEF FromOrdered
      <4>3. QED
        BY <2>2, <2>3, <2>6, <4>1, <4>2
    <3>2. CASE n # adding.name
      <4>1. collections'[n] = collections[n]
        BY <1>1, <2>4, <3>2
      <4>2. QED
        BY <2>6, <2>7, <4>1 DEF IInv, AllRewritten
    <3>3. QED
      BY <3>1, <3>2
  <2>8. QED
    BY <2>5, <2>7 DEF AllRewritten, FromOrdered
<1>6. CASE AddInPlace
  <2>1. PICK name \in Names, events \in InPlace :
            collections' = [collections EXCEPT ![name] = [source |-> None, events |-> events]]
    BY <1>6 DEF AddInPlace, Insert
  <2> DEFINE new == [source |-> None, events |-> events]
  <2>2. new \in Collection /\ new.source = None
    BY InPlaceAssumption DEF Collection
  <2>3. collections' = [collections EXCEPT ![name] = new]
    BY <2>1
  <2> HIDE DEF new
  <2>4. collections' \in [Names -> Collection \cup {None}]
    BY <1>1, <2>2, <2>3
  <2>5. identity_map' = identity_map
    BY <1>6 DEF AddInPlace
  <2>6. ASSUME NEW n \in Names, FromOrdered(collections'[n])
        PROVE  RewrittenFrom(identity_map', collections'[n].source, collections'[n].events)
    <3>1. n # name
      BY <1>1, <2>2, <2>3, <2>6 DEF FromOrdered
    <3>2. collections'[n] = collections[n]
      BY <1>1, <2>3, <3>1
    <3>3. QED
      BY <2>5, <2>6, <3>2 DEF IInv, AllRewritten
  <2>7. QED
    BY <2>4, <2>6 DEF AllRewritten, FromOrdered
<1>7. QED
  BY <1>2, <1>3, <1>4, <1>5, <1>6 DEF Next, vars, Grow, StartAdd, FindRecord, CreateRecord,
                                      Translated, FailResolve, FailAdd

(***************************************************************************)
(* What every step does to the call.                                       *)
(***************************************************************************)
LEMMA CallStep ==
    ASSUME IInv, [Next]_vars
    PROVE  /\ adding' \in Call \cup {None}
           /\ old_to_new' \in Seq(Numbers)
           /\ new_records_added' \in Nat /\ created' \in Nat
           /\ InTranslation'
           /\ NeverUndercounts'
<1>1. /\ Stable /\ TypeOK /\ old_to_new \in Seq(Numbers)
      /\ adding \in Call \cup {None} /\ new_records_added \in Nat /\ created \in Nat
      /\ InTranslation /\ created <= new_records_added
  BY MapStep DEF IInv, TypeOK, NeverUndercounts
<1>2. ASSUME UNCHANGED <<old_to_new, new_records_added, created>>, adding' \in {adding, None}
      PROVE  InTranslation'
  <2>1. SUFFICES ASSUME adding' # None PROVE InTranslation'
    BY DEF InTranslation
  <2>2. adding' = adding /\ adding # None /\ Source' = Source
    BY <1>2, <2>1 DEF Source
  <2>3. ASSUME NEW p \in 1 .. Len(old_to_new)
        PROVE  old_to_new[p] = identity_map'[Source[p]]
    <3>1. /\ Len(old_to_new) \in Nat /\ Len(Source) \in Nat
          /\ Len(old_to_new) <= Len(Source)
          /\ \A q \in 1 .. Len(Source) : Source[q] \in Identities
      BY <1>1, <2>2, CallFacts DEF InTranslation
    <3>2. Source[p] \in Identities
      BY <3>1
    <3>3. old_to_new[p] = identity_map[Source[p]]
      BY <1>1, <2>2 DEF InTranslation
    <3>4. old_to_new[p] \in Numbers
      BY <1>1, ElementOfSeq
    <3>5. identity_map[Source[p]] # None
      BY <3>3, <3>4, NoneAssumption DEF Numbers
    <3>6. QED
      BY <1>1, <3>2, <3>3, <3>5 DEF Stable
  <2>4. QED
    BY <1>1, <1>2, <2>2, <2>3 DEF InTranslation
<1>3. CASE UNCHANGED <<old_to_new, new_records_added, created>> /\ adding' \in {adding, None}
  BY <1>1, <1>2, <1>3 DEF NeverUndercounts
<1>4. CASE StartAdd
  <2>1. PICK name \in Names, c \in Sources : adding' = [name |-> name, source |-> c]
    BY <1>4 DEF StartAdd
  <2>2. old_to_new' = <<>> /\ new_records_added' = 0 /\ created' = 0
    BY <1>4 DEF StartAdd
  <2>3. adding' \in Call /\ adding'.source \in Sources
    BY <2>1 DEF Call
  <2>4. Len(RecordsOf[adding'.source]) \in Nat
    BY <2>3, SourceFacts
  <2>5. InTranslation'
    BY <2>2, <2>4 DEF InTranslation, Source
  <2>6. old_to_new' \in Seq(Numbers)
    BY <2>2
  <2>7. QED
    BY <2>2, <2>3, <2>5, <2>6 DEF NeverUndercounts
<1>5. CASE FindRecord
  <2>1. /\ adding # None /\ OldIdx < Len(Source) /\ Len(Source) \in Nat
        /\ Len(old_to_new) \in Nat /\ \A p \in 1 .. Len(Source) : Source[p] \in Identities
    BY <1>1, <1>5, CallFacts DEF FindRecord, Resolved
  <2>2. Source[OldIdx + 1] \in Identities
    BY <2>1 DEF OldIdx
  <2> DEFINE number == identity_map[Source[OldIdx + 1]]
  <2>3. number \in Numbers /\ identity_map' = identity_map
    BY <1>1, <1>5, <2>2 DEF FindRecord, TypeOK
  <2>4. Translated(number)
    BY <1>5 DEF FindRecord
  <2>5. InTranslation' /\ old_to_new' \in Seq(Numbers)
    <3>1. identity_map'[Source[OldIdx + 1]] = number
      BY <2>3
    <3> HIDE DEF number
    <3>2. QED
      BY <1>1, <2>1, <2>3, <2>4, <3>1, TranslatedStep
  <2>6. created' = created /\ new_records_added' \in {new_records_added, new_records_added + 1}
    BY <1>5 DEF FindRecord, Translated, Count
  <2>7. adding' = adding
    BY <2>4 DEF Translated
  <2>8. QED
    BY <1>1, <2>5, <2>6, <2>7 DEF NeverUndercounts
<1>6. CASE CreateRecord
  <2>1. /\ adding # None /\ OldIdx < Len(Source) /\ Len(Source) \in Nat
        /\ Len(old_to_new) \in Nat /\ \A p \in 1 .. Len(Source) : Source[p] \in Identities
    BY <1>1, <1>6, CallFacts DEF CreateRecord, Resolved
  <2>2. Source[OldIdx + 1] \in Identities
    BY <2>1 DEF OldIdx
  <2>3. next_record_id \in Numbers /\ next_record_id \in Nat
    BY <1>1, <1>6, IdLimitAssumption DEF CreateRecord, TypeOK, Numbers
  <2>4. Translated(next_record_id) /\ identity_map'[Source[OldIdx + 1]] = next_record_id
    BY <1>1, <1>6, <2>2 DEF CreateRecord, TypeOK
  <2>5. InTranslation' /\ old_to_new' \in Seq(Numbers)
    BY <2>1, <2>3, <2>4, <1>1, TranslatedStep
  <2>6. next_record_id >= OldIdx
    BY <2>1, <2>3, TranslatedBelowCounter DEF OldIdx
  <2>7. created' = created + 1 /\ new_records_added' = new_records_added + 1
    BY <1>6, <2>4, <2>6 DEF CreateRecord, Translated, Count
  <2>8. adding' = adding
    BY <2>4 DEF Translated
  <2>9. QED
    BY <1>1, <2>5, <2>7, <2>8 DEF NeverUndercounts
<1>7. QED
  BY <1>3, <1>4, <1>5, <1>6 DEF Next, vars, Grow, AddShared, AddInPlace, FailResolve, FinishAdd,
                                FailAdd, RemoveCollection

LEMMA NextPreserves ==
    ASSUME IInv, [Next]_vars
    PROVE  IInv'
<1>1. TypeOK'
  BY MapStep, CollectionsStep, CallStep DEF TypeOK
<1>2. QED
  BY <1>1, MapStep, CollectionsStep, CallStep DEF IInv

(***************************************************************************)
(* Every behaviour of the frame keeps the invariant.                       *)
(***************************************************************************)
THEOREM Invariance == Spec => []IInv
<1>1. Init => IInv
  BY InitHolds
<1>2. IInv /\ [Next]_vars => IInv'
  BY NextPreserves
<1>3. QED
  BY <1>1, <1>2, PTL DEF Spec

(***************************************************************************)
(* The context, the collections and the translation map keep their types:  *)
(* no event of a collection is without a child (translation.rs,            *)
(* translate_merge_events).                                                *)
(***************************************************************************)
THEOREM TypeCorrect == Spec => []TypeOK
<1>1. IInv => TypeOK
  BY DEF IInv
<1>2. QED
  BY <1>1, Invariance, PTL

(***************************************************************************)
(* The count of new records is never too low, though it compares numbers   *)
(* of one context with positions of another (translation.rs:75).           *)
(***************************************************************************)
THEOREM CountsEnough == Spec => []NeverUndercounts
<1>1. IInv => NeverUndercounts
  BY DEF IInv
<1>2. QED
  BY <1>1, Invariance, PTL

(***************************************************************************)
(* A set of the frame's numbers is cut by an event of a collection exactly *)
(* when the records it stands for are cut by an event of the source.       *)
(***************************************************************************)
LEMMA SameCuts ==
    ASSUME NEW c \in Sources, InOrder(c), NEW events \in Seq(Event(Numbers)),
           NEW read \in Reads(c), Rewritten(identity_map, c, read, events), NEW S, NEW t
    PROVE  LET merges == EventsOf[c]
               Moved == {p - 1 : p \in {p \in DOMAIN RecordsOf[c] :
                                            identity_map[RecordsOf[c][p]] \in S}}
           IN  UncutByEvents(S, events, Len(events), t)
                    <=> UncutByEvents(Moved, merges, read, t)
<1> DEFINE merges == EventsOf[c]
           Moved == {p - 1 : p \in {p \in DOMAIN RecordsOf[c] :
                                        identity_map[RecordsOf[c][p]] \in S}}
           Uncut(e) == e.threshold >= t =>
                            \A n \in e.child_nodes : n \in S <=> e.parent_id \in S
           UncutOld(e) == e.threshold >= t =>
                            \A n \in e.child_nodes : n \in Moved <=> e.parent_id \in Moved
<1>1. ASSUME NEW k \in DOMAIN merges
      PROVE  Uncut(Renumbered(identity_map, c, merges[k])) <=> UncutOld(merges[k])
  <2> DEFINE new == Renumbered(identity_map, c, merges[k])
  <2>1. ASSUME NEW id \in merges[k].child_nodes \cup {merges[k].parent_id}
        PROVE  id \in Moved <=> NumberOf(identity_map, c, id) \in S
    <3>1. id + 1 \in DOMAIN RecordsOf[c] /\ id \in Nat
      BY IdsArePositions
    <3>2. DOMAIN RecordsOf[c] \subseteq Nat
      <4>1. DOMAIN RecordsOf[c] = 1 .. Len(RecordsOf[c])
        BY SourceFacts
      <4>2. QED
        BY <4>1
    <3>3. \A p \in DOMAIN RecordsOf[c] : p - 1 = id => p = id + 1
      BY <3>1, <3>2
    <3>4. (id + 1) - 1 = id
      BY <3>1
    <3>5. QED
      BY <3>1, <3>3, <3>4 DEF NumberOf
  <2>2. /\ new.threshold = merges[k].threshold
        /\ new.parent_id = NumberOf(identity_map, c, merges[k].parent_id)
        /\ new.child_nodes = {NumberOf(identity_map, c, id) : id \in merges[k].child_nodes}
    BY DEF Renumbered
  <2> HIDE DEF new, Moved
  <2>3. (\A n \in new.child_nodes : n \in S <=> new.parent_id \in S)
            <=> (\A n \in merges[k].child_nodes : n \in Moved <=> merges[k].parent_id \in Moved)
    BY <2>1, <2>2
  <2>4. QED
    BY <2>2, <2>3 DEF new
<1>2. 1 .. read \subseteq DOMAIN merges /\ DOMAIN events = 1 .. Len(events)
  BY ReadsFacts, LenProperties
<1>3. UncutByEvents(S, events, Len(events), t) <=> \A i \in DOMAIN events : Uncut(events[i])
  BY <1>2 DEF UncutByEvents
<1>4. UncutByEvents(Moved, merges, read, t) <=> \A k \in 1 .. read : UncutOld(merges[k])
  BY DEF UncutByEvents
<1> HIDE DEF Uncut, UncutOld, Moved, merges
<1>5. /\ \A i \in DOMAIN events : \E k \in 1 .. read :
                events[i] = Renumbered(identity_map, c, merges[k])
      /\ \A k \in 1 .. read : \E i \in DOMAIN events :
                events[i] = Renumbered(identity_map, c, merges[k])
  BY DEF Rewritten, merges
<1>6. (\A i \in DOMAIN events : Uncut(events[i]))
            <=> (\A k \in 1 .. read : UncutOld(merges[k]))
  BY <1>1, <1>2, <1>5
<1>7. QED
  BY <1>3, <1>4, <1>6 DEF Moved, merges

(***************************************************************************)
(* Collections assimilated from sources whose records are numbered by      *)
(* position partition the sources' records as the events read of them do,  *)
(* at every threshold and for as long as the frame grows (translation.rs,  *)
(* assimilate_hierarchy and translate_merge_events).                       *)
(***************************************************************************)
THEOREM FaithfulCorrect == Spec => []CollectionsFaithful
<1>1. ASSUME IInv PROVE CollectionsFaithful
  <2>1. SUFFICES ASSUME NEW n \in Names, FromOrdered(collections[n])
                 PROVE  Faithful(collections[n])
    BY DEF CollectionsFaithful
  <2>2. /\ collections[n].source \in Sources
        /\ collections[n].events \in Seq(Event(Numbers))
    BY <1>1, <2>1, CollectionFacts DEF IInv, FromOrdered
  <2>3. PICK c \in Sources, events \in Seq(Event(Numbers)) :
            c = collections[n].source /\ events = collections[n].events
    BY <2>2
  <2>4. InOrder(c) /\ \E read \in Reads(c) : Rewritten(identity_map, c, read, events)
    BY <1>1, <2>1, <2>3 DEF IInv, AllRewritten, RewrittenFrom, FromOrdered
  <2>r. PICK read \in Reads(c) : Rewritten(identity_map, c, read, events)
    BY <2>4
  <2>5. \A p \in DOMAIN RecordsOf[c] : identity_map[RecordsOf[c][p]] # None
    BY <2>r DEF Rewritten
  <2>6. \A p, q \in DOMAIN RecordsOf[c] :
            identity_map[RecordsOf[c][p]] = identity_map[RecordsOf[c][q]] => p = q
    <3>1. \A p \in DOMAIN RecordsOf[c] : RecordsOf[c][p] \in Identities
      BY SourceFacts
    <3>2. \A p, q \in DOMAIN RecordsOf[c] : RecordsOf[c][p] = RecordsOf[c][q] => p = q
      BY SourcesAssumption
    <3>3. QED
      BY <1>1, <2>5, <3>1, <3>2 DEF IInv, Numbered
  <2>7. \A S, t : LET Moved == {p - 1 : p \in {p \in DOMAIN RecordsOf[c] :
                                            identity_map[RecordsOf[c][p]] \in S}}
                  IN  UncutByEvents(S, events, Len(events), t)
                        <=> UncutByEvents(Moved, EventsOf[c], read, t)
    BY <2>4, <2>r, SameCuts
  <2>8. QED
    BY <2>3, <2>5, <2>6, <2>7 DEF Faithful
<1>2. QED
  BY <1>1, Invariance, PTL

(***************************************************************************)
(* A call of add_collection that returns has added its collection, if the  *)
(* source's records are numbered by position and the names of their        *)
(* sources are known (translation.rs, the errors of assimilate_hierarchy   *)
(* and translate_merge_events).                                            *)
(***************************************************************************)
THEOREM AddsCorrect == Spec => AddsSucceed
<1> DEFINE Added == adding # None /\ adding' = None /\ Addable(adding.source) =>
                        /\ collections'[adding.name] # None
                        /\ collections'[adding.name].source = adding.source
<1>1. ASSUME IInv, [Next]_vars PROVE [Added]_vars
  <2>1. SUFFICES ASSUME adding # None, adding' = None, Addable(adding.source)
                 PROVE  /\ collections'[adding.name] # None
                        /\ collections'[adding.name].source = adding.source
    OBVIOUS
  <2>2. /\ adding.source \in Sources /\ adding.name \in Names
        /\ collections \in [Names -> Collection \cup {None}]
    BY <1>1, <2>1, CallFacts DEF IInv, TypeOK
  <2>3. ~FailAdd
    <3>1. SUFFICES ASSUME FailAdd PROVE FALSE
      OBVIOUS
    <3>2. PICK k \in DOMAIN EventsOf[adding.source] :
                EventsOf[adding.source][k].parent_id \notin Known
      BY <2>2, <3>1, ReadsFacts DEF FailAdd
    <3>3. EventsOf[adding.source][k].parent_id \in 0 .. Len(RecordsOf[adding.source]) - 1
      BY <2>1, <2>2, <3>2, IdsArePositions DEF Addable
    <3>4. QED
      BY <3>1, <3>2, <3>3 DEF FailAdd, AllTranslated, OldIdx, Known, Source
  <2>4. FinishAdd
    BY <1>1, <2>1, <2>3 DEF Next, vars, Grow, AddShared, AddInPlace, StartAdd, FindRecord,
                            CreateRecord, Translated, Addable, FailResolve, RemoveCollection
  <2>5. PICK events \in Seq(Event(Numbers)) :
            collections' = Insert(adding.name, [source |-> adding.source, events |-> events])
    BY <1>1, <2>4, Finished
  <2>6. collections'[adding.name] = [source |-> adding.source, events |-> events]
    BY <2>2, <2>5 DEF Insert
  <2>7. [source |-> adding.source, events |-> events] \in Collection
    BY <2>2 DEF Collection
  <2>8. QED
    BY <2>6, <2>7, NoneAssumption
<1>2. QED
  BY <1>1, Invariance, PTL DEF Spec, AddsSucceed
=============================================================================
