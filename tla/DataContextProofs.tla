------------------------- MODULE DataContextProofs -------------------------
(***************************************************************************)
(* Proofs about DataContext for any number of threads, any records and any *)
(* batches of keys.                                                        *)
(***************************************************************************)
EXTENDS DataContext, SequenceTheorems, FiniteSetTheorems, TLAPS

(***************************************************************************)
(* A key of a batch that is not exhausted is a record.                     *)
(***************************************************************************)
LEMMA KeyIsRecord ==
    ASSUME batch \in [Threads -> Seq(Records)], result \in [Threads -> Seq(Nat)],
           NEW t \in Threads, Busy(t)
    PROVE  Key(t) \in Records
<1>1. batch[t] \in Seq(Records) /\ result[t] \in Seq(Nat)
  OBVIOUS
<1>2. Len(batch[t]) \in Nat /\ Len(result[t]) \in Nat
  BY <1>1, LenProperties
<1>3. Len(result[t]) + 1 \in 1 .. Len(batch[t])
  BY <1>2 DEF Busy
<1>4. QED
  BY <1>1, <1>3, ElementOfSeq DEF Key

-----------------------------------------------------------------------------
(***************************************************************************)
(* Types.  A thread between lookup and the end of the loop body has a key, *)
(* and holds a fetched id from FetchId on.                                 *)
(***************************************************************************)
Stages ==
    \A t \in Threads :
        /\ pc[t] # "lookup" => Busy(t)
        /\ pc[t] \in {"entry", "push", "index"} => record_id[t] \in Ids

Typed == TypeOK /\ Stages

LEMMA InitTyped == Init => Typed
<1> SUFFICES ASSUME Init PROVE Typed
  OBVIOUS
<1> USE DEF Init
<1>1. batch \in [Threads -> Seq(Records)]
  BY BatchesAssumption
<1>2. TypeOK
  BY <1>1, IdLimitAssumption DEF TypeOK, Ids
<1>3. Stages
  BY DEF Stages
<1>4. QED
  BY <1>2, <1>3 DEF Typed

(***************************************************************************)
(* The end of a loop body, from any step that has an id to return.         *)
(***************************************************************************)
LEMMA NextKeyTyped ==
    ASSUME Typed, NEW t \in Threads, NEW id \in Nat, NextKey(t, id),
           UNCHANGED <<next_record_id, batch>>
    PROVE  /\ result' \in [Threads -> Seq(Nat)]
           /\ pc' \in [Threads -> {"lookup", "fetch", "entry", "push", "index"}]
           /\ record_id' \in [Threads -> Ids' \cup {NoId}]
           /\ Stages'
<1> USE DEF Typed, TypeOK, NextKey
<1>1. Append(result[t], id) \in Seq(Nat)
  BY AppendProperties
<1>2. result' \in [Threads -> Seq(Nat)]
  BY <1>1
<1>3. /\ pc' \in [Threads -> {"lookup", "fetch", "entry", "push", "index"}]
      /\ record_id' \in [Threads -> Ids' \cup {NoId}]
  BY DEF Ids
<1>4. ASSUME NEW u \in Threads
      PROVE  /\ pc'[u] # "lookup" => Busy(u)'
             /\ pc'[u] \in {"entry", "push", "index"} => record_id'[u] \in Ids'
  <2>1. CASE u = t
    BY <2>1
  <2>2. CASE u # t
    BY <2>2 DEF Stages, Busy, Ids
  <2>3. QED
    BY <2>1, <2>2
<1>5. QED
  BY <1>2, <1>3, <1>4 DEF Stages

LEMMA StepTyped == Typed /\ [Next]_vars => Typed'
<1> SUFFICES ASSUME Typed, [Next]_vars PROVE Typed'
  OBVIOUS
<1> USE DEF Typed, TypeOK
<1>0. next_record_id \in Nat /\ IdLimit \in Nat
  BY IdLimitAssumption
<1>1. ASSUME NEW t \in Threads, Hit(t) PROVE Typed'
  <2>1. Busy(t) /\ identity_map[Key(t)] # NoId /\ NextKey(t, identity_map[Key(t)])
    BY <1>1 DEF Hit
  <2>2. identity_map[Key(t)] \in Nat
    BY <2>1, KeyIsRecord DEF Ids
  <2>3. UNCHANGED <<shared, batch, copy>>
    BY <1>1 DEF Hit
  <2>4. QED
    BY <2>1, <2>2, <2>3, NextKeyTyped DEF shared, copy, Ids
<1>2. ASSUME NEW t \in Threads, Miss(t) PROVE Typed'
  <2>1. TypeOK'
    BY <1>2 DEF Miss, shared, copy, Ids
  <2>2. Stages'
    BY <1>2 DEF Miss, shared, copy, Stages, Busy, Ids
  <2>3. QED
    BY <2>1, <2>2
<1>3. ASSUME NEW t \in Threads, FetchId(t) PROVE Typed'
  <2>1. next_record_id' = next_record_id + 1 /\ next_record_id' <= IdLimit
    BY <1>0, <1>3 DEF FetchId
  <2>2. Ids \subseteq Ids' /\ next_record_id \in Ids'
    BY <1>0, <2>1 DEF Ids
  <2>3. TypeOK'
    <3>1. /\ identity_map' \in [Records -> Ids' \cup {NoId}]
          /\ source_index' \in [Sources -> SUBSET Ids']
          /\ record_id' \in [Threads -> Ids' \cup {NoId}]
      BY <1>3, <2>2 DEF FetchId
    <3>2. next_record_id' \in 0 .. IdLimit
      BY <1>0, <2>1
    <3>3. copy_next_id' \in 0 .. next_record_id' \cup {NoId}
      BY <1>0, <1>3, <2>1 DEF FetchId, copy
    <3>4. pc' \in [Threads -> {"lookup", "fetch", "entry", "push", "index"}]
      BY <1>3 DEF FetchId
    <3>5. UNCHANGED <<records, batch, result, copied, copying>>
      BY <1>3 DEF FetchId, copy
    <3>6. QED
      BY <3>1, <3>2, <3>3, <3>4, <3>5
  <2>4. Stages'
    BY <1>3, <2>2 DEF FetchId, Stages, Busy
  <2>5. QED
    BY <2>3, <2>4
<1>4. ASSUME NEW t \in Threads, EntryOccupied(t) PROVE Typed'
  <2>1. Busy(t) /\ identity_map[Key(t)] # NoId /\ NextKey(t, identity_map[Key(t)])
    BY <1>4 DEF EntryOccupied, Stages
  <2>2. identity_map[Key(t)] \in Nat
    BY <2>1, KeyIsRecord DEF Ids
  <2>3. UNCHANGED <<shared, batch, copy>>
    BY <1>4 DEF EntryOccupied
  <2>4. QED
    BY <2>1, <2>2, <2>3, NextKeyTyped DEF shared, copy, Ids
<1>5. ASSUME NEW t \in Threads, EntryVacant(t) PROVE Typed'
  <2>1. record_id[t] \in Ids
    BY <1>5 DEF EntryVacant, Stages
  <2>2. TypeOK'
    BY <1>5, <2>1 DEF EntryVacant, copy, Ids
  <2>3. Stages'
    BY <1>5 DEF EntryVacant, Stages, Busy, Ids
  <2>4. QED
    BY <2>2, <2>3
<1>6. ASSUME NEW t \in Threads, Push(t) PROVE Typed'
  <2>1. Key(t) \in Records
    BY <1>6, KeyIsRecord DEF Push, Stages
  <2>2. records' \in Seq(Records)
    BY <1>6, <2>1, AppendProperties DEF Push
  <2>3. TypeOK'
    BY <1>6, <2>2 DEF Push, copy, Ids
  <2>4. Stages'
    BY <1>6 DEF Push, Stages, Busy, Ids
  <2>5. QED
    BY <2>3, <2>4
<1>7. ASSUME NEW t \in Threads, Index(t) PROVE Typed'
  <2>1. record_id[t] \in Ids
    BY <1>7 DEF Index, Stages
  <2>2. record_id[t] \in Nat
    BY <1>0, <2>1 DEF Ids
  <2>3. NextKey(t, record_id[t])
    BY <1>7 DEF Index
  <2>4. UNCHANGED <<records, identity_map, next_record_id, batch, copy>>
    BY <1>7 DEF Index
  <2>5. source_index' \in [Sources -> SUBSET Ids']
    BY <1>7, <2>1, <2>4 DEF Index, Ids
  <2>6. QED
    BY <2>2, <2>3, <2>4, <2>5, NextKeyTyped DEF copy, Ids
<1>8. CASE CopyRecord
  <2>1. records[Len(copied) + 1] \in Records
    <3>1. Len(copied) \in Nat /\ Len(records) \in Nat
      BY LenProperties
    <3>2. Len(copied) + 1 \in 1 .. Len(records)
      BY <1>8, <3>1 DEF CopyRecord
    <3>3. QED
      BY <3>2, ElementOfSeq
  <2>2. copied' \in Seq(Records)
    BY <1>8, <2>1, AppendProperties DEF CopyRecord
  <2>3. TypeOK'
    BY <1>8, <2>2 DEF CopyRecord, shared, local, Ids
  <2>4. Stages'
    BY <1>8 DEF CopyRecord, shared, local, Stages, Busy, Ids
  <2>5. QED
    BY <2>3, <2>4
<1>9. CASE CopiedAll
  BY <1>9 DEF CopiedAll, shared, local, Stages, Busy, Ids
<1>10. CASE CopyNextId
  <2>1. copy_next_id' \in 0 .. next_record_id'
    BY <1>0, <1>10 DEF CopyNextId, shared
  <2>2. TypeOK'
    BY <1>10, <2>1 DEF CopyNextId, shared, local, Ids
  <2>3. Stages'
    BY <1>10 DEF CopyNextId, shared, local, Stages, Busy, Ids
  <2>4. QED
    BY <2>2, <2>3
<1>11. CASE UNCHANGED vars
  BY <1>11 DEF vars, shared, local, copy, Stages, Busy, Ids
<1>12. QED
  BY <1>1, <1>2, <1>3, <1>4, <1>5, <1>6, <1>7, <1>8, <1>9, <1>10, <1>11 DEF Next, Step

(***************************************************************************)
(* Every variable keeps its type: in particular an id in the map, in the   *)
(* source index or in a thread's hands is below next_record_id, so below   *)
(* the len() that hierarchies size their union-find by.                    *)
(***************************************************************************)
THEOREM TypeCorrect == Spec => []TypeOK
<1>1. Typed => TypeOK
  BY DEF Typed
<1>2. QED
  BY <1>1, InitTyped, StepTyped, PTL DEF Spec

-----------------------------------------------------------------------------
(***************************************************************************)
(* What the races are about.  An id between fetch and entry is in nobody   *)
(* else's hands and not in the map, so that the map stays injective; the   *)
(* thread that pushes and indexes a record is the one whose id the map     *)
(* has, and there is one such thread.                                      *)
(***************************************************************************)
FetchedIdsAreFree ==
    \A t \in Threads : pc[t] = "entry" =>
        /\ \A r \in Records : identity_map[r] # record_id[t]
        /\ \A u \in Threads : pc[u] = "entry" /\ record_id[u] = record_id[t] => u = t

IdsUnique ==
    \A r, s \in Records : identity_map[r] = identity_map[s] /\ identity_map[r] # NoId => r = s

OwnersInserted ==
    \A t \in Threads : pc[t] \in {"push", "index"} => identity_map[Key(t)] = record_id[t]

OneOwner ==
    \A t, u \in Threads :
        pc[t] \in {"push", "index"} /\ pc[u] \in {"push", "index"} /\ Key(t) = Key(u) => t = u

Races == FetchedIdsAreFree /\ IdsUnique /\ OwnersInserted /\ OneOwner

LEMMA InitRaces == Init => Races
BY DEF Init, Races, FetchedIdsAreFree, IdsUnique, OwnersInserted, OneOwner

(***************************************************************************)
(* A step that leaves the map alone and brings no thread to "entry", "push"*)
(* or "index" that was not there keeps all of this.                        *)
(***************************************************************************)
Calm ==
    /\ UNCHANGED <<identity_map, batch>>
    /\ \A t \in Threads :
        /\ pc'[t] = "entry" => pc[t] = "entry" /\ record_id'[t] = record_id[t]
        /\ pc'[t] \in {"push", "index"} =>
              /\ pc[t] \in {"push", "index"}
              /\ record_id'[t] = record_id[t]
              /\ result'[t] = result[t]

LEMMA CalmRaces == Races /\ Calm => Races'
<1> SUFFICES ASSUME Races, Calm PROVE Races'
  OBVIOUS
<1> USE DEF Races, Calm
<1>1. \A t \in Threads : pc'[t] \in {"push", "index"} => Key(t)' = Key(t)
  BY DEF Key
<1>2. FetchedIdsAreFree'
  BY DEF FetchedIdsAreFree
<1>3. IdsUnique'
  BY DEF IdsUnique
<1>4. OwnersInserted'
  BY <1>1 DEF OwnersInserted
<1>5. OneOwner'
  BY <1>1 DEF OneOwner
<1>6. QED
  BY <1>2, <1>3, <1>4, <1>5

LEMMA NextKeyCalm ==
    ASSUME Typed, NEW t \in Threads, NEW id, NextKey(t, id), UNCHANGED <<identity_map, batch>>
    PROVE  Calm
BY DEF Typed, TypeOK, NextKey, Calm

LEMMA StepRaces == Typed /\ Races /\ [Next]_vars => Races'
<1> SUFFICES ASSUME Typed, Races, [Next]_vars PROVE Races'
  OBVIOUS
<1> USE DEF Typed, TypeOK
<1>1. ASSUME NEW t \in Threads, Hit(t) PROVE Races'
  <2>1. Calm
    BY <1>1, NextKeyCalm DEF Hit, shared
  <2>2. QED
    BY <2>1, CalmRaces
<1>2. ASSUME NEW t \in Threads, Miss(t) PROVE Races'
  <2>1. Calm
    BY <1>2 DEF Miss, shared, Calm
  <2>2. QED
    BY <2>1, CalmRaces
<1>3. ASSUME NEW t \in Threads, FetchId(t) PROVE Races'
  <2>1. /\ record_id' = [record_id EXCEPT ![t] = next_record_id]
        /\ pc' = [pc EXCEPT ![t] = "entry"]
        /\ UNCHANGED <<identity_map, batch, result>>
    BY <1>3 DEF FetchId
  <2>2. next_record_id \notin Ids /\ next_record_id # NoId
    BY IdLimitAssumption, NoIdAssumption DEF Ids
  <2>3. FetchedIdsAreFree'
    <3>1. ASSUME NEW u \in Threads, pc'[u] = "entry", NEW r \in Records
          PROVE  identity_map'[r] # record_id'[u]
      BY <2>1, <2>2, <3>1 DEF Races, FetchedIdsAreFree
    <3>2. ASSUME NEW u \in Threads, NEW v \in Threads, pc'[u] = "entry", pc'[v] = "entry",
                 record_id'[v] = record_id'[u]
          PROVE  v = u
      BY <2>1, <2>2, <3>2 DEF Races, FetchedIdsAreFree, Stages
    <3>3. QED
      BY <3>1, <3>2 DEF FetchedIdsAreFree
  <2>4. IdsUnique'
    BY <2>1 DEF Races, IdsUnique
  <2>5. OwnersInserted' /\ OneOwner'
    BY <2>1 DEF Races, OwnersInserted, OneOwner, Key
  <2>6. QED
    BY <2>3, <2>4, <2>5 DEF Races
<1>4. ASSUME NEW t \in Threads, EntryOccupied(t) PROVE Races'
  <2>1. Calm
    BY <1>4, NextKeyCalm DEF EntryOccupied, shared
  <2>2. QED
    BY <2>1, CalmRaces
<1>5. ASSUME NEW t \in Threads, EntryVacant(t) PROVE Races'
  <2>1. /\ pc[t] = "entry" /\ identity_map[Key(t)] = NoId
        /\ identity_map' = [identity_map EXCEPT ![Key(t)] = record_id[t]]
        /\ pc' = [pc EXCEPT ![t] = "push"]
        /\ UNCHANGED <<batch, result, record_id>>
    BY <1>5 DEF EntryVacant
  <2>2. Key(t) \in Records /\ \A u \in Threads : Key(u)' = Key(u)
    BY <2>1, KeyIsRecord DEF Stages, Key
  <2>3. record_id[t] \in Ids /\ record_id[t] # NoId
    BY <2>1, NoIdAssumption, IdLimitAssumption DEF Stages, Ids
  <2>4. FetchedIdsAreFree'
    BY <2>1, <2>2 DEF Races, FetchedIdsAreFree
  <2>5. IdsUnique'
    BY <2>1, <2>2 DEF Races, FetchedIdsAreFree, IdsUnique
  <2>6. \A u \in Threads : pc[u] \in {"push", "index"} => Key(u) # Key(t)
    BY <2>1, NoIdAssumption, IdLimitAssumption DEF Races, OwnersInserted, Stages, Ids
  <2>7. OwnersInserted'
    BY <2>1, <2>2, <2>6 DEF Races, OwnersInserted
  <2>8. OneOwner'
    BY <2>1, <2>2, <2>6 DEF Races, OneOwner
  <2>9. QED
    BY <2>4, <2>5, <2>7, <2>8 DEF Races
<1>6. ASSUME NEW t \in Threads, Push(t) PROVE Races'
  <2>1. Calm
    BY <1>6 DEF Push, Calm
  <2>2. QED
    BY <2>1, CalmRaces
<1>7. ASSUME NEW t \in Threads, Index(t) PROVE Races'
  <2>1. Calm
    BY <1>7, NextKeyCalm DEF Index
  <2>2. QED
    BY <2>1, CalmRaces
<1>8. CASE CopyRecord \/ CopiedAll \/ CopyNextId \/ UNCHANGED vars
  <2>1. Calm
    BY <1>8 DEF CopyRecord, CopiedAll, CopyNextId, vars, shared, local, Calm
  <2>2. QED
    BY <2>1, CalmRaces
<1>9. QED
  BY <1>1, <1>2, <1>3, <1>4, <1>5, <1>6, <1>7, <1>8 DEF Next, Step

LEMMA RacesInvariant == Spec => [](Typed /\ Races)
<1>1. Init => Typed /\ Races
  BY InitTyped, InitRaces
<1>2. Typed /\ Races /\ [Next]_vars => Typed' /\ Races'
  BY StepTyped, StepRaces
<1>3. QED
  BY <1>1, <1>2, PTL DEF Spec

-----------------------------------------------------------------------------
(***************************************************************************)
(* The refinement.                                                         *)
(***************************************************************************)
LEMMA AnswerStep ==
    ASSUME Typed, NEW t \in Threads, Busy(t), identity_map[Key(t)] # NoId,
           NextKey(t, identity_map[Key(t)]), UNCHANGED <<identity_map, batch>>
    PROVE  Interning!Next
<1>1. Interning!Answer(t)
  BY DEF Interning!Answer, NextKey, Busy, Key
<1>2. QED
  BY <1>1 DEF Interning!Next

LEMMA InitInterns == Init => Interning!Init
BY BatchesAssumption DEF Init, Interning!Init

LEMMA StepInterns ==
    Typed /\ Races /\ [Next]_vars => [Interning!Next]_<<batch, identity_map, result>>
<1> SUFFICES ASSUME Typed, Races, [Next]_vars
             PROVE  [Interning!Next]_<<batch, identity_map, result>>
  OBVIOUS
<1>1. ASSUME NEW t \in Threads, Hit(t) PROVE Interning!Next
  BY <1>1, AnswerStep DEF Hit, shared
<1>2. ASSUME NEW t \in Threads, Miss(t) \/ FetchId(t) \/ Push(t)
      PROVE  UNCHANGED <<batch, identity_map, result>>
  BY <1>2 DEF Miss, FetchId, Push, shared
<1>3. ASSUME NEW t \in Threads, EntryOccupied(t) PROVE Interning!Next
  <2>1. Busy(t)
    BY <1>3 DEF EntryOccupied, Typed, Stages
  <2>2. QED
    BY <1>3, <2>1, AnswerStep DEF EntryOccupied, shared
<1>4. ASSUME NEW t \in Threads, EntryVacant(t) PROVE Interning!Next
  <2>1. /\ pc[t] = "entry" /\ identity_map[Key(t)] = NoId
        /\ identity_map' = [identity_map EXCEPT ![Key(t)] = record_id[t]]
        /\ UNCHANGED <<batch, result>>
    BY <1>4 DEF EntryVacant
  <2>2. Key(t) \in Records
    BY <2>1, KeyIsRecord DEF Typed, TypeOK, Stages
  <2>3. record_id[t] \in 0 .. IdLimit - 1
    BY <2>1, IdLimitAssumption DEF Typed, TypeOK, Stages, Ids
  <2>4. \A s \in Records : identity_map[s] # record_id[t]
    BY <2>1 DEF Races, FetchedIdsAreFree
  <2>5. Interning!Number(Key(t))
    BY <2>1, <2>2, <2>3, <2>4 DEF Interning!Number
  <2>6. QED
    BY <2>2, <2>5 DEF Interning!Next
<1>5. ASSUME NEW t \in Threads, Index(t) PROVE Interning!Next
  <2>1. /\ Busy(t) /\ identity_map[Key(t)] = record_id[t]
        /\ record_id[t] \in Ids
    BY <1>5 DEF Index, Typed, Stages, Races, OwnersInserted
  <2>2. identity_map[Key(t)] # NoId
    BY <2>1, NoIdAssumption, IdLimitAssumption DEF Typed, TypeOK, Ids
  <2>3. QED
    BY <1>5, <2>1, <2>2, AnswerStep DEF Index
<1>6. CASE CopyRecord \/ CopiedAll \/ CopyNextId \/ UNCHANGED vars
  BY <1>6 DEF CopyRecord, CopiedAll, CopyNextId, vars, shared, local
<1>7. QED
  BY <1>1, <1>2, <1>3, <1>4, <1>5, <1>6 DEF Next, Step

(***************************************************************************)
(* The five racing steps per key implement the interner that numbers a     *)
(* record and answers in two atomic steps: no two records share an id, an  *)
(* id once given stays, and every answer is the record's id.               *)
(***************************************************************************)
THEOREM Implementation == Spec => InternsOnce
<1>1. Init => Interning!Init
  BY InitInterns
<1>2. Typed /\ Races /\ [Next]_vars => [Interning!Next]_<<batch, identity_map, result>>
  BY StepInterns
<1>3. QED
  BY <1>1, <1>2, RacesInvariant, PTL DEF Spec, InternsOnce, Interning!Spec

-----------------------------------------------------------------------------
(***************************************************************************)
(* What a reader finds by position and by source.                          *)
(***************************************************************************)
Stored == PushedOnce /\ SourceIndexMatchesMap

LEMMA InitStored == Init => Stored
BY DEF Init, Stored, PushedOnce, SourceIndexMatchesMap, Pushed, Owes

(***************************************************************************)
(* A step that inserts, pushes and indexes nothing keeps it.               *)
(***************************************************************************)
Aside ==
    /\ UNCHANGED <<records, identity_map, source_index, batch>>
    /\ \A t \in Threads :
        /\ pc'[t] = "push" <=> pc[t] = "push"
        /\ pc'[t] = "index" <=> pc[t] = "index"
        /\ pc[t] \in {"push", "index"} => result'[t] = result[t]

LEMMA AsideStored == Stored /\ Aside => Stored'
<1> SUFFICES ASSUME Stored, Aside PROVE Stored'
  OBVIOUS
<1>1. \A t \in Threads : pc[t] \in {"push", "index"} => Key(t)' = Key(t)
  BY DEF Aside, Key
<1>2. \A t \in Threads, r \in Records :
        /\ Owes(t, r, {"push"})' <=> Owes(t, r, {"push"})
        /\ Owes(t, r, {"push", "index"})' <=> Owes(t, r, {"push", "index"})
  BY <1>1 DEF Aside, Owes
<1>3. \A r \in Records : Pushed(r)' <=> Pushed(r)
  BY DEF Aside, Pushed
<1>4. PushedOnce'
  BY <1>2, <1>3 DEF Stored, PushedOnce, Aside
<1>5. SourceIndexMatchesMap'
  BY <1>2 DEF Stored, SourceIndexMatchesMap, Aside
<1>6. QED
  BY <1>4, <1>5 DEF Stored

LEMMA NextKeyAside ==
    ASSUME Typed, NEW t \in Threads, pc[t] \in {"lookup", "entry"}, NEW id, NextKey(t, id),
           UNCHANGED <<records, identity_map, source_index, batch>>
    PROVE  Aside
BY DEF Typed, TypeOK, NextKey, Aside

(***************************************************************************)
(* The record that is inserted was neither pushed nor owed, and is owed to *)
(* records and source index after.                                         *)
(***************************************************************************)
LEMMA InsertStored ==
    ASSUME Typed, Races, Stored, NEW t \in Threads, EntryVacant(t)
    PROVE  Stored'
<1> USE DEF Typed, TypeOK
<1>1. /\ pc[t] = "entry" /\ identity_map[Key(t)] = NoId
      /\ identity_map' = [identity_map EXCEPT ![Key(t)] = record_id[t]]
      /\ pc' = [pc EXCEPT ![t] = "push"]
      /\ UNCHANGED <<records, source_index, batch, result, record_id>>
  BY DEF EntryVacant
<1>2. Key(t) \in Records /\ \A u \in Threads : Key(u)' = Key(u)
  BY <1>1, KeyIsRecord DEF Stages, Key
<1>3. record_id[t] # NoId
  BY <1>1, NoIdAssumption, IdLimitAssumption DEF Stages, Ids
<1>4. \A u \in Threads : pc[u] \in {"push", "index"} => Key(u) # Key(t)
  BY <1>1, NoIdAssumption, IdLimitAssumption DEF Races, OwnersInserted, Stages, Ids
<1>5. \A r \in Records : Pushed(r)' <=> Pushed(r)
  BY <1>1 DEF Pushed
<1>6. ASSUME NEW r \in Records, NEW u \in Threads
      PROVE  /\ Owes(u, r, {"push"})' <=> Owes(u, r, {"push"}) \/ (u = t /\ r = Key(t))
             /\ Owes(u, r, {"push", "index"})' <=>
                    Owes(u, r, {"push", "index"}) \/ (u = t /\ r = Key(t))
  BY <1>1, <1>2 DEF Owes
<1>7. ~ Pushed(Key(t)) /\ \A u \in Threads : ~ Owes(u, Key(t), {"push"})
  BY <1>1, <1>2 DEF Stored, PushedOnce
<1>8. PushedOnce'
  <2>1. ASSUME NEW r \in Records
        PROVE  (identity_map[r] # NoId <=>
                    Pushed(r) \/ \E u \in Threads : Owes(u, r, {"push"}))'
    <3>1. CASE r = Key(t)
      BY <1>1, <1>2, <1>3, <1>6, <3>1
    <3>2. CASE r # Key(t)
      BY <1>1, <1>2, <1>5, <1>6, <3>2 DEF Stored, PushedOnce
    <3>3. QED
      BY <3>1, <3>2
  <2>2. ASSUME NEW r \in Records, NEW u \in Threads, NEW v \in Threads,
               Owes(u, r, {"push"})', Owes(v, r, {"push"})'
        PROVE  u = v
    <3>1. CASE r = Key(t)
      BY <1>6, <1>7, <2>2, <3>1
    <3>2. CASE r # Key(t)
      <4>1. Owes(u, r, {"push"}) /\ Owes(v, r, {"push"})
        BY <1>6, <2>2, <3>2
      <4>2. QED
        BY <4>1 DEF Stored, PushedOnce
    <3>3. QED
      BY <3>1, <3>2
  <2>3. ASSUME NEW r \in Records, NEW u \in Threads, Owes(u, r, {"push"})'
        PROVE  ~ Pushed(r)'
    BY <1>5, <1>6, <1>7, <2>3 DEF Stored, PushedOnce
  <2>4. \A i, j \in 1 .. Len(records') : records'[i] = records'[j] => i = j
    BY <1>1 DEF Stored, PushedOnce
  <2>5. QED
    BY <2>1, <2>2, <2>3, <2>4 DEF PushedOnce
<1>9. SourceIndexMatchesMap'
  <2>1. ASSUME NEW s \in Sources, NEW q \in Records
        PROVE  (/\ SourceOf[q] = s /\ identity_map'[q] # NoId
                /\ \A u \in Threads : ~ Owes(u, q, {"push", "index"})')
               <=> (/\ SourceOf[q] = s /\ identity_map[q] # NoId
                    /\ \A u \in Threads : ~ Owes(u, q, {"push", "index"}))
    <3>1. CASE q = Key(t)
      BY <1>1, <1>6, <3>1
    <3>2. CASE q # Key(t)
      BY <1>1, <1>2, <1>6, <3>2
    <3>3. QED
      BY <3>1, <3>2
  <2> DEFINE Filed(s) == {q \in Records :
                 /\ SourceOf[q] = s /\ identity_map[q] # NoId
                 /\ \A u \in Threads : ~ Owes(u, q, {"push", "index"})}
             FiledNext(s) == {q \in Records :
                 /\ SourceOf[q] = s /\ identity_map'[q] # NoId
                 /\ \A u \in Threads : ~ Owes(u, q, {"push", "index"})'}
  <2>2. \A s \in Sources : FiledNext(s) = Filed(s)
    BY <2>1
  <2>3. \A s \in Sources : \A q \in Filed(s) : identity_map'[q] = identity_map[q]
    BY <1>1, <1>2
  <2>4. \A s \in Sources : source_index[s] = {identity_map[q] : q \in Filed(s)}
    BY DEF Stored, SourceIndexMatchesMap
  <2>5. \A s \in Sources : source_index'[s] = {identity_map'[q] : q \in FiledNext(s)}
    <3> HIDE DEF Filed, FiledNext
    <3>1. SUFFICES ASSUME NEW s \in Sources
                   PROVE  source_index'[s] = {identity_map'[q] : q \in FiledNext(s)}
      OBVIOUS
    <3>2. FiledNext(s) = Filed(s) /\ source_index'[s] = source_index[s]
      BY <1>1, <2>2
    <3>3. source_index[s] = {identity_map[q] : q \in Filed(s)}
      BY <2>4
    <3>4. \A q \in Filed(s) : identity_map'[q] = identity_map[q]
      BY <2>3
    <3>5. {identity_map[q] : q \in Filed(s)} = {identity_map'[q] : q \in Filed(s)}
      BY <3>4
    <3>6. QED
      BY <3>2, <3>3, <3>5
  <2>6. QED
    BY <2>5 DEF SourceIndexMatchesMap
<1>10. QED
  BY <1>8, <1>9 DEF Stored

LEMMA PushStored ==
    ASSUME Typed, Races, Stored, NEW t \in Threads, Push(t)
    PROVE  Stored'
<1> USE DEF Typed, TypeOK
<1>1. /\ pc[t] = "push" /\ records' = Append(records, Key(t))
      /\ pc' = [pc EXCEPT ![t] = "index"]
      /\ UNCHANGED <<identity_map, source_index, batch, result, record_id>>
  BY DEF Push
<1>2. Key(t) \in Records /\ \A u \in Threads : Key(u)' = Key(u)
  BY <1>1, KeyIsRecord DEF Stages, Key
<1>3. /\ Len(records) \in Nat /\ Len(records') = Len(records) + 1
      /\ \A i \in 1 .. Len(records) : records'[i] = records[i]
      /\ records'[Len(records) + 1] = Key(t)
  BY <1>1, <1>2, AppendProperties, LenProperties
<1>4. \A r \in Records : Pushed(r)' <=> Pushed(r) \/ r = Key(t)
  <2>1. SUFFICES ASSUME NEW r \in Records
                 PROVE  (\E i \in 1 .. Len(records') : records'[i] = r) <=>
                        (\E i \in 1 .. Len(records) : records[i] = r) \/ r = Key(t)
    BY DEF Pushed
  <2>2. 1 .. Len(records') = 1 .. Len(records) \cup {Len(records) + 1}
    BY <1>3
  <2>3. QED
    BY <1>3, <2>2
<1>5. ASSUME NEW r \in Records, NEW u \in Threads
      PROVE  /\ Owes(u, r, {"push"})' <=> Owes(u, r, {"push"}) /\ u # t
             /\ Owes(u, r, {"push", "index"})' <=> Owes(u, r, {"push", "index"})
  BY <1>1, <1>2 DEF Owes
<1>6. /\ Owes(t, Key(t), {"push"}) /\ ~ Pushed(Key(t))
      /\ \A r \in Records : Owes(t, r, {"push"}) => r = Key(t)
  BY <1>1, <1>2 DEF Stored, PushedOnce, Owes
<1>7. PushedOnce'
  <2>1. ASSUME NEW i \in 1 .. Len(records'), NEW j \in 1 .. Len(records'),
               records'[i] = records'[j]
        PROVE  i = j
    <3>1. \A k, l \in 1 .. Len(records) : records[k] = records[l] => k = l
      BY DEF Stored, PushedOnce
    <3>2. \A k \in 1 .. Len(records) : records[k] # Key(t)
      BY <1>6 DEF Pushed
    <3>3. \A k \in 1 .. Len(records') : k \in 1 .. Len(records) \/ k = Len(records) + 1
      BY <1>3
    <3>4. QED
      BY <1>3, <2>1, <3>1, <3>2, <3>3
  <2>2. ASSUME NEW r \in Records
        PROVE  /\ (identity_map[r] # NoId <=>
                      Pushed(r) \/ \E u \in Threads : Owes(u, r, {"push"}))'
               /\ \A u, v \in Threads :
                      Owes(u, r, {"push"})' /\ Owes(v, r, {"push"})' => u = v
               /\ \A u \in Threads : Owes(u, r, {"push"})' => ~ Pushed(r)'
    BY <1>1, <1>4, <1>5, <1>6 DEF Stored, PushedOnce
  <2>3. QED
    BY <2>1, <2>2 DEF PushedOnce
<1>8. SourceIndexMatchesMap'
  BY <1>1, <1>5 DEF Stored, SourceIndexMatchesMap
<1>9. QED
  BY <1>7, <1>8 DEF Stored

LEMMA IndexStored ==
    ASSUME Typed, Races, Stored, NEW t \in Threads, Index(t)
    PROVE  Stored'
<1> USE DEF Typed, TypeOK
<1>1. /\ pc[t] = "index" /\ NextKey(t, record_id[t])
      /\ source_index' = [source_index EXCEPT ![SourceOf[Key(t)]] = @ \cup {record_id[t]}]
      /\ UNCHANGED <<records, identity_map, batch>>
  BY DEF Index
<1>2. Key(t) \in Records /\ identity_map[Key(t)] = record_id[t]
  BY <1>1, KeyIsRecord DEF Stages, Races, OwnersInserted
<1>3. record_id[t] # NoId
  BY <1>1, NoIdAssumption, IdLimitAssumption DEF Stages, Ids
<1>4. /\ \A u \in Threads : u # t => pc'[u] = pc[u] /\ result'[u] = result[u]
      /\ pc'[t] = "lookup"
  BY <1>1 DEF NextKey
<1>5. ASSUME NEW r \in Records, NEW u \in Threads
      PROVE  /\ Owes(u, r, {"push"})' <=> Owes(u, r, {"push"})
             /\ Owes(u, r, {"push", "index"})' <=> Owes(u, r, {"push", "index"}) /\ u # t
  BY <1>1, <1>4 DEF Owes, Key
<1>6. PushedOnce'
  <2>1. \A r \in Records : Pushed(r)' <=> Pushed(r)
    BY <1>1 DEF Pushed
  <2>2. QED
    BY <1>1, <1>5, <2>1 DEF Stored, PushedOnce
<1>7. /\ Owes(t, Key(t), {"push", "index"})
      /\ \A u \in Threads : Owes(u, Key(t), {"push", "index"}) => u = t
      /\ \A r \in Records : Owes(t, r, {"push", "index"}) => r = Key(t)
  BY <1>1 DEF Races, OneOwner, Owes
<1>8. SourceIndexMatchesMap'
  <2> DEFINE Filed(s) == {q \in Records :
                 /\ SourceOf[q] = s /\ identity_map[q] # NoId
                 /\ \A u \in Threads : ~ Owes(u, q, {"push", "index"})}
             FiledNext(s) == {q \in Records :
                 /\ SourceOf[q] = s /\ identity_map'[q] # NoId
                 /\ \A u \in Threads : ~ Owes(u, q, {"push", "index"})'}
  <2>1. \A s \in Sources : FiledNext(s) = IF s = SourceOf[Key(t)] THEN Filed(s) \cup {Key(t)}
                                                              ELSE Filed(s)
    BY <1>1, <1>2, <1>3, <1>5, <1>7
  <2>2. \A s \in Sources : source_index[s] = {identity_map[q] : q \in Filed(s)}
    BY DEF Stored, SourceIndexMatchesMap
  <2>3. \A s \in Sources : source_index'[s] = {identity_map'[q] : q \in FiledNext(s)}
    <3>1. SUFFICES ASSUME NEW s \in Sources
                   PROVE  source_index'[s] = {identity_map'[q] : q \in FiledNext(s)}
      OBVIOUS
    <3> HIDE DEF Filed, FiledNext
    <3>2. CASE s = SourceOf[Key(t)]
      BY <1>1, <1>2, <2>1, <2>2, <3>2
    <3>3. CASE s # SourceOf[Key(t)]
      BY <1>1, <2>1, <2>2, <3>3
    <3>4. QED
      BY <3>2, <3>3
  <2>4. QED
    BY <2>3 DEF SourceIndexMatchesMap
<1>9. QED
  BY <1>6, <1>8 DEF Stored

LEMMA StepStored == Typed /\ Races /\ Stored /\ [Next]_vars => Stored'
<1> SUFFICES ASSUME Typed, Races, Stored, [Next]_vars PROVE Stored'
  OBVIOUS
<1>1. ASSUME NEW t \in Threads, Hit(t) \/ EntryOccupied(t) PROVE Stored'
  <2>1. Aside
    BY <1>1, NextKeyAside DEF Hit, EntryOccupied, shared
  <2>2. QED
    BY <2>1, AsideStored
<1>2. ASSUME NEW t \in Threads, Miss(t) \/ FetchId(t) PROVE Stored'
  <2>1. Aside
    BY <1>2 DEF Miss, FetchId, shared, Aside, Typed, TypeOK
  <2>2. QED
    BY <2>1, AsideStored
<1>3. ASSUME NEW t \in Threads, EntryVacant(t) \/ Push(t) \/ Index(t) PROVE Stored'
  BY <1>3, InsertStored, PushStored, IndexStored
<1>4. CASE CopyRecord \/ CopiedAll \/ CopyNextId \/ UNCHANGED vars
  <2>1. Aside
    BY <1>4 DEF CopyRecord, CopiedAll, CopyNextId, vars, shared, local, Aside
  <2>2. QED
    BY <2>1, AsideStored
<1>5. QED
  BY <1>1, <1>2, <1>3, <1>4 DEF Next, Step

LEMMA StoredInvariant == Spec => [](Typed /\ Races /\ Stored)
<1>1. Init => Stored
  BY InitStored
<1>2. Typed /\ Races /\ Stored /\ [Next]_vars => Stored'
  BY StepStored
<1>3. QED
  BY <1>1, <1>2, RacesInvariant, PTL DEF Spec

(***************************************************************************)
(* However the threads interleave, a mapped record takes one position, and *)
(* while it has none exactly one thread is about to push it.               *)
(***************************************************************************)
THEOREM PushedOnceCorrect == Spec => []PushedOnce
<1>1. Stored => PushedOnce
  BY DEF Stored
<1>2. QED
  BY <1>1, StoredInvariant, PTL

(***************************************************************************)
(* The source index never files an id that a lost race left unused, and    *)
(* misses only records whose thread has not got there.                     *)
(***************************************************************************)
THEOREM SourceIndexCorrect == Spec => []SourceIndexMatchesMap
<1>1. Stored => SourceIndexMatchesMap
  BY DEF Stored
<1>2. QED
  BY <1>1, StoredInvariant, PTL

-----------------------------------------------------------------------------
(***************************************************************************)
(* Every position was paid for with an id of its own, so len() is never    *)
(* below the number of records: the map takes positions one to one to ids. *)
(***************************************************************************)
LEMMA PositionsCounted ==
    ASSUME Typed, Races, Stored
    PROVE  Len(records) <= next_record_id
<1> USE DEF Typed, TypeOK
<1>1. Len(records) \in Nat /\ next_record_id \in Nat
  BY LenProperties, IdLimitAssumption
<1> DEFINE IdAt == [i \in 1 .. Len(records) |-> identity_map[records[i]]]
<1>2. ASSUME NEW i \in 1 .. Len(records)
      PROVE  records[i] \in Records /\ identity_map[records[i]] \in Ids
  <2>1. records[i] \in Records
    BY ElementOfSeq
  <2>2. Pushed(records[i])
    BY DEF Pushed
  <2>3. identity_map[records[i]] # NoId
    BY <2>1, <2>2 DEF Stored, PushedOnce
  <2>4. QED
    BY <2>1, <2>3
<1>3. IdAt \in Injection(1 .. Len(records), Ids)
  <2>1. IdAt \in [1 .. Len(records) -> Ids]
    BY <1>2
  <2>2. ASSUME NEW i \in 1 .. Len(records), NEW j \in 1 .. Len(records), IdAt[i] = IdAt[j]
        PROVE  i = j
    <3>1. records[i] = records[j]
      BY <1>2, <2>2, NoIdAssumption, <1>1 DEF Races, IdsUnique, Ids
    <3>2. QED
      BY <3>1 DEF Stored, PushedOnce
  <2>3. QED
    BY <2>1, <2>2 DEF Injection, IsInjective
<1>4. /\ IsFiniteSet(1 .. Len(records)) /\ Cardinality(1 .. Len(records)) = Len(records)
      /\ IsFiniteSet(Ids) /\ Cardinality(Ids) = next_record_id
  <2>1. 0 \in Int /\ 1 \in Int /\ Len(records) \in Int /\ next_record_id - 1 \in Int
    BY <1>1
  <2>2. IsFiniteSet(1 .. Len(records)) /\ IsFiniteSet(0 .. next_record_id - 1)
    BY <2>1, FS_Interval, Zenon
  <2>3. Cardinality(1 .. Len(records)) = IF 1 > Len(records) THEN 0 ELSE Len(records) - 1 + 1
    BY <2>1, FS_Interval, Zenon
  <2>4. Cardinality(0 .. next_record_id - 1) =
            IF 0 > next_record_id - 1 THEN 0 ELSE next_record_id - 1 - 0 + 1
    BY <2>1, FS_Interval, Zenon
  <2>5. QED
    BY <1>1, <2>2, <2>3, <2>4 DEF Ids
<1>5. QED
  <2> HIDE DEF IdAt
  <2>1. Cardinality(1 .. Len(records)) <= Cardinality(Ids)
    BY <1>3, <1>4, FS_Injection
  <2>2. QED
    BY <1>4, <2>1

(***************************************************************************)
(* The copy is a prefix of the records, and counts at least its own when   *)
(* it has read len().                                                      *)
(***************************************************************************)
CopyPrefix ==
    /\ Len(copied) <= Len(records)
    /\ \A i \in 1 .. Len(copied) : copied[i] = records[i]
    /\ copy_next_id # NoId => ~copying /\ Len(copied) <= copy_next_id

LEMMA InitCopyPrefix == Init => CopyPrefix
<1>1. Len(<< >>) = 0
  BY EmptySeq
<1>2. QED
  BY <1>1 DEF Init, CopyPrefix

LEMMA StepCopyPrefix ==
    Typed /\ Races /\ Stored /\ CopyPrefix /\ [Next]_vars => CopyPrefix'
<1> SUFFICES ASSUME Typed, Races, Stored, CopyPrefix, [Next]_vars PROVE CopyPrefix'
  OBVIOUS
<1> USE DEF Typed, TypeOK
<1>0. Len(records) \in Nat /\ Len(copied) \in Nat
  BY LenProperties
<1>1. ASSUME NEW t \in Threads, Push(t) PROVE CopyPrefix'
  <2>1. Key(t) \in Records /\ records' = Append(records, Key(t)) /\ UNCHANGED copy
    BY <1>1, KeyIsRecord DEF Push, Stages
  <2>2. /\ Len(records') = Len(records) + 1
        /\ \A i \in 1 .. Len(records) : records'[i] = records[i]
    BY <2>1, AppendProperties
  <2>3. QED
    BY <1>0, <2>1, <2>2 DEF CopyPrefix, copy
<1>2. ASSUME NEW t \in Threads,
             Hit(t) \/ Miss(t) \/ FetchId(t) \/ EntryOccupied(t) \/ EntryVacant(t) \/ Index(t)
      PROVE  CopyPrefix'
  BY <1>2 DEF Hit, Miss, FetchId, EntryOccupied, EntryVacant, Index, shared, copy, CopyPrefix
<1>3. CASE CopyRecord
  <2>1. /\ copying /\ Len(copied) < Len(records)
        /\ copied' = Append(copied, records[Len(copied) + 1])
        /\ UNCHANGED <<records, copy_next_id, copying>>
    BY <1>3 DEF CopyRecord, shared
  <2>2. records[Len(copied) + 1] \in Records
    BY <1>0, <2>1, ElementOfSeq
  <2>3. /\ Len(copied') = Len(copied) + 1
        /\ \A i \in 1 .. Len(copied) : copied'[i] = copied[i]
        /\ copied'[Len(copied) + 1] = records[Len(copied) + 1]
    BY <2>1, <2>2, AppendProperties
  <2>4. \A i \in 1 .. Len(copied') : i \in 1 .. Len(copied) \/ i = Len(copied) + 1
    BY <1>0, <2>3
  <2>5. QED
    BY <1>0, <2>1, <2>3, <2>4 DEF CopyPrefix
<1>4. CASE CopiedAll
  BY <1>4 DEF CopiedAll, shared, CopyPrefix
<1>5. CASE CopyNextId
  <2>1. Len(records) <= next_record_id /\ next_record_id \in Nat
    BY PositionsCounted, IdLimitAssumption
  <2>2. QED
    BY <1>0, <1>5, <2>1 DEF CopyNextId, shared, CopyPrefix
<1>6. CASE UNCHANGED vars
  BY <1>6 DEF vars, shared, copy, CopyPrefix
<1>7. QED
  BY <1>1, <1>2, <1>3, <1>4, <1>5, <1>6 DEF Next, Step

(***************************************************************************)
(* A deep copy taken in the middle of any interleaving holds no record     *)
(* twice and will not reuse the id of a record it holds.                   *)
(***************************************************************************)
THEOREM CopyCorrect == Spec => []CopyHandsOutFreshIds
<1>1. Typed /\ Stored /\ CopyPrefix => CopyHandsOutFreshIds
  <2>1. SUFFICES ASSUME Typed, Stored, CopyPrefix,
                        NEW i \in 1 .. Len(copied), NEW j \in 1 .. Len(copied),
                        copied[i] = copied[j]
                 PROVE  i = j
    <3>1. ASSUME CopyPrefix, copy_next_id # NoId PROVE Len(copied) <= copy_next_id
      BY <3>1 DEF CopyPrefix
    <3>2. QED
      BY <3>1 DEF CopyHandsOutFreshIds
  <2>2. Len(records) \in Nat /\ Len(copied) \in Nat /\ Len(copied) <= Len(records)
    <3>1. records \in Seq(Records) /\ copied \in Seq(Records)
      BY <2>1 DEF Typed, TypeOK
    <3>2. QED
      BY <2>1, <3>1, LenProperties DEF CopyPrefix
  <2>3. i \in 1 .. Len(records) /\ j \in 1 .. Len(records) /\ records[i] = records[j]
    BY <2>1, <2>2 DEF CopyPrefix
  <2>4. QED
    BY <2>1, <2>3 DEF Stored, PushedOnce
<1>2. QED
  BY <1>1, InitCopyPrefix, StepCopyPrefix, StoredInvariant, PTL DEF Spec
=============================================================================
