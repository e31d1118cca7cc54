---------------------------- MODULE DataContext ----------------------------
(***************************************************************************)
(* core/data_context.rs: threads intern records at the same time.  Each    *)
(* access to a shared structure is a step of its own: the identity map and *)
(* the source index are DashMaps, whose shard lock lasts one statement     *)
(* (`entry.insert(id);` consumes the entry and drops its lock), the next   *)
(* id is an atomic counter, the records a lock-free append-only vector.    *)
(* ensure_record and ensure_record_with_attributes are batches of one key. *)
(* A deep copy may be taken meanwhile.                                     *)
(***************************************************************************)
EXTENDS Integers, Sequences, FiniteSets

CONSTANTS
    Threads,
    Records,
    Sources,
    SourceOf,   (* the source a record belongs to                        *)
    Batches,    (* what the threads may be given to intern               *)
    IdLimit,    (* bound: the model stops where the u32 id would wrap    *)
    NoId        (* "not in the identity map"                             *)

ASSUME SourceOfAssumption == SourceOf \in [Records -> Sources]
ASSUME BatchesAssumption == Batches \subseteq [Threads -> Seq(Records)]
ASSUME IdLimitAssumption == IdLimit \in Nat
ASSUME NoIdAssumption == NoId \notin Nat

VARIABLES
    records,            (* boxcar vector: a record's position is its index here *)
    identity_map,       (* identity_map[r]: the id of record r, or NoId         *)
    source_index,       (* source_index[s]: the ids filed under source s        *)
    next_record_id,
    batch,              (* batch[t]: the keys of thread t's call                *)
    result,             (* result[t]: the ids found for them so far             *)
    pc,                 (* what thread t does next for its current key          *)
    record_id,          (* the id thread t fetched for it, NoId if none         *)
    copied,             (* the records of the deep copy                         *)
    copy_next_id,       (* the next_record_id of the deep copy, NoId until set  *)
    copying             (* whether the copy still iterates over `records`       *)

shared == <<records, identity_map, source_index, next_record_id>>
local == <<result, pc, record_id>>
copy == <<copied, copy_next_id, copying>>
vars == <<shared, batch, local, copy>>

Init ==
    /\ records = <<>>
    /\ identity_map = [r \in Records |-> NoId]
    /\ source_index = [s \in Sources |-> {}]
    /\ next_record_id = 0
    /\ batch \in Batches
    /\ result = [t \in Threads |-> <<>>]
    /\ pc = [t \in Threads |-> "lookup"]
    /\ record_id = [t \in Threads |-> NoId]
    /\ copied = <<>>
    /\ copy_next_id = NoId
    /\ copying = TRUE

-----------------------------------------------------------------------------
Busy(t) == Len(result[t]) < Len(batch[t])
Key(t) == batch[t][Len(result[t]) + 1]

(***************************************************************************)
(* The loop body ends: the id goes to the result, the next key is up.      *)
(***************************************************************************)
NextKey(t, id) ==
    /\ result' = [result EXCEPT ![t] = Append(@, id)]
    /\ pc' = [pc EXCEPT ![t] = "lookup"]
    /\ record_id' = [record_id EXCEPT ![t] = NoId]

Hit(t) ==
    /\ Busy(t) /\ pc[t] = "lookup"
    /\ identity_map[Key(t)] # NoId
    /\ NextKey(t, identity_map[Key(t)])
    /\ UNCHANGED <<shared, batch, copy>>

Miss(t) ==
    /\ Busy(t) /\ pc[t] = "lookup"
    /\ identity_map[Key(t)] = NoId
    /\ pc' = [pc EXCEPT ![t] = "fetch"]
    /\ UNCHANGED <<shared, batch, result, record_id, copy>>

(* Wrong: as if fetch_add returned the incremented counter. *)
FetchIncremented(t) ==
    /\ pc[t] = "fetch"
    /\ next_record_id < IdLimit
    /\ record_id' = [record_id EXCEPT ![t] = next_record_id + 1]
    /\ next_record_id' = next_record_id + 1
    /\ pc' = [pc EXCEPT ![t] = "entry"]
    /\ UNCHANGED <<records, identity_map, source_index, batch, result, copy>>

FetchId(t) ==
    /\ pc[t] = "fetch"
    /\ next_record_id < IdLimit
    /\ record_id' = [record_id EXCEPT ![t] = next_record_id]
    /\ next_record_id' = next_record_id + 1
    /\ pc' = [pc EXCEPT ![t] = "entry"]
    /\ UNCHANGED <<records, identity_map, source_index, batch, result, copy>>

(* Wrong: the loser of the race pushes the record, or files its id, too. *)
OccupiedPushes(t) ==
    /\ pc[t] = "entry"
    /\ identity_map[Key(t)] # NoId
    /\ pc' = [pc EXCEPT ![t] = "push"]
    /\ UNCHANGED <<shared, batch, result, record_id, copy>>

OccupiedIndexes(t) ==
    /\ pc[t] = "entry"
    /\ identity_map[Key(t)] # NoId
    /\ pc' = [pc EXCEPT ![t] = "index"]
    /\ UNCHANGED <<shared, batch, result, record_id, copy>>

(***************************************************************************)
(* Another thread inserted the record meanwhile: the fetched id is lost.   *)
(***************************************************************************)
EntryOccupied(t) ==
    /\ pc[t] = "entry"
    /\ identity_map[Key(t)] # NoId
    /\ NextKey(t, identity_map[Key(t)])
    /\ UNCHANGED <<shared, batch, copy>>

(* Wrong: insert without looking at the entry again. *)
InsertBlindly(t) ==
    /\ pc[t] = "entry"
    /\ identity_map' = [identity_map EXCEPT ![Key(t)] = record_id[t]]
    /\ pc' = [pc EXCEPT ![t] = "push"]
    /\ UNCHANGED <<records, source_index, next_record_id, batch, result, record_id, copy>>

EntryVacant(t) ==
    /\ pc[t] = "entry"
    /\ identity_map[Key(t)] = NoId
    /\ identity_map' = [identity_map EXCEPT ![Key(t)] = record_id[t]]
    /\ pc' = [pc EXCEPT ![t] = "push"]
    /\ UNCHANGED <<records, source_index, next_record_id, batch, result, record_id, copy>>

(* Wrong: the source index is forgotten. *)
PushOnly(t) ==
    /\ pc[t] = "push"
    /\ records' = Append(records, Key(t))
    /\ NextKey(t, record_id[t])
    /\ UNCHANGED <<identity_map, source_index, next_record_id, batch, copy>>

Push(t) ==
    /\ pc[t] = "push"
    /\ records' = Append(records, Key(t))
    /\ pc' = [pc EXCEPT ![t] = "index"]
    /\ UNCHANGED <<identity_map, source_index, next_record_id, batch, result, record_id, copy>>

Index(t) ==
    /\ pc[t] = "index"
    /\ source_index' = [source_index EXCEPT ![SourceOf[Key(t)]] = @ \cup {record_id[t]}]
    /\ NextKey(t, record_id[t])
    /\ UNCHANGED <<records, identity_map, next_record_id, batch, copy>>

Step(t) ==
    \/ Hit(t)
    \/ Miss(t)
    \/ FetchId(t)
    \/ EntryOccupied(t)
    \/ EntryVacant(t)
    \/ Push(t)
    \/ Index(t)

-----------------------------------------------------------------------------
(***************************************************************************)
(* deep_copy: iterate over the records, rebuild the maps from the copies   *)
(* (a record's id in the copy is its position), then read len().           *)
(***************************************************************************)
CopyRecord ==
    /\ copying
    /\ Len(copied) < Len(records)
    /\ copied' = Append(copied, records[Len(copied) + 1])
    /\ UNCHANGED <<shared, batch, local, copy_next_id, copying>>

CopiedAll ==
    /\ copying
    /\ Len(copied) = Len(records)
    /\ copying' = FALSE
    /\ UNCHANGED <<shared, batch, local, copied, copy_next_id>>

(* Wrong: the copy's counter is the len() read at any time before. *)
CopyEarlyNextId ==
    /\ copy_next_id = NoId
    /\ copy_next_id' = next_record_id
    /\ UNCHANGED <<shared, batch, local, copied, copying>>

CopyNextId ==
    /\ ~copying /\ copy_next_id = NoId
    /\ copy_next_id' = next_record_id
    /\ UNCHANGED <<shared, batch, local, copied, copying>>

Next ==
    \/ \E t \in Threads : Step(t)
    \/ CopyRecord
    \/ CopiedAll
    \/ CopyNextId

Spec == Init /\ [][Next]_vars

(***************************************************************************)
(* No step blocks: a thread that is scheduled makes progress.              *)
(***************************************************************************)
FairSpec == Spec /\ \A t \in Threads : WF_vars(Step(t))

-----------------------------------------------------------------------------
Ids == 0 .. next_record_id - 1

TypeOK ==
    /\ records \in Seq(Records)
    /\ identity_map \in [Records -> Ids \cup {NoId}]
    /\ source_index \in [Sources -> SUBSET Ids]
    /\ next_record_id \in 0 .. IdLimit
    /\ batch \in [Threads -> Seq(Records)]
    /\ result \in [Threads -> Seq(Nat)]
    /\ pc \in [Threads -> {"lookup", "fetch", "entry", "push", "index"}]
    /\ record_id \in [Threads -> Ids \cup {NoId}]
    /\ copied \in Seq(Records)
    /\ copy_next_id \in 0 .. next_record_id \cup {NoId}
    /\ copying \in BOOLEAN

(***************************************************************************)
(* "Thread-safe record interning" (data_context.rs:131): whatever the      *)
(* threads race on, no two records share an id, an id once in the map is   *)
(* never replaced, and every call returns the id in the map.               *)
(***************************************************************************)
Interning == INSTANCE Interner WITH id <- identity_map, Numbers <- 0 .. IdLimit - 1

InternsOnce == Interning!Spec

(***************************************************************************)
(* A record is pushed once, by the thread that put it in the map, though   *)
(* the map's lock is gone by then: a mapped record holds one position, or  *)
(* else exactly one thread still owes the push; an unmapped one neither.   *)
(***************************************************************************)
Pushed(r) == \E i \in 1 .. Len(records) : records[i] = r
Owes(t, r, steps) == pc[t] \in steps /\ Key(t) = r

PushedOnce ==
    /\ \A i, j \in 1 .. Len(records) : records[i] = records[j] => i = j
    /\ \A r \in Records :
        /\ identity_map[r] # NoId <=> Pushed(r) \/ \E t \in Threads : Owes(t, r, {"push"})
        /\ \A t, u \in Threads : Owes(t, r, {"push"}) /\ Owes(u, r, {"push"}) => t = u
        /\ \A t \in Threads : Owes(t, r, {"push"}) => ~Pushed(r)

(***************************************************************************)
(* The source index files the ids of the mapped records of each source and *)
(* no other, in particular none that a lost race left unused; an id is     *)
(* missing only while the thread that inserted it has not got there.       *)
(***************************************************************************)
SourceIndexMatchesMap ==
    \A s \in Sources :
        source_index[s] = {identity_map[r] : r \in
            {q \in Records : /\ SourceOf[q] = s
                             /\ identity_map[q] # NoId
                             /\ \A t \in Threads : ~Owes(t, q, {"push", "index"})}}

(***************************************************************************)
(* A copy taken while others intern never gives a new record the id of one *)
(* it holds: the copy reads len() after the records, and every record in   *)
(* the vector was counted before it was pushed.                            *)
(***************************************************************************)
CopyHandsOutFreshIds ==
    /\ \A i, j \in 1 .. Len(copied) : copied[i] = copied[j] => i = j
    /\ copy_next_id # NoId => Len(copied) <= copy_next_id

(***************************************************************************)
(* Every call returns, and leaves what it found in the map findable by     *)
(* position and by source in the end.                                      *)
(***************************************************************************)
AllStored ==
    <>[](/\ \A t \in Threads : ~Busy(t)
         /\ \A t \in Threads : \A k \in 1 .. Len(batch[t]) :
                /\ Pushed(batch[t][k])
                /\ result[t][k] \in source_index[SourceOf[batch[t][k]]])
=============================================================================
