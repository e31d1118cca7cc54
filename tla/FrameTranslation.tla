-------------------------- MODULE FrameTranslation --------------------------
(***************************************************************************)
(* EntityFrame::add_collection and frame/translation.rs: a hierarchy built *)
(* over a context of its own is assimilated into the frame's context.  Its *)
(* records are found or created there one at a time, while other users of  *)
(* the shared context may add records too; then its merge events are       *)
(* rewritten from the old ids to the new.  The context is seen here as     *)
(* callers see it (Interner.tla, which DataContext.tla implements): a      *)
(* number for each stored identity, drawn from a counter.  A hierarchy     *)
(* over the frame's context itself is added as it is.                      *)
(***************************************************************************)
EXTENDS Integers, Sequences, FiniteSets, Components, Hierarchies

CONSTANTS
    Identities,     (* (source, key) pairs as contexts store them           *)
    Sources,        (* hierarchies with a context of their own              *)
    RecordsOf,      (* RecordsOf[c]: the record vector of c's context       *)
    IdsOf,          (* IdsOf[c][p]: the id of the record at position p of it *)
    EventsOf,       (* EventsOf[c]: c's merge events, over ids              *)
    OnDisk,         (* those of them whose events must be read from a file  *)
    Unnamed,        (* Unnamed[c]: the positions of the records whose source
                       name c's string interner cannot resolve              *)
    InPlace,        (* event lists of hierarchies that from_edges can build
                       over the frame's own context                         *)
    Denotes,        (* Denotes[c][i]: the record stored as identity i in c,
                       as its user gave it: a string key is stored as a
                       number of the context's string interner              *)
    Names,          (* collection names                                     *)
    IdLimit,        (* bound: ids the frame's context may hand out          *)
    None            (* no number, no collection, no call                    *)

Numbers == 0 .. IdLimit - 1
Event(ids) == [threshold : Nat, parent_id : ids, child_nodes : (SUBSET ids) \ {{}}]

(* A collection built in place has no source. *)
Collection == [source : Sources \cup {None}, events : Seq(Event(Numbers))]
Call == [name : Names, source : Sources]

ASSUME NoneAssumption ==
    None \notin Nat /\ None \notin Sources /\ None \notin Collection /\ None \notin Call
ASSUME IdLimitAssumption == IdLimit \in Nat
ASSUME SourcesAssumption ==
    \A c \in Sources :
        /\ RecordsOf[c] \in Seq(Identities)
        /\ \A p, q \in DOMAIN RecordsOf[c] : RecordsOf[c][p] = RecordsOf[c][q] => p = q
        /\ IdsOf[c] \in [DOMAIN RecordsOf[c] -> Nat]
        /\ EventsOf[c] \in Seq(Event({IdsOf[c][p] : p \in DOMAIN RecordsOf[c]}))
        /\ Unnamed[c] \subseteq DOMAIN RecordsOf[c]
ASSUME InPlaceAssumption == InPlace \subseteq Seq(Event(Numbers))

VARIABLES
    identity_map,       (* the frame's context: the number of an identity   *)
    next_record_id,     (* its counter                                      *)
    collections,        (* the frame's hierarchies, by name                 *)
    old_to_new,         (* the translation map: new numbers by old position *)
    new_records_added,  (* the call's count of records it added             *)
    created,            (* history: the records it did add                  *)
    adding              (* the call of add_collection, None when there is none *)

vars == <<identity_map, next_record_id, collections, old_to_new, new_records_added,
          created, adding>>

Init ==
    /\ identity_map = [i \in Identities |-> None]
    /\ next_record_id = 0
    /\ collections = [n \in Names |-> None]
    /\ old_to_new = <<>>
    /\ new_records_added = 0
    /\ created = 0
    /\ adding = None

-----------------------------------------------------------------------------
(***************************************************************************)
(* Another user of the frame's context adds a record.  A number may also   *)
(* be lost to a race between two of them.                                  *)
(***************************************************************************)
Grow ==
    /\ next_record_id < IdLimit
    /\ \E i \in Identities : identity_map[i] = None /\
            identity_map' \in {identity_map, [identity_map EXCEPT ![i] = next_record_id]}
    /\ next_record_id' = next_record_id + 1
    /\ UNCHANGED <<collections, old_to_new, new_records_added, created, adding>>

(* Wrong: a collection of that name is not replaced. *)
InsertIfAbsent(name, collection) ==
    IF collections[name] # None THEN collections
    ELSE [collections EXCEPT ![name] = collection]

Insert(name, collection) == [collections EXCEPT ![name] = collection]

(***************************************************************************)
(* A hierarchy over the frame's own context, one of its collections, is    *)
(* added as it is.  A view cloned before its collection was removed can    *)
(* come back the same way; here it is added while the collection is there. *)
(***************************************************************************)
AddShared ==
    /\ adding = None
    /\ \E name, other \in Names :
        /\ collections[other] # None
        /\ collections' = Insert(name, collections[other])
    /\ UNCHANGED <<identity_map, next_record_id, old_to_new, new_records_added,
                   created, adding>>

(***************************************************************************)
(* So is one that from_edges has just built over frame.context(), from     *)
(* edges between records the context holds by then.                        *)
(***************************************************************************)
AddInPlace ==
    /\ adding = None
    /\ \E name \in Names, events \in InPlace :
        /\ \A k \in DOMAIN events :
                {events[k].parent_id} \cup events[k].child_nodes
                    \subseteq {identity_map[i] : i \in Identities}
        /\ collections' = Insert(name, [source |-> None, events |-> events])
    /\ UNCHANGED <<identity_map, next_record_id, old_to_new, new_records_added,
                   created, adding>>

(***************************************************************************)
(* Any other hierarchy is assimilated.                                     *)
(***************************************************************************)
StartAdd ==
    /\ adding = None
    /\ \E name \in Names, c \in Sources : adding' = [name |-> name, source |-> c]
    /\ old_to_new' = <<>>
    /\ new_records_added' = 0
    /\ created' = 0
    /\ UNCHANGED <<identity_map, next_record_id, collections>>

Source == RecordsOf[adding.source]
OldIdx == Len(old_to_new)

(* Wrong: a record counts as new when its number is past its old position. *)
CountPast(new_idx) == IF new_idx > OldIdx THEN new_records_added + 1 ELSE new_records_added

Count(new_idx) == IF new_idx >= OldIdx THEN new_records_added + 1 ELSE new_records_added

(* There is a next record, and the name of its source can be resolved. *)
Resolved == adding # None /\ OldIdx < Len(Source) /\ OldIdx + 1 \notin Unnamed[adding.source]

Translated(new_idx) ==
    /\ old_to_new' = Append(old_to_new, new_idx)
    /\ new_records_added' = Count(new_idx)
    /\ UNCHANGED <<collections, adding>>

(***************************************************************************)
(* target_context.ensure_record for the next record of the source: found,  *)
(* or created.  Which it is is decided under the lock of the map's entry.  *)
(***************************************************************************)
FindRecord ==
    /\ Resolved
    /\ identity_map[Source[OldIdx + 1]] # None
    /\ Translated(identity_map[Source[OldIdx + 1]])
    /\ UNCHANGED <<identity_map, next_record_id, created>>

CreateRecord ==
    /\ Resolved
    /\ next_record_id < IdLimit
    /\ identity_map[Source[OldIdx + 1]] = None
    /\ identity_map' = [identity_map EXCEPT ![Source[OldIdx + 1]] = next_record_id]
    /\ next_record_id' = next_record_id + 1
    /\ created' = created + 1
    /\ Translated(next_record_id)

(***************************************************************************)
(* "Failed to resolve source_id": the call ends with an error, and the     *)
(* records it created stay.                                                *)
(***************************************************************************)
FailResolve ==
    /\ adding # None /\ OldIdx + 1 \in Unnamed[adding.source]
    /\ adding' = None
    /\ UNCHANGED <<identity_map, next_record_id, collections, old_to_new,
                   new_records_added, created>>

-----------------------------------------------------------------------------
Known == 0 .. Len(old_to_new) - 1
Translate(old_idx) == old_to_new[old_idx + 1]

(* Wrong: the smallest record of a child is left out. *)
BitmapWithoutFirst(child_nodes) ==
    {Translate(old_idx) : old_idx \in (child_nodes \ {Min(child_nodes)}) \cap Known}

TranslateBitmap(child_nodes) == {Translate(old_idx) : old_idx \in child_nodes \cap Known}

TranslateEvent(merge) ==
    [threshold |-> merge.threshold,
     parent_id |-> Translate(merge.parent_id),
     child_nodes |-> TranslateBitmap(merge.child_nodes)]

(* Wrong: events stay though nothing is left of their child. *)
NumberingsOfAll(merges) == {[k \in DOMAIN merges |-> k]}

(***************************************************************************)
(* The events in order, but for those of whose child nothing is left: the  *)
(* numbering of the events that stay.                                      *)
(***************************************************************************)
Numberings(merges) ==
    LET stay == {k \in DOMAIN merges : TranslateBitmap(merges[k].child_nodes) # {}}
    IN  {kept \in [1 .. Cardinality(stay) -> stay] :
            /\ \A i, j \in DOMAIN kept : i < j => kept[i] < kept[j]
            /\ \A k \in stay : \E i \in DOMAIN kept : kept[i] = k}

(***************************************************************************)
(* How many events get_merge_events reads: all of them, or those before    *)
(* the first that a file does not yield; the error is not reported.        *)
(***************************************************************************)
Reads(c) == IF c \in OnDisk THEN 0 .. Len(EventsOf[c]) ELSE {Len(EventsOf[c])}

(***************************************************************************)
(* An event read whose parent has no translation fails the whole call, and *)
(* the records it created stay.                                            *)
(***************************************************************************)
AllTranslated == adding # None /\ OldIdx = Len(Source)

FinishAdd ==
    /\ AllTranslated
    /\ \E read \in Reads(adding.source) :
        LET merges == SubSeq(EventsOf[adding.source], 1, read)
        IN  /\ \A k \in DOMAIN merges : merges[k].parent_id \in Known
            /\ \E kept \in Numberings(merges) :
                collections' = Insert(adding.name,
                    [source |-> adding.source,
                     events |-> [i \in DOMAIN kept |-> TranslateEvent(merges[kept[i]])]])
    /\ adding' = None
    /\ UNCHANGED <<identity_map, next_record_id, old_to_new, new_records_added, created>>

FailAdd ==
    /\ AllTranslated
    /\ \E read \in Reads(adding.source) : \E k \in 1 .. read :
            EventsOf[adding.source][k].parent_id \notin Known
    /\ adding' = None
    /\ UNCHANGED <<identity_map, next_record_id, collections, old_to_new,
                   new_records_added, created>>

RemoveCollection ==
    /\ adding = None
    /\ \E name \in Names :
        /\ collections[name] # None
        /\ collections' = [collections EXCEPT ![name] = None]
    /\ UNCHANGED <<identity_map, next_record_id, old_to_new, new_records_added,
                   created, adding>>

Next ==
    \/ Grow
    \/ AddShared
    \/ AddInPlace
    \/ StartAdd
    \/ FindRecord
    \/ CreateRecord
    \/ FailResolve
    \/ FinishAdd
    \/ FailAdd
    \/ RemoveCollection

Spec == Init /\ [][Next]_vars

-----------------------------------------------------------------------------
TypeOK ==
    /\ identity_map \in [Identities -> Numbers \cup {None}]
    /\ next_record_id \in 0 .. IdLimit
    /\ collections \in [Names -> Collection \cup {None}]
    /\ old_to_new \in Seq(Numbers)
    /\ new_records_added \in Nat
    /\ created \in Nat
    /\ adding \in Call \cup {None}

(***************************************************************************)
(* A context whose records were interned one after the other numbers them  *)
(* by position, which is what assimilation takes for their ids.            *)
(***************************************************************************)
InOrder(c) == \A p \in DOMAIN RecordsOf[c] : IdsOf[c][p] = p - 1

(***************************************************************************)
(* An assimilated collection partitions the records of its source exactly  *)
(* as the source's events do, those that were read, at every threshold,    *)
(* though they have other numbers, were added one at a time while others   *)
(* added theirs, and are shared with other collections; a record of the    *)
(* frame that is not of the source is an entity of its own.  This stays so *)
(* for as long as the frame grows.  It is about sources whose records are  *)
(* numbered by position.                                                   *)
(***************************************************************************)
Faithful(collection) ==
    LET c == collection.source
        merges == EventsOf[c]
        Moved(S) == {p - 1 : p \in {p \in DOMAIN RecordsOf[c] :
                                        identity_map[RecordsOf[c][p]] \in S}}
    IN  /\ \A p \in DOMAIN RecordsOf[c] : identity_map[RecordsOf[c][p]] # None
        /\ \A p, q \in DOMAIN RecordsOf[c] :
                identity_map[RecordsOf[c][p]] = identity_map[RecordsOf[c][q]] => p = q
        /\ \E read \in Reads(c) : \A k \in DOMAIN merges : \A S \in SUBSET Numbers :
                LET t == merges[k].threshold
                IN  UncutByEvents(S, collection.events, Len(collection.events), t)
                        <=> UncutByEvents(Moved(S), merges, read, t)

(* Assimilated, from a source whose records are numbered by position. *)
FromOrdered(collection) ==
    collection # None /\ collection.source # None /\ InOrder(collection.source)

CollectionsFaithful ==
    \A n \in Names : FromOrdered(collections[n]) => Faithful(collections[n])

(***************************************************************************)
(* A call that returns has added the collection, if its source's records   *)
(* are numbered by position and their sources' names are known: none of    *)
(* its merges loses its parent.                                            *)
(***************************************************************************)
Addable(c) == InOrder(c) /\ Unnamed[c] = {}

AddsSucceed ==
    [][adding # None /\ adding' = None /\ Addable(adding.source) =>
            /\ collections'[adding.name] # None
            /\ collections'[adding.name].source = adding.source]_vars

(***************************************************************************)
(* "Track if this was a new record (approximation ...)"                    *)
(* (translation.rs:75) compares a record's number with its position in     *)
(* another context.  The count may be too high; it is never too low.       *)
(***************************************************************************)
NeverUndercounts == created <= new_records_added

(***************************************************************************)
(* "(source, key) determines identity" (docs/design/algorithms.md:592),    *)
(* and a record is found or created in the target (translation.rs:59): two *)
(* collections of a frame hold the same record under the same number, and  *)
(* only then.                                                              *)
(***************************************************************************)
SameRecordSameNumber ==
    \A n, m \in {n \in Names : collections[n] # None /\ collections[n].source # None} :
        LET c == collections[n].source
            d == collections[m].source
        IN  \A p \in DOMAIN RecordsOf[c], q \in DOMAIN RecordsOf[d] :
                Denotes[c][RecordsOf[c][p]] = Denotes[d][RecordsOf[d][q]]
                    <=> identity_map[RecordsOf[c][p]] = identity_map[RecordsOf[d][q]]

(***************************************************************************)
(* "Parent ID: The canonical ID (minimum record index) of the surviving    *)
(* partition" (docs/design/algorithms.md:297): an event's parent is the    *)
(* smallest record of the partition it survives in, as the events before   *)
(* it left that.  delta.rs keys its rows by the smallest record (414-418)  *)
(* and looks them up by the parent (580-592).                              *)
(***************************************************************************)
Surviving(events, k) ==
    {m \in Numbers : \A S \in SUBSET Numbers :
        events[k].parent_id \in S /\ UncutByEvents(S, events, k - 1, 0) => m \in S}

ParentsAreCanonical ==
    \A n \in {n \in Names : collections[n] # None} :
        LET events == collections[n].events
        IN  \A k \in DOMAIN events : events[k].parent_id = Min(Surviving(events, k))
=============================================================================
