---------------------------- MODULE Hierarchies ----------------------------
(***************************************************************************)
(* The partition of a hierarchy at a threshold, as reconstruction from the *)
(* merge events gives it (HierarchyBuilder.tla and PartitionCache.tla show *)
(* that it does).  An event is a delta between whole components, so that a *)
(* record's canonical record, the smallest of its component, is the least  *)
(* parent of the events in whose child it was.                             *)
(***************************************************************************)
EXTENDS Integers, Sequences, FiniteSets, FiniteSetsExt

Canonical(events, threshold, x) ==
    Min({x} \cup {events[k].parent_id :
            k \in {k \in DOMAIN events : /\ events[k].threshold >= threshold
                                         /\ x \in events[k].child_nodes}})

(***************************************************************************)
(* Records past those of the events are entities of their own.             *)
(***************************************************************************)
EntitiesAt(events, threshold, num_records) ==
    LET Class(r) == {y \in 0 .. num_records - 1 : Canonical(events, threshold, y) = r}
    IN  {Class(Canonical(events, threshold, x)) : x \in 0 .. num_records - 1}

EntityOf(entities, id) == CHOOSE entity \in entities : Min(entity) = id

(***************************************************************************)
(* Event lists that building can leave: from high to low, each event joins *)
(* two whole components under the smaller of their smallest records.       *)
(***************************************************************************)
IsHierarchy(events, records) ==
    \A k \in DOMAIN events :
        LET e == events[k]
            earlier == SubSeq(events, 1, k - 1)
            Class(r) == {y \in records : Canonical(earlier, 0, y) = r}
        IN  /\ \A j \in 1 .. k : events[j].threshold >= e.threshold
            /\ e.parent_id \in records /\ Canonical(earlier, 0, e.parent_id) = e.parent_id
            /\ e.child_nodes \in {Class(r) : r \in records} \ {{}}
            /\ e.parent_id < Min(e.child_nodes)
=============================================================================
