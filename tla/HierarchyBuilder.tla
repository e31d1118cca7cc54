-------------------------- MODULE HierarchyBuilder --------------------------
(***************************************************************************)
(* PartitionHierarchy::from_edges and build_merge_events: the edges, sorted*)
(* by quantised weight from high to low, are folded one at a time into a   *)
(* union-find; each edge that joins two components appends a binary merge  *)
(* event (the child's records and the parent's smallest record) to the     *)
(* hierarchy's storage.  The union-find is seen here through what `find`   *)
(* returns; UnionFind.tla models its parents, ranks and path halving.      *)
(***************************************************************************)
EXTENDS Integers, Sequences, FiniteSets, FiniteSetsExt, Components, Hierarchies

CONSTANTS
    NumRecords,     (* context.len() when the build starts                 *)
    Thresholds,     (* quantised weights, as whole numbers of 10^-quantise *)
    EdgeLists,      (* the sorted edge lists a build may be given          *)
    DiskBacked,     (* whether storage can fail (DiskStorage) or not       *)
    CheckFloor,     (* merges below which chains are not looked for: 10000 *)
    CheckEvery      (* merges between two looks: 50000                     *)

Records == 0 .. NumRecords - 1
Edge == [src : Records, dst : Records, weight : Thresholds]
MergeEvent == [threshold : Thresholds, parent_id : Records, child_nodes : SUBSET Records]

ASSUME NumRecordsAssumption == NumRecords \in Nat
ASSUME ThresholdsAssumption == Thresholds \subseteq Nat
ASSUME EdgeListsAssumption ==
    \A es \in EdgeLists :
        /\ es \in Seq(Edge)
        /\ \A i, j \in 1 .. Len(es) : i < j => es[i].weight >= es[j].weight
ASSUME DiskBackedAssumption == DiskBacked \in BOOLEAN
ASSUME CheckAssumption == CheckFloor \in Nat /\ CheckEvery \in Nat \ {0}

VARIABLES
    edges,              (* the sorted, quantised edges; never changes       *)
    next,               (* position of the next edge to process             *)
    threshold,          (* weight of the group of edges being processed     *)
    root,               (* root[x]: what uf.find(x) returns                 *)
    active_components,  (* bitmap held for a root; {} when there is none    *)
    processed_pairs,    (* pairs of roots merged in this group              *)
    events,             (* the merge events pushed to storage               *)
    status              (* "building", then "done" or "error"               *)

vars == <<edges, next, threshold, root, active_components, processed_pairs,
          events, status>>

(* Wrong: the edges sorted from low to high. *)
InitAscending ==
    /\ edges \in {[i \in 1 .. Len(es) |-> es[Len(es) + 1 - i]] : es \in EdgeLists}
    /\ next = 1
    /\ threshold = IF edges = <<>> THEN 0 ELSE edges[1].weight
    /\ root = [x \in Records |-> x]
    /\ active_components = [x \in Records |-> {}]
    /\ processed_pairs = {}
    /\ events = <<>>
    /\ status = IF edges = <<>> THEN "done" ELSE "building"

Init ==
    /\ edges \in EdgeLists
    /\ next = 1
    /\ threshold = IF edges = <<>> THEN 0 ELSE edges[1].weight
    /\ root = [x \in Records |-> x]
    /\ active_components = [x \in Records |-> {}]
    /\ processed_pairs = {}
    /\ events = <<>>
    /\ status = IF edges = <<>> THEN "done" ELSE "building"

-----------------------------------------------------------------------------
Class(r) == {x \in Records : root[x] = r}

(* Wrong: the bitmap held for the root is not looked up. *)
ComponentForgotten(r, record) == {record}

(***************************************************************************)
(* ComponentManager::get_or_create_component: the bitmap held for a root,  *)
(* or one made of the edge's own endpoint.                                 *)
(***************************************************************************)
Component(r, record) ==
    IF active_components[r] # {} THEN active_components[r] ELSE {record}

InGroup == next <= Len(edges) /\ edges[next].weight = threshold
RootSrc == root[edges[next].src]
RootDst == root[edges[next].dst]

(* Wrong: a root is spent, not a pair of roots. *)
RedundantRoot == RootSrc = RootDst \/ \E pair \in processed_pairs : RootSrc \in pair

(***************************************************************************)
(* An edge inside one component, or whose pair of roots was merged in this *)
(* group already, changes nothing.                                         *)
(***************************************************************************)
Redundant == RootSrc = RootDst \/ {RootSrc, RootDst} \in processed_pairs

SkipEdge ==
    /\ status = "building" /\ InGroup /\ Redundant
    /\ next' = next + 1
    /\ UNCHANGED <<edges, threshold, root, active_components, processed_pairs,
                   events, status>>

(* Wrong: an event at the weight truncated to the unit below instead of rounded,
   one that names the larger of the two canonical records, one that names its
   child's. *)
EventTruncated(src_component, dst_component) ==
    [threshold |-> threshold - 1, parent_id |-> Min(src_component),
     child_nodes |-> dst_component]

EventUnderLarger(src_component, dst_component) ==
    IF Min(src_component) < Min(dst_component)
    THEN [threshold |-> threshold, parent_id |-> Min(dst_component),
          child_nodes |-> src_component]
    ELSE [threshold |-> threshold, parent_id |-> Min(src_component),
          child_nodes |-> dst_component]

EventUnderItself(src_component, dst_component) ==
    [threshold |-> threshold, parent_id |-> Min(dst_component),
     child_nodes |-> dst_component]

EventFor(src_component, dst_component) ==
    IF Min(src_component) < Min(dst_component)
    THEN [threshold |-> threshold, parent_id |-> Min(src_component),
          child_nodes |-> dst_component]
    ELSE [threshold |-> threshold, parent_id |-> Min(dst_component),
          child_nodes |-> src_component]

(***************************************************************************)
(* uf.union.  Union by rank keeps either root.                             *)
(***************************************************************************)
Union(new_root) ==
    root' = [x \in Records |->
                IF root[x] \in {RootSrc, RootDst} THEN new_root ELSE root[x]]

(***************************************************************************)
(* An edge that joins two components.                                      *)
(***************************************************************************)
MergeEdge ==
    /\ status = "building" /\ InGroup /\ ~Redundant
    /\ LET src_component == Component(RootSrc, edges[next].src)
           dst_component == Component(RootDst, edges[next].dst)
       IN  \E new_root \in {RootSrc, RootDst} :
            /\ Union(new_root)
            /\ active_components' = [x \in Records |->
                            IF x = new_root THEN src_component \cup dst_component
                            ELSE IF x \in {RootSrc, RootDst} THEN {}
                            ELSE active_components[x]]
            /\ events' = Append(events, EventFor(src_component, dst_component))
    /\ processed_pairs' = processed_pairs \cup {{RootSrc, RootDst}}
    /\ next' = next + 1
    /\ UNCHANGED <<edges, threshold, status>>

(* Wrong: the event whose push failed is kept. *)
PushFailsKeepingEvent ==
    /\ DiskBacked
    /\ status = "building" /\ InGroup /\ ~Redundant
    /\ \E new_root \in {RootSrc, RootDst} : Union(new_root)
    /\ active_components' = [x \in Records |->
                            IF x \in {RootSrc, RootDst} THEN {} ELSE active_components[x]]
    /\ events' = Append(events, EventFor(Component(RootSrc, edges[next].src),
                                         Component(RootDst, edges[next].dst)))
    /\ processed_pairs' = processed_pairs \cup {{RootSrc, RootDst}}
    /\ status' = "error"
    /\ UNCHANGED <<edges, next, threshold>>

(***************************************************************************)
(* storage.push fails.  The two components are united by then and their    *)
(* bitmaps taken out of the map, and nothing is undone: what is left is a  *)
(* union-find one merge ahead of the events.  from_edges returns the error *)
(* and drops it.                                                           *)
(***************************************************************************)
PushFails ==
    /\ DiskBacked
    /\ status = "building" /\ InGroup /\ ~Redundant
    /\ \E new_root \in {RootSrc, RootDst} : Union(new_root)
    /\ active_components' = [x \in Records |->
                            IF x \in {RootSrc, RootDst} THEN {} ELSE active_components[x]]
    /\ processed_pairs' = processed_pairs \cup {{RootSrc, RootDst}}
    /\ status' = "error"
    /\ UNCHANGED <<edges, next, threshold, events>>

-----------------------------------------------------------------------------
(***************************************************************************)
(* ChainDetector::check_and_error, at the end of a group.  It counts       *)
(* merges, and gives a verdict only at exact multiples of CheckEvery.  Of  *)
(* its three criteria the early giant component is modelled; growth rates  *)
(* and bytes per edge depend on the bitmaps and are left to a free choice. *)
(***************************************************************************)
CheckDue ==
    /\ Len(events) >= CheckFloor
    /\ Len(events) % CheckEvery = 0

GiantEarly ==
    /\ \E r \in Records : 2 * Cardinality(Class(r)) > Len(edges)
    /\ 10 * Len(events) < 8 * Len(edges)

GroupEnded == status = "building" /\ ~InGroup

EndGroup ==
    /\ GroupEnded
    /\ next <= Len(edges)
    /\ CheckDue => ~GiantEarly
    /\ threshold' = edges[next].weight
    /\ processed_pairs' = {}
    /\ UNCHANGED <<edges, next, root, active_components, events, status>>

ChainDetected ==
    /\ GroupEnded
    /\ CheckDue
    /\ status' = "error"
    /\ UNCHANGED <<edges, next, threshold, root, active_components, processed_pairs, events>>

(***************************************************************************)
(* After the last group the bitmaps go back to the pool and storage is     *)
(* synced.                                                                 *)
(***************************************************************************)
Finish ==
    /\ GroupEnded
    /\ next > Len(edges)
    /\ CheckDue => ~GiantEarly
    /\ active_components' = [x \in Records |-> {}]
    /\ processed_pairs' = {}
    /\ status' \in IF DiskBacked THEN {"done", "error"} ELSE {"done"}
    /\ UNCHANGED <<edges, next, threshold, root, events>>

Next ==
    \/ SkipEdge
    \/ MergeEdge
    \/ PushFails
    \/ EndGroup
    \/ ChainDetected
    \/ Finish

Spec == Init /\ [][Next]_vars

-----------------------------------------------------------------------------
TypeOK ==
    /\ edges \in Seq(Edge)
    /\ next \in 1 .. Len(edges) + 1
    /\ threshold \in Thresholds \cup {0}
    /\ root \in [Records -> Records]
    /\ active_components \in [Records -> SUBSET Records]
    /\ processed_pairs \subseteq SUBSET Records
    /\ events \in Seq(MergeEvent)
    /\ status \in {"building", "done", "error"}

(***************************************************************************)
(* The bitmap held for a root is its whole component, and a component with *)
(* no bitmap is a single record: get_or_create_component never stands for  *)
(* a component by one of several records, whatever root a union left.      *)
(***************************************************************************)
BitmapsAreComponents ==
    status = "building" =>
        \A r \in Records : root[r] = r =>
            \/ active_components[r] = Class(r)
            \/ active_components[r] = {} /\ Class(r) = {r}

(***************************************************************************)
(* Once the edges of a weight are processed, the components the build has  *)
(* are the connected components of all edges of that weight or more: no    *)
(* merge is lost to processed_pairs and none is invented.  A push that     *)
(* failed leaves a union the edges before it do not account for.           *)
(***************************************************************************)
ClassesAreComponents ==
    status # "error" => \A S \in SUBSET Records :
        UncutByRoots(S, root) <=> UncutByEdges(S, edges, next - 1, 0)

(***************************************************************************)
(* What the hierarchy is for.  The merge events of threshold t or more     *)
(* join exactly the records that the edges of weight t or more connect,    *)
(* for every t at once and after every edge, the one whose push failed     *)
(* excepted: what storage holds then is the hierarchy of those before it.  *)
(***************************************************************************)
EventsReproduceEdges ==
    \A t \in Thresholds : \A S \in SUBSET Records :
        UncutByEvents(S, events, Len(events), t) <=> UncutByEdges(S, edges, next - 1, t)

(***************************************************************************)
(* Events are stored from high to low threshold: readers stop at the first *)
(* one below theirs.                                                       *)
(***************************************************************************)
EventsDescending ==
    \A i, j \in 1 .. Len(events) : i < j => events[i].threshold >= events[j].threshold

(***************************************************************************)
(* What is built is a hierarchy as Hierarchies.tla has it and as metrics   *)
(* and frame analyses rely on: each event joins two components that the    *)
(* events before it left whole, under the smaller of their smallest        *)
(* records, and a reader who knows a component by its smallest parent_id   *)
(* has, at every threshold, the components of the edges.                   *)
(***************************************************************************)
BuildsHierarchy ==
    /\ IsHierarchy(events, Records)
    /\ \A t \in Thresholds :
        LET canonical == [x \in Records |-> Canonical(events, t, x)]
        IN  \A S \in SUBSET Records :
                UncutByRoots(S, canonical) <=> UncutByEdges(S, edges, next - 1, t)

(***************************************************************************)
(* The build implements single-linkage agglomeration.  An event is a delta *)
(* between two components as they stand: its child is a whole component,   *)
(* its parent_id the smallest record of the other and of both, by which    *)
(* the metrics find the rows of their contingency tables; and a group ends *)
(* only when no edge of its weight joins two components any more.  A build *)
(* that fails, between a union and its event too, goes no further.         *)
(***************************************************************************)
Blocks == {Class(r) : r \in {x \in Records : root[x] = x}}

Linkage == INSTANCE SingleLinkage WITH level <- threshold, blocks <- Blocks, log <- events,
                                   failed <- (status = "error")

ImplementsSingleLinkage == Linkage!Spec
=============================================================================
