--------------------------- MODULE SingleLinkage ---------------------------
(***************************************************************************)
(* What a hierarchy promises, with no union-find, bitmap map or edge order *)
(* in sight: agglomeration by single linkage.  Blocks joined by an edge of *)
(* the current level merge two at a time, in any order; the level drops to *)
(* the next weight only when no edge of this level joins two blocks any    *)
(* more.  Every merge is logged as the block absorbed and the canonical    *)
(* (smallest) record of the block that absorbs it.  Agglomeration may fail *)
(* at any point, also when two blocks are joined and not logged yet, and   *)
(* then stops.                                                             *)
(***************************************************************************)
EXTENDS Integers, Sequences, FiniteSetsExt

CONSTANTS Records, Thresholds

VARIABLES edges, level, blocks, log, failed

Init ==
    /\ edges \in Seq([src : Records, dst : Records, weight : Thresholds])
    /\ level = IF edges = <<>> THEN 0 ELSE Max({edges[i].weight : i \in 1 .. Len(edges)})
    /\ blocks = {{x} : x \in Records}
    /\ log = <<>>
    /\ failed = FALSE

Joins(i, P, C) ==
    \/ edges[i].src \in P /\ edges[i].dst \in C
    \/ edges[i].src \in C /\ edges[i].dst \in P

Joined(P, C) ==
    /\ P # C
    /\ \E i \in 1 .. Len(edges) : edges[i].weight = level /\ Joins(i, P, C)
    /\ blocks' = (blocks \ {P, C}) \cup {P \cup C}

Merge(P, C) ==
    /\ ~failed
    /\ Joined(P, C)
    /\ Min(P) < Min(C)
    /\ log' = Append(log, [threshold |-> level, parent_id |-> Min(P), child_nodes |-> C])
    /\ UNCHANGED <<edges, level, failed>>

(***************************************************************************)
(* The next level is the largest weight below this one.                    *)
(***************************************************************************)
Lower ==
    /\ ~failed
    /\ \A P, C \in blocks : P # C =>
         ~ \E i \in 1 .. Len(edges) : edges[i].weight = level /\ Joins(i, P, C)
    /\ \E i \in 1 .. Len(edges) :
         /\ edges[i].weight < level
         /\ level' = edges[i].weight
         /\ \A j \in 1 .. Len(edges) : edges[j].weight < level => edges[j].weight <= level'
    /\ UNCHANGED <<edges, blocks, log, failed>>

Fail ==
    /\ ~failed
    /\ failed' = TRUE
    /\ blocks' = blocks \/ \E P, C \in blocks : Joined(P, C)
    /\ UNCHANGED <<edges, level, log>>

Next == Lower \/ Fail \/ \E P, C \in blocks : Merge(P, C)

Spec == Init /\ [][Next]_<<edges, level, blocks, log, failed>>
=============================================================================
