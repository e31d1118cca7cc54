----------------------------- MODULE Components -----------------------------
(***************************************************************************)
(* Connected components without recursion.  Two records are connected when *)
(* no set of records separates them: a set separates them when it contains *)
(* one and not the other and no link crosses its border.  A hierarchy      *)
(* links records in two ways, by scored edges and by merge events, and the *)
(* modules compare the two through the sets each leaves uncut.             *)
(***************************************************************************)
LOCAL INSTANCE Integers

(***************************************************************************)
(* The sets that no edge of weight t or more cuts.                         *)
(***************************************************************************)
UncutByEdges(S, edges, last, t) ==
    \A i \in 1 .. last :
        edges[i].weight >= t => (edges[i].src \in S <=> edges[i].dst \in S)

(***************************************************************************)
(* The sets that no merge event of threshold t or more cuts: a reader of   *)
(* the event links parent_id with every one of child_nodes.                *)
(***************************************************************************)
UncutByEvents(S, events, last, t) ==
    \A k \in 1 .. last :
        events[k].threshold >= t =>
            \A n \in events[k].child_nodes : n \in S <=> events[k].parent_id \in S

(***************************************************************************)
(* The same for the classes of a union-find, given by their roots.         *)
(***************************************************************************)
UncutByRoots(S, root) == \A x \in DOMAIN root : x \in S <=> root[x] \in S
=============================================================================
