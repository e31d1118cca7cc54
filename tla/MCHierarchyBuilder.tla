------------------------- MODULE MCHierarchyBuilder -------------------------
(* Constants for model checking HierarchyBuilder. *)
EXTENDS HierarchyBuilder

CONSTANTS MaxEdges, Levels

(* Every list, in some descending order and with repetitions, of at most
   MaxEdges edges between two different records, or of record 0 with itself. *)
MCThresholds == 1 .. Levels
MCPairs == {p \in (0 .. NumRecords - 1) \X (0 .. NumRecords - 1) : p[1] < p[2]} \cup {<<0, 0>>}
MCEdges == {[src |-> p[1], dst |-> p[2], weight |-> w] : p \in MCPairs, w \in MCThresholds}
Descending(es) == \A i \in 1 .. Len(es) - 1 : es[i].weight >= es[i + 1].weight
MCEdgeLists ==
    UNION {{es \in [1 .. n -> MCEdges] : Descending(es)} : n \in 0 .. MaxEdges}
=============================================================================
