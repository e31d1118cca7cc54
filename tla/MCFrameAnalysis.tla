-------------------------- MODULE MCFrameAnalysis --------------------------
(* Constants for model checking FrameAnalysis: two collections over three
   records, and analyses of every kind: sweeps against each other, a sweep
   against a point, three expressions whose last leaves the pair the same, and
   a collection against itself, which Record and Delta share. *)
EXTENDS FrameAnalysis

Event(threshold, parent_id, child_nodes) ==
    [threshold |-> threshold, parent_id |-> parent_id, child_nodes |-> child_nodes]

MCEventsOf ==
    [a |-> <<Event(2, 0, {1}), Event(1, 0, {2})>>,
     b |-> <<Event(2, 1, {2})>>]

Sweep(c) == [collection |-> c, thresholds |-> <<2, 1>>, sweep |-> TRUE]
Point(c, t) == [collection |-> c, thresholds |-> <<t>>, sweep |-> FALSE]

MCAnalyses == {
    <<Sweep("a"), Sweep("b")>>,
    <<Point("b", 2), Sweep("a")>>,
    <<Point("b", 1), Point("a", 2), Sweep("a")>>,
    <<Sweep("a"), Sweep("a")>>,
    <<Point("a", 2), Point("a", 1)>>}
=============================================================================
