--------------------------- MODULE MCDeltaMetrics ---------------------------
(* Constants for model checking DeltaMetrics. *)
EXTENDS DeltaMetrics, TLC

(* Two hierarchies of four records: two pairs that merge last, with events on
   the thresholds of a sweep, and a chain with two merges of one weight, between
   them. *)
Event(threshold, parent_id, child_nodes) ==
    [threshold |-> threshold, parent_id |-> parent_id, child_nodes |-> child_nodes]

MCEventLists == {
    <<Event(11, 2, {3}), Event(6, 0, {1}), Event(4, 0, {2, 3})>>,
    <<Event(9, 1, {2}), Event(9, 0, {1, 2}), Event(4, 0, {3})>>}

MCThresholds == 0 .. 11
MCPoints == {1, 5, 6, 11}
MCTruths == {4, 9}

(* A sweep in steps less than the least allowed, one in long steps, one of a
   single threshold and one whose bounds are the wrong way. *)
Arguments(start, stop, step) == [start |-> start, stop |-> stop, step |-> step]
MCSweepArguments == {
    Arguments(1, 11, 1), Arguments(1, 11, 10), Arguments(6, 9, 5), Arguments(9, 4, 5)}

(* Bound: a state mixed from two collections, or updated upwards, is checked, but
   no call follows it.  Its rows may add up to ever more; a rebuild would forget
   them anyway. *)
MixedOnce == Cardinality(sources) <= 1

CollectionsAlike == Permutations(Collections)
=============================================================================
