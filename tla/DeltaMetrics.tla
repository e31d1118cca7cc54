---------------------------- MODULE DeltaMetrics ----------------------------
(***************************************************************************)
(* DeltaAlgorithm, the half of the metric engine that keeps its            *)
(* contingency table between the thresholds of a sweep and between calls.  *)
(* An engine lives as long as its entity frame.  `analyse` uses it for     *)
(* sweeps of one collection, with the merge events between two thresholds, *)
(* and for comparisons of a collection with itself, with two partitions.   *)
(* Metrics are closed formulas over the state: an answer is seen as the    *)
(* state it was computed from.                                             *)
(***************************************************************************)
EXTENDS Integers, Sequences, FiniteSets, FiniteSetsExt, Functions, Hierarchies

CONSTANTS
    Collections,
    FirstRecords,       (* records when the hierarchies were built           *)
    MaxRecords,         (* bound on the growth of their shared context       *)
    Thresholds,         (* in a unit finer than a rounding error             *)
    Points,             (* thresholds of the first partition of comparisons  *)
    EventLists,         (* the merge events a collection may have            *)
    SweepArguments,     (* start, stop and step of the sweeps asked for      *)
    Truths,             (* thresholds of the second partition of comparisons *)
    MinStep,            (* 0.05, in units of a threshold                     *)
    RebuildThreshold,   (* 0.1, in these units                               *)
    Epsilon,            (* f64::EPSILON                                      *)
    Drift,              (* the most that the errors of the subtractions of a
                           sweep add up to                                   *)
    SpillSize           (* size from which a new state is spilled: 200 MB    *)

Sizes == FirstRecords .. MaxRecords
BuildRecords == 0 .. FirstRecords - 1
Records == 0 .. MaxRecords - 1
MergeEvent == [threshold : Thresholds, parent_id : BuildRecords, child_nodes : SUBSET BuildRecords]
SweepArgument == [start : Nat, stop : Nat, step : Nat]

(***************************************************************************)
(* In `sources` of a state that was updated from a threshold to a higher   *)
(* one.                                                                    *)
(***************************************************************************)
Upward == "upward"

(* No state, truth or collection: a function with an empty domain, and so no record. *)
None == <<>>

ASSUME SizesAssumption == FirstRecords \in Nat \ {0} /\ MaxRecords \in Nat /\ FirstRecords <= MaxRecords
ASSUME CollectionsAssumption == Upward \notin Collections
ASSUME ThresholdsAssumption ==
    Thresholds \subseteq Nat /\ Truths \subseteq Thresholds /\ Points \subseteq Thresholds
ASSUME EventListsAssumption ==
    \A events \in EventLists : events \in Seq(MergeEvent) /\ IsHierarchy(events, BuildRecords)
ASSUME SweepArgumentsAssumption ==
    \A args \in SweepArguments :
        args \in SweepArgument /\ args.start - Epsilon .. args.stop \subseteq Thresholds
ASSUME StepsAssumption == MinStep \in Nat \ {0} /\ RebuildThreshold \in Nat /\ SpillSize \in Nat
ASSUME RoundingAssumption == Epsilon \in Nat /\ Drift \in Nat /\ 2 * Drift < MinStep

VARIABLES
    hierarchy,  (* hierarchy[c]: the merge events of collection c; fixed     *)
    state,      (* the algorithm's DeltaState, None when it has none         *)
    is_spilled, (* whether it holds the handle of a spilled state            *)
    sources,    (* the collections `state` was computed from, and Upward
                   (history)                                                 *)
    call,       (* the call under way, or the last one                       *)
    answer,     (* its results: the states metrics were computed from        *)
    pending,    (* the events left in the sweep's current window             *)
    pc          (* "idle", "merging" in a sweep, "panicked" after a panic    *)

vars == <<hierarchy, state, is_spilled, sources, call, answer, pending, pc>>

NoCall == [kind |-> "none", collection |-> None, thresholds |-> <<>>, truth |-> None,
           records |-> FirstRecords, truth_records |-> FirstRecords]

Init ==
    /\ hierarchy \in [Collections -> EventLists]
    /\ state = None
    /\ is_spilled = FALSE
    /\ sources = {}
    /\ call = NoCall
    /\ answer = <<>>
    /\ pending = <<>>
    /\ pc = "idle"

-----------------------------------------------------------------------------
choose_2(n) == (n * (n - 1)) \div 2

Monus(a, b) == IF a >= b THEN a - b ELSE 0

SumOf(f) == FoldFunction(+, 0, f)

Marginals(entities) ==
    [id \in {Min(entity) : entity \in entities} |-> Cardinality(EntityOf(entities, id))]

(***************************************************************************)
(* The non-empty cells of the nested contingency table, by row and column. *)
(***************************************************************************)
Overlaps(entities1, entities2) ==
    LET crossing == {pair \in entities1 \X entities2 : pair[1] \cap pair[2] # {}}
    IN  [cell \in {<<Min(pair[1]), Min(pair[2])>> : pair \in crossing} |->
            Cardinality(EntityOf(entities1, cell[1]) \cap EntityOf(entities2, cell[2]))]

(* Wrong: pairs of a row are counted although its cells have them too. *)
PairCountsTwice(rows, cols, table, total) ==
    LET true_positives == SumOf([cell \in DOMAIN table |-> choose_2(table[cell])])
        false_positives == SumOf([id \in DOMAIN rows |-> choose_2(rows[id])])
        false_negatives == SumOf([id \in DOMAIN cols |-> choose_2(cols[id])])
    IN  [tp |-> true_positives, fp |-> false_positives, fn |-> false_negatives,
         tn |-> Monus(choose_2(total), true_positives + false_positives + false_negatives)]

(* Wrong: nothing is kept from going below zero. *)
PairCountsUnsaturated(rows, cols, table, total) ==
    LET true_positives == SumOf([cell \in DOMAIN table |-> choose_2(table[cell])])
        false_positives == SumOf([id \in DOMAIN rows |-> choose_2(rows[id])]) - true_positives
        false_negatives == SumOf([id \in DOMAIN cols |-> choose_2(cols[id])]) - true_positives
    IN  [tp |-> true_positives, fp |-> false_positives, fn |-> false_negatives,
         tn |-> choose_2(total) - (true_positives + false_positives + false_negatives)]

(***************************************************************************)
(* compute_state_pair_counts, from marginals and cells.                    *)
(***************************************************************************)
PairCounts(rows, cols, table, total) ==
    LET InRow(id) == SumOf([cell \in {c \in DOMAIN table : c[1] = id} |-> choose_2(table[cell])])
        InCol(id) == SumOf([cell \in {c \in DOMAIN table : c[2] = id} |-> choose_2(table[cell])])
        true_positives == SumOf([cell \in DOMAIN table |-> choose_2(table[cell])])
        false_positives == SumOf([id \in DOMAIN rows |-> Monus(choose_2(rows[id]), InRow(id))])
        false_negatives == SumOf([id \in DOMAIN cols |-> Monus(choose_2(cols[id]), InCol(id))])
    IN  [tp |-> true_positives, fp |-> false_positives, fn |-> false_negatives,
         tn |-> Monus(choose_2(total), true_positives + false_positives + false_negatives)]

CombinationSum(f) == SumOf([x \in DOMAIN f |-> choose_2(f[x])])

(***************************************************************************)
(* build_initial_state; no second partition is an empty one.               *)
(***************************************************************************)
BuildInitialState(threshold, entities1, entities2) ==
    LET rows == Marginals(entities1)
        cols == Marginals(entities2)
        table == Overlaps(entities1, entities2)
        total == SumOf(rows)
    IN  [last_threshold |-> threshold, contingency_table |-> table,
         row_marginals |-> rows, col_marginals |-> cols, total_records |-> total,
         pairs |-> PairCounts(rows, cols, table, total),
         sum_cell_combinations |-> CombinationSum(table),
         sum_row_combinations |-> CombinationSum(rows),
         sum_col_combinations |-> CombinationSum(cols)]

(***************************************************************************)
(* The estimate of a state's memory: 100 bytes a cell, 50 a marginal.      *)
(***************************************************************************)
Large(s) ==
    2 * Cardinality(DOMAIN s.contingency_table)
        + Cardinality(DOMAIN s.row_marginals) + Cardinality(DOMAIN s.col_marginals) >= SpillSize

(* Wrong: a state is spilled although one was before. *)
KeepOrSpillAgain(built) ==
    IF Large(built)
    THEN state' = None /\ is_spilled' \in {TRUE, is_spilled}
    ELSE state' = built /\ UNCHANGED is_spilled

(***************************************************************************)
(* A new state that is large is spilled, unless one was before: nothing    *)
(* restores it, so the handle stays.  When the file cannot be created or   *)
(* written the state is gone all the same, and the error is dropped.       *)
(***************************************************************************)
KeepOrSpill(built) ==
    IF Large(built) /\ ~is_spilled
    THEN state' = None /\ is_spilled' \in BOOLEAN
    ELSE state' = built /\ UNCHANGED is_spilled

-----------------------------------------------------------------------------
(***************************************************************************)
(* The partitions a call may be given, as its caller gets them from        *)
(* at_threshold or from a cache that held them since the context was       *)
(* smaller.                                                                *)
(***************************************************************************)
PartitionOf == [asked \in EventLists \X Thresholds \X Sizes |->
                    EntitiesAt(asked[1], asked[2], asked[3])]

Partition(c, threshold, num_records) == PartitionOf[<<hierarchy[c], threshold, num_records>>]

(***************************************************************************)
(* generate_sweep_thresholds: from stop down to start, in steps rounded to *)
(* multiples of MinStep, none below it.  Every subtraction is rounded, so  *)
(* that a threshold after the first is only near its multiple of the step, *)
(* the last may be below start, and one at start may be left out.          *)
(***************************************************************************)
SweepThresholds(start, stop, step) ==
    LET width == IF step < MinStep THEN MinStep
                 ELSE MinStep * ((2 * step + MinStep) \div (2 * MinStep))
        low == start - Epsilon
        Exact(i) == stop - (i - 1) * width
        lengths == {n \in 1 .. stop + 1 : Exact(n) + Drift >= low /\ Exact(n + 1) - Drift < low}
    IN  {thresholds \in UNION {[1 .. n -> low .. stop] : n \in lengths} :
            /\ thresholds[1] = stop
            /\ \A i \in 2 .. Len(thresholds) : thresholds[i] - Exact(i) \in -Drift .. Drift}

Swept == [args \in SweepArguments |-> SweepThresholds(args.start, args.stop, args.step)]

(***************************************************************************)
(* get_merge_events_between: events are read from high to low, those at or *)
(* above `from` are skipped and the first at or below `to` ends the loop.  *)
(***************************************************************************)
MergeEventsBetween(events, from, to) ==
    LET skipped == {k \in DOMAIN events : events[k].threshold >= from}
        read == {k \in DOMAIN events : events[k].threshold > to}
    IN  SubSeq(events, Cardinality(skipped) + 1, Cardinality(read))

Begin(kind, c, thresholds, truth, n, m) ==
    /\ pc # "merging"
    /\ call' = [kind |-> kind, collection |-> c, thresholds |-> thresholds, truth |-> truth,
                records |-> n, truth_records |-> m]
    /\ UNCHANGED hierarchy

(***************************************************************************)
(* The window after the i-th threshold of a sweep, or the end of the sweep.*)
(***************************************************************************)
Proceed(c, thresholds, i) ==
    IF i < Len(thresholds)
    THEN /\ pending' = MergeEventsBetween(hierarchy[c], thresholds[i], thresholds[i + 1])
         /\ pc' = "merging"
    ELSE /\ pending' = <<>>
         /\ pc' = "idle"

(***************************************************************************)
(* compute_sweep_with_merges builds a state from the first partition alone *)
(* and forgets the one it had.                                             *)
(***************************************************************************)
Sweep(c, thresholds, n) ==
    /\ Begin("sweep", c, thresholds, None, n, n)
    /\ KeepOrSpill(BuildInitialState(thresholds[1], Partition(c, thresholds[1], n), {}))
    /\ sources' = {c}
    /\ answer' = <<state'>>
    /\ Proceed(c, thresholds, 1)

(* Wrong: the child's row stays; the parent's row gets the child's size alone. *)
MergeRowsKeepingChild(rows, parent, child) ==
    LET merged == SumOf([id \in {parent, child} \cap DOMAIN rows |-> rows[id]])
    IN  [id \in DOMAIN rows \cup {parent} |-> IF id = parent THEN merged ELSE rows[id]]

MergeRowsOverwriting(rows, parent, child) ==
    LET merged == IF child \in DOMAIN rows THEN rows[child] ELSE 0
    IN  [id \in (DOMAIN rows \ {child}) \cup {parent} |-> IF id = parent THEN merged ELSE rows[id]]

(***************************************************************************)
(* A merge event sums the rows of its parent and its child, found by their *)
(* ids; a row that is missing counts nothing.                              *)
(***************************************************************************)
MergeRows(rows, parent, child) ==
    LET merged == SumOf([id \in {parent, child} \cap DOMAIN rows |-> rows[id]])
    IN  [id \in (DOMAIN rows \ {child}) \cup {parent} |-> IF id = parent THEN merged ELSE rows[id]]

ApplyMergeEvent ==
    /\ pc = "merging"
    /\ state # None
    /\ pending # <<>>
    /\ LET e == Head(pending)
       IN  state' = [state EXCEPT !.row_marginals =
                        MergeRows(@, e.parent_id, Min(e.child_nodes))]
    /\ pending' = Tail(pending)
    /\ UNCHANGED <<hierarchy, is_spilled, sources, call, answer, pc>>

(***************************************************************************)
(* The end of incremental_update_with_merges; a sweep has no second        *)
(* partition, so cells and pair counts stay as they were.                  *)
(***************************************************************************)
EndWindow ==
    /\ pc = "merging"
    /\ state # None
    /\ pending = <<>>
    /\ LET i == Len(answer) + 1
       IN  /\ state' = [state EXCEPT !.last_threshold = call.thresholds[i],
                                     !.sum_row_combinations = CombinationSum(state.row_marginals)]
           /\ answer' = Append(answer, state')
           /\ Proceed(call.collection, call.thresholds, i)
    /\ UNCHANGED <<hierarchy, is_spilled, sources, call>>

(***************************************************************************)
(* The unwrap of a state that was spilled.                                 *)
(***************************************************************************)
SweepUnwrapsNone ==
    /\ pc = "merging"
    /\ state = None
    /\ pc' = "panicked"
    /\ answer' = <<>>
    /\ pending' = <<>>
    /\ UNCHANGED <<hierarchy, state, is_spilled, sources, call>>

-----------------------------------------------------------------------------
(***************************************************************************)
(* compute_single, for a comparison of a collection with itself.  How far  *)
(* the first threshold lies from that of the state decides; a distance of  *)
(* exactly RebuildThreshold is either side of it after rounding, and one   *)
(* upwards of Epsilon at most counts as none.                              *)
(***************************************************************************)
Comparison(c, threshold, truth, n, m) ==
    /\ Begin("compare", c, <<threshold>>, truth, n, m)
    /\ pending' = <<>>

Drop(threshold) == state.last_threshold - threshold

(* Wrong: columns are compared by their number. *)
TruthAsManyColumns(truth_entities) ==
    Cardinality(DOMAIN state.col_marginals) = Cardinality(truth_entities)

(***************************************************************************)
(* Two second partitions are taken for the same when their canonical ids   *)
(* are.                                                                    *)
(***************************************************************************)
TruthUnchanged(truth_entities) ==
    DOMAIN state.col_marginals = {Min(entity) : entity \in truth_entities}

ComparePanics(c, threshold, truth, n, m) ==
    /\ Comparison(c, threshold, truth, n, m)
    /\ state # None
    /\ Drop(threshold) < -Epsilon /\ -Drop(threshold) <= RebuildThreshold
    /\ pc' = "panicked"
    /\ answer' = <<>>
    /\ UNCHANGED <<state, is_spilled, sources>>

MustRebuild(threshold, truth_entities) ==
    state # None =>
        \/ -Drop(threshold) >= RebuildThreshold
        \/ Drop(threshold) >= RebuildThreshold
        \/ Drop(threshold) >= -Epsilon /\ ~TruthUnchanged(truth_entities)

CompareRebuilds(c, threshold, truth, n, m) ==
    /\ Comparison(c, threshold, truth, n, m)
    /\ MustRebuild(threshold, Partition(c, truth, m))
    /\ KeepOrSpill(BuildInitialState(threshold, Partition(c, threshold, n), Partition(c, truth, m)))
    /\ sources' = {c}
    /\ answer' = <<state'>>
    /\ pc' = "idle"

(***************************************************************************)
(* incremental_update: an old row goes where its id's entity is now.  One  *)
(* old row becomes the new row as it is, several are summed and their      *)
(* cells counted again; an entity with no old row enters with its size,    *)
(* and with no cells.                                                      *)
(***************************************************************************)
OldRows(s, entity) == entity \cap DOMAIN s.row_marginals

UpdatedCells(s, entities, truth_entities) ==
    LET merged == {entity \in entities : Cardinality(OldRows(s, entity)) > 1}
        moved == {entity \in entities : Cardinality(OldRows(s, entity)) = 1}
        recounted == Overlaps(merged, truth_entities)
        To(cell) == CHOOSE entity \in moved : cell[1] \in entity
        transferred == {cell \in DOMAIN s.contingency_table :
                            \E entity \in moved : cell[1] \in entity}
    IN  [cell \in DOMAIN recounted \cup {<<Min(To(x)), x[2]>> : x \in transferred} |->
            IF cell \in DOMAIN recounted THEN recounted[cell]
            ELSE s.contingency_table[CHOOSE x \in transferred : <<Min(To(x)), x[2]>> = cell]]

IncrementalUpdate(s, threshold, entities, truth_entities) ==
    LET rows == [id \in {Min(entity) : entity \in entities} |->
                    LET entity == EntityOf(entities, id)
                    IN  IF OldRows(s, entity) = {} THEN Cardinality(entity)
                        ELSE SumOf([old \in OldRows(s, entity) |-> s.row_marginals[old]])]
        table == UpdatedCells(s, entities, truth_entities)
        total == SumOf(Marginals(entities))
        known == {id \in DOMAIN rows : OldRows(s, EntityOf(entities, id)) # {}}
    IN  [last_threshold |-> threshold, contingency_table |-> table,
         row_marginals |-> rows, col_marginals |-> s.col_marginals, total_records |-> total,
         pairs |-> PairCounts(rows, s.col_marginals, table, total),
         sum_cell_combinations |-> CombinationSum(table),
         sum_row_combinations |-> SumOf([id \in known |-> choose_2(rows[id])]),
         sum_col_combinations |-> s.sum_col_combinations]

CompareIncrements(c, threshold, truth, n, m) ==
    /\ Comparison(c, threshold, truth, n, m)
    /\ state # None
    /\ Drop(threshold) \in -Epsilon .. RebuildThreshold
    /\ TruthUnchanged(Partition(c, truth, m))
    /\ state' = IncrementalUpdate(state, threshold, Partition(c, threshold, n),
                                  Partition(c, truth, m))
    /\ sources' = sources \cup {c} \cup (IF Drop(threshold) < 0 THEN {Upward} ELSE {})
    /\ answer' = <<state'>>
    /\ pc' = "idle"
    /\ UNCHANGED is_spilled

Next ==
    \/ \E c \in Collections, args \in SweepArguments, n \in Sizes :
            \E thresholds \in Swept[args] : Sweep(c, thresholds, n)
    \/ ApplyMergeEvent
    \/ EndWindow
    \/ SweepUnwrapsNone
    \/ \E c \in Collections, threshold \in Points, truth \in Truths, n, m \in Sizes :
            \/ ComparePanics(c, threshold, truth, n, m)
            \/ CompareRebuilds(c, threshold, truth, n, m)
            \/ CompareIncrements(c, threshold, truth, n, m)

Spec == Init /\ [][Next]_vars

-----------------------------------------------------------------------------
CountsOf(f, ids) == DOMAIN f \subseteq ids /\ \A id \in DOMAIN f : f[id] \in Nat

IsDeltaState(s) ==
    /\ s.last_threshold \in Thresholds
    /\ CountsOf(s.contingency_table, Records \X Records)
    /\ CountsOf(s.row_marginals, Records)
    /\ CountsOf(s.col_marginals, Records)
    /\ s.total_records \in Nat
    /\ s.pairs \in [tp : Nat, fp : Nat, fn : Nat, tn : Nat]
    /\ {s.sum_cell_combinations, s.sum_row_combinations, s.sum_col_combinations} \subseteq Nat

(***************************************************************************)
(* The variables have their types.  Counts are unsigned, though they come  *)
(* out of subtractions and a state may mix rows and columns of different   *)
(* hierarchies.                                                            *)
(***************************************************************************)
TypeOK ==
    /\ hierarchy \in [Collections -> EventLists]
    /\ state # None => IsDeltaState(state)
    /\ is_spilled \in BOOLEAN
    /\ sources \subseteq Collections \cup {Upward}
    /\ call.kind \in {"none", "sweep", "compare"}
    /\ call.thresholds \in Seq(Thresholds)
    /\ Len(answer) <= Len(call.thresholds)
    /\ \A i \in DOMAIN answer : answer[i] # None => IsDeltaState(answer[i])
    /\ pending \in Seq(MergeEvent)
    /\ pc \in {"idle", "merging", "panicked"}

(***************************************************************************)
(* What a fresh algorithm computes for the i-th threshold of the call.     *)
(***************************************************************************)
Entities1(i) == Partition(call.collection, call.thresholds[i], call.records)
Entities2 == Partition(call.collection, call.truth, call.truth_records)

Compared == call.kind = "compare" /\ answer # <<>> /\ answer[1] # None

(***************************************************************************)
(* A comparison answered from a state that was only ever computed from     *)
(* this collection, and downwards, is what a rebuild would give, whichever *)
(* calls led to that state: moving rows, summing rows and recounting cells lose         *)
(* nothing, though partitions may cover more records than the state, or    *)
(* fewer.  Only cells of records past those of the hierarchy, each in an   *)
(* entity of its own, may be missing: a row that is new to the state       *)
(* enters without them.                                                    *)
(***************************************************************************)
ButForNewRecords(s) ==
    LET known == DOMAIN s.contingency_table \cap (BuildRecords \X BuildRecords)
    IN  [s EXCEPT !.contingency_table = [cell \in known |-> s.contingency_table[cell]]]

ComparesAsRebuilt ==
    Compared /\ sources = {call.collection} =>
        ButForNewRecords(answer[1]) =
            ButForNewRecords(BuildInitialState(call.thresholds[1], Entities1(1), Entities2))

(***************************************************************************)
(* The same against the definition of the counts: pairs of records         *)
(* together in both partitions, in one of them, or in neither.  They come  *)
(* out of marginals and cells, by subtraction, and never saturate.         *)
(***************************************************************************)
Together(entities) ==
    {pair \in kSubset(2, Records) : \E entity \in entities : pair \subseteq entity}

PairsAsCounted ==
    Compared /\ sources = {call.collection} =>
        LET in1 == Together(Entities1(1))
            in2 == Together(Entities2)
            pairs == answer[1].pairs
        IN  /\ pairs.tp = Cardinality(in1 \cap in2)
            /\ pairs.fp = Cardinality(in1 \ in2)
            /\ pairs.fn = Cardinality(in2 \ in1)
            /\ pairs.tp + pairs.fp + pairs.fn + pairs.tn =
                    Cardinality(kSubset(2, 0 .. call.records - 1))

(***************************************************************************)
(* A sweep that builds one partition and only merges rows from there on    *)
(* ends at each threshold, wherever rounding puts it, with the rows of the *)
(* partition there if no merge event lies exactly on one of the thresholds *)
(* after the first.                                                        *)
(***************************************************************************)
OffEvents(i) ==
    \A k \in DOMAIN hierarchy[call.collection] :
        hierarchy[call.collection][k].threshold \notin {call.thresholds[j] : j \in 2 .. i}

SweepsAsRebuilt ==
    call.kind = "sweep" =>
        \A i \in DOMAIN answer :
            answer[i] # None /\ OffEvents(i) =>
                answer[i].row_marginals = Marginals(Entities1(i))

(***************************************************************************)
(* No record is lost or counted twice between rows, after every single     *)
(* merge event, those whose own components were never merged because an    *)
(* earlier event fell on a threshold of the sweep included: every event    *)
(* finds both its rows.                                                    *)
(***************************************************************************)
RecordsConserved ==
    state # None /\ Cardinality(sources) = 1 =>
        /\ SumOf(state.row_marginals) = state.total_records
        /\ pending # <<>> =>
            {Head(pending).parent_id, Min(Head(pending).child_nodes)}
                \subseteq DOMAIN state.row_marginals

(***************************************************************************)
(* A spill costs at most one answer: the handle it leaves, which nothing   *)
(* takes back, keeps later states in memory however large they are.        *)
(***************************************************************************)
SpillsOnce ==
    [][is_spilled /\ answer' # answer /\ answer' # <<>> => answer'[Len(answer')] # None]_vars

-----------------------------------------------------------------------------
(***************************************************************************)
(* get_merge_events_between is "exclusive of start, inclusive of end"      *)
(* (builder.rs:777): a sweep accounts for an event at the very threshold   *)
(* it answers for, as at_threshold does.                                   *)
(***************************************************************************)
SweepIncludesEnd ==
    call.kind = "sweep" =>
        \A i \in DOMAIN answer :
            answer[i] # None => answer[i].row_marginals = Marginals(Entities1(i))

(***************************************************************************)
(* Delta is "For same-hierarchy threshold sweeps" (metrics/mod.rs:20), and *)
(* test_incremental_correctness (delta.rs:1292) compares its answers with  *)
(* those of a fresh algorithm: every comparison of a collection with       *)
(* itself is answered as after a rebuild, whatever the engine did before.  *)
(***************************************************************************)
IncrementalAsRebuilt ==
    Compared => answer[1] = BuildInitialState(call.thresholds[1], Entities1(1), Entities2)
=============================================================================
