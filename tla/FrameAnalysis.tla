--------------------------- MODULE FrameAnalysis ---------------------------
(***************************************************************************)
(* EntityFrame::analyse for two or more expressions: partitions of the     *)
(* frame's collections at every combination of their thresholds, compared  *)
(* by RecordAlgorithm, the half of the metric engine that builds each      *)
(* contingency table in one pass over the records.  Partitions come from   *)
(* the cache of their hierarchy and from one of the call, tables from      *)
(* another; a partition carries a reverse index that is built once, by its *)
(* first user.  The frame's context may grow at any moment, so that cached *)
(* partitions, indices and tables are of different sizes.  Comparisons of  *)
(* a collection with itself go to DeltaAlgorithm (DeltaMetrics.tla).       *)
(***************************************************************************)
EXTENDS Integers, Sequences, FiniteSets, FiniteSetsExt, Functions, Hierarchies

CONSTANTS
    Collections,
    EventsOf,       (* EventsOf[c]: the merge events of collection c        *)
    Thresholds,     (* as cache keys: on distinct keys                      *)
    FirstRecords,   (* records when the last collection was added           *)
    MaxRecords,     (* bound: records the context grows to                  *)
    Analyses,       (* what may be asked: sequences of expressions          *)
    MaxAnalyses,    (* bound: analyses in a behaviour                       *)
    PartitionLimit, (* partitions the call's cache holds before it is cleared *)
    MetricsLimit,   (* and tables                                           *)
    None

Sizes == FirstRecords .. MaxRecords
Records == 0 .. MaxRecords - 1
BuildRecords == 0 .. FirstRecords - 1
MergeEvent == [threshold : Nat, parent_id : BuildRecords, child_nodes : SUBSET BuildRecords]
Key == Collections \X Thresholds
Expression == [collection : Collections, thresholds : Seq(Thresholds), sweep : BOOLEAN]

(***************************************************************************)
(* A PartitionLevel is seen as the collection and threshold it is of and   *)
(* the number of records it covers.  Two built alike are the same here.    *)
(***************************************************************************)
Level == [key : Key, covers : Sizes]

ASSUME SizesAssumption == FirstRecords \in Nat \ {0} /\ MaxRecords \in Nat /\ FirstRecords <= MaxRecords
ASSUME NoneAssumption == None \notin Nat
ASSUME LimitAssumption == MaxAnalyses \in Nat
ASSUME EventsAssumption == \A c \in Collections : EventsOf[c] \in Seq(MergeEvent)
ASSUME AnalysesAssumption ==
    \A exprs \in Analyses : exprs \in Seq(Expression) /\ Len(exprs) >= 2

VARIABLES
    num_records,        (* context.len()                                     *)
    hierarchy_cache,    (* the levels in at_threshold's caches               *)
    indexed,            (* indexed[level]: the record count its reverse index
                           was built for, None before it is                  *)
    expressions,        (* what is being analysed, <<>> when nothing is      *)
    partitions1,        (* sweep x sweep: the levels of both sweeps          *)
    partitions2,
    partition_cache,    (* the levels the call keeps                         *)
    owned_partitions,   (* those got so far for the combination at hand      *)
    metrics_cache,      (* and the answers                                   *)
    results,            (* the answers so far                                *)
    analyses            (* analyses begun                                    *)

contextVars == <<num_records, hierarchy_cache, indexed>>
callVars == <<expressions, partitions1, partitions2, partition_cache, owned_partitions,
              metrics_cache, results, analyses>>
vars == <<contextVars, callVars>>

Init ==
    /\ num_records = FirstRecords
    /\ hierarchy_cache = {}
    /\ indexed = [level \in Level |-> None]
    /\ expressions = <<>>
    /\ partitions1 = <<>>
    /\ partitions2 = <<>>
    /\ partition_cache = {}
    /\ owned_partitions = <<>>
    /\ metrics_cache = {}
    /\ results = <<>>
    /\ analyses = 0

-----------------------------------------------------------------------------
(***************************************************************************)
(* Other users of the context: one adds a record, the hierarchies' cache   *)
(* lets go of a partition, one asks a partition for its index.             *)
(***************************************************************************)
Grow ==
    /\ num_records < MaxRecords
    /\ num_records' = num_records + 1
    /\ UNCHANGED <<hierarchy_cache, indexed, callVars>>

Evict ==
    /\ \E level \in hierarchy_cache : hierarchy_cache' = hierarchy_cache \ {level}
    /\ UNCHANGED <<num_records, indexed, callVars>>

(* Wrong: an index is sized by the records there were to begin with. *)
WithIndexOfFirst(levels, n) ==
    [level \in Level |->
        IF level \in levels /\ indexed[level] = None THEN FirstRecords ELSE indexed[level]]

(***************************************************************************)
(* get_record_to_entity_index: built on first use, never again.            *)
(***************************************************************************)
WithIndex(levels, n) ==
    [level \in Level |-> IF level \in levels /\ indexed[level] = None THEN n ELSE indexed[level]]

IndexElsewhere ==
    /\ \E level \in hierarchy_cache : indexed' = WithIndex({level}, num_records)
    /\ UNCHANGED <<num_records, hierarchy_cache, callVars>>

-----------------------------------------------------------------------------
Entities ==
    [level \in Level |-> EntitiesAt(EventsOf[level.key[1]], level.key[2], level.covers)]

choose_2(n) == (n * (n - 1)) \div 2

SumOf(f) == FoldFunction(+, 0, f)

(***************************************************************************)
(* The pairs of a cell of the contingency table.  A cell is counted over   *)
(* the records that both reverse indices have an entry for.                *)
(***************************************************************************)
CellPairs(known, entity1, entity2) == choose_2(Cardinality(entity1 \cap entity2 \cap known))

RowPairs(known, entity, others) ==
    choose_2(Cardinality(entity)) - SumOf([other \in others |-> CellPairs(known, entity, other)])

(***************************************************************************)
(* RecordState::from_partitions, and the pair counts that precision,       *)
(* recall and F1 are computed from: row and column sums are over whole     *)
(* entities.                                                               *)
(***************************************************************************)
Table(level1, level2, index) ==
    LET known == 0 .. Min({num_records, index[level1], index[level2]}) - 1
        rows == Entities[level1]
        cols == Entities[level2]
    IN  [tp |-> SumOf([cell \in rows \X cols |-> CellPairs(known, cell[1], cell[2])]),
         fp |-> SumOf([row \in rows |-> RowPairs(known, row, cols)]),
         fn |-> SumOf([col \in cols |-> RowPairs(known, col, rows)])]

(***************************************************************************)
(* MetricEngine::select_algorithm_index, for comparisons.  SweepSweep is   *)
(* what compute_sweep_arc calls more than one second partition, whatever   *)
(* the first; Delta takes the rest of a collection against itself.         *)
(***************************************************************************)
ComparisonType(size1, size2) ==
    IF size1 = 1 /\ size2 = 1 THEN "PointPoint"
    ELSE IF size2 = 1 THEN "SweepPoint" ELSE "SweepSweep"

RecordHandles(comparison_type, same_collection) ==
    comparison_type = "SweepSweep" \/ ~same_collection

-----------------------------------------------------------------------------
(***************************************************************************)
(* generate_threshold_combinations: the product of the threshold lists,    *)
(* the last expression's running fastest; the k-th as sequence of keys.    *)
(***************************************************************************)
Lengths == [i \in DOMAIN expressions |-> Len(expressions[i].thresholds)]

(* Wrong: the threshold lists are paired, not multiplied. *)
CombinationsZipped == IF expressions = <<>> THEN 0 ELSE Lengths[1]

Product(first) == FoldFunctionOnSet(LAMBDA a, b : a * b, 1, Lengths, first .. Len(expressions))
Combinations == IF expressions = <<>> THEN 0 ELSE Product(1)

Combination(k) ==
    [i \in DOMAIN expressions |->
        <<expressions[i].collection,
          expressions[i].thresholds[(((k - 1) \div Product(i + 1)) % Lengths[i]) + 1]>>]

Batch == Len(expressions) = 2 /\ expressions[1].sweep /\ expressions[2].sweep

StartAnalysis ==
    /\ Len(results) = Combinations
    /\ analyses < MaxAnalyses
    /\ expressions' \in Analyses
    /\ partitions1' = <<>>
    /\ partitions2' = <<>>
    /\ partition_cache' = {}
    /\ owned_partitions' = <<>>
    /\ metrics_cache' = {}
    /\ results' = <<>>
    /\ analyses' = analyses + 1
    /\ UNCHANGED contextVars

(***************************************************************************)
(* A cache has one level for a key: an insert replaces what was there.     *)
(***************************************************************************)
Cached(cache, key) == {level \in cache : level.key = key}

Inserted(cache, levels) ==
    {level \in cache : \A new \in levels : new.key # level.key} \cup levels

Fresh(key) == [key |-> key, covers |-> num_records]

(***************************************************************************)
(* What at_threshold returns: the level cached by the hierarchy, or else a *)
(* new one of all records there are (in one step here, in several in       *)
(* PartitionCache.tla).                                                    *)
(***************************************************************************)
AtThreshold(key) ==
    IF Cached(hierarchy_cache, key) # {} THEN Cached(hierarchy_cache, key) ELSE {Fresh(key)}

(***************************************************************************)
(* Sweep x sweep: both collections' partitions are built upfront by        *)
(* build_partitions_incrementally, which writes the hierarchy's cache and  *)
(* never looks into it.                                                    *)
(***************************************************************************)
LevelsOf(expression) ==
    [i \in DOMAIN expression.thresholds |->
        Fresh(<<expression.collection, expression.thresholds[i]>>)]

BuildPartitions ==
    /\ Batch
    /\ \/ /\ partitions1 = <<>>
          /\ partitions1' = LevelsOf(expressions[1])
          /\ hierarchy_cache' = Inserted(hierarchy_cache, Range(partitions1'))
          /\ UNCHANGED partitions2
       \/ /\ partitions1 # <<>> /\ partitions2 = <<>>
          /\ partitions2' = LevelsOf(expressions[2])
          /\ hierarchy_cache' = Inserted(hierarchy_cache, Range(partitions2'))
          /\ UNCHANGED partitions1
    /\ UNCHANGED <<num_records, indexed, expressions, partition_cache, owned_partitions,
                   metrics_cache, results, analyses>>

Answer(k, level1, level2, table) ==
    [combination |-> Combination(k), first |-> level1, second |-> level2, table |-> table]

(***************************************************************************)
(* One comparison of two levels.  Delta's are modelled in DeltaMetrics.tla *)
(* and have no table here.                                                 *)
(***************************************************************************)
Compared(level1, level2, comparison_type) ==
    IF RecordHandles(comparison_type, level1.key[1] = level2.key[1])
    THEN /\ indexed' = WithIndex({level1, level2}, num_records)
         /\ results' = Append(results, Answer(Len(results) + 1, level1, level2,
                                              Table(level1, level2, indexed')))
    ELSE /\ results' = Append(results, Answer(Len(results) + 1, level1, level2, None))
         /\ UNCHANGED indexed

(* Wrong: the second sweep is the outer loop. *)
PositionsSwapped(k) ==
    <<((k - 1) % Len(partitions1)) + 1, ((k - 1) \div Len(partitions1)) + 1>>

(***************************************************************************)
(* compute_sweep_arc pairs every first partition with every second; the    *)
(* binding walks the results with two loops of its own.                    *)
(***************************************************************************)
Positions(k) ==
    <<((k - 1) \div Len(partitions2)) + 1, ((k - 1) % Len(partitions2)) + 1>>

CompareInBatch ==
    /\ Batch /\ partitions2 # <<>>
    /\ Len(results) < Len(partitions1) * Len(partitions2)
    /\ LET at == Positions(Len(results) + 1)
       IN  Compared(partitions1[at[1]], partitions2[at[2]],
                    ComparisonType(Len(partitions1), Len(partitions2)))
    /\ UNCHANGED <<num_records, hierarchy_cache, expressions, partitions1, partitions2,
                   partition_cache, owned_partitions, metrics_cache, analyses>>

(***************************************************************************)
(* All other analyses, one combination at a time, whose partitions are got *)
(* one after the other: from the call's cache, or from their hierarchy.    *)
(***************************************************************************)
AtHand == Combination(Len(results) + 1)

TakePartition ==
    /\ ~Batch
    /\ Len(results) < Combinations
    /\ Len(owned_partitions) < Len(expressions)
    /\ LET key == AtHand[Len(owned_partitions) + 1]
       IN  \/ /\ \E level \in Cached(partition_cache, key) :
                    owned_partitions' = Append(owned_partitions, level)
              /\ UNCHANGED <<hierarchy_cache, partition_cache>>
           \/ /\ Cached(partition_cache, key) = {}
              /\ \E level \in AtThreshold(key) :
                    /\ owned_partitions' = Append(owned_partitions, level)
                    /\ hierarchy_cache' = Inserted(hierarchy_cache, {level})
                    /\ partition_cache' = Inserted(partition_cache, {level})
    /\ UNCHANGED <<num_records, indexed, expressions, partitions1, partitions2,
                   metrics_cache, results, analyses>>

(***************************************************************************)
(* Only the first two partitions are compared; the table of a pair may     *)
(* come from the call's cache, and each cache is emptied when it has grown *)
(* past its limit.                                                         *)
(***************************************************************************)
Limited(cache, limit) == IF Cardinality(cache) > limit THEN {} ELSE cache

CompareCombination ==
    /\ ~Batch
    /\ Len(results) < Combinations
    /\ Len(owned_partitions) = Len(expressions)
    /\ LET hits == {answer \in metrics_cache : /\ answer.first.key = AtHand[1]
                                               /\ answer.second.key = AtHand[2]}
       IN  \/ /\ hits = {}
              /\ Compared(owned_partitions[1], owned_partitions[2], "PointPoint")
              /\ metrics_cache' =
                     Limited(metrics_cache \cup {results'[Len(results')]}, MetricsLimit)
           \/ /\ \E answer \in hits :
                     results' = Append(results, [answer EXCEPT !.combination = AtHand])
              /\ metrics_cache' = Limited(metrics_cache, MetricsLimit)
              /\ UNCHANGED indexed
    /\ partition_cache' = Limited(partition_cache, PartitionLimit)
    /\ owned_partitions' = <<>>
    /\ UNCHANGED <<num_records, hierarchy_cache, expressions, partitions1, partitions2,
                   analyses>>

Next ==
    \/ Grow
    \/ Evict
    \/ IndexElsewhere
    \/ StartAnalysis
    \/ BuildPartitions
    \/ CompareInBatch
    \/ TakePartition
    \/ CompareCombination

Spec == Init /\ [][Next]_vars

-----------------------------------------------------------------------------
Tables == [tp : Nat, fp : Nat, fn : Nat]
Answers == [combination : Seq(Key), first : Level, second : Level, table : Tables \cup {None}]

(***************************************************************************)
(* The variables have their types, and the loops of the batch, which count *)
(* partitions, give no more answers than the thresholds have combinations. *)
(***************************************************************************)
TypeOK ==
    /\ num_records \in Sizes
    /\ hierarchy_cache \subseteq Level /\ partition_cache \subseteq Level
    /\ indexed \in [Level -> Sizes \cup {None}]
    /\ expressions \in Analyses \cup {<<>>}
    /\ partitions1 \in Seq(Level) /\ partitions2 \in Seq(Level)
    /\ owned_partitions \in Seq(Level)
    /\ \A answer \in metrics_cache \cup Range(results) : answer \in Answers
    /\ Len(results) <= Combinations
    /\ analyses \in 0 .. MaxAnalyses

(***************************************************************************)
(* A reverse index finds every record of its partition for ever, though it *)
(* was built once, with the record count of its first user, and is never   *)
(* rebuilt: partitions are cut to the context's length before anyone reads *)
(* the length to build their index.                                        *)
(***************************************************************************)
IndexesComplete ==
    \A level \in Level : indexed[level] # None => indexed[level] >= level.covers

(***************************************************************************)
(* What a pair count is, by its definition: over pairs of records, and     *)
(* with no regard to how many records the context had when.                *)
(***************************************************************************)
Together(key, x, y) ==
    Canonical(EventsOf[key[1]], key[2], x) = Canonical(EventsOf[key[1]], key[2], y)

PairsWith(Holds(_, _)) ==
    Cardinality({pair \in Records \X Records : pair[1] < pair[2] /\ Holds(pair[1], pair[2])})

TrueTables ==
    [pair \in Key \X Key |->
        [tp |-> PairsWith(LAMBDA x, y : Together(pair[1], x, y) /\ Together(pair[2], x, y)),
         fp |-> PairsWith(LAMBDA x, y : Together(pair[1], x, y) /\ ~Together(pair[2], x, y)),
         fn |-> PairsWith(LAMBDA x, y : ~Together(pair[1], x, y) /\ Together(pair[2], x, y))]]

(***************************************************************************)
(* Every answer is labelled with the thresholds it is of, and counts the   *)
(* pairs together in both partitions, in the first only and in the second  *)
(* only exactly as the two hierarchies have them: neither the order of     *)
(* loops, nor cached partitions, indices and tables that are older than    *)
(* the records, nor partitions of different sizes ever show.               *)
(***************************************************************************)
AnswersExact ==
    \A k \in DOMAIN results :
        LET answer == results[k]
            key1 == answer.combination[1]
            key2 == answer.combination[2]
        IN  /\ answer.combination = Combination(k)
            /\ answer.first.key = key1 /\ answer.second.key = key2
            /\ answer.table # None => answer.table = TrueTables[<<key1, key2>>]
=============================================================================
