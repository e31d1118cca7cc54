# A TLA+ verification of starlings

starlings (a Rust core, `src/src/rust/starlings-core`, with a Python binding,
`src/src/rust/starlings-py`) turns a weighted edge list over records into a
*partition hierarchy*: the partition of the records into entities at every
threshold at once, stored as the list of merges that happen as the threshold
goes down. Partitions and metrics for any threshold are read from that list.

This directory holds TLA+ modules for the parts of it that keep state, TLC runs
that check them on small instances, and TLAPS proofs about them for every value
of their constants. Paths below are relative to
`src/src/rust/starlings-core/src/` unless they name a crate.

## 1. The system

| Component | State | Operations | Hard behaviour |
|---|---|---|---|
| **Record interning** `core/data_context.rs`, `record.rs`, `key.rs` | the record vector (append-only, lock-free), the identity map and the source index (DashMaps), the id counter, a string interner | `ensure_record` and its batch and attribute forms, `get_record`, `len`, `deep_copy` | threads race for one record; id, map, vector and index are updated by separate atomic steps, with no lock held across them |
| **Merge-event construction** `hierarchy/builder.rs`, `merge_event.rs` | sorted edges, union-find, a bitmap per component root, pairs merged in the group, the chain detector's counters, the storage | `from_edges`, `build_merge_events` | roots change under maps that are keyed by root; order of events; a failing push |
| **Union-find** `hierarchy/union_find.rs` | packed (parent, rank) pairs in a vector or a memory map | `find` with path halving, `union` by rank | `find` rewrites parents; rank is a `u8`, incremented unchecked |
| **Partition queries and cache** `builder.rs`, `incremental.rs`, `memory_cache.rs`, `partition.rs` | the cache shared by clones, the incremental builder, each partition's reverse index | `at_threshold`, `build_partitions_incrementally`, `get_merge_events_between`, `contains`/`entity_of` | rounded cache keys, stale entries, a context that grows between two reads of its length, rounds that must not overlap |
| **Hierarchy storage** `hierarchy/storage.rs` | events in memory or in a file with a position table | `push`, iteration, `sync`, `clone_box` | partial writes; a read error that looks like the end |
| **Entity frame** `frame/mod.rs`, `translation.rs` | one context, the collections and their translated hierarchies | `add_collection`, `get_collection`, `remove_collection` | ids of one context read as ids of another; records added one at a time to a context others use |
| **Metric engine** `metrics/`, `algorithms/delta.rs` and `record.rs` | the contingency rows kept between thresholds and between calls, spill handles | sweeps, single thresholds, incremental updates | an update of rows found by `parent_id`; state that outlives its call, its collection or its spill |
| **Analysis** `analyse` in `starlings-py/src/lib.rs` | a partition cache and a table cache for the call | batches of sweeps, combinations of thresholds | four generations of caches over a context that grows; loops that must agree on an order |
| **Spilling, resource monitor, safety, bitmap pool** `core/`, `hierarchy/bitmap_pool.rs` | spill files, a usage reading at most a second old, pooled bitmaps | spill/restore, `can_proceed`, get/put | check and use are apart; a file owned by several handles |
| **Expressions, formulas, Python** | none of their own | parsing, closed formulas, conversion | sweeps whose thresholds are a rounding error off |

How they interact. The Python binding converts keys and edges, interns the keys
(in parallel, in chunks of a list of unique keys: `starlings-py/src/lib.rs`,
around line 304), and calls `from_edges`, which sizes a union-find by
`context.len()` and writes merge events to the storage. A finished hierarchy is
immutable but for its cache, which its clones share; its context is shared with
the frame and other collections and may grow. Queries read the events from the
first to the first one below their threshold. The metric engine reads either
whole partitions or the events between two thresholds of a sweep, and updates
contingency rows in place. Threads appear in interning (rayon), in queries of
clones and in the sweep of the engine; Python callers hold the interpreter lock,
so that concurrent queries and growth are a matter of the Rust interface, while
answers that depend on the history of calls reach Python as well.

What makes each correct:

* *interning*: one id per record, permanent, returned to every caller, though
  the map's lock is gone before the record can be read; the indices agree with
  the map; a copy can go on handing out ids;
* *construction*: the events of threshold t or more connect exactly what the
  edges of weight t or more connect, for all t; each event is a delta between
  two whole components as they stand;
* *union-find*: halving and ranks are invisible, the loop of `find` ends, no rank
  wraps;
* *queries*: the cache and the incremental rounds are invisible;
* *metrics*: the rows kept between thresholds and calls are the contingency table
  computed afresh;
* *storage*: a reader is given the events that were stored when it began, in
  order, whatever is pushed, or fails to be pushed, meanwhile;
* *frame*: a collection partitions the records of its source as the source does,
  though they have other numbers and are shared with other collections;
* *analysis*: an answer is labelled with the thresholds it is of, and no cache,
  index or table that is older than the records ever shows.

## 2. Modules

| Module | Models | Kind |
|---|---|---|
| `Components` | connectivity by edges and by events, as cuts | definitions |
| `SingleLinkage` | what a hierarchy promises: agglomeration by single linkage | abstract specification |
| `HierarchyBuilder` | `from_edges`, `build_merge_events`, `ComponentManager`, `ChainDetector` | detailed, implements `SingleLinkage` |
| `HierarchyBuilderProofs` | | proofs |
| `RootMap` | a union-find as its answers | abstract specification |
| `UnionFind` | parents, ranks, halving, union by rank | detailed, implements `RootMap` |
| `UnionFindProofs` | | proofs |
| `Interner` | what callers may assume of a thread-safe interner | abstract specification |
| `DataContext` | concurrent `ensure_record*`, `deep_copy` | detailed, implements `Interner` |
| `DataContextProofs` | | proofs |
| `Partitions` | what callers may assume of a hierarchy they query | abstract specification |
| `PartitionCache` | `at_threshold`, `build_partitions_incrementally`, the incremental builder, the cache | detailed, implements `Partitions` |
| `PartitionCacheProofs` | | proofs |
| `Hierarchies` | the partition of a list of merge events at a threshold, and which lists a build can leave | definitions |
| `DeltaMetrics` | the metric engine's `DeltaAlgorithm` between thresholds and calls, `get_merge_events_between`, sweeps | detailed, against a rebuild |
| `DeltaMetricsProofs` | | proofs |
| `FrameTranslation` | `add_collection`, assimilation into a shared context | detailed, against the source hierarchies |
| `FrameTranslationProofs` | | proofs |
| `EventStorage` | what callers may assume of a hierarchy's storage | abstract specification |
| `DiskStorage` | `push` and its failures, `DiskIterator`, `clone_box` over one file | detailed, implements `EventStorage` |
| `DiskStorageProofs` | | proofs |
| `FrameAnalysis` | `analyse` for two and more expressions, `RecordAlgorithm`'s tables, reverse indices | composes partition caches of different ages with the engine |
| `FrameAnalysisProofs` | | proofs |
| `MC*` | constants for TLC | |

### HierarchyBuilder

`edges` is the list after quantising and sorting, so that every list in
descending order is an initial state. `next` walks over it, `threshold` is the
weight of the current group, `root` is what `find` returns (its `MergeEdge`
leaves it open which of two roots survives, as `UnionFind` shows union by rank
does), `active_components` and `processed_pairs` are the maps of the same name,
`events` is the storage.

| Action | Code |
|---|---|
| `SkipEdge` | the two `continue`s, `builder.rs:461-468` |
| `MergeEdge` | one iteration that reaches the push, `469-512`: `get_or_create_component` twice, the union, the event, the map updates |
| `PushFails` | the `?` of the push, `494-507`: the union is made and both bitmaps are taken out of the map by then, and nothing is undone; the build is dropped |
| `EndGroup`, `ChainDetected`, `Finish` | the end of a group and of the build, `check_and_error`, `sync` |

`ChainDetector` has three criteria; the early giant component is modelled, the
growth of bitmaps and bytes per edge are a free choice, so that `ChainDetected`
may fire whenever a verdict is due. Progress callbacks, time estimates and the
choice of in-memory or on-disk storage by the resource monitor are left out; the
storage is an append that may fail when `DiskBacked`.

### UnionFind

A call of `find`, `union` or `connected` is a sequence of steps: `Halve` is one
turn of find's loop (it climbs to the *grandparent* after rewriting the parent),
`FindReturns`, `FoundRootX`, `SameRoots`, `DifferentRoots` and `Link` are what
follows it in the three callers. The calls of one union-find do not overlap
(`&mut self`); the steps are there so that each turn of the loop is checked, and
its end. Both backends keep the same pairs, the memory map in five bytes each; a
rank wraps at `RankLimit`, as a `u8` does at 256 in a release build, so that its
type says nothing; `RanksNeverFall` says that none ever does wrap.
`get_all_components` is a `find` per element. `root` is a history variable: no
guard reads it, and `Link` updates it to what `find` returns from then on, which
`AnswersAsRootMap` holds the answers to.

### DataContext

A thread's `pc` is the place in `ensure_records_batch`'s loop body: `lookup` (the
fast path's `get`), `fetch` (`fetch_add`), `entry` (the DashMap entry), `push`
and `index`. `ensure_record` and `ensure_record_with_attributes` take the same
steps for one key. `entry.insert(id)` consumes the entry and with it the shard's
lock, hence `Push` and `Index` are steps of their own that other threads see
between. A boxcar push is one step: the vector's own protocol (external) makes
an element visible when its slot is written. `deep_copy` is three actions: read
record after record, rebuild the maps, and only then read `len()`.

### PartitionCache

A partition is seen through the events applied to build it, the threshold it was
built for and the number of records it covers. Thresholds are counted in units
finer than a cache key (`Fine` units to the key unit), so that rounding to a key
is modelled as `threshold_to_key` does it; events sit on whole keys, because
building quantises them. `FromScratch` and `Incrementally` are the two branches
of `IncrementalPartitionBuilder` (for a single threshold only the first is
taken, which is what `reconstruct_at_threshold` does), `Collect` the grouping by
roots, `Overrun` the panic of `find` when `context.len()`, read a second time,
exceeds the union-find's size. `Evict` is quick_cache's weight limit, `Grow` another
user of the context. The set `todo` forgets duplicates in a sweep: the second
builds the same partition again.

### DeltaMetrics

An engine lives as long as its frame, and `analyse` holds it exclusively: calls
do not overlap, but each finds the state the last one left. Metrics are closed
formulas over the state, so an answer is modelled as the state it is computed
from (`None`, an empty function, when there is none: the code returns an empty
map). The
state has the fields of `DeltaState`, the nested table flattened to cells; the
cached entity count and entropy are functions of the rows.

| Action | Code |
|---|---|
| `Sweep` | `generate_sweep_thresholds`, the first window, and `compute_sweep_with_merges` to its first result |
| `ApplyMergeEvent`, `EndWindow` | `incremental_update_with_merges`: one event, and what follows the last one; its branches for a second partition have no caller |
| `SweepUnwrapsNone` | the `unwrap` after a spill, `delta.rs:379` |
| `ComparePanics`, `CompareRebuilds`, `CompareIncrements` | `compute_single`: three outcomes of `threshold_diff` and the comparison of second partitions |

Comparisons are those of a collection with itself, which the engine gives to
`DeltaAlgorithm`; `RecordAlgorithm` keeps nothing. A new state above a size is
spilled, and since nothing restores it the handle stays and no later state is.
Partitions are those of `Hierarchies`, over any number of records the context
had or has, because `PartitionCache` shows cached ones to lag behind; a context
that shrinks does not occur, but a call may be given an older partition than the
last one. `sources` is a history variable: the collections whose partitions the
state was computed from since its last rebuild, and a mark (`Upward`) once it was
updated from a threshold to a higher one.

Thresholds are whole numbers, and rounding is choice. Where a distance equals
`RebuildThreshold` both outcomes are possible, as rounding makes either of
0.9 - 0.8 and 0.8 - 0.7. A move upwards of `Epsilon` at most counts as none. The
thresholds of a sweep are got by subtracting its step again and again
(`expressions/utils.rs:24-29`): each may be off its multiple by up to `Drift`, so
that the last may lie below the start (0.0..0.3 by 0.1 asks for -2.8e-17), and
one at the start may be left out. `Drift` is less than half the least step, which
is all the proofs use; f64 errors are smaller by many orders of magnitude.

### FrameTranslation

The frame's context is seen as `Interner` promises it, which `DataContext`
implements: a number for each stored identity, drawn from a counter. A source
hierarchy is a record vector (`RecordsOf`), the ids of its positions (`IdsOf`)
and its events over ids. Identities are (source, key) pairs *as stored*, a string
key being a number of its own context's interner; `Denotes` says which record of
the user's such a pair is.

| Action | Code |
|---|---|
| `Grow` | another user of the context; a number may be lost to a race |
| `AddShared`, `AddInPlace` | `add_collection` of a hierarchy over the frame's own context, `frame/mod.rs`: one of its collections again, or one that `from_edges` has just built there |
| `StartAdd`, `FindRecord`, `CreateRecord` | `assimilate_hierarchy`'s loop, one record a step, with its guess at which were new, `translation.rs:59-80` |
| `FailResolve` | a record's source name does not resolve, as in a deep copy taken at a bad moment, `translation.rs:67-70` |
| `FinishAdd`, `FailAdd` | the events rewritten, those whose child is gone left out; a parent without a translation fails the call, `translation.rs:95-130` |
| `RemoveCollection` | the collection's name given up |

`get_merge_events` (`builder.rs:570-576`) drops errors: of a hierarchy on disk it
may return any prefix of the events, none included, and the call goes on with
that (`Reads`). Assimilation takes a record's *position* for its id. The
properties are claimed of sources for which the two agree (`InOrder`), and
faithfulness is to the events that were read; the other sources are in the model,
and in the run's instance, where their calls fail or lose a child, but no property
is about them. A call that fails leaves the records it created.

### DiskStorage

The file is a sequence of words; an event's record is a length and then its
data. `Push` and `PushFails` are the two outcomes of `push`: a failed one has
noted its position and may leave any part of its record, all of it included,
while `bytes_written` and the count stay. `Iter` takes a file handle and the
count as it is; each `ReadRecord`, `ReadGarbage` or `EndIter` is one `next`.
Where the words at an iterator's offset are no record, what `next` returns is
open: any event, or the end. `clone_box` borrows the storage while it iterates,
so that no push overlaps it; other iterators borrow nothing. `faulty` says
whether reads may fail at all, so that the promise for readers is two promises:
the exact one for sound media, and a prefix otherwise.

### FrameAnalysis

A `PartitionLevel` is seen as its collection, threshold and the number of
records it covers; `indexed` is the record count its reverse index was built
for. `BuildPartitions` and `CompareInBatch` are the branch for two sweeps, in
which partitions are built upfront, by `build_partitions_incrementally`, which
replaces what the hierarchy has cached and never looks at it, and
`compute_sweep_arc` pairs them in loops of its own. All other analyses run
through `generate_threshold_combinations`, a combination in several steps:
`TakePartition` is one lookup in the call's cache, or else one `at_threshold`,
and others may add records between two of them; `CompareCombination` compares
the first two, with the call's two caches and their limits. `Grow`, `Evict` and `IndexElsewhere` are other users.
`Table` is `RecordState::from_partitions`: cells are counted over the records
that both indices have, marginals over whole entities. Comparisons that
`select_algorithm_index` gives to `DeltaAlgorithm` have no table here; which
ones they are is modelled (`RecordHandles`).

## 3. Runs

| Run | Instance | Shows |
|---|---|---|
| `hierarchy_builder` | 4 records, 2 weights, every descending list of at most 4 edges (a self-edge among them), storage that fails between the union and the event, both chain verdicts; 417 000 states | the six invariants hold after every edge, `BuildsHierarchy` (what readers of a hierarchy rely on) among them, and the build implements `SingleLinkage` |
| `union_find` | 8 elements, 4 rank values; 245 000 states, deadlock checked | ranks grow upwards and none ever falls, a root of rank k has 2^k elements, answers are those of a root map, calls return |
| `data_context` | 3 threads, 2 records in 2 sources, at most 4 keys with repeats, one copy; 321 000 states | it implements `Interner`, pushes and files each record once, copies hand out fresh ids, every call ends |
| `partition_cache` | 2 callers, thresholds 3, 5 and 7 around events at 6 and 3 with 3 units to a key, 3 sweeps, one growth, evictions; 81 000 states | cached partitions are what reconstruction gives, answers implement `Partitions`, calls end |
| `delta_metrics` | 2 collections with either of 2 hierarchies of 4 records, one growth, thresholds 0 to 11 of which 4 are compared at, 2 second partitions, 4 sweeps whose thresholds drift by up to 2, spills from 5 entries on; 10 100 states | incremental answers are those of a rebuild, pair counts are right by definition, rows conserve records, a spill costs one answer |
| `frame_translation` | 5 sources (two with records in common at other positions, one of them on disk; two not numbered by position; one with a source name that does not resolve), one hierarchy built in place, 4 identities, 2 names, 5 numbers; 359 000 states | collections of sources numbered by position are faithful whatever grows meanwhile, the guess never undercounts, calls for such sources succeed |
| `disk_storage` | events of one and of two words, 4 pushes, failed ones included, 1 reader at a time; 243 000 states | the table locates every sound record, it implements `EventStorage`, iterations end |
| `frame_analysis` | 2 collections over 3 records, one growth, 2 thresholds, every kind of analysis, 2 in a row, caches of 2 and 1; 99 000 states | answers are exact and rightly labelled, indices cover their partitions |
| `sweep_includes_end` | as `delta_metrics`, no spills, exact thresholds | *violated*: a sweep merges an event at the threshold it answers for |
| `incremental_as_rebuilt` | as `delta_metrics`, no spills, no growth, exact thresholds | *violated*: comparisons are answered as after a rebuild |
| `same_record_same_number` | as `frame_translation` | *violated*: a record has the same number in all collections of a frame |
| `parents_canonical` | as `frame_translation` | *violated*: an event's parent is the smallest record of the partition that survives |

Why the bounds are enough. Four records and four edges are the least in which
two components of two records each merge, with either one's root surviving
while a pair of roots of the same group is already spent; two weights give a
group boundary and an event below another. A path of three links, the shortest
on which halving takes more than one turn, needs a root of rank three, hence
eight elements; `union_find` starts from four pairs to get there (any order of
the first four unions of disjoint pairs leads to such a state). Two threads race
for an id, and a third sees the result between insert and push; four keys
give a thread a repeated key after a race. In `partition_cache` two thresholds
share a key and lie on either side of an event, a third is exactly on the other
event, and sweeps visit them in either order. In `delta_metrics` one hierarchy
merges two pairs, with events on the thresholds of a sweep, and the other is a
chain with events between them, two of one weight; two second partitions and two
record counts are the least that can differ; distances of thresholds reach
below, at and above `RebuildThreshold` in both directions, and `Epsilon` upwards;
a drift of 2 takes the thresholds of a sweep by the least step onto events, to
either side of them and below its start, and drops its last one. A state mixed from
two collections, or updated upwards, is checked but not followed (`MixedOnce`):
its rows may add up to ever larger numbers, and a rebuild forgets them. In `frame_translation` a
record comes second in one source and first in the other, so that translation
reverses their order, and one number is left for another user; two events on
disk give a reader all, one or none. In
`disk_storage` a failed push can be followed by three more and an iteration of
all of them; the shorter event's record is a prefix in length of the longer's,
so that remains of either fall inside the other. Iterators share nothing but
the file, hence one at a time, begun over and over. In `frame_analysis` two
analyses in a row meet the caches of the first at a grown context, tables are
hit across combinations that differ in the third expression only, and both call
caches run over their limit.

`IdLimit`, `MaxRecords`, `MaxEdges`, `MaxKeys`, `MaxPushes` and `MaxAnalyses`
bound the models; the `IdLimit` of `data_context` is never reached, that of
`frame_translation` stops a call for want of numbers, which real counters have.
Deadlock is not checked where the modelled calls come to an end
(`hierarchy_builder`, `data_context`, `disk_storage`, `frame_analysis`), stop at a
bound (`frame_translation`) or may panic (`partition_cache`).

The four violations are findings, listed in `PROJECT.json` with the line that says
otherwise:

* a sweep never merges an event that lies exactly on one of its later thresholds,
  which the window before excludes and the window after skips
  (`builder.rs:812`);
* the engine's state does not say which collection it is of, and a comparison of
  another collection may be answered from it (`delta.rs:1017`);
* a string key is copied into the frame's context as its number in another
  context's interner, so that different strings become one record, and one
  string two (`translation.rs:73`);
* a translated event names the translation of its parent, which need not be the
  "canonical ID (minimum record index) of the surviving partition"
  (`docs/design/algorithms.md:297`) in the frame (`translation.rs:107`).
  Partitions do not mind; the engine keys its rows by their smallest record
  (`metrics/algorithms/delta.rs:414-418`) and looks them up by the parent
  (`:580-592`).

Behaviour the models allow for, since the code has it and no text says
otherwise, or which they show to be harmless:

* ids are drawn (`data_context.rs:105`) and positions taken (`:116`) in two steps,
  and `get_record(id)` reads position `id`: after concurrent interning of the same
  records the two may differ, and `len()` counts ids that were lost to a race.
  `DataContext` has both, and `FrameTranslation` shows what assimilation makes of
  such a context;
* the chain detector looks only when the merges at the end of a group are an exact
  multiple of its period;
* a push that fails leaves the union-find one merge ahead of the events
  (`PushFails`), which nobody sees, since the build is dropped;
* assimilation of a source whose ids are not its positions loses a child in
  silence, or fails;
* a read error ends an iteration like the end of the file does, so that clones,
  queries and translations go on with fewer events (`faulty`, `Reads`);
* after a spill the next threshold of a sweep panics (`SweepUnwrapsNone`);
* a sweep may ask for a threshold below its start, or leave its start out, by a
  rounding error (the Python docs call it inclusive,
  `src/python/starlings/expressions.py:138`; what is modelled is the f64 loop,
  not a threshold it ought to reach), and the incremental engine takes a move
  upwards by less than such an error for none;
* a cached partition is built for the threshold as given but filed under a
  rounded one, and does not see records added later (`Partitions` states what is
  left of exactness);
* a record new to the engine's state enters without its cells
  (`ButForNewRecords`), which the B-cubed metrics, NMI and V-measure see; and a
  comparison shortly above the last threshold panics, in a later call too;
* a reverse index is never rebuilt, and need not be: partitions are cut to the
  context's length before the length is read for the index (`IndexesComplete`).

Met while reading, outside what any module states: with three expressions or
more only the first two partitions are compared; the answers' keys
`{collection}_threshold` coincide for a collection compared with itself;
`determine_reference`'s answer is discarded (`starlings-py/src/lib.rs:757`); a
sweep by a sweep answers `EntityCount` and `Entropy` with 0.0; records past the
first partition are not in the totals behind true negatives, the adjusted Rand
index and NMI; `copy()` is documented as deep but shares the context; nothing
calls `restore_from_disk`, and dropping either handle of a spill removes its file.

## 4. Fairness

`DataContext`: weak fairness of each thread's `Step`. No step waits for another
thread (shard locks last one statement), so a scheduled thread progresses.
`PartitionCache`: weak fairness of each caller's `Work`, for the same reason;
none of `Call`, `Evict` or `Grow` is fair. `CallsEnd` allows a panic.
`UnionFind`: weak fairness of `Work`, since a call runs to its end; `CallsReturn`
says that its loops reach a root. `DiskStorage`: weak fairness of each reader's
`Advance`, since both users of an iterator, `collect` and the loop of `clone_box`,
drain it; `ItersEnd` holds without fairness of pushes and whatever they leave in
the file. `HierarchyBuilder`, `DeltaMetrics`, `FrameTranslation` and
`FrameAnalysis` claim no liveness: their calls are loops over fixed lists.

## 5. Proofs

`HierarchyBuilderProofs` proves, for any number of records, any edge list and
any thresholds: `TypeCorrect`, `BitmapsCorrect`, `ClassesCorrect`,
`EventsCorrect`, `EventsOrdered`, `HierarchyBuilt` and `Implementation` (the build
implements `SingleLinkage`). The argument goes through *cuts*: a set of records is uncut by
edges when no edge leaves it, and two relations have the same components exactly
when they leave the same sets uncut. This avoids reachability, and with it
induction over paths. The invariants of the runs are strengthened by

* `RootsFixed`: a root is its own root, so that classes are disjoint;
* `Sorted`, `Position`: the edges stay sorted, `next` is in the current group or
  just after it, so that a new event has the least threshold yet;
* `PairsSpent`: the two roots of a processed pair are in one class now, so that
  skipping it loses no merge (without it the stale pairs of roots in
  `processed_pairs` could hide one);
* `EventLevels`: thresholds of events are at least the current one;
* `Least`: a reader of all events knows each component of the union-find by its
  least record. `OneMoreEvent` shows that a merge keeps this, and that its event
  joins two components the events before it left whole; `ReadsRoots`, that
  components read so are those of the union-find at every level no event is below.

`HierarchyBuilt` closes a gap between components: `DeltaMetrics` assumes lists of
events that satisfy `IsHierarchy`, and it and `FrameAnalysis` read partitions by
`Canonical`. The theorem says that every list a build leaves satisfies it, and
that reading it so gives the components of the edges at every threshold.

`DataContextProofs` proves, for any number of threads, records and sources:
`TypeCorrect`, `Implementation` (of `Interner`), `PushedOnceCorrect`,
`SourceIndexCorrect` and `CopyCorrect`. The inductive invariant is layered:
`Typed` (types, and what each stage knows of its record and id); `Races` (ids
drawn but not inserted are distinct and not in the map, mapped ids are distinct,
a record being pushed or filed has one owner); `Stored` (`PushedOnce`,
`SourceIndexMatchesMap`); `CopyPrefix` (the copy is a prefix of the records).
That a copy's counter is large enough is a counting argument: positions inject
into the ids drawn.

`PartitionCacheProofs` proves, for any callers, thresholds, sweeps, events and
growth: `TypeCorrect`, `CacheCorrect` and `Implementation` (of `Partitions`). Its
invariant says of a call under way that each threshold asked for has a visit
ahead or a partition under its key (`Owing`), and of a builder (`Rounds`) that
its union-find holds exactly the events its last threshold asks for, that the
thresholds ahead lie below it (or one would be built with events it does not
want), and that all its partitions cover the records its union-find has: the
check that makes `find` panic is what forces a sweep's answers to agree on
them. That a partition under the key of another threshold is right to half a
unit (`RightIsNear`) is integer arithmetic: events lie on whole keys.

`UnionFindProofs` proves, for any number of elements below `2^RankLimit` (u32
elements, 256 rank values): `TypeCorrect`, `RanksCorrect`, `RankNeedsCorrect`,
`RanksNeverFallCorrect` (no rank wraps), `AnswersCorrect` and `Implementation`
(of `RootMap`). Instead
of recursing along parents the invariant says that links stay inside classes
(`LinksStayInside`: an element and its parent have one root, and a root is its
own parent) and that find's cursor stays in the class of its argument
(`Climbing`). That ranks do not wrap is counting: two roots of the highest rank
would need more elements than there are. The provers do not know that
2^(k+1) = 2 * 2^k; it is the named assumption `DoublingAssumption`.

`DiskStorageProofs` proves, for any events, sizes and readers: `TypeCorrect`,
`PositionsCorrect` and `Implementation` (of `EventStorage`). Its invariant adds
`Tally` (the count is the number of events pushed, and the table is at least as
long), `Tight` and `Chained` (until a push fails the file ends where the next
record is taken to begin, and each record begins where the one before ends) and
`InStep` (an iterator that has read only sound records stands at the beginning of
the next). That a place in the file holds one event's record at most
(`OneRecord`) makes what is read the event that was pushed.

`FrameTranslationProofs` proves, for any sources, events and growth:
`TypeCorrect` and `CountsEnough` (of `NeverUndercounts`), and for those sources
whose records are numbered by position `FaithfulCorrect` (of
`CollectionsFaithful`) and `AddsCorrect`, this one where source names resolve
too. Its invariant adds `Numbered` (numbers are
below the counter and of one identity), `InTranslation` (what has been
translated is what the map says), and `AllRewritten` (the events of a collection
are those read of its source, renumbered, not one missing). Faithfulness is again
stated by cuts, so that no induction over events is needed. That the guess never
undercounts is the pigeonhole principle: records translated so far have distinct
numbers below the counter, so that the next one drawn is at least their number.

`FrameAnalysisProofs` proves, for any hierarchies, analyses, growth and cache
limits, every property the run checks: `TypeCorrect`, `IndexesCorrect` (of
`IndexesComplete`) and `AnswersCorrect` (of `AnswersExact`). Its invariant says

* `LevelsCovered`: no cache and no list of a batch holds a partition of more
  records than the context has, so that whoever builds an index builds it long
  enough; the lists of a batch are of their sweep's thresholds, in order
  (`ListCovered`), and the partitions taken for a combination are of its keys, in
  order (`OwnedCovered`);
* `ResultsRight`: the answers so far are right and rightly labelled, and no more
  than there are combinations;
* `CacheRight`: so are the answers the call keeps, whichever combination they
  were given for: a table depends on the thresholds of its partitions only, not on
  their age (`RightTable`).

A table is right (`TableIs`) because its counts are the sizes of sets of pairs:
cells of different rows or columns share no pair, so their sizes add up
(`TotalSize`), and a set of n has n(n-1)/2 pairs (`PairsCount`). That it does
not matter how many records each partition covers is `JoinedIs`: records added
after the build are on their own, and in no pair. That a batch's own two loops
visit the pairs in the order the combinations are labelled in (`BatchOrder`) is
division with remainder (`RowsAndColumns`) and what the products of list lengths
are for two lists (`PairProducts`). Sums and products are the folds of the model,
unfolded once (`SumOfDef`, `ProductDef`) and reasoned about by smallest
counterexamples, as described next.

`DeltaMetricsProofs` proves, for any number of records, any hierarchies, any
sweeps and any sequence of calls, every property the passing run checks:
`TypeCorrect`, `ComparesAsRebuiltCorrect`, `PairsAsCountedCorrect`,
`SweepsAsRebuiltCorrect`, `RecordsConservedCorrect` and `SpillsOnceCorrect`. The
state is a table of sums over records, so the proofs need what sums are. The
fold the model sums with is unfolded once (`SumOfDef`, `SumOnChoice`); that a sum
does not depend on the order, that a sum over one element more is the sum plus
that element, that disjoint sums add up, and that
the sum of the sizes of classes is the size of the whole then follow, each
by taking a smallest counterexample among the subsets of a finite set: induction
in first-order form, which the provers accept.

Partitions are reasoned about by *owners*: the map from a record to the least
record of its entity (`IsOwner`). Applying one merge event rewrites one owner
into another (`Merged`), and the rows of the table are the sizes of an owner's
classes (`RowsOf`). `At` is the owner map a hierarchy's first k events give, and
`PartitionIs` ties it to the model's partitions. On these the invariant has
three layers:

* `Typed`: types, and where a sweep is among its thresholds, which descend however
  they drift, because two drifts are less than a step (`SweepDescends`);
* `Kept`: the rows held are those of some owner map each of whose entities lies
  within one entity of the partition so far (`Finer`). It is that partition as
  long as no event was left out for lying on a threshold, and the events pending
  are those from there to the next threshold. This is why every event finds both
  its rows, even in a sweep that left some out before;
* `Standing`: a state comparisons may update is a table of the partition at its
  last threshold (unless it was updated upwards), over however many records,
  against the second partition it was built with, short of nothing but cells of
  records past the hierarchy (`Comparable`). An update moves a row when one old row lies in an entity and
  recounts it when several do; `Standing` says that both give the cells of a
  rebuild.

Cells that are missing hold one record, and so no pair: this is why
`PairsAsCounted` holds of tables `ComparesAsRebuilt` must make an exception for.
The counts are pairs because a set of n has n(n-1)/2 of them (`PairsCount`), the
pairs inside disjoint sets add up, and pairs in one partition are those in both
plus the rest of each row, so that no subtraction saturates (`FewerThanAll`).

The assumptions are those stated with the constants: thresholds are naturals up
to the one that stands for 1.0, events lie on whole keys and are sorted, edge
lists are sorted, batches are sequences of records, `NoId` and `None` are values
of their own, records of a source are distinct and its events name them, events
of a hierarchy name records of its build, an analysis has at least two
expressions, a sweep's bounds are thresholds, twice the drift of a threshold is less
than the least step, the mark `Upward` is no collection, the number of analyses is
bounded.
TLC evaluates them on every run.

Only model-checked: the liveness properties `AllStored`, `CallsEnd`,
`CallsReturn` and `ItersEnd`, since liveness and ENABLED are beyond the prover,
and the runs that expect a violation.

## 6. Not modelled, and why

* Metric formulas, expression parsing, wrappers, generators, debug output: no
  state, nothing to order.
* The bitmap pool hands out cleared bitmaps under a mutex: fresh bitmaps where
  it is used.
* The resource monitor: no text of the repository says what holds between a
  check and the allocation; where it picks a storage, both choices are taken.
* Garbage flags of the frame, attributes, cached hashes, string interning (lasso): data
  that no property of `DataContext` tells apart. `deep_copy`, which nothing in the
  program calls, collects strings before records, so that a string interned
  meanwhile may be missing from the copy (`data_context.rs:257`).
* The cluster metrics of `RecordAlgorithm`: sums over the same tables.
* `canonical_ids` of the incremental builder is written and never read.
* Floating point: thresholds are whole numbers of a fine unit; where rounding
  decides what the code does (cache keys, the steps of a sweep, distances of
  thresholds) the model rounds or leaves a bounded choice. The two
  `threshold_to_key` functions differ only outside [0, 1], where `at_threshold`
  panics (`builder.rs:608`): a sweep that drifts below 0 ends so in the loop over
  combinations, which `FrameAnalysis`, whose thresholds are keys, does not have.
