--------------------------- MODULE PartitionCache ---------------------------
(***************************************************************************)
(* PartitionHierarchy::at_threshold and build_partitions_incrementally:    *)
(* callers ask a finished hierarchy for partitions while others add        *)
(* records to its context.  Partitions are kept in a cache that clones of  *)
(* the hierarchy share, under the threshold rounded to a millionth.  A     *)
(* partition is seen here through the merge events applied to build it and *)
(* the number of records it covers.                                        *)
(***************************************************************************)
EXTENDS Integers, Sequences, FiniteSets, FiniteSetsExt

CONSTANTS
    Callers,
    Fine,           (* thresholds are counted in units of 1/Fine of a key unit *)
    One,            (* the threshold 1.0, in these units                       *)
    Thresholds,     (* the thresholds callers ask for                          *)
    Sweeps,         (* the lists of thresholds they ask for in one call        *)
    EventThresholds,(* thresholds of the hierarchy's events, as stored         *)
    FirstRecords,   (* context.len() when the hierarchy was built              *)
    MaxRecords,     (* bound on the growth of the context                      *)
    None

ASSUME FineAssumption == Fine \in Nat \ {0}
ASSUME ThresholdsAssumption == One \in Nat /\ Thresholds \subseteq 0 .. One
ASSUME SweepsAssumption == Sweeps \subseteq Seq(Thresholds) \ {<<>>}
ASSUME EventsAssumption ==
    /\ EventThresholds \in Seq(0 .. One)
    /\ \A i \in 1 .. Len(EventThresholds) : EventThresholds[i] % Fine = 0
    /\ \A i, j \in 1 .. Len(EventThresholds) :
            i < j => EventThresholds[i] >= EventThresholds[j]
ASSUME RecordsAssumption == FirstRecords \in Nat /\ MaxRecords \in Nat /\ FirstRecords <= MaxRecords
ASSUME NoneAssumption == None \notin Nat /\ None \notin [threshold : Nat, merged : SUBSET Nat, records : Nat]

Events == 1 .. Len(EventThresholds)

(* Wrong: truncated, not rounded. *)
KeyTruncated(threshold) == threshold \div Fine

(***************************************************************************)
(* threshold_to_key: the nearest key unit, halves away from zero.          *)
(***************************************************************************)
Key(threshold) == (2 * threshold + Fine) \div (2 * Fine)

Keys == {Key(threshold) : threshold \in Thresholds}

Partition ==
    [threshold : Thresholds, merged : SUBSET Events, records : FirstRecords .. MaxRecords]

VARIABLES
    context_len,            (* context.len()                                    *)
    partition_cache,        (* partition_cache[key], None when not cached       *)
    asked,                  (* asked[c]: the thresholds of caller c's last call *)
    answer,                 (* answer[c]: what the call returned                *)
    pc,                     (* what caller c does next                          *)
    todo,                   (* thresholds the builder has still to visit        *)
    last_threshold,         (* the builder's last threshold, None before any    *)
    union_find,             (* its union-find: elements, and events applied     *)
    threshold_to_partition, (* the partitions built, by key                     *)
    stored                  (* how many of them were put in the cache           *)

builder == <<todo, last_threshold, union_find, threshold_to_partition, stored>>
vars == <<context_len, partition_cache, asked, answer, pc, builder>>

NoUnionFind == [size |-> 0, applied |-> {}]

Init ==
    /\ context_len = FirstRecords
    /\ partition_cache = [key \in Keys |-> None]
    /\ asked = [c \in Callers |-> <<>>]
    /\ answer = [c \in Callers |-> <<>>]
    /\ pc = [c \in Callers |-> "idle"]
    /\ todo = [c \in Callers |-> {}]
    /\ last_threshold = [c \in Callers |-> None]
    /\ union_find = [c \in Callers |-> NoUnionFind]
    /\ threshold_to_partition = [c \in Callers |-> [key \in Keys |-> None]]
    /\ stored = [c \in Callers |-> 0]

-----------------------------------------------------------------------------
(***************************************************************************)
(* A call begins: at_threshold with one threshold, or                      *)
(* build_partitions_incrementally with several and a builder of its own.   *)
(***************************************************************************)
Call(c, thresholds, first) ==
    /\ pc[c] = "idle"
    /\ asked' = [asked EXCEPT ![c] = thresholds]
    /\ answer' = [answer EXCEPT ![c] = <<>>]
    /\ pc' = [pc EXCEPT ![c] = first]
    /\ todo' = [todo EXCEPT ![c] = {thresholds[i] : i \in DOMAIN thresholds}]
    /\ UNCHANGED <<context_len, partition_cache, last_threshold, union_find,
                   threshold_to_partition, stored>>

AtThreshold(c, threshold) == Call(c, <<threshold>>, "lookup")
BuildIncrementally(c, thresholds) == Call(c, thresholds, "apply")

(***************************************************************************)
(* The call returns and its builder is dropped.                            *)
(***************************************************************************)
Return(c, partitions) ==
    /\ answer' = [answer EXCEPT ![c] = partitions]
    /\ pc' = [pc EXCEPT ![c] = "idle"]
    /\ todo' = [todo EXCEPT ![c] = {}]
    /\ last_threshold' = [last_threshold EXCEPT ![c] = None]
    /\ union_find' = [union_find EXCEPT ![c] = NoUnionFind]
    /\ threshold_to_partition' =
            [threshold_to_partition EXCEPT ![c] = [key \in Keys |-> None]]
    /\ stored' = [stored EXCEPT ![c] = 0]

Hit(c) ==
    /\ pc[c] = "lookup"
    /\ partition_cache[Key(asked[c][1])] # None
    /\ Return(c, <<partition_cache[Key(asked[c][1])]>>)
    /\ UNCHANGED <<context_len, partition_cache, asked>>

Miss(c) ==
    /\ pc[c] = "lookup"
    /\ partition_cache[Key(asked[c][1])] = None
    /\ pc' = [pc EXCEPT ![c] = "apply"]
    /\ UNCHANGED <<context_len, partition_cache, asked, answer, builder>>

-----------------------------------------------------------------------------
(***************************************************************************)
(* Thresholds are visited from high to low.                                *)
(***************************************************************************)
Target(c) == Max(todo[c])

(***************************************************************************)
(* From scratch: a union-find as large as the context is now; the loop     *)
(* over the events breaks at the first one below the threshold.            *)
(***************************************************************************)
Reached(threshold) == {i \in Events : \A j \in 1 .. i : EventThresholds[j] >= threshold}

FromScratch(c) ==
    /\ pc[c] = "apply"
    /\ last_threshold[c] = None
    /\ union_find' = [union_find EXCEPT ![c] =
                        [size |-> context_len, applied |-> Reached(Target(c))]]
    /\ last_threshold' = [last_threshold EXCEPT ![c] = Target(c)]
    /\ pc' = [pc EXCEPT ![c] = "collect"]
    /\ UNCHANGED <<context_len, partition_cache, asked, answer, todo,
                   threshold_to_partition, stored>>

(* Wrong: events exactly at the threshold are left for the next one, which
   skips them. *)
AboveOnly(last, threshold) ==
    {i \in Reached(threshold) : EventThresholds[i] < last /\ EventThresholds[i] > threshold}

(***************************************************************************)
(* Incrementally: events at or above the last threshold are skipped.       *)
(***************************************************************************)
Between(last, threshold) == {i \in Reached(threshold) : EventThresholds[i] < last}

Incrementally(c) ==
    /\ pc[c] = "apply"
    /\ last_threshold[c] # None
    /\ union_find' = [union_find EXCEPT ![c].applied =
                        @ \cup Between(last_threshold[c], Target(c))]
    /\ last_threshold' = [last_threshold EXCEPT ![c] = Target(c)]
    /\ pc' = [pc EXCEPT ![c] = "collect"]
    /\ UNCHANGED <<context_len, partition_cache, asked, answer, todo,
                   threshold_to_partition, stored>>

(***************************************************************************)
(* The records are grouped by their roots.  Their number is read again: a  *)
(* context that has grown since has records the union-find has not, and    *)
(* find panics.                                                            *)
(***************************************************************************)
Overrun(c) ==
    /\ pc[c] = "collect"
    /\ context_len > union_find[c].size
    /\ pc' = [pc EXCEPT ![c] = "panicked"]
    /\ UNCHANGED <<context_len, partition_cache, asked, answer, builder>>

(* Wrong: the partition is not entered in the map, or its threshold not crossed
   off. *)
CollectUnmapped(c) ==
    /\ pc[c] = "collect"
    /\ context_len <= union_find[c].size
    /\ todo' = [todo EXCEPT ![c] = @ \ {Target(c)}]
    /\ pc' = [pc EXCEPT ![c] = IF todo[c] = {Target(c)} THEN "store" ELSE "apply"]
    /\ UNCHANGED <<context_len, partition_cache, asked, answer, last_threshold,
                   union_find, threshold_to_partition, stored>>

CollectAgain(c) ==
    /\ pc[c] = "collect"
    /\ context_len <= union_find[c].size
    /\ threshold_to_partition' = [threshold_to_partition EXCEPT ![c][Key(Target(c))] =
            [threshold |-> Target(c), merged |-> union_find[c].applied,
             records |-> context_len]]
    /\ pc' = [pc EXCEPT ![c] = "apply"]
    /\ UNCHANGED <<context_len, partition_cache, asked, answer, todo, last_threshold,
                   union_find, stored>>

Collect(c) ==
    /\ pc[c] = "collect"
    /\ context_len <= union_find[c].size
    /\ threshold_to_partition' = [threshold_to_partition EXCEPT ![c][Key(Target(c))] =
            [threshold |-> Target(c), merged |-> union_find[c].applied,
             records |-> context_len]]
    /\ todo' = [todo EXCEPT ![c] = @ \ {Target(c)}]
    /\ pc' = [pc EXCEPT ![c] = IF todo[c] = {Target(c)} THEN "store" ELSE "apply"]
    /\ UNCHANGED <<context_len, partition_cache, asked, answer, last_threshold,
                   union_find, stored>>

(***************************************************************************)
(* The partitions, in the order asked for, go to the cache one by one; two *)
(* thresholds of one key get the partition of the lower.                   *)
(***************************************************************************)
Results(c) ==
    [i \in DOMAIN asked[c] |-> threshold_to_partition[c][Key(asked[c][i])]]

Store(c) ==
    /\ pc[c] = "store"
    /\ LET i == stored[c] + 1
       IN  /\ partition_cache' = [partition_cache EXCEPT ![Key(asked[c][i])] = Results(c)[i]]
           /\ IF i = Len(asked[c])
              THEN Return(c, Results(c))
              ELSE /\ stored' = [stored EXCEPT ![c] = i]
                   /\ UNCHANGED <<answer, pc, todo, last_threshold, union_find,
                                  threshold_to_partition>>
    /\ UNCHANGED <<context_len, asked>>

Work(c) ==
    \/ Hit(c)
    \/ Miss(c)
    \/ FromScratch(c)
    \/ Incrementally(c)
    \/ Overrun(c)
    \/ Collect(c)
    \/ Store(c)

-----------------------------------------------------------------------------
(***************************************************************************)
(* The cache drops what it likes to stay below its weight limit; another   *)
(* collection's records enter the shared context.                          *)
(***************************************************************************)
Evict(key) ==
    /\ partition_cache[key] # None
    /\ partition_cache' = [partition_cache EXCEPT ![key] = None]
    /\ UNCHANGED <<context_len, asked, answer, pc, builder>>

Grow ==
    /\ context_len < MaxRecords
    /\ context_len' = context_len + 1
    /\ UNCHANGED <<partition_cache, asked, answer, pc, builder>>

Next ==
    \/ \E c \in Callers, threshold \in Thresholds : AtThreshold(c, threshold)
    \/ \E c \in Callers, thresholds \in Sweeps : BuildIncrementally(c, thresholds)
    \/ \E c \in Callers : Work(c)
    \/ \E key \in Keys : Evict(key)
    \/ Grow

Spec == Init /\ [][Next]_vars

(***************************************************************************)
(* Reads and inserts do not wait for anyone.                               *)
(***************************************************************************)
FairSpec == Spec /\ \A c \in Callers : WF_vars(Work(c))

-----------------------------------------------------------------------------
TypeOK ==
    /\ context_len \in FirstRecords .. MaxRecords
    /\ partition_cache \in [Keys -> Partition \cup {None}]
    /\ asked \in [Callers -> Seq(Thresholds)]
    /\ answer \in [Callers -> Seq(Partition)]
    /\ pc \in [Callers -> {"idle", "lookup", "apply", "collect", "store", "panicked"}]
    /\ todo \in [Callers -> SUBSET Thresholds]
    /\ last_threshold \in [Callers -> Thresholds \cup {None}]
    /\ union_find \in [Callers -> [size : 0 .. MaxRecords, applied : SUBSET Events]]
    /\ threshold_to_partition \in [Callers -> [Keys -> Partition \cup {None}]]
    /\ stored \in [Callers -> Nat]

(***************************************************************************)
(* Whoever put it there, by reconstruction or as one of a sweep, a cached  *)
(* partition is the one its own threshold has: events applied in several   *)
(* rounds are neither skipped between two rounds nor applied too early.    *)
(***************************************************************************)
CachedAsReconstructed ==
    \A key \in Keys :
        LET partition == partition_cache[key]
        IN  partition # None =>
                /\ Key(partition.threshold) = key
                /\ partition.merged =
                        {i \in Events : EventThresholds[i] >= partition.threshold}

(***************************************************************************)
(* The cache, evictions, colliding keys, concurrent callers and rounds of  *)
(* the builder are invisible but for half a unit of threshold.             *)
(***************************************************************************)
Asking == INSTANCE Partitions WITH size <- context_len,
                                   busy <- [c \in Callers |-> pc[c] # "idle"]

ImplementsPartitions == Asking!Spec

(***************************************************************************)
(* A call comes back, unless it panics.                                    *)
(***************************************************************************)
CallsEnd ==
    \A c \in Callers : pc[c] # "idle" ~> pc[c] \in {"idle", "panicked"}
=============================================================================
