------------------------ MODULE PartitionCacheProofs ------------------------
(***************************************************************************)
(* Proofs about PartitionCache for any callers, thresholds, sweeps and     *)
(* events, and any number of records.                                      *)
(***************************************************************************)
EXTENDS PartitionCache, SequenceTheorems, WellFoundedInduction, TLAPS

AtOrAbove(threshold) == {i \in Events : EventThresholds[i] >= threshold}

LEMMA ThresholdRange ==
    ASSUME NEW threshold \in Thresholds PROVE threshold \in Nat /\ threshold <= One
BY ThresholdsAssumption

(***************************************************************************)
(* Thresholds are bounded, so the builder's next one is the largest left.  *)
(***************************************************************************)
LEMMA MaxOfThresholds ==
    ASSUME NEW S \in SUBSET Thresholds, S # {}
    PROVE  Max(S) \in S /\ \A x \in S : x <= Max(S)
<1> DEFINE Less == {p \in Nat \X Nat : p[1] < p[2]}
           Gaps == {n \in Nat : One - n \in S}
<1>1. IsWellFoundedOn(Less, Nat)
  BY ONLY NatLessThanWellFounded, Zenon DEF OpToRel
<1>2. Gaps # {}
  <2>1. PICK x \in S : TRUE
    OBVIOUS
  <2>2. x \in Nat /\ x <= One /\ One \in Nat
    BY ThresholdsAssumption
  <2>3. One - x \in Nat /\ One - (One - x) = x
    BY <2>2
  <2>4. QED
    BY <2>3
<1>3. PICK m \in Gaps : \A n \in Gaps : ~ (<<n, m>> \in Less)
  BY <1>1, <1>2, WFMin
<1>4. ASSUME NEW x \in S PROVE x <= One - m
  <2>1. x \in Nat /\ x <= One /\ One \in Nat /\ m \in Nat
    BY ThresholdsAssumption
  <2>2. One - x \in Nat /\ One - (One - x) = x
    BY <2>1
  <2>3. One - x \in Gaps
    BY <2>2
  <2>4. ~ (<<One - x, m>> \in Less)
    BY <1>3, <2>3, Zenon
  <2>5. ~ (One - x < m)
    BY <2>1, <2>2, <2>4
  <2>6. QED
    BY <2>1, <2>5
<1>5. One - m \in S /\ \A x \in S : One - m >= x
  <2>1. One - m \in S
    OBVIOUS
  <2>2. ASSUME NEW x \in S PROVE One - m >= x
    <3>1. x \in Nat /\ One - m \in Nat
      BY <2>1, ThresholdsAssumption
    <3>2. QED
      BY <1>4, <3>1
  <2>3. QED
    BY <2>1, <2>2
<1>6. Max(S) \in S /\ \A x \in S : Max(S) >= x
  BY <1>5 DEF Max
<1>7. QED
  <2>1. \A x \in S : x \in Nat
    BY ThresholdsAssumption
  <2>2. QED
    BY <1>6, <2>1

(***************************************************************************)
(* Events are sorted: breaking at the first one below a threshold reaches  *)
(* all that are not.                                                       *)
(***************************************************************************)
LEMMA EventLevel == ASSUME NEW i \in Events PROVE EventThresholds[i] \in 0 .. One
<1>1. EventThresholds \in Seq(0 .. One)
  BY EventsAssumption
<1>2. QED
  BY <1>1, ElementOfSeq DEF Events

LEMMA ReachedIsAtOrAbove ==
    ASSUME NEW threshold \in Thresholds
    PROVE  Reached(threshold) = AtOrAbove(threshold)
<1>1. threshold \in Nat /\ One \in Nat
  BY ThresholdsAssumption
<1>2. Len(EventThresholds) \in Nat
  BY EventsAssumption, LenProperties
<1>3. ASSUME NEW i \in Events, EventThresholds[i] >= threshold, NEW j \in 1 .. i
      PROVE  EventThresholds[j] >= threshold
  <2>1. j \in Events /\ i \in Nat /\ j \in Nat
    BY <1>2 DEF Events
  <2>2. EventThresholds[i] \in Nat /\ EventThresholds[j] \in Nat
    BY <2>1, EventLevel, <1>1
  <2>3. j < i => EventThresholds[j] >= EventThresholds[i]
    BY <2>1, EventsAssumption DEF Events
  <2>4. QED
    BY <1>1, <1>3, <2>1, <2>2, <2>3
<1>4. ASSUME NEW i \in Events PROVE i \in 1 .. i
  BY <1>2 DEF Events
<1>5. QED
  BY <1>3, <1>4 DEF Reached, AtOrAbove

(***************************************************************************)
(* One round of the incremental builder: what was applied for the last     *)
(* threshold and what lies between is what a lower threshold needs.        *)
(***************************************************************************)
LEMMA RoundsAddUp ==
    ASSUME NEW last \in Thresholds, NEW threshold \in Thresholds, threshold <= last
    PROVE  AtOrAbove(last) \cup Between(last, threshold) = AtOrAbove(threshold)
<1>1. threshold \in Nat /\ last \in Nat /\ One \in Nat
  BY ThresholdsAssumption
<1>2. \A i \in Events : EventThresholds[i] \in Nat
  BY <1>1, EventLevel
<1>3. Between(last, threshold) = {i \in AtOrAbove(threshold) : EventThresholds[i] < last}
  BY ReachedIsAtOrAbove DEF Between
<1>4. QED
  BY <1>1, <1>2, <1>3 DEF AtOrAbove

LEMMA FunctionIsSeq ==
    ASSUME NEW S, NEW n \in Nat, NEW f \in [1 .. n -> S]
    PROVE  f \in Seq(S) /\ Len(f) = n
OBVIOUS

LEMMA KeyInKeys == ASSUME NEW threshold \in Thresholds PROVE Key(threshold) \in Keys
BY DEF Keys

LEMMA NoneIsNoPartition == None \notin Partition /\ None \notin Thresholds
<1>1. Thresholds \subseteq Nat /\ FirstRecords .. MaxRecords \subseteq Nat
  BY ThresholdsAssumption, RecordsAssumption
<1>2. Events \subseteq Nat
  BY EventsAssumption, LenProperties DEF Events
<1>3. Partition \subseteq [threshold : Nat, merged : SUBSET Nat, records : Nat]
  BY <1>1, <1>2 DEF Partition
<1>4. QED
  BY <1>1, <1>3, NoneAssumption

-----------------------------------------------------------------------------
(***************************************************************************)
(* The inductive invariant.  A partition is right for a key when its own   *)
(* threshold has that key and it merges what that threshold asks for.      *)
(***************************************************************************)
RightFor(partition, key) ==
    /\ Key(partition.threshold) = key
    /\ partition.merged = AtOrAbove(partition.threshold)
    /\ partition.records <= context_len

CacheRight ==
    \A key \in Keys : partition_cache[key] # None => RightFor(partition_cache[key], key)

Built(c, key) == threshold_to_partition[c][key] # None

(***************************************************************************)
(* A call under way has, for each threshold it was asked, a visit ahead or *)
(* a partition under its key.                                              *)
(***************************************************************************)
Owing(c) ==
    pc[c] \in {"lookup", "apply", "collect", "store"} =>
        /\ Len(asked[c]) \in Nat \ {0}
        /\ pc[c] = "lookup" => Len(asked[c]) = 1
        /\ \A i \in 1 .. Len(asked[c]) :
              asked[c][i] \in todo[c] \/ Built(c, Key(asked[c][i]))
        /\ pc[c] = "store" <=> todo[c] = {}
        /\ stored[c] < Len(asked[c])

(***************************************************************************)
(* The union-find holds what the last threshold asks for; those ahead lie  *)
(* below it, but for the last one itself until its records are collected;  *)
(* all partitions of a builder cover the records its union-find has.       *)
(***************************************************************************)
Rounds(c) ==
    /\ pc[c] \in {"idle", "lookup"} => last_threshold[c] = None /\ stored[c] = 0
    /\ last_threshold[c] # None =>
          /\ union_find[c].applied = AtOrAbove(last_threshold[c])
          /\ union_find[c].size \in FirstRecords .. context_len
    /\ pc[c] = "collect" =>
          /\ last_threshold[c] # None
          /\ last_threshold[c] \in todo[c]
          /\ \A threshold \in todo[c] : threshold <= last_threshold[c]
    /\ pc[c] = "apply" /\ last_threshold[c] # None =>
          \A threshold \in todo[c] : threshold < last_threshold[c]
    /\ \A key \in Keys : Built(c, key) =>
          /\ last_threshold[c] # None
          /\ RightFor(threshold_to_partition[c][key], key)
          /\ threshold_to_partition[c][key].records = union_find[c].size

IInv == TypeOK /\ CacheRight /\ \A c \in Callers : Owing(c) /\ Rounds(c)

LEMMA InitIInv == Init => IInv
<1> SUFFICES ASSUME Init PROVE IInv
  OBVIOUS
<1> USE DEF Init
<1>1. TypeOK
  <2>1. <<>> \in Seq(Thresholds) /\ <<>> \in Seq(Partition)
    BY EmptySeq
  <2>2. 0 \in 0 .. MaxRecords /\ FirstRecords \in FirstRecords .. MaxRecords
    BY RecordsAssumption
  <2>3. QED
    BY <2>1, <2>2 DEF TypeOK, NoUnionFind
<1>2. CacheRight
  BY DEF CacheRight
<1>3. ASSUME NEW c \in Callers PROVE Owing(c) /\ Rounds(c)
  BY <1>3 DEF Owing, Rounds, Built
<1>4. QED
  BY <1>1, <1>2, <1>3 DEF IInv

(***************************************************************************)
(* A partition stays right, and a caller that takes no step keeps its part *)
(* of the invariant, while the context only grows.                         *)
(***************************************************************************)
Grown == context_len \in Nat /\ context_len' \in Nat /\ context_len <= context_len'

LEMMA StaysRight ==
    ASSUME Grown, NEW partition \in Partition, NEW key, RightFor(partition, key)
    PROVE  RightFor(partition, key)'
<1>1. partition.records \in Nat
  BY RecordsAssumption DEF Partition
<1>2. QED
  BY <1>1 DEF Grown, RightFor

Untouched(c) ==
    /\ asked'[c] = asked[c] /\ pc'[c] = pc[c] /\ todo'[c] = todo[c]
    /\ last_threshold'[c] = last_threshold[c] /\ union_find'[c] = union_find[c]
    /\ threshold_to_partition'[c] = threshold_to_partition[c]
    /\ stored'[c] = stored[c]

LEMMA UntouchedKeeps ==
    ASSUME TypeOK, Grown, NEW c \in Callers, Untouched(c), Owing(c), Rounds(c)
    PROVE  Owing(c)' /\ Rounds(c)'
<1> USE DEF Untouched
<1>1. Owing(c)'
  BY DEF Owing, Built
<1>2. ASSUME NEW key \in Keys, Built(c, key)'
      PROVE  /\ last_threshold'[c] # None
             /\ RightFor(threshold_to_partition[c][key], key)'
             /\ threshold_to_partition'[c][key].records = union_find'[c].size
  <2>1. /\ Built(c, key)
        /\ last_threshold'[c] # None
        /\ RightFor(threshold_to_partition[c][key], key)
        /\ threshold_to_partition'[c][key].records = union_find'[c].size
    BY <1>2 DEF Rounds, Built
  <2>2. threshold_to_partition[c][key] \in Partition
    BY <2>1 DEF TypeOK, Built
  <2>3. RightFor(threshold_to_partition[c][key], key)'
    BY <2>1, <2>2, StaysRight DEF RightFor
  <2>4. QED
    BY <2>1, <2>3
<1>3. union_find[c].size \in FirstRecords .. context_len =>
        union_find'[c].size \in FirstRecords .. context_len'
  BY RecordsAssumption DEF Grown
<1>4. Rounds(c)'
  BY <1>2, <1>3 DEF Rounds
<1>5. QED
  BY <1>1, <1>4

LEMMA CacheStaysRight ==
    ASSUME TypeOK, CacheRight, Grown, NEW key \in Keys,
           partition_cache'[key] = partition_cache[key], partition_cache'[key] # None
    PROVE  RightFor(partition_cache[key], key)'
<1>1. partition_cache[key] \in Partition /\ RightFor(partition_cache[key], key)
  BY DEF TypeOK, CacheRight
<1>2. RightFor(partition_cache[key], key)'
  BY <1>1, StaysRight DEF RightFor
<1>3. QED
  BY <1>2

LEMMA CacheUnchanged ==
    ASSUME TypeOK, CacheRight, Grown, UNCHANGED partition_cache
    PROVE  CacheRight'
BY CacheStaysRight DEF CacheRight

(***************************************************************************)
(* A step of one caller: its own part of the invariant and the cache are   *)
(* all there is to show.                                                   *)
(***************************************************************************)
Alone(c) == \A d \in Callers \ {c} : Untouched(d)

LEMMA StepOfOne ==
    ASSUME IInv, NEW c \in Callers, Alone(c), Grown,
           TypeOK', CacheRight', Owing(c)', Rounds(c)'
    PROVE  IInv'
<1>1. ASSUME NEW d \in Callers, d # c PROVE Owing(d)' /\ Rounds(d)'
  BY <1>1, UntouchedKeeps DEF IInv, Alone
<1>2. QED
  BY <1>1 DEF IInv

LEMMA SameLength == TypeOK /\ UNCHANGED context_len => Grown
BY RecordsAssumption DEF TypeOK, Grown

(***************************************************************************)
(* What a builder has built stays right while its step builds nothing.     *)
(***************************************************************************)
LEMMA BuiltStaysRight ==
    ASSUME IInv, Grown, NEW c \in Callers, UNCHANGED threshold_to_partition,
           NEW key \in Keys, Built(c, key)'
    PROVE  /\ Built(c, key) /\ last_threshold[c] # None
           /\ RightFor(threshold_to_partition[c][key], key)'
           /\ threshold_to_partition'[c][key].records = union_find[c].size
<1>1. Built(c, key)
  BY DEF Built
<1>2. /\ last_threshold[c] # None
      /\ RightFor(threshold_to_partition[c][key], key)
      /\ threshold_to_partition[c][key].records = union_find[c].size
  BY <1>1 DEF IInv, Rounds
<1>3. threshold_to_partition[c][key] \in Partition
  BY <1>1 DEF IInv, TypeOK, Built
<1>4. RightFor(threshold_to_partition[c][key], key)'
  BY <1>2, <1>3, StaysRight DEF RightFor
<1>5. QED
  BY <1>1, <1>2, <1>4

(***************************************************************************)
(* A call that returns leaves its caller with nothing.                     *)
(***************************************************************************)
LEMMA ReturnKeeps ==
    ASSUME IInv, NEW c \in Callers, NEW partitions \in Seq(Partition),
           Return(c, partitions), UNCHANGED <<context_len, asked>>,
           partition_cache' \in [Keys -> Partition \cup {None}], CacheRight'
    PROVE  IInv'
<1> USE DEF Return
<1>1. TypeOK'
  BY RecordsAssumption DEF IInv, TypeOK, NoUnionFind
<1>2. Alone(c)
  BY DEF IInv, TypeOK, Alone, Untouched
<1>3. pc'[c] = "idle" /\ last_threshold'[c] = None /\ stored'[c] = 0
  BY DEF IInv, TypeOK
<1>4. \A key \in Keys : threshold_to_partition'[c][key] = None
  BY DEF IInv, TypeOK
<1>5. Owing(c)' /\ Rounds(c)'
  BY <1>3, <1>4 DEF Owing, Rounds, Built
<1>6. Grown
  BY SameLength DEF IInv
<1>7. QED
  BY <1>1, <1>2, <1>5, <1>6, StepOfOne

LEMMA CallKeeps ==
    ASSUME IInv, NEW c \in Callers, NEW thresholds \in Seq(Thresholds), thresholds # <<>>,
           NEW first \in {"lookup", "apply"}, first = "lookup" => Len(thresholds) = 1,
           Call(c, thresholds, first)
    PROVE  IInv'
<1> USE DEF Call
<1>1. DOMAIN thresholds = 1 .. Len(thresholds) /\ Len(thresholds) \in Nat \ {0}
  BY LenProperties, EmptySeq
<1>2. \A i \in 1 .. Len(thresholds) : thresholds[i] \in Thresholds
  BY ElementOfSeq
<1>3. TypeOK'
  BY <1>1, <1>2, EmptySeq DEF IInv, TypeOK
<1>4. Alone(c)
  BY DEF IInv, TypeOK, Alone, Untouched
<1>5. /\ pc[c] = "idle" /\ pc'[c] = first
      /\ asked'[c] = thresholds
      /\ todo'[c] = {thresholds[i] : i \in 1 .. Len(thresholds)}
  BY <1>1 DEF IInv, TypeOK
<1>6. last_threshold[c] = None /\ stored[c] = 0 /\ \A key \in Keys : ~Built(c, key)
  BY <1>5 DEF IInv, Rounds
<1>7. Owing(c)'
  <2>0. stored' = stored
    OBVIOUS
  <2> HIDE DEF Call
  <2>1. 1 \in 1 .. Len(thresholds)
    BY <1>1
  <2>2. todo'[c] # {} /\ \A i \in 1 .. Len(thresholds) : thresholds[i] \in todo'[c]
    BY <1>5, <2>1
  <2>3. stored'[c] < Len(thresholds)
    BY <1>1, <1>6, <2>0
  <2>4. pc'[c] # "store" /\ (pc'[c] = "lookup" => Len(asked'[c]) = 1)
    BY <1>5
  <2>5. Len(asked'[c]) \in Nat \ {0} /\ asked'[c] = thresholds
    BY <1>1, <1>5
  <2>6. \A i \in 1 .. Len(asked'[c]) : asked'[c][i] \in todo'[c]
    BY <2>2, <2>5
  <2>7. stored'[c] < Len(asked'[c])
    BY <2>3, <2>5
  <2>8. QED
    BY <2>2, <2>4, <2>5, <2>6, <2>7 DEF Owing
<1>8. Rounds(c)'
  BY <1>5, <1>6 DEF Rounds, Built
<1>9. Grown /\ CacheRight'
  BY SameLength, CacheUnchanged DEF IInv
<1>10. QED
  BY <1>3, <1>4, <1>7, <1>8, <1>9, StepOfOne

LEMMA HitKeeps ==
    ASSUME IInv, NEW c \in Callers, Hit(c)
    PROVE  IInv' /\ <<partition_cache[Key(asked[c][1])]>> \in Seq(Partition)
<1> USE DEF Hit
<1>1. asked[c] \in Seq(Thresholds) /\ Len(asked[c]) = 1
  BY DEF IInv, TypeOK, Owing
<1>2. asked[c][1] \in Thresholds
  BY <1>1, ElementOfSeq
<1>3. partition_cache[Key(asked[c][1])] \in Partition
  BY <1>2, KeyInKeys DEF IInv, TypeOK
<1>4. <<partition_cache[Key(asked[c][1])]>> \in Seq(Partition)
  BY <1>3
<1>5. CacheRight'
  BY SameLength, CacheUnchanged DEF IInv
<1>6. partition_cache' \in [Keys -> Partition \cup {None}]
  BY DEF IInv, TypeOK
<1>7. QED
  BY <1>4, <1>5, <1>6, ReturnKeeps

LEMMA MissKeeps == ASSUME IInv, NEW c \in Callers, Miss(c) PROVE IInv'
<1> USE DEF Miss, builder
<1>1. TypeOK' /\ Alone(c)
  BY DEF IInv, TypeOK, Alone, Untouched
<1>2. pc[c] = "lookup" /\ pc'[c] = "apply"
  BY DEF IInv, TypeOK
<1>3. Owing(c)'
  BY <1>2 DEF IInv, Owing, Built
<1>4. Rounds(c)'
  BY <1>2 DEF IInv, Rounds, Built
<1>5. Grown /\ CacheRight'
  BY SameLength, CacheUnchanged DEF IInv
<1>6. QED
  BY <1>1, <1>3, <1>4, <1>5, StepOfOne

LEMMA OverrunKeeps == ASSUME IInv, NEW c \in Callers, Overrun(c) PROVE IInv'
<1> USE DEF Overrun, builder
<1>1. TypeOK' /\ Alone(c)
  BY DEF IInv, TypeOK, Alone, Untouched
<1>2. pc[c] = "collect" /\ pc'[c] = "panicked"
  BY DEF IInv, TypeOK
<1>3. Owing(c)'
  BY <1>2 DEF Owing
<1>4. Grown /\ CacheRight'
  BY SameLength, CacheUnchanged DEF IInv
<1>5. Rounds(c)'
  <2>1. \A key \in Keys : Built(c, key)' =>
            /\ last_threshold'[c] # None
            /\ RightFor(threshold_to_partition[c][key], key)'
            /\ threshold_to_partition'[c][key].records = union_find'[c].size
    BY <1>4, BuiltStaysRight
  <2>2. Rounds(c) /\ UNCHANGED <<last_threshold, union_find, stored, context_len>>
    BY DEF IInv
  <2> HIDE DEF Overrun, builder
  <2>3. QED
    BY <1>2, <2>1, <2>2 DEF Rounds
<1>6. QED
  BY <1>1, <1>3, <1>4, <1>5, StepOfOne

(***************************************************************************)
(* The next threshold of a builder with thresholds ahead.                  *)
(***************************************************************************)
LEMMA TargetIsLargest ==
    ASSUME IInv, NEW c \in Callers, pc[c] \in {"apply", "collect"}
    PROVE  /\ Target(c) \in todo[c] /\ Target(c) \in Thresholds
           /\ \A threshold \in todo[c] : threshold \in Nat /\ threshold <= Target(c)
<1>1. todo[c] \subseteq Thresholds /\ todo[c] # {}
  BY DEF IInv, TypeOK, Owing
<1>2. todo[c] \subseteq Nat
  BY <1>1, ThresholdRange
<1>3. QED
  BY <1>1, <1>2, MaxOfThresholds DEF Target

(***************************************************************************)
(* Both ways to apply events end in the same state.                        *)
(***************************************************************************)
LEMMA AppliedKeeps ==
    ASSUME IInv, NEW c \in Callers, pc[c] = "apply",
           NEW size \in FirstRecords .. context_len,
           last_threshold[c] # None => size = union_find[c].size,
           union_find' = [union_find EXCEPT ![c] =
                            [size |-> size, applied |-> AtOrAbove(Target(c))]],
           last_threshold' = [last_threshold EXCEPT ![c] = Target(c)],
           pc' = [pc EXCEPT ![c] = "collect"],
           UNCHANGED <<context_len, partition_cache, asked, answer, todo,
                       threshold_to_partition, stored>>
    PROVE  IInv'
<1>1. /\ Target(c) \in todo[c] /\ Target(c) \in Thresholds
      /\ \A threshold \in todo[c] : threshold <= Target(c)
  BY TargetIsLargest
<1>2. context_len \in FirstRecords .. MaxRecords
  BY DEF IInv, TypeOK
<1>3. size \in 0 .. MaxRecords
  BY <1>2, RecordsAssumption
<1>4. AtOrAbove(Target(c)) \subseteq Events
  BY DEF AtOrAbove
<1>5. TypeOK'
  BY <1>1, <1>3, <1>4 DEF IInv, TypeOK
<1>6. Alone(c)
  BY DEF IInv, TypeOK, Alone, Untouched
<1>7. Target(c) # None
  BY <1>1, NoneIsNoPartition
<1>8. /\ last_threshold'[c] = Target(c) /\ pc'[c] = "collect"
      /\ union_find'[c].size = size
      /\ union_find'[c].applied = AtOrAbove(Target(c))
  BY DEF IInv, TypeOK
<1>9. Owing(c)'
  BY <1>8 DEF IInv, Owing, Built
<1>10. ASSUME NEW key \in Keys, Built(c, key)'
       PROVE  /\ RightFor(threshold_to_partition[c][key], key)'
              /\ threshold_to_partition'[c][key].records = size
  BY <1>10, SameLength, BuiltStaysRight DEF IInv
<1>11. Rounds(c)'
  <2>1. union_find'[c].size \in FirstRecords .. context_len'
    BY <1>8
  <2>2. \A threshold \in todo'[c] : threshold <= last_threshold'[c]
    BY <1>1, <1>8
  <2>3. last_threshold'[c] \in todo'[c]
    BY <1>1, <1>8
  <2>4. union_find'[c].applied = AtOrAbove(last_threshold'[c])
    BY <1>8
  <2>5. \A key \in Keys : Built(c, key)' =>
            /\ RightFor(threshold_to_partition[c][key], key)'
            /\ threshold_to_partition'[c][key].records = union_find'[c].size
    BY <1>8, <1>10
  <2>6. QED
    BY <1>7, <1>8, <2>1, <2>2, <2>3, <2>4, <2>5 DEF Rounds, AtOrAbove, Events
<1>12. Grown /\ CacheRight'
  BY SameLength, CacheUnchanged DEF IInv
<1>13. QED
  BY <1>5, <1>6, <1>9, <1>11, <1>12, StepOfOne

LEMMA FromScratchKeeps == ASSUME IInv, NEW c \in Callers, FromScratch(c) PROVE IInv'
<1>1. pc[c] = "apply" /\ last_threshold[c] = None
  BY DEF FromScratch
<1>2. Reached(Target(c)) = AtOrAbove(Target(c))
  BY <1>1, TargetIsLargest, ReachedIsAtOrAbove
<1>3. context_len \in FirstRecords .. context_len
  BY RecordsAssumption DEF IInv, TypeOK
<1>4. QED
  BY <1>1, <1>2, <1>3, AppliedKeeps DEF FromScratch

LEMMA IncrementallyKeeps == ASSUME IInv, NEW c \in Callers, Incrementally(c) PROVE IInv'
<1>1. pc[c] = "apply" /\ last_threshold[c] # None
  BY DEF Incrementally
<1>2. /\ union_find[c].applied = AtOrAbove(last_threshold[c])
      /\ union_find[c].size \in FirstRecords .. context_len
      /\ \A threshold \in todo[c] : threshold < last_threshold[c]
      /\ last_threshold[c] \in Thresholds
  BY <1>1 DEF IInv, Rounds, TypeOK
<1>3. Target(c) \in todo[c] /\ Target(c) \in Thresholds
  BY <1>1, TargetIsLargest
<1>4. Target(c) <= last_threshold[c]
  BY <1>2, <1>3, ThresholdRange
<1>5. union_find[c].applied \cup Between(last_threshold[c], Target(c)) = AtOrAbove(Target(c))
  BY <1>2, <1>3, <1>4, RoundsAddUp
<1>6. union_find' = [union_find EXCEPT ![c] =
            [size |-> union_find[c].size, applied |-> AtOrAbove(Target(c))]]
  <2>1. union_find[c] \in [size : 0 .. MaxRecords, applied : SUBSET Events]
    BY DEF IInv, TypeOK
  <2>2. union_find' = [union_find EXCEPT ![c].applied =
                        @ \cup Between(last_threshold[c], Target(c))]
    BY DEF Incrementally
  <2>3. [union_find[c] EXCEPT !.applied = AtOrAbove(Target(c))] =
            [size |-> union_find[c].size, applied |-> AtOrAbove(Target(c))]
    BY <2>1
  <2>4. union_find \in [Callers -> [size : 0 .. MaxRecords, applied : SUBSET Events]]
    BY DEF IInv, TypeOK
  <2>5. QED
    BY <1>5, <2>2, <2>3, <2>4
<1>7. QED
  BY <1>1, <1>2, <1>6, AppliedKeeps DEF Incrementally

LEMMA CollectKeeps == ASSUME IInv, NEW c \in Callers, Collect(c) PROVE IInv'
<1> DEFINE partition == [threshold |-> Target(c), merged |-> union_find[c].applied,
                         records |-> context_len]
<1>1. /\ pc[c] = "collect" /\ context_len <= union_find[c].size
      /\ threshold_to_partition' =
            [threshold_to_partition EXCEPT ![c][Key(Target(c))] = partition]
      /\ todo' = [todo EXCEPT ![c] = @ \ {Target(c)}]
      /\ pc' = [pc EXCEPT ![c] = IF todo[c] = {Target(c)} THEN "store" ELSE "apply"]
      /\ UNCHANGED <<context_len, partition_cache, asked, answer, last_threshold,
                     union_find, stored>>
  BY DEF Collect
<1>2. /\ Target(c) \in todo[c] /\ Target(c) \in Thresholds
      /\ \A threshold \in todo[c] : threshold \in Nat /\ threshold <= Target(c)
  BY <1>1, TargetIsLargest
<1>3. /\ last_threshold[c] # None
      /\ last_threshold[c] \in todo[c]
      /\ \A threshold \in todo[c] : threshold <= last_threshold[c]
      /\ union_find[c].applied = AtOrAbove(last_threshold[c])
      /\ union_find[c].size \in FirstRecords .. context_len
  BY <1>1 DEF IInv, Rounds
<1>4. last_threshold[c] = Target(c)
  BY <1>2, <1>3
<1>5. context_len \in FirstRecords .. MaxRecords /\ context_len = union_find[c].size
  BY <1>1, <1>3, RecordsAssumption DEF IInv, TypeOK
<1>6. partition \in Partition
  BY <1>2, <1>5 DEF IInv, TypeOK, Partition
<1>7. partition # None /\ Key(Target(c)) \in Keys
  BY <1>2, <1>6, NoneIsNoPartition, KeyInKeys
<1>8. RightFor(partition, Key(Target(c)))
  BY <1>3, <1>4, <1>5, RecordsAssumption DEF RightFor
<1>9. partition.records = union_find[c].size
  BY <1>5
<1> HIDE DEF partition
<1>10. TypeOK'
  BY <1>1, <1>6, <1>7 DEF IInv, TypeOK
<1>11. Alone(c)
  BY <1>1 DEF IInv, TypeOK, Alone, Untouched
<1>12. \A key \in Keys : threshold_to_partition'[c][key] =
            IF key = Key(Target(c)) THEN partition ELSE threshold_to_partition[c][key]
  BY <1>1, <1>7 DEF IInv, TypeOK
<1>13. /\ todo'[c] = todo[c] \ {Target(c)}
       /\ pc'[c] = IF todo[c] = {Target(c)} THEN "store" ELSE "apply"
  BY <1>1 DEF IInv, TypeOK
<1>14. Owing(c)'
  <2>1. ASSUME NEW i \in 1 .. Len(asked[c])
        PROVE  asked[c][i] \in todo'[c] \/ Built(c, Key(asked[c][i]))'
    <3>1. asked[c][i] \in todo[c] \/ Built(c, Key(asked[c][i]))
      BY <1>1 DEF IInv, Owing
    <3>2. Key(asked[c][i]) \in Keys
      BY KeyInKeys, ElementOfSeq DEF IInv, TypeOK
    <3>3. Built(c, Key(asked[c][i]))' <=>
              threshold_to_partition'[c][Key(asked[c][i])] # None
      BY <1>1 DEF Built, Key
    <3>4. QED
      BY <1>7, <1>12, <1>13, <3>1, <3>2, <3>3 DEF Built
  <2>2. Len(asked[c]) \in Nat \ {0} /\ stored[c] < Len(asked[c])
    BY <1>1 DEF IInv, Owing
  <2>3. pc'[c] = "store" <=> todo'[c] = {}
    BY <1>2, <1>13
  <2>4. pc'[c] # "lookup" /\ asked' = asked /\ stored' = stored
    BY <1>1, <1>13
  <2>5. QED
    BY <2>1, <2>2, <2>3, <2>4 DEF Owing
<1>15. Rounds(c)'
  <2>1. pc'[c] \in {"apply", "store"} /\ last_threshold'[c] = Target(c)
    BY <1>1, <1>4, <1>13
  <2>2. \A threshold \in todo'[c] : threshold < last_threshold'[c]
    BY <1>2, <1>13, <2>1
  <2>3. /\ union_find'[c].applied = AtOrAbove(last_threshold[c])
        /\ union_find'[c].size \in FirstRecords .. context_len'
    BY <1>1, <1>3
  <2>4. ASSUME NEW key \in Keys, Built(c, key)'
        PROVE  /\ RightFor(threshold_to_partition[c][key], key)'
               /\ threshold_to_partition'[c][key].records = union_find'[c].size
    <3>1. CASE key = Key(Target(c))
      <4>1. threshold_to_partition'[c][key] = partition
        BY <1>12, <3>1
      <4>2. QED
        BY <1>1, <1>8, <1>9, <3>1, <4>1 DEF RightFor
    <3>2. CASE key # Key(Target(c))
      <4>1. threshold_to_partition'[c][key] = threshold_to_partition[c][key] /\ Built(c, key)
        BY <1>12, <2>4, <3>2 DEF Built
      <4>2. /\ RightFor(threshold_to_partition[c][key], key)
            /\ threshold_to_partition[c][key].records = union_find[c].size
        BY <4>1 DEF IInv, Rounds
      <4>3. QED
        BY <1>1, <4>1, <4>2 DEF RightFor
    <3>3. QED
      BY <3>1, <3>2
  <2>5. last_threshold'[c] # None /\ last_threshold' = last_threshold
    BY <1>1, <1>3
  <2>6. QED
    BY <2>1, <2>2, <2>3, <2>4, <2>5 DEF Rounds, AtOrAbove, Events
<1>16. Grown /\ CacheRight'
  BY <1>1, SameLength, CacheUnchanged DEF IInv
<1>17. QED
  BY <1>10, <1>11, <1>14, <1>15, <1>16, StepOfOne

(***************************************************************************)
(* When nothing is left to visit there is a right partition for every      *)
(* threshold asked for, and all cover the records of the union-find.       *)
(***************************************************************************)
LEMMA ResultsAreRight ==
    ASSUME IInv, NEW c \in Callers, pc[c] = "store"
    PROVE  /\ Len(asked[c]) \in Nat \ {0}
           /\ DOMAIN Results(c) = 1 .. Len(asked[c])
           /\ Results(c) \in Seq(Partition)
           /\ union_find[c].size \in FirstRecords .. context_len
           /\ \A i \in 1 .. Len(asked[c]) :
                /\ asked[c][i] \in Thresholds
                /\ Results(c)[i] \in Partition
                /\ RightFor(Results(c)[i], Key(asked[c][i]))
                /\ Results(c)[i].records = union_find[c].size
<1>1. asked[c] \in Seq(Thresholds)
  BY DEF IInv, TypeOK
<1>2. DOMAIN asked[c] = 1 .. Len(asked[c])
  BY <1>1, LenProperties
<1>3. Len(asked[c]) \in Nat \ {0} /\ todo[c] = {}
  BY DEF IInv, Owing
<1>4. ASSUME NEW i \in 1 .. Len(asked[c])
      PROVE  /\ asked[c][i] \in Thresholds
             /\ Results(c)[i] = threshold_to_partition[c][Key(asked[c][i])]
             /\ Results(c)[i] \in Partition
             /\ RightFor(Results(c)[i], Key(asked[c][i]))
             /\ Results(c)[i].records = union_find[c].size
             /\ last_threshold[c] # None
  <2>1. asked[c][i] \in Thresholds /\ Key(asked[c][i]) \in Keys
    BY <1>1, ElementOfSeq, KeyInKeys
  <2>2. Results(c)[i] = threshold_to_partition[c][Key(asked[c][i])]
    BY <1>2 DEF Results
  <2>3. Built(c, Key(asked[c][i]))
    BY <1>3 DEF IInv, Owing
  <2>4. Results(c)[i] \in Partition
    BY <2>1, <2>2, <2>3 DEF IInv, TypeOK, Built
  <2>5. QED
    BY <2>1, <2>2, <2>3, <2>4 DEF IInv, Rounds
<1>5. Results(c) \in [1 .. Len(asked[c]) -> Partition]
  BY <1>2, <1>4 DEF Results
<1>6. Results(c) \in Seq(Partition) /\ DOMAIN Results(c) = 1 .. Len(asked[c])
  BY <1>3, <1>5, FunctionIsSeq
<1>7. union_find[c].size \in FirstRecords .. context_len
  <2>1. 1 \in 1 .. Len(asked[c])
    BY <1>3
  <2>2. last_threshold[c] # None
    BY <1>4, <2>1
  <2>3. QED
    BY <2>2 DEF IInv, Rounds
<1>8. QED
  BY <1>3, <1>4, <1>6, <1>7

LEMMA StoreKeeps == ASSUME IInv, NEW c \in Callers, Store(c) PROVE IInv'
<1> DEFINE i == stored[c] + 1
           key == Key(asked[c][i])
<1>1. pc[c] = "store" /\ UNCHANGED <<context_len, asked>>
  BY DEF Store
<1>2. Len(asked[c]) \in Nat \ {0} /\ stored[c] \in Nat /\ stored[c] < Len(asked[c])
  BY <1>1 DEF IInv, Owing, TypeOK
<1>3. i \in 1 .. Len(asked[c])
  BY <1>2
<1> HIDE DEF i
<1>4. /\ Results(c) \in Seq(Partition)
      /\ Results(c)[i] \in Partition
      /\ RightFor(Results(c)[i], key)
      /\ asked[c][i] \in Thresholds
  BY <1>1, <1>3, ResultsAreRight
<1>5. key \in Keys
  BY <1>4, KeyInKeys
<1>6. partition_cache' = [partition_cache EXCEPT ![key] = Results(c)[i]]
  BY DEF Store, i
<1> HIDE DEF key
<1>7. partition_cache' \in [Keys -> Partition \cup {None}]
  BY <1>4, <1>6 DEF IInv, TypeOK
<1>8. Grown
  BY <1>1, SameLength DEF IInv
<1>9. CacheRight'
  <2> SUFFICES ASSUME NEW k \in Keys, partition_cache'[k] # None
               PROVE  RightFor(partition_cache[k], k)'
    BY DEF CacheRight
  <2>1. CASE k = key
    <3>1. partition_cache'[k] = Results(c)[i]
      BY <1>5, <1>6, <2>1 DEF IInv, TypeOK
    <3>2. QED
      BY <1>1, <1>4, <2>1, <3>1 DEF RightFor
  <2>2. CASE k # key
    <3>1. partition_cache'[k] = partition_cache[k]
      BY <1>6, <2>2 DEF IInv, TypeOK
    <3>2. QED
      BY <1>8, <3>1, CacheStaysRight DEF IInv
  <2>3. QED
    BY <2>1, <2>2
<1>10. CASE i = Len(asked[c])
  <2>1. Return(c, Results(c))
    BY <1>10 DEF Store, i
  <2>2. QED
    BY <1>1, <1>4, <1>7, <1>9, <2>1, ReturnKeeps
<1>11. CASE i # Len(asked[c])
  <2>1. /\ stored' = [stored EXCEPT ![c] = i]
        /\ UNCHANGED <<answer, pc, todo, last_threshold, union_find, threshold_to_partition>>
    BY <1>11 DEF Store, i
  <2>2. TypeOK'
    BY <1>1, <1>3, <1>7, <2>1 DEF IInv, TypeOK
  <2>3. Alone(c)
    BY <1>1, <2>1 DEF IInv, TypeOK, Alone, Untouched
  <2>4. stored'[c] = i /\ i < Len(asked[c])
    BY <1>2, <1>3, <1>11, <2>1 DEF IInv, TypeOK
  <2>5. Owing(c)'
    BY <1>1, <2>1, <2>4 DEF IInv, Owing, Built
  <2>6. \A k \in Keys : Built(c, k)' =>
            /\ last_threshold'[c] # None
            /\ RightFor(threshold_to_partition[c][k], k)'
            /\ threshold_to_partition'[c][k].records = union_find'[c].size
    BY <1>8, <2>1, BuiltStaysRight
  <2>7. Rounds(c)'
    BY <1>1, <2>1, <2>6 DEF IInv, Rounds
  <2>8. QED
    BY <1>8, <1>9, <2>2, <2>3, <2>5, <2>7, StepOfOne
<1>12. QED
  BY <1>10, <1>11

LEMMA AllUntouchedKeeps ==
    ASSUME IInv, Grown, UNCHANGED <<asked, pc, builder>>, TypeOK', CacheRight'
    PROVE  IInv'
<1>1. ASSUME NEW c \in Callers PROVE Owing(c)' /\ Rounds(c)'
  BY UntouchedKeeps DEF IInv, Untouched, builder
<1>2. QED
  BY <1>1 DEF IInv

LEMMA EvictKeeps == ASSUME IInv, NEW key \in Keys, Evict(key) PROVE IInv'
<1>1. TypeOK' /\ Grown
  BY SameLength DEF IInv, TypeOK, Evict, builder
<1>2. ASSUME NEW k \in Keys, partition_cache'[k] # None PROVE partition_cache'[k] = partition_cache[k]
  BY <1>2 DEF IInv, TypeOK, Evict
<1>3. CacheRight'
  BY <1>1, <1>2, CacheStaysRight DEF IInv, CacheRight
<1>4. QED
  BY <1>1, <1>3, AllUntouchedKeeps DEF Evict

LEMMA GrowKeeps == ASSUME IInv, Grow PROVE IInv'
<1>1. Grown
  BY RecordsAssumption DEF IInv, TypeOK, Grow, Grown
<1>2. TypeOK'
  BY RecordsAssumption DEF IInv, TypeOK, Grow, builder
<1>3. CacheRight'
  BY <1>1, CacheUnchanged DEF IInv, Grow
<1>4. QED
  BY <1>1, <1>2, <1>3, AllUntouchedKeeps DEF Grow

LEMMA StutterKeeps == ASSUME IInv, UNCHANGED vars PROVE IInv'
<1>1. TypeOK' /\ Grown
  BY SameLength DEF IInv, TypeOK, vars, builder
<1>2. QED
  BY <1>1, CacheUnchanged, AllUntouchedKeeps DEF IInv, vars

LEMMA StepIInv == IInv /\ [Next]_vars => IInv'
<1> SUFFICES ASSUME IInv, [Next]_vars PROVE IInv'
  OBVIOUS
<1>1. ASSUME NEW c \in Callers, NEW threshold \in Thresholds, AtThreshold(c, threshold)
      PROVE  IInv'
  <2>1. <<threshold>> \in Seq(Thresholds) /\ Len(<<threshold>>) = 1 /\ <<threshold>> # <<>>
    OBVIOUS
  <2>2. QED
    BY <1>1, <2>1, CallKeeps DEF AtThreshold
<1>2. ASSUME NEW c \in Callers, NEW thresholds \in Sweeps, BuildIncrementally(c, thresholds)
      PROVE  IInv'
  BY <1>2, SweepsAssumption, CallKeeps DEF BuildIncrementally
<1>3. ASSUME NEW c \in Callers, Work(c) PROVE IInv'
  BY <1>3, HitKeeps, MissKeeps, FromScratchKeeps, IncrementallyKeeps, OverrunKeeps,
     CollectKeeps, StoreKeeps DEF Work
<1>4. QED
  BY <1>1, <1>2, <1>3, EvictKeeps, GrowKeeps, StutterKeeps DEF Next

LEMMA Invariance == Spec => []IInv
BY InitIInv, StepIInv, PTL DEF Spec

-----------------------------------------------------------------------------
(***************************************************************************)
(* TypeOK: every state of the cache, its callers and their builders is     *)
(* well typed; in particular every call is answered with partitions.       *)
(***************************************************************************)
THEOREM TypeCorrect == Spec => []TypeOK
<1>1. IInv => TypeOK
  BY DEF IInv
<1>2. QED
  BY <1>1, Invariance, PTL

(***************************************************************************)
(* CachedAsReconstructed: whichever way a cached partition was built, and  *)
(* in however many rounds, it merges what its own threshold asks for.      *)
(***************************************************************************)
THEOREM CacheCorrect == Spec => []CachedAsReconstructed
<1>1. IInv => CachedAsReconstructed
  BY DEF IInv, CacheRight, RightFor, CachedAsReconstructed, AtOrAbove
<1>2. QED
  BY <1>1, Invariance, PTL

-----------------------------------------------------------------------------
(***************************************************************************)
(* Rounding to a key: a partition under the key of a threshold is right    *)
(* for that threshold to half a unit, because events lie on whole keys.    *)
(***************************************************************************)
LEMMA Multiples ==
    ASSUME NEW k \in Nat, NEW e \in Nat, e > k
    PROVE  e * Fine >= k * Fine + Fine
<1>1. Fine \in Nat
  BY FineAssumption
<1>2. PICK d \in Nat : e = k + 1 + d
  <2>1. e - k - 1 \in Nat /\ e = k + 1 + (e - k - 1)
    OBVIOUS
  <2>2. QED
    BY <2>1
<1>3. d * Fine \in Nat
  BY <1>1
<1>4. e * Fine = k * Fine + Fine + d * Fine
  BY <1>1, <1>2
<1>5. QED
  BY <1>1, <1>3, <1>4

LEMMA Division ==
    ASSUME NEW a \in Nat, NEW d \in Nat \ {0}
    PROVE  a \div d \in Nat /\ d * (a \div d) <= a /\ a < d * (a \div d) + d
OBVIOUS

LEMMA KeyRange ==
    ASSUME NEW threshold \in Thresholds
    PROVE  /\ Key(threshold) \in Nat
           /\ 2 * (Key(threshold) * Fine) <= 2 * threshold + Fine
           /\ 2 * threshold < 2 * (Key(threshold) * Fine) + Fine
<1> DEFINE k == (2 * threshold + Fine) \div (2 * Fine)
<1>1. threshold \in Nat /\ Fine \in Nat \ {0}
  BY ThresholdRange, FineAssumption
<1>2. 2 * threshold + Fine \in Nat /\ 2 * Fine \in Nat \ {0}
  BY <1>1
<1>3. /\ k \in Nat /\ (2 * Fine) * k <= 2 * threshold + Fine
      /\ 2 * threshold + Fine < (2 * Fine) * k + 2 * Fine
  BY <1>2, Division
<1> HIDE DEF k
<1>4. (2 * Fine) * k = 2 * (k * Fine) /\ k * Fine \in Nat
  BY <1>1, <1>3
<1>5. k = Key(threshold)
  BY DEF k, Key
<1>6. QED
  BY <1>1, <1>3, <1>4, <1>5

LEMMA RightIsNear ==
    ASSUME NEW asking \in Thresholds, NEW partition \in Partition,
           RightFor(partition, Key(asking))
    PROVE  Asking!NearlyAt(partition.merged, asking)
<1> DEFINE t == partition.threshold
           k == Key(asking)
<1>1. t \in Thresholds /\ Key(t) = k /\ partition.merged = AtOrAbove(t)
  BY DEF Partition, RightFor
<1>2. /\ t \in Nat /\ asking \in Nat /\ k \in Nat /\ Fine \in Nat \ {0}
      /\ 2 * (k * Fine) <= 2 * t + Fine /\ 2 * t < 2 * (k * Fine) + Fine
      /\ 2 * (k * Fine) <= 2 * asking + Fine /\ 2 * asking < 2 * (k * Fine) + Fine
  BY <1>1, ThresholdRange, KeyRange, FineAssumption
<1> HIDE DEF t, k
<1>3. k * Fine \in Nat
  BY <1>2
<1>4. ASSUME NEW i \in Events
      PROVE  /\ 2 * (EventThresholds[i] - asking) > Fine => i \in partition.merged
             /\ 2 * (asking - EventThresholds[i]) >= Fine => i \notin partition.merged
  <2> DEFINE e == EventThresholds[i] \div Fine
  <2>1. EventThresholds[i] \in Nat /\ EventThresholds[i] % Fine = 0
    BY EventLevel, EventsAssumption, ThresholdsAssumption DEF Events
  <2>2. e \in Nat /\ EventThresholds[i] = e * Fine
    BY <1>2, <2>1
  <2> HIDE DEF e
  <2>3. e * Fine \in Nat
    BY <2>1, <2>2
  <2>4. CASE 2 * (EventThresholds[i] - asking) > Fine
    <3>1. e * Fine > k * Fine
      BY <1>2, <1>3, <2>2, <2>3, <2>4
    <3>2. e > k
      <4>1. CASE e = k
        BY <1>3, <3>1, <4>1
      <4>2. CASE k > e
        BY <1>2, <1>3, <2>2, <2>3, <3>1, <4>2, Multiples
      <4>3. QED
        BY <1>2, <2>2, <4>1, <4>2
    <3>3. e * Fine >= k * Fine + Fine
      BY <1>2, <2>2, <3>2, Multiples
    <3>4. EventThresholds[i] >= t
      BY <1>2, <1>3, <2>2, <2>3, <3>3
    <3>5. i \in partition.merged
      BY <1>1, <3>4 DEF AtOrAbove
    <3>6. ~ (2 * (asking - EventThresholds[i]) >= Fine)
      BY <1>2, <2>1, <2>4
    <3>7. QED
      BY <3>5, <3>6
  <2>5. CASE 2 * (asking - EventThresholds[i]) >= Fine
    <3>1. e * Fine < k * Fine
      BY <1>2, <1>3, <2>2, <2>3, <2>5
    <3>2. k > e
      <4>1. CASE e = k
        BY <1>3, <3>1, <4>1
      <4>2. CASE e > k
        BY <1>2, <1>3, <2>2, <2>3, <3>1, <4>2, Multiples
      <4>3. QED
        BY <1>2, <2>2, <4>1, <4>2
    <3>3. k * Fine >= e * Fine + Fine
      BY <1>2, <2>2, <3>2, Multiples
    <3>4. ~ (EventThresholds[i] >= t)
      BY <1>2, <1>3, <2>2, <2>3, <3>3
    <3>5. i \notin partition.merged
      BY <1>1, <3>4 DEF AtOrAbove
    <3>6. ~ (2 * (EventThresholds[i] - asking) > Fine)
      BY <1>2, <2>1, <2>5
    <3>7. QED
      BY <3>5, <3>6
  <2>6. QED
    BY <2>4, <2>5
<1>5. DOMAIN EventThresholds = Events
  BY EventsAssumption, LenProperties DEF Events
<1>6. QED
  BY <1>4, <1>5 DEF Asking!NearlyAt

Busy == [c \in Callers |-> pc[c] # "idle"]
Seen == <<context_len, asked, answer, Busy>>

LEMMA InitAsks == Init => Asking!Init
BY DEF Init, Asking!Init

(***************************************************************************)
(* Steps that leave alone what the outside sees.                           *)
(***************************************************************************)
LEMMA WorkUnseen ==
    ASSUME IInv, NEW c \in Callers, pc[c] # "idle", NEW after, after # "idle",
           pc' = [pc EXCEPT ![c] = after], UNCHANGED <<context_len, asked, answer>>
    PROVE  UNCHANGED Seen
<1>1. \A d \in Callers : pc'[d] # "idle" <=> pc[d] # "idle"
  BY DEF IInv, TypeOK
<1>2. QED
  BY <1>1 DEF Seen, Busy

LEMMA CallAsks ==
    ASSUME IInv, NEW c \in Callers, NEW thresholds \in Seq(Thresholds), NEW first,
           first # "idle", Call(c, thresholds, first)
    PROVE  Asking!Next
<1>1. /\ pc[c] = "idle" /\ pc' = [pc EXCEPT ![c] = first]
      /\ asked' = [asked EXCEPT ![c] = thresholds]
      /\ answer' = [answer EXCEPT ![c] = <<>>]
      /\ UNCHANGED context_len
  BY DEF Call
<1>2. asked'[c] = thresholds
  BY <1>1 DEF IInv, TypeOK
<1>3. \A d \in Callers : (pc'[d] # "idle") = IF d = c THEN TRUE ELSE pc[d] # "idle"
  BY <1>1 DEF IInv, TypeOK
<1>4. [d \in Callers |-> pc[d] # "idle"]' =
            [[d \in Callers |-> pc[d] # "idle"] EXCEPT ![c] = TRUE]
  BY <1>3
<1>5. Asking!Ask(c)
  BY <1>1, <1>2, <1>4 DEF Asking!Ask
<1>6. QED
  BY <1>5 DEF Asking!Next

(***************************************************************************)
(* A call that returns right partitions of one record count answers.       *)
(***************************************************************************)
LEMMA ReturnAnswers ==
    ASSUME IInv, NEW c \in Callers, pc[c] # "idle", NEW partitions,
           Return(c, partitions), UNCHANGED <<context_len, asked>>,
           DOMAIN partitions = DOMAIN asked[c],
           NEW size \in FirstRecords .. context_len,
           \A i \in DOMAIN partitions :
                /\ asked[c][i] \in Thresholds
                /\ partitions[i] \in Partition
                /\ RightFor(partitions[i], Key(asked[c][i]))
                /\ partitions[i].records = size,
           1 \in DOMAIN partitions
    PROVE  Asking!Next
<1>1. /\ pc' = [pc EXCEPT ![c] = "idle"]
      /\ answer' = [answer EXCEPT ![c] = partitions]
  BY DEF Return
<1>2. answer'[c] = partitions
  BY <1>1 DEF IInv, TypeOK
<1>3. \A d \in Callers : (pc'[d] # "idle") = IF d = c THEN FALSE ELSE pc[d] # "idle"
  BY <1>1 DEF IInv, TypeOK
<1>4. [d \in Callers |-> pc[d] # "idle"]' =
            [[d \in Callers |-> pc[d] # "idle"] EXCEPT ![c] = FALSE]
  BY <1>3
<1>5. \A i \in DOMAIN partitions :
            /\ Asking!NearlyAt(partitions[i].merged, asked[c][i])
            /\ partitions[i].records \in FirstRecords .. context_len
            /\ partitions[i].records = partitions[1].records
  BY RightIsNear
<1>6. Asking!Answer(c)
  BY <1>1, <1>2, <1>4, <1>5 DEF Asking!Answer
<1>7. QED
  BY <1>6 DEF Asking!Next

LEMMA HitAnswers == ASSUME IInv, NEW c \in Callers, Hit(c) PROVE Asking!Next
<1> DEFINE partition == partition_cache[Key(asked[c][1])]
<1>1. /\ pc[c] = "lookup" /\ partition # None
      /\ Return(c, <<partition>>) /\ UNCHANGED <<context_len, asked>>
  BY DEF Hit
<1>2. asked[c] \in Seq(Thresholds) /\ Len(asked[c]) = 1
  BY <1>1 DEF IInv, TypeOK, Owing
<1>3. asked[c][1] \in Thresholds /\ DOMAIN asked[c] = 1 .. 1
  BY <1>2, ElementOfSeq, LenProperties
<1>4. partition \in Partition /\ RightFor(partition, Key(asked[c][1]))
  BY <1>1, <1>3, KeyInKeys DEF IInv, TypeOK, CacheRight
<1>5. partition.records \in FirstRecords .. context_len
  BY <1>4, RecordsAssumption DEF IInv, TypeOK, Partition, RightFor
<1> HIDE DEF partition
<1>6. DOMAIN <<partition>> = 1 .. 1 /\ <<partition>>[1] = partition
  OBVIOUS
<1>7. \A i \in DOMAIN <<partition>> : i = 1
  BY <1>6
<1>8. QED
  BY <1>1, <1>3, <1>4, <1>5, <1>6, <1>7, ReturnAnswers

LEMMA StoreAnswers == ASSUME IInv, NEW c \in Callers, Store(c) PROVE [Asking!Next]_Seen
<1> DEFINE i == stored[c] + 1
<1>1. pc[c] = "store" /\ UNCHANGED <<context_len, asked>>
  BY DEF Store
<1>2. /\ Len(asked[c]) \in Nat \ {0}
      /\ DOMAIN Results(c) = 1 .. Len(asked[c])
      /\ union_find[c].size \in FirstRecords .. context_len
      /\ \A k \in 1 .. Len(asked[c]) :
            /\ asked[c][k] \in Thresholds
            /\ Results(c)[k] \in Partition
            /\ RightFor(Results(c)[k], Key(asked[c][k]))
            /\ Results(c)[k].records = union_find[c].size
  BY <1>1, ResultsAreRight
<1>3. DOMAIN asked[c] = 1 .. Len(asked[c]) /\ 1 \in 1 .. Len(asked[c])
  BY <1>2, LenProperties DEF IInv, TypeOK
<1>4. CASE i = Len(asked[c])
  <2>1. Return(c, Results(c))
    BY <1>4 DEF Store
  <2>2. QED
    BY <1>1, <1>2, <1>3, <2>1, ReturnAnswers
<1>5. CASE i # Len(asked[c])
  BY <1>1, <1>5 DEF Store, Seen, Busy
<1>6. QED
  BY <1>4, <1>5

LEMMA StepAsks == IInv /\ [Next]_vars => [Asking!Next]_Seen
<1> SUFFICES ASSUME IInv, [Next]_vars PROVE [Asking!Next]_Seen
  OBVIOUS
<1>1. ASSUME NEW c \in Callers, NEW threshold \in Thresholds, AtThreshold(c, threshold)
      PROVE  Asking!Next
  <2>1. <<threshold>> \in Seq(Thresholds)
    OBVIOUS
  <2>2. QED
    BY <1>1, <2>1, CallAsks DEF AtThreshold
<1>2. ASSUME NEW c \in Callers, NEW thresholds \in Sweeps, BuildIncrementally(c, thresholds)
      PROVE  Asking!Next
  BY <1>2, SweepsAssumption, CallAsks DEF BuildIncrementally
<1>3. ASSUME NEW c \in Callers, Work(c) PROVE [Asking!Next]_Seen
  <2>1. CASE Hit(c)
    BY <2>1, HitAnswers
  <2>2. CASE Miss(c)
    BY <2>2, WorkUnseen DEF Miss
  <2>3. CASE FromScratch(c)
    BY <2>3, WorkUnseen DEF FromScratch
  <2>4. CASE Incrementally(c)
    BY <2>4, WorkUnseen DEF Incrementally
  <2>5. CASE Overrun(c)
    BY <2>5, WorkUnseen DEF Overrun
  <2>6. CASE Collect(c)
    BY <2>6, WorkUnseen DEF Collect
  <2>7. CASE Store(c)
    BY <2>7, StoreAnswers
  <2>8. QED
    BY <1>3, <2>1, <2>2, <2>3, <2>4, <2>5, <2>6, <2>7 DEF Work
<1>4. ASSUME NEW key \in Keys, Evict(key) PROVE UNCHANGED Seen
  BY <1>4 DEF Evict, Seen, Busy
<1>5. CASE Grow
  BY <1>5 DEF Grow, Asking!Next, Asking!Grow
<1>6. CASE UNCHANGED vars
  BY <1>6 DEF vars, Seen, Busy
<1>7. QED
  BY <1>1, <1>2, <1>3, <1>4, <1>5, <1>6 DEF Next

(***************************************************************************)
(* ImplementsPartitions: the cache with its evictions, shared keys,        *)
(* concurrent callers and rounds of builders answers as Partitions says.   *)
(***************************************************************************)
THEOREM Implementation == Spec => ImplementsPartitions
<1>1. Init => Asking!Init
  BY InitAsks
<1>2. IInv /\ [Next]_vars =>
        [Asking!Next]_<<context_len, asked, answer, [c \in Callers |-> pc[c] # "idle"]>>
  BY StepAsks DEF Seen, Busy
<1>3. QED
  BY <1>1, <1>2, Invariance, PTL DEF Spec, ImplementsPartitions, Asking!Spec
=============================================================================
