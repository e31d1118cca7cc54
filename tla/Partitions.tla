----------------------------- MODULE Partitions -----------------------------
(***************************************************************************)
(* What callers may assume of a hierarchy they ask for partitions, with no *)
(* cache and no builder in sight.  Thresholds are numbers in units of      *)
(* 1/Fine of a key unit, a millionth: an answer is right for some          *)
(* threshold no more than half a unit away from the one asked for, covers  *)
(* records the context had at some time, and the answers to one sweep      *)
(* cover the same records.                                                 *)
(***************************************************************************)
EXTENDS Integers, Sequences

CONSTANTS Callers, Thresholds, Fine, EventThresholds, FirstRecords

VARIABLES size, asked, answer, busy

Init ==
    /\ size = FirstRecords
    /\ asked = [c \in Callers |-> <<>>]
    /\ answer = [c \in Callers |-> <<>>]
    /\ busy = [c \in Callers |-> FALSE]

Grow ==
    /\ size' = size + 1
    /\ UNCHANGED <<asked, answer, busy>>

Ask(c) ==
    /\ ~busy[c]
    /\ asked'[c] \in Seq(Thresholds)
    /\ asked' = [asked EXCEPT ![c] = asked'[c]]
    /\ answer' = [answer EXCEPT ![c] = <<>>]
    /\ busy' = [busy EXCEPT ![c] = TRUE]
    /\ UNCHANGED size

(***************************************************************************)
(* An event more than half a unit above the threshold is merged, one half  *)
(* a unit or more below is not; nothing is said of the event between.      *)
(***************************************************************************)
NearlyAt(merged, threshold) ==
    \A i \in DOMAIN EventThresholds :
        /\ 2 * (EventThresholds[i] - threshold) > Fine => i \in merged
        /\ 2 * (threshold - EventThresholds[i]) >= Fine => i \notin merged

Answer(c) ==
    /\ busy[c]
    /\ LET given == answer'[c]
       IN  /\ answer' = [answer EXCEPT ![c] = given]
           /\ DOMAIN given = DOMAIN asked[c]
           /\ \A i \in DOMAIN given :
                /\ NearlyAt(given[i].merged, asked[c][i])
                /\ given[i].records \in FirstRecords .. size
                /\ given[i].records = given[1].records
    /\ busy' = [busy EXCEPT ![c] = FALSE]
    /\ UNCHANGED <<size, asked>>

Next == Grow \/ \E c \in Callers : Ask(c) \/ Answer(c)

Spec == Init /\ [][Next]_<<size, asked, answer, busy>>
=============================================================================
