------------------------------ MODULE Interner ------------------------------
(***************************************************************************)
(* What callers may assume of a thread-safe interner: a record is given a  *)
(* number that no other record has, keeps it for ever, and every call that *)
(* asks for the record is answered with that number.                       *)
(***************************************************************************)
EXTENDS Integers, Sequences

CONSTANTS Threads, Records, Numbers, NoId

VARIABLES
    batch,      (* batch[t]: the records thread t asks for, in order *)
    id,         (* id[r]: the number of record r, NoId before it has one *)
    result      (* result[t]: the answers t has been given           *)

Init ==
    /\ batch \in [Threads -> Seq(Records)]
    /\ id = [r \in Records |-> NoId]
    /\ result = [t \in Threads |-> <<>>]

Number(r) ==
    /\ id[r] = NoId
    /\ \E n \in Numbers : (\A s \in Records : id[s] # n) /\ id' = [id EXCEPT ![r] = n]
    /\ UNCHANGED <<batch, result>>

Answer(t) ==
    LET key == batch[t][Len(result[t]) + 1]
    IN  /\ Len(result[t]) < Len(batch[t])
        /\ id[key] # NoId
        /\ result' = [result EXCEPT ![t] = Append(@, id[key])]
        /\ UNCHANGED <<batch, id>>

Next ==
    \/ \E r \in Records : Number(r)
    \/ \E t \in Threads : Answer(t)

Spec == Init /\ [][Next]_<<batch, id, result>>
=============================================================================
