---------------------------- MODULE EventStorage ----------------------------
(***************************************************************************)
(* What callers may assume of a hierarchy's storage (trait                 *)
(* HierarchyStorage, as InMemoryStorage gives it): a reader is given the   *)
(* events that were stored when it was opened, in order, whatever is       *)
(* pushed meanwhile.  Two things are left to the medium.  Where reads may  *)
(* fail, a reader may be told early that there are no more events; and     *)
(* after a push that failed, only the events stored before it are certain. *)
(***************************************************************************)
EXTENDS Integers, Sequences

CONSTANTS Events, Readers, None

VARIABLES
    faulty,     (* whether reads may fail; never changes                    *)
    stored,     (* the events of the pushes that succeeded                  *)
    failed_at,  (* events stored before the first push that failed, or None *)
    readers     (* for each reader: the number of events that were stored
                   when it was opened, what it was given, whether it is open *)

Certain(k) == failed_at = None \/ k <= failed_at

Init ==
    /\ faulty \in BOOLEAN
    /\ stored = <<>>
    /\ failed_at = None
    /\ readers = [r \in Readers |-> [upto |-> 0, given |-> <<>>, open |-> FALSE]]

Push ==
    /\ \E e \in Events : stored' = Append(stored, e)
    /\ UNCHANGED <<faulty, failed_at, readers>>

PushFails ==
    /\ failed_at' = IF failed_at = None THEN Len(stored) ELSE failed_at
    /\ UNCHANGED <<faulty, stored, readers>>

Open(r) ==
    /\ ~readers[r].open
    /\ \E open \in BOOLEAN :
        /\ ~open => faulty
        /\ readers' = [readers EXCEPT ![r] =
                            [upto |-> Len(stored), given |-> <<>>, open |-> open]]
    /\ UNCHANGED <<faulty, stored, failed_at>>

Give(r) ==
    /\ readers[r].open
    /\ LET k == Len(readers[r].given) + 1
       IN  /\ k <= readers[r].upto
           /\ \E e \in Events :
                /\ Certain(k) => e = stored[k]
                /\ readers' = [readers EXCEPT ![r].given = Append(@, e)]
    /\ UNCHANGED <<faulty, stored, failed_at>>

End(r) ==
    /\ readers[r].open
    /\ \/ Len(readers[r].given) = readers[r].upto
       \/ faulty
       \/ ~Certain(Len(readers[r].given) + 1)
    /\ readers' = [readers EXCEPT ![r].open = FALSE]
    /\ UNCHANGED <<faulty, stored, failed_at>>

Next ==
    \/ Push
    \/ PushFails
    \/ \E r \in Readers : Open(r) \/ Give(r) \/ End(r)

Spec == Init /\ [][Next]_<<faulty, stored, failed_at, readers>>
=============================================================================
