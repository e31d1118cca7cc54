------------------------- MODULE MCFrameTranslation -------------------------
(* Constants for model checking FrameTranslation: two hierarchies with two
   records in common at different positions, one of them with its events on
   disk; two over contexts whose records are not numbered by position: in one a
   child, in the other a parent has no translation; a copy of a context whose
   copied interner does not know the second record's source; and a hierarchy
   built in place.  Identities k0 and k1 are the string keys numbered 0 and 1 by
   each context; the first two hierarchies saw the strings in different orders. *)
EXTENDS FrameTranslation

MCSources == {"first", "second", "childLost", "parentLost", "copied"}
MCRecordsOf ==
    [first |-> <<"k0", "k1", "a">>, second |-> <<"a", "k0", "b">>,
     childLost |-> <<"k0", "a">>, parentLost |-> <<"k1", "b">>,
     copied |-> <<"b", "a">>]
MCIdsOf ==
    [first |-> <<0, 1, 2>>, second |-> <<0, 1, 2>>,
     childLost |-> <<1, 2>>, parentLost |-> <<3, 2>>, copied |-> <<0, 1>>]
Merge(threshold, parent, children) ==
    [threshold |-> threshold, parent_id |-> parent, child_nodes |-> children]
MCEventsOf ==
    [first |-> <<Merge(7, 1, {2}), Merge(5, 0, {1, 2})>>,
     second |-> <<Merge(6, 0, {1}), Merge(4, 0, {2})>>,
     childLost |-> <<Merge(6, 1, {2})>>,
     parentLost |-> <<Merge(6, 2, {3})>>,
     copied |-> <<Merge(6, 0, {1})>>]
MCOnDisk == {"first"}
MCUnnamed == [c \in MCSources |-> IF c = "copied" THEN {2} ELSE {}]
MCInPlace == {<<Merge(8, 0, {1})>>}
MCDenotes ==
    [c \in Sources |-> [i \in Identities |->
        CASE i = "k0" -> IF c = "second" THEN "y" ELSE "x"
          [] i = "k1" -> IF c = "second" THEN "x" ELSE "y"
          [] OTHER -> i]]
=============================================================================
