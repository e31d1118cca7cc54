------------------------------ MODULE RootMap ------------------------------
(***************************************************************************)
(* A union-find as its callers see it: root[x] is what find(x) returns.    *)
(* Calls are answered from this map; uniting two classes keeps the root of *)
(* one of them, callers cannot tell which, and nothing else changes it.    *)
(* A boolean is answered as 1 or 0.                                        *)
(***************************************************************************)
EXTENDS Integers

CONSTANTS Elements, Calls, NoCall

VARIABLES
    root,
    call,       (* the call under way, or NoCall *)
    result      (* what the last call returned   *)

Init ==
    /\ root = [x \in Elements |-> x]
    /\ call = NoCall
    /\ result = 0

Ask ==
    /\ call = NoCall
    /\ call' \in Calls
    /\ result' = 0
    /\ UNCHANGED root

Unite(x, y) ==
    \E kept \in {root[x], root[y]} :
        root' = [z \in Elements |->
                    IF root[z] \in {root[x], root[y]} THEN kept ELSE root[z]]

Answer ==
    /\ call # NoCall
    /\ call' = NoCall
    /\ \/ /\ call.op = "find"
          /\ result' = root[call.x]
          /\ UNCHANGED root
       \/ /\ call.op = "connected"
          /\ result' = IF root[call.x] = root[call.y] THEN 1 ELSE 0
          /\ UNCHANGED root
       \/ /\ call.op = "union"
          /\ result' = IF root[call.x] = root[call.y] THEN 0 ELSE 1
          /\ Unite(call.x, call.y)

Next == Ask \/ Answer

Spec == Init /\ [][Next]_<<root, call, result>>
=============================================================================
