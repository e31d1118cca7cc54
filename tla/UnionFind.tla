----------------------------- MODULE UnionFind -----------------------------
(***************************************************************************)
(* hierarchy/union_find.rs: find with path halving and union by rank over  *)
(* the packed (parent, rank) pairs of a backend.  Both backends store the  *)
(* same pairs, VecBackend in a vector and MmapBackend in five bytes each.  *)
(* One turn of find's loop is one step.  The history variable `root` is    *)
(* what the callers may think of: no guard reads it.                       *)
(***************************************************************************)
EXTENDS Integers, FiniteSets

CONSTANTS
    Size,       (* elements 0 .. Size - 1              *)
    RankLimit   (* values of a rank, 256 of them in u8 *)

ASSUME SizeAssumption == Size \in Nat \ {0}
ASSUME RankLimitAssumption == RankLimit \in Nat \ {0}

(***************************************************************************)
(* Elements are u32 and ranks u8: there are fewer than 2^256 elements.     *)
(***************************************************************************)
ASSUME CapacityAssumption == Size < 2^RankLimit

(***************************************************************************)
(* The law of powers that RankNeedsElements counts with: the provers do    *)
(* not know it.                                                            *)
(***************************************************************************)
ASSUME DoublingAssumption ==
    \A k \in 0 .. RankLimit - 1 : 2^k \in Nat /\ 2^(k + 1) = 2 * 2^k

Elements == 0 .. Size - 1
Ranks == 0 .. RankLimit - 1

Calls ==
    [op : {"connected", "union"}, x : Elements, y : Elements]
        \cup {[op |-> "find", x |-> x, y |-> x] : x \in Elements}

NoCall == [op |-> "none", x |-> 0, y |-> 0]

VARIABLES
    parent,
    rank,
    call,       (* the call under way, or NoCall                     *)
    pc,         (* "find_x" and "find_y": in a loop of find          *)
    cursor,     (* find's own x, which climbs                        *)
    root_x,     (* what find(x) returned                             *)
    result,     (* what the last call returned, a boolean as 1 or 0  *)
    root        (* history: root[x] is what find(x) returns          *)

tree == <<parent, rank, root>>
vars == <<tree, call, pc, cursor, root_x, result>>

Init ==
    /\ parent = [i \in Elements |-> i]
    /\ rank = [i \in Elements |-> 0]
    /\ call = NoCall
    /\ pc = "idle"
    /\ cursor = 0
    /\ root_x = 0
    /\ result = 0
    /\ root = [i \in Elements |-> i]

Call(c) ==
    /\ pc = "idle"
    /\ call' = c
    /\ pc' = "find_x"
    /\ cursor' = c.x
    /\ result' = 0
    /\ UNCHANGED <<tree, root_x>>

Return(value) ==
    /\ result' = value
    /\ pc' = "idle"
    /\ call' = NoCall
    /\ cursor' = 0
    /\ root_x' = 0

-----------------------------------------------------------------------------
(* Wrong: the loop ends one element below the root. *)
AtRootEarly == parent[parent[cursor]] = parent[cursor]

AtRoot == parent[cursor] = cursor

(* Wrong: the element is pointed at its grandparent, but the climb stays. *)
HalveInPlace ==
    /\ pc # "idle"
    /\ ~AtRoot
    /\ parent' = [parent EXCEPT ![cursor] = parent[parent[cursor]]]
    /\ UNCHANGED <<rank, root, call, pc, cursor, root_x, result>>

(***************************************************************************)
(* One turn of find's loop: the element is pointed at its grandparent, and *)
(* the climb goes on from there.                                           *)
(***************************************************************************)
Halve ==
    /\ pc # "idle"
    /\ ~AtRoot
    /\ LET grandparent == parent[parent[cursor]]
       IN  /\ parent' = [parent EXCEPT ![cursor] = grandparent]
           /\ cursor' = grandparent
    /\ UNCHANGED <<rank, root, call, pc, root_x, result>>

FindReturns ==
    /\ pc = "find_x" /\ AtRoot
    /\ call.op = "find"
    /\ Return(cursor)
    /\ UNCHANGED tree

FoundRootX ==
    /\ pc = "find_x" /\ AtRoot
    /\ call.op # "find"
    /\ root_x' = cursor
    /\ cursor' = call.y
    /\ pc' = "find_y"
    /\ UNCHANGED <<tree, call, result>>

-----------------------------------------------------------------------------
root_y == cursor
FoundBoth == pc = "find_y" /\ AtRoot

SameRoots ==
    /\ FoundBoth
    /\ root_x = root_y
    /\ Return(IF call.op = "connected" THEN 1 ELSE 0)
    /\ UNCHANGED tree

DifferentRoots ==
    /\ FoundBoth
    /\ root_x # root_y
    /\ call.op = "connected"
    /\ Return(0)
    /\ UNCHANGED tree

Hang(child, above) ==
    /\ parent' = [parent EXCEPT ![child] = above]
    /\ root' = [z \in Elements |-> IF root[z] = child THEN above ELSE root[z]]

(* Wrong: the rank grows on every union, unbounded or in the width of a u8; y's
   root goes under x's whatever their ranks. *)
HangAlwaysGrows ==
    /\ Hang(root_y, root_x)
    /\ rank' = [rank EXCEPT ![root_x] = @ + 1]

HangGrowsWrapping ==
    /\ Hang(root_y, root_x)
    /\ rank' = [rank EXCEPT ![root_x] = (@ + 1) % RankLimit]

HangIgnoringRank ==
    /\ Hang(root_y, root_x)
    /\ UNCHANGED rank

(***************************************************************************)
(* The root of lower rank goes under the other; on equal ranks y's under   *)
(* x's, whose rank grows by one, and would wrap in a release build.        *)
(***************************************************************************)
HangByRank ==
    \/ rank[root_x] < rank[root_y] /\ Hang(root_x, root_y) /\ UNCHANGED rank
    \/ rank[root_x] > rank[root_y] /\ Hang(root_y, root_x) /\ UNCHANGED rank
    \/ /\ rank[root_x] = rank[root_y]
       /\ Hang(root_y, root_x)
       /\ rank' = [rank EXCEPT ![root_x] = (@ + 1) % RankLimit]

Link ==
    /\ FoundBoth
    /\ root_x # root_y
    /\ call.op = "union"
    /\ HangByRank
    /\ Return(1)

Work ==
    \/ Halve
    \/ FindReturns
    \/ FoundRootX
    \/ SameRoots
    \/ DifferentRoots
    \/ Link

Next == Work \/ \E c \in Calls : Call(c)

Spec == Init /\ [][Next]_vars

(***************************************************************************)
(* A call runs to its end.                                                 *)
(***************************************************************************)
FairSpec == Spec /\ WF_vars(Work)

-----------------------------------------------------------------------------
TypeOK ==
    /\ parent \in [Elements -> Elements]
    /\ rank \in [Elements -> Ranks]
    /\ call \in Calls \cup {NoCall}
    /\ pc \in {"idle", "find_x", "find_y"}
    /\ cursor \in Elements
    /\ root_x \in Elements
    /\ result \in Nat
    /\ root \in [Elements -> Elements]

(***************************************************************************)
(* Ranks grow along parent links, whatever halving has rewired and in the  *)
(* middle of it too: no chain of parents closes on itself.                 *)
(***************************************************************************)
RanksGrowUpwards == \A x \in Elements : parent[x] # x => rank[x] < rank[parent[x]]

(***************************************************************************)
(* "rank is u8 (sufficient for our use case)" (union_find.rs:16): a root   *)
(* of rank k has at least 2^k elements below it, so a rank that would not  *)
(* fit needs more elements than u32 parents can name.                      *)
(***************************************************************************)
Class(r) == {x \in Elements : root[x] = r}

RankNeedsElements ==
    \A r \in Elements : parent[r] = r => 2^rank[r] <= Cardinality(Class(r))

(***************************************************************************)
(* The counterpart for steps: the unchecked `rank + 1` in a u8             *)
(* (union_find.rs:198) never wraps, whatever unions and finds came before. *)
(***************************************************************************)
RanksNeverFall == [][\A x \in Elements : rank'[x] >= rank[x]]_rank

(***************************************************************************)
(* Halving and hanging by rank are invisible to callers: find returns one  *)
(* root for a class whatever was halved since, connected and union tell    *)
(* the truth, and union unites two classes as the hierarchy builder takes  *)
(* it to, keeping the root of one of them.                                 *)
(***************************************************************************)
Answers == INSTANCE RootMap

AnswersAsRootMap == [][Answers!Next]_<<root, call, result>>

(***************************************************************************)
(* Every call returns: the loop of find reaches a root.                    *)
(***************************************************************************)
CallsReturn == pc # "idle" ~> pc = "idle"
=============================================================================
