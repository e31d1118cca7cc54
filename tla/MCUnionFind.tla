---------------------------- MODULE MCUnionFind ----------------------------
(* UnionFind for model checking.  A path of three links, the shortest that
   find halves in more than one turn, needs a root of rank three and so eight
   elements; the run starts after the unions (0,1), (2,3), (4,5) and (6,7). *)
EXTENDS UnionFind

PairOf(i) == i - (i % 2)

PairsInit ==
    /\ parent = [i \in Elements |-> PairOf(i)]
    /\ rank = [i \in Elements |-> 1 - (i % 2)]
    /\ call = NoCall
    /\ pc = "idle"
    /\ cursor = 0
    /\ root_x = 0
    /\ result = 0
    /\ root = [i \in Elements |-> PairOf(i)]

PairsSpec == PairsInit /\ [][Next]_vars /\ WF_vars(Work)
=============================================================================
