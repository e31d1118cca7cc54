--------------------------- MODULE MCDataContext ---------------------------
(* Constants for model checking DataContext: every way to give the threads
   at most MaxKeys keys in all, repeated keys included.  Threads are numbers
   and the longer batches go to the smaller ones, which loses nothing: no
   step tells the threads apart. *)
EXTENDS DataContext, FiniteSetsExt

CONSTANTS NumThreads, MaxKeys, FirstSource

MCThreads == 1 .. NumThreads
MCSourceOf == [r \in Records |-> IF r \in FirstSource THEN "first" ELSE "second"]
KeySeqs == UNION {[1 .. n -> Records] : n \in 0 .. MaxKeys}
MCBatches ==
    {b \in [Threads -> KeySeqs] :
        /\ MapThenSumSet(LAMBDA t : Len(b[t]), Threads) <= MaxKeys
        /\ \A t, u \in Threads : t < u => Len(b[t]) >= Len(b[u])}
=============================================================================
