--------------------------- MODULE MCDiskStorage ---------------------------
(* Constants for model checking DiskStorage: events of one and of two data
   words, and up to four pushes, so that several records follow a failed push.
   Iterations do not meet but where clone_box keeps pushes away: one at a time,
   begun over and over, is enough. *)
EXTENDS DiskStorage

MCSize == [e \in Events |-> IF e = "short" THEN 1 ELSE 2]
=============================================================================
