-------------------------- MODULE MCPartitionCache --------------------------
(* Constants for model checking PartitionCache: two events, a threshold on
   the lower one, and one on either side of the higher one that round to its
   key; sweeps in either order, with two thresholds of one key, and with all
   three. *)
EXTENDS PartitionCache

MCEventThresholds == <<6, 3>>
MCThresholds == {3, 5, 7}
MCSweeps == {<<7, 5>>, <<3, 7>>, <<5, 7, 3>>}
=============================================================================
