------------------------------ MODULE MCMonitor ------------------------------
(* Model-checking instance of Monitor: two partitions. *)
EXTENDS Monitor

CONSTANTS pa, pb

MCPartitions == {pa, pb}
=============================================================================
