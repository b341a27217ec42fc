-------------------------- MODULE MCAllocationStats -------------------------
(* Instance of AllocationStats for TLC: two blocks, of a granule, of less  *)
(* than two granules, of two granules; several generations of both.        *)
EXTENDS AllocationStats
=============================================================================
