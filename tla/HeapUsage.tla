------------------------------ MODULE HeapUsage -----------------------------
(***************************************************************************)
(* What allocation statistics promise (runtime_statistics_allocation_t):   *)
(* the bytes given out in total, those given back, and the most that were  *)
(* in use at once.                                                         *)
(***************************************************************************)
EXTENDS Integers

CONSTANT Amounts   \* what can be given out at once

VARIABLES in_use, total_allocated, total_freed, peak_allocated

usage == <<in_use, total_allocated, total_freed, peak_allocated>>

Init == in_use = 0 /\ total_allocated = 0 /\ total_freed = 0 /\ peak_allocated = 0

Allocate(n) ==
  /\ in_use' = in_use + n
  /\ total_allocated' = total_allocated + n
  /\ peak_allocated' = IF in_use' > peak_allocated THEN in_use' ELSE peak_allocated
  /\ UNCHANGED total_freed

Free(n) ==
  /\ in_use' = in_use - n
  /\ total_freed' = total_freed + n
  /\ UNCHANGED <<total_allocated, peak_allocated>>

Next == \E n \in Amounts : Allocate(n) \/ Free(n)

Spec == Init /\ [][Next]_usage
=============================================================================
