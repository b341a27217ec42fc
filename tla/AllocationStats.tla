--------------------------- MODULE AllocationStats --------------------------
(***************************************************************************)
(* The heaps of the microTVM and IREE runtimes and the statistics they     *)
(* keep of them (runtimes/tvm/platform.c, runtimes/iree/platform.c), which *)
(* STATS reports to the client.                                            *)
(*                                                                         *)
(* The heap is Zephyr's: it gives out chunks of whole granules, or fails,  *)
(* for want of space or of a hole that is large enough.  Counters are      *)
(* unsigned words.                                                         *)
(***************************************************************************)
EXTENDS Integers

CONSTANTS
  Blocks,        \* pointers the library may hold at once
  Sizes,         \* sizes it asks for
  Granule,       \* bytes chunks are multiples of
  WordSize,      \* how many values a counter has
  MaxAllocated   \* bound on total_allocated

ASSUME AllocationAssumption ==
  /\ Sizes \subseteq Nat \ {0}
  /\ Granule \in Nat \ {0}
  /\ WordSize \in Nat \ {0}
  /\ MaxAllocated \in 0 .. WordSize - 1

VARIABLES
  platform,   \* which of the two files is built
  block,      \* the size asked for of each block, 0 if it is free
  stats,      \* the statistics
  in_use,     \* the bytes the heap has given out
  most,       \* ghost: the most of them at once
  exact       \* ghost: the heap gave all it was asked for, and no more

alloc_vars == <<platform, block, stats, in_use, most, exact>>

AllocInit ==
  /\ platform \in {"tvm", "iree"}
  /\ block = [b \in Blocks |-> 0]
  /\ stats = [total_allocated |-> 0, total_freed |-> 0, peak_allocated |-> 0]
  /\ in_use = 0 /\ most = 0 /\ exact = TRUE

Larger(a, b) == IF a > b THEN a ELSE b

\* sys_heap_usable_size of a block that was asked for with n bytes.
usable_size(n) == ((n + Granule - 1) \div Granule) * Granule

Asks(n) == stats.total_allocated + usable_size(n) <= MaxAllocated

\* The heap, and the ghosts.
Gives(b, n) ==
  /\ block' = [block EXCEPT ![b] = n]
  /\ in_use' = in_use + usable_size(n) - usable_size(block[b])
  /\ most' = Larger(most, in_use')
  /\ exact' = (exact /\ usable_size(n) = n)

Fails ==
  /\ exact' = FALSE
  /\ UNCHANGED <<block, in_use, most>>

TakesBack(b) ==
  /\ block' = [block EXCEPT ![b] = 0]
  /\ in_use' = in_use - usable_size(block[b])
  /\ UNCHANGED <<most, exact>>

-----------------------------------------------------------------------------
(* runtimes/tvm/platform.c.                                                *)

Plus(a, b) == (a + b) % WordSize
Minus(a, b) == (a - b) % WordSize

\* Mutant: the peak is taken before the allocation is counted.
PeakBefore(s, n) == Larger(s.peak_allocated, Minus(s.total_allocated, s.total_freed))

PeakAfter(s, n) ==
  Larger(s.peak_allocated, Minus(Plus(s.total_allocated, n), s.total_freed))

TVMPlatformMemoryAllocate(b, n) ==
  /\ block[b] = 0
  /\ \/ /\ Gives(b, n)
        /\ stats' = [stats EXCEPT !.total_allocated = Plus(@, usable_size(n)),
                                  !.peak_allocated = PeakAfter(stats, usable_size(n))]
     \/ Fails /\ UNCHANGED stats

TVMPlatformMemoryFree(b) ==
  /\ block[b] # 0
  /\ TakesBack(b)
  /\ stats' = [stats EXCEPT !.total_freed = Plus(@, usable_size(block[b]))]

-----------------------------------------------------------------------------
(* runtimes/iree/platform.c.                                               *)

\* The size asked for is counted, whatever comes of it, and after the peak
\* was taken.
report_allocation(s, size) ==
  [s EXCEPT !.peak_allocated = Larger(@, Minus(s.total_allocated, s.total_freed)),
            !.total_allocated = Plus(@, size)]

\* Mutant: a block that is reallocated is not counted as freed.
ForgetsOld(s, b) == s

report_deallocation_ptr(s, b) ==
  [s EXCEPT !.total_freed = Plus(@, usable_size(block[b]))]

iree_allocator_system_alloc(b, n) ==
  /\ block[b] = 0
  /\ stats' = report_allocation(stats, n)
  /\ Gives(b, n) \/ Fails

\* IREE_ALLOCATOR_COMMAND_REALLOC of a block.
iree_allocator_system_realloc(b, n) ==
  /\ block[b] # 0
  /\ stats' = report_deallocation_ptr(report_allocation(stats, n), b)
  /\ Gives(b, n) \/ Fails

iree_allocator_system_free(b) ==
  /\ block[b] # 0
  /\ TakesBack(b)
  /\ stats' = report_deallocation_ptr(stats, b)

-----------------------------------------------------------------------------
TvmNext ==
  /\ platform = "tvm"
  /\ \E b \in Blocks :
       \/ \E n \in Sizes : Asks(n) /\ TVMPlatformMemoryAllocate(b, n)
       \/ TVMPlatformMemoryFree(b)

IreeNext ==
  /\ platform = "iree"
  /\ \E b \in Blocks :
       \/ \E n \in Sizes :
            /\ Asks(n)
            /\ iree_allocator_system_alloc(b, n) \/ iree_allocator_system_realloc(b, n)
       \/ iree_allocator_system_free(b)

AllocNext == (TvmNext \/ IreeNext) /\ UNCHANGED platform

AllocSpec == AllocInit /\ [][AllocNext]_alloc_vars

-----------------------------------------------------------------------------
\* What a block takes at most.
Amounts == {usable_size(n) : n \in Sizes}

Counted(n) == IF platform = "tvm" THEN n ELSE 0

Usage == INSTANCE HeapUsage
           WITH in_use <- Counted(in_use),
                total_allocated <- Counted(stats.total_allocated),
                total_freed <- Counted(stats.total_freed),
                peak_allocated <- Counted(stats.peak_allocated)

\* The statistics of microTVM are those of its heap, whatever is allocated,
\* freed or refused in which order: platform.c counts what the heap gave, not
\* what it was asked for, and takes the peak after it was given.
TvmIsHeapUsage == Usage!Spec

\* The totals of IREE balance as long as the heap gives exactly what it is
\* asked for: over reallocations too, which count the new block before the
\* old one, what was not freed is in use, and the peak is none that was not
\* there.
IreeTotalsBalance ==
  platform = "iree" /\ exact =>
    /\ stats.total_allocated - stats.total_freed = in_use
    /\ stats.peak_allocated <= most
=============================================================================
