---------------------------- MODULE RuntimeProofs ----------------------------
(***************************************************************************)
(* What runtimes do for themselves: the statistics of the heaps of microTVM*)
(* and IREE, for every set of blocks, sizes and granule and every counter  *)
(* width; and the AI8X runtime, for every set of networks and every time a *)
(* wait may take.                                                          *)
(***************************************************************************)
EXTENDS AllocationStats, Ai8x, SequenceLemmas, FiniteSetTheorems

-----------------------------------------------------------------------------
(* The bytes of a heap.                                                    *)

\* The bytes that blocks of these sizes take, told apart by block and number.
UsedBy(sizes) == UNION {{b} \X (1 .. usable_size(sizes[b])) : b \in Blocks}

\* The counters say what they count: they have not wrapped.
Balanced == platform = "tvm" \/ exact

Counters == [total_allocated : 0 .. WordSize - 1, total_freed : 0 .. WordSize - 1,
             peak_allocated : 0 .. WordSize - 1]

\* That the totals differ by what is in use is not inductive: a block that is
\* freed must be part of what is in use.  So in_use is the number of bytes of
\* the blocks there are.
AllocInv ==
  /\ platform \in {"tvm", "iree"} /\ exact \in BOOLEAN
  /\ block \in [Blocks -> Sizes \cup {0}]
  /\ stats \in Counters
  /\ IsFiniteSet(UsedBy(block)) /\ in_use = Cardinality(UsedBy(block))
  /\ Balanced =>
       /\ stats.total_allocated <= MaxAllocated
       /\ stats.total_allocated - stats.total_freed = in_use
  /\ platform = "iree" /\ exact =>
       most \in Nat /\ in_use <= most /\ stats.peak_allocated <= most

\* A quotient, and the remainder of a number that is smaller or is not.
LEMMA Quotients ==
  ASSUME NEW d \in Nat \ {0}, NEW x \in Nat
  PROVE  x \div d \in Nat /\ (x < d => x \div d = 0)
OBVIOUS

LEMMA Remainders ==
  ASSUME NEW w \in Nat \ {0}, NEW x \in Int
  PROVE  x % w \in 0 .. w - 1 /\ (x \in 0 .. w - 1 => x % w = x)
OBVIOUS

LEMMA Products ==
  ASSUME NEW x \in Nat, NEW y \in Nat
  PROVE  x * y \in Nat /\ 0 * y = 0
OBVIOUS

LEMMA UsableSizes ==
  /\ usable_size(0) = 0
  /\ \A n \in Nat : usable_size(n) \in Nat
<1>1. Granule \in Nat \ {0}
  BY AllocationAssumption
<1>2. usable_size(0) = 0
  <2>1. 0 + Granule - 1 \in Nat /\ 0 + Granule - 1 < Granule
    BY <1>1
  <2>2. (0 + Granule - 1) \div Granule = 0
    BY <1>1, <2>1, Quotients
  <2> QED BY <1>1, <2>2, Products DEF usable_size
<1>3. ASSUME NEW n \in Nat
      PROVE  usable_size(n) \in Nat
  <2>1. n + Granule - 1 \in Nat
    BY <1>1
  <2>2. (n + Granule - 1) \div Granule \in Nat
    BY <1>1, <2>1, Quotients
  <2> QED BY <1>1, <2>2, Products DEF usable_size
<1> QED BY <1>2, <1>3

LEMMA BytesOfBlock ==
  ASSUME NEW b, NEW m \in Nat
  PROVE  IsFiniteSet({b} \X (1 .. m)) /\ Cardinality({b} \X (1 .. m)) = m
<1>1. IsFiniteSet({b}) /\ Cardinality({b}) = 1
  BY FS_Singleton
<1>2. IsFiniteSet(1 .. m) /\ Cardinality(1 .. m) = m
  <2>1. 1 \in Int /\ m \in Int
    OBVIOUS
  <2> QED BY <2>1, FS_Interval
<1>3. /\ IsFiniteSet({b} \X (1 .. m))
      /\ Cardinality({b} \X (1 .. m)) = Cardinality({b}) * Cardinality(1 .. m)
  BY <1>1, <1>2, FS_Product
<1> QED BY <1>1, <1>2, <1>3

\* What is in use when one block changes its size.
LEMMA BlockResized ==
  ASSUME NEW f \in [Blocks -> Sizes \cup {0}], IsFiniteSet(UsedBy(f)),
         NEW b \in Blocks, NEW n \in Sizes \cup {0},
         NEW g, g = [f EXCEPT ![b] = n]
  PROVE  /\ IsFiniteSet(UsedBy(g))
         /\ Cardinality(UsedBy(f)) \in Nat /\ Cardinality(UsedBy(g)) \in Nat
         /\ usable_size(n) \in Nat /\ usable_size(f[b]) \in Nat
         /\ usable_size(f[b]) <= Cardinality(UsedBy(f))
         /\ Cardinality(UsedBy(g)) = Cardinality(UsedBy(f)) + usable_size(n) - usable_size(f[b])
<1> DEFINE Of(h, c) == {c} \X (1 .. usable_size(h[c]))
           keep == UsedBy(f) \ Of(f, b)
<1>1. Sizes \cup {0} \subseteq Nat
  BY AllocationAssumption
<1>2. usable_size(n) \in Nat /\ usable_size(f[b]) \in Nat
  BY <1>1, UsableSizes
<1>3. IsFiniteSet(Of(f, b)) /\ Cardinality(Of(f, b)) = usable_size(f[b])
  BY <1>2, BytesOfBlock
<1>4. g[b] = n /\ \A c \in Blocks : c # b => g[c] = f[c]
  OBVIOUS
<1>5. IsFiniteSet(Of(g, b)) /\ Cardinality(Of(g, b)) = usable_size(n)
  BY <1>2, <1>4, BytesOfBlock
<1>6. Of(f, b) \subseteq UsedBy(f)
  BY DEF UsedBy
<1>7. IsFiniteSet(keep) /\ Cardinality(keep) = Cardinality(UsedBy(f)) - usable_size(f[b])
  <2>1. UsedBy(f) \cap Of(f, b) = Of(f, b)
    BY <1>6
  <2>2. /\ IsFiniteSet(keep)
        /\ Cardinality(keep) = Cardinality(UsedBy(f)) - Cardinality(UsedBy(f) \cap Of(f, b))
    BY FS_Difference
  <2> QED BY <1>3, <2>1, <2>2
<1>8. UsedBy(g) = keep \cup Of(g, b) /\ keep \cap Of(g, b) = {}
  <2>1. ASSUME NEW u \in UsedBy(g)
        PROVE  u \in keep \cup Of(g, b)
    <3>1. PICK c \in Blocks : u \in Of(g, c)
      BY DEF UsedBy
    <3>2. CASE c = b
      BY <3>1, <3>2
    <3>3. CASE c # b
      <4>1. u \in Of(f, c)
        BY <1>4, <3>1, <3>3
      <4>2. u \in UsedBy(f)
        BY <4>1 DEF UsedBy
      <4>3. u \notin Of(f, b)
        BY <3>3, <4>1
      <4> QED BY <4>2, <4>3
    <3> QED BY <3>2, <3>3
  <2>2. ASSUME NEW u \in keep
        PROVE  u \in UsedBy(g) /\ u \notin Of(g, b)
    <3>1. PICK c \in Blocks : u \in Of(f, c)
      BY DEF UsedBy
    <3>2. c # b
      BY <3>1
    <3>3. u \in Of(g, c)
      BY <1>4, <3>1, <3>2
    <3>4. u \in UsedBy(g)
      BY <3>3 DEF UsedBy
    <3>5. u \notin Of(g, b)
      BY <3>1, <3>2
    <3> QED BY <3>4, <3>5
  <2>3. Of(g, b) \subseteq UsedBy(g)
    BY DEF UsedBy
  <2> HIDE DEF keep, Of
  <2> QED BY <2>1, <2>2, <2>3
<1> HIDE DEF keep, Of
<1>9. IsFiniteSet(keep \cap Of(g, b)) /\ Cardinality(keep \cap Of(g, b)) = 0
  BY <1>8, FS_EmptySet
<1>10. /\ IsFiniteSet(UsedBy(g))
       /\ Cardinality(UsedBy(g)) = Cardinality(keep) + Cardinality(Of(g, b))
                                     - Cardinality(keep \cap Of(g, b))
  <2> DEFINE new == Of(g, b)
  <2>1. IsFiniteSet(keep) /\ IsFiniteSet(new)
    BY <1>5, <1>7
  <2> HIDE DEF new
  <2>2. /\ IsFiniteSet(keep \cup new)
        /\ Cardinality(keep \cup new) = Cardinality(keep) + Cardinality(new) - Cardinality(keep \cap new)
    BY <2>1, FS_Union
  <2> QED BY <1>8, <2>2 DEF new
<1>11. Cardinality(UsedBy(f)) \in Nat /\ Cardinality(UsedBy(g)) \in Nat /\ Cardinality(keep) \in Nat
  BY <1>7, <1>10, FS_CardinalityType
<1> QED BY <1>2, <1>5, <1>7, <1>9, <1>10, <1>11

-----------------------------------------------------------------------------
(* The heap and the counters.                                              *)

LEMMA CountersExact ==
  /\ \A a, c \in Nat : Plus(a, c) \in 0 .. WordSize - 1
                       /\ (a + c <= MaxAllocated => Plus(a, c) = a + c)
  /\ \A a, c \in Nat : Minus(a, c) \in 0 .. WordSize - 1
                       /\ (c <= a /\ a <= MaxAllocated => Minus(a, c) = a - c)
  /\ \A a, c \in 0 .. WordSize - 1 : Larger(a, c) \in 0 .. WordSize - 1
<1>1. WordSize \in Nat \ {0} /\ MaxAllocated \in 0 .. WordSize - 1
  BY AllocationAssumption
<1>2. ASSUME NEW x \in Int
      PROVE  x % WordSize \in 0 .. WordSize - 1 /\ (x \in 0 .. MaxAllocated => x % WordSize = x)
  <2>1. x \in 0 .. MaxAllocated => x \in 0 .. WordSize - 1
    BY <1>1
  <2> QED BY <1>1, <2>1, Remainders
<1>3. ASSUME NEW a \in Nat, NEW c \in Nat
      PROVE  /\ Plus(a, c) \in 0 .. WordSize - 1
             /\ a + c <= MaxAllocated => Plus(a, c) = a + c
             /\ Minus(a, c) \in 0 .. WordSize - 1
             /\ c <= a /\ a <= MaxAllocated => Minus(a, c) = a - c
  <2>1. a + c \in Int /\ a - c \in Int
    OBVIOUS
  <2>2. a + c <= MaxAllocated => a + c \in 0 .. MaxAllocated
    BY <1>1
  <2>3. c <= a /\ a <= MaxAllocated => a - c \in 0 .. MaxAllocated
    BY <1>1
  <2> QED BY <1>2, <2>1, <2>2, <2>3 DEF Plus, Minus
<1> QED BY <1>3 DEF Larger

LEMMA SizesAre ==
  ASSUME NEW n \in Sizes
  PROVE  n \in Nat /\ usable_size(n) \in Nat /\ usable_size(n) \in Amounts
BY AllocationAssumption, UsableSizes DEF Amounts

\* What the heap does keeps the part of the invariant that is about it.
Heap == /\ block \in [Blocks -> Sizes \cup {0}] /\ exact \in BOOLEAN
        /\ IsFiniteSet(UsedBy(block)) /\ in_use = Cardinality(UsedBy(block))

LEMMA HeapGives ==
  ASSUME Heap, NEW b \in Blocks, NEW n \in Sizes, Gives(b, n)
  PROVE  /\ Heap' /\ in_use \in Nat /\ in_use' \in Nat
         /\ usable_size(block[b]) \in Nat /\ usable_size(block[b]) <= in_use
         /\ in_use' = in_use + usable_size(n) - usable_size(block[b])
<1>1. /\ IsFiniteSet(UsedBy(block'))
      /\ Cardinality(UsedBy(block)) \in Nat /\ Cardinality(UsedBy(block')) \in Nat
      /\ usable_size(block[b]) \in Nat
      /\ usable_size(block[b]) <= Cardinality(UsedBy(block))
      /\ Cardinality(UsedBy(block')) =
           Cardinality(UsedBy(block)) + usable_size(n) - usable_size(block[b])
  BY BlockResized DEF Heap, Gives
<1>2. block' \in [Blocks -> Sizes \cup {0}] /\ exact' \in BOOLEAN
  BY DEF Heap, Gives
<1> QED BY <1>1, <1>2 DEF Heap, Gives

LEMMA HeapTakes ==
  ASSUME Heap, NEW b \in Blocks, TakesBack(b)
  PROVE  /\ Heap' /\ in_use \in Nat /\ in_use' \in Nat
         /\ usable_size(block[b]) \in Nat /\ usable_size(block[b]) <= in_use
         /\ in_use' = in_use - usable_size(block[b])
<1>1. /\ IsFiniteSet(UsedBy(block'))
      /\ Cardinality(UsedBy(block)) \in Nat /\ Cardinality(UsedBy(block')) \in Nat
      /\ usable_size(block[b]) \in Nat
      /\ usable_size(block[b]) <= Cardinality(UsedBy(block))
      /\ Cardinality(UsedBy(block')) =
           Cardinality(UsedBy(block)) + usable_size(0) - usable_size(block[b])
  BY BlockResized DEF Heap, TakesBack
<1>2. block' \in [Blocks -> Sizes \cup {0}] /\ exact' \in BOOLEAN
  BY DEF Heap, TakesBack
<1> QED BY <1>1, <1>2, UsableSizes DEF Heap, TakesBack

LEMMA HeapFails ==
  ASSUME Heap, Fails
  PROVE  Heap' /\ in_use \in Nat /\ in_use' = in_use
BY FS_CardinalityType DEF Heap, Fails

-----------------------------------------------------------------------------
(* The steps of both allocators.                                           *)

LEMMA AllocInvParts ==
  ASSUME AllocInv
  PROVE  /\ Heap /\ stats \in Counters
         /\ stats.total_allocated \in Nat /\ stats.total_freed \in Nat
         /\ stats.peak_allocated \in 0 .. WordSize - 1
         /\ MaxAllocated \in Nat /\ WordSize \in Nat
BY AllocationAssumption DEF AllocInv, Heap, Counters

LEMMA AllocInvWhole ==
  ASSUME platform \in {"tvm", "iree"}, Heap, stats \in Counters,
         Balanced => /\ stats.total_allocated <= MaxAllocated
                     /\ stats.total_allocated - stats.total_freed = in_use,
         platform = "iree" /\ exact =>
           most \in Nat /\ in_use <= most /\ stats.peak_allocated <= most
  PROVE  AllocInv
BY DEF AllocInv, Heap

LEMMA TvmAllocates ==
  ASSUME AllocInv, platform = "tvm", UNCHANGED platform,
         NEW b \in Blocks, NEW n \in Sizes, Asks(n), TVMPlatformMemoryAllocate(b, n)
  PROVE  AllocInv' /\ (Usage!Next \/ UNCHANGED Usage!usage)
<1> DEFINE amount == usable_size(n)
<1>1. /\ Heap /\ stats \in Counters
      /\ stats.total_allocated \in Nat /\ stats.total_freed \in Nat
      /\ stats.peak_allocated \in 0 .. WordSize - 1
      /\ MaxAllocated \in Nat /\ WordSize \in Nat
  BY AllocInvParts
<1>2. amount \in Nat /\ amount \in Amounts
  BY SizesAre
<1>3. /\ stats.total_allocated <= MaxAllocated
      /\ stats.total_allocated - stats.total_freed = in_use
      /\ stats.total_allocated + amount <= MaxAllocated
      /\ block[b] = 0 /\ platform' = "tvm"
  BY DEF AllocInv, Balanced, Asks, TVMPlatformMemoryAllocate
<1>4. CASE Fails /\ UNCHANGED stats
  <2>1. Heap' /\ in_use' = in_use
    BY <1>1, <1>4, HeapFails
  <2>2. UNCHANGED Usage!usage
    BY <1>4, <2>1 DEF Usage!usage, Counted
  <2>3. AllocInv'
    BY <1>1, <1>3, <1>4, <2>1 DEF AllocInv, Heap, Balanced
  <2> QED BY <2>2, <2>3
<1>5. CASE /\ Gives(b, n)
           /\ stats' = [stats EXCEPT !.total_allocated = Plus(@, usable_size(n)),
                                     !.peak_allocated = PeakAfter(stats, usable_size(n))]
  <2>1. Heap' /\ in_use \in Nat /\ in_use' = in_use + amount
    BY <1>1, <1>2, <1>3, <1>5, HeapGives, UsableSizes
  <2> HIDE DEF amount
  <2>2. /\ Plus(stats.total_allocated, amount) = stats.total_allocated + amount
        /\ Plus(stats.total_allocated, amount) \in 0 .. WordSize - 1
    BY <1>1, <1>2, <1>3, CountersExact
  <2>3. Minus(stats.total_allocated + amount, stats.total_freed) = in_use'
    <3>1. stats.total_allocated + amount \in Nat
      BY <1>1, <1>2
    <3>2. stats.total_freed <= stats.total_allocated + amount
      BY <1>1, <1>2, <1>3, <2>1
    <3> DEFINE total == stats.total_allocated + amount
    <3>3. total \in Nat /\ stats.total_freed <= total /\ total <= MaxAllocated
          /\ total - stats.total_freed = in_use'
      BY <1>1, <1>2, <1>3, <2>1, <3>1, <3>2
    <3> HIDE DEF total
    <3>4. Minus(total, stats.total_freed) = in_use'
      BY <1>1, <3>3, CountersExact
    <3> QED BY <3>4 DEF total
  <2>4. PeakAfter(stats, amount) = Larger(stats.peak_allocated, in_use')
    BY <2>2, <2>3 DEF PeakAfter
  <2>5. PeakAfter(stats, amount) \in 0 .. WordSize - 1
    <3>1. in_use' \in 0 .. WordSize - 1
      <4> DEFINE total == stats.total_allocated + amount
      <4>1. total \in Nat /\ Minus(total, stats.total_freed) = in_use'
        BY <1>1, <1>2, <2>3
      <4> HIDE DEF total
      <4> QED BY <1>1, <4>1, CountersExact
    <3> QED BY <1>1, <2>4, <3>1, CountersExact
  <2>6. /\ stats' \in Counters
        /\ stats'.total_allocated = stats.total_allocated + amount
        /\ stats'.total_freed = stats.total_freed
        /\ stats'.peak_allocated = Larger(stats.peak_allocated, in_use')
    BY <1>1, <1>5, <2>2, <2>4, <2>5 DEF Counters, amount
  <2>7. AllocInv'
    BY <1>1, <1>2, <1>3, <2>1, <2>6 DEF AllocInv, Heap, Balanced
  <2>8. Usage!Allocate(amount)
    BY <1>1, <1>2, <1>3, <2>1, <2>6 DEF Usage!Allocate, Counted, Larger
  <2> QED BY <1>2, <2>7, <2>8 DEF Usage!Next
<1> QED BY <1>4, <1>5 DEF TVMPlatformMemoryAllocate

LEMMA TvmFrees ==
  ASSUME AllocInv, platform = "tvm", UNCHANGED platform,
         NEW b \in Blocks, TVMPlatformMemoryFree(b)
  PROVE  AllocInv' /\ (Usage!Next \/ UNCHANGED Usage!usage)
<1> DEFINE amount == usable_size(block[b])
<1>1. /\ Heap /\ stats \in Counters
      /\ stats.total_allocated \in Nat /\ stats.total_freed \in Nat
      /\ stats.peak_allocated \in 0 .. WordSize - 1
      /\ MaxAllocated \in Nat /\ WordSize \in Nat
  BY AllocInvParts
<1>2. amount \in Nat /\ amount \in Amounts
  <2>1. block[b] \in Sizes
    BY <1>1 DEF Heap, TVMPlatformMemoryFree
  <2> QED BY <2>1, SizesAre
<1>3. /\ stats.total_allocated <= MaxAllocated
      /\ stats.total_allocated - stats.total_freed = in_use
      /\ platform' = "tvm" /\ TakesBack(b)
      /\ stats' = [stats EXCEPT !.total_freed = Plus(@, amount)]
  BY DEF AllocInv, Balanced, TVMPlatformMemoryFree
<1>4. Heap' /\ in_use \in Nat /\ amount <= in_use /\ in_use' = in_use - amount
  BY <1>1, <1>3, HeapTakes
<1> HIDE DEF amount
<1>5. /\ Plus(stats.total_freed, amount) = stats.total_freed + amount
      /\ Plus(stats.total_freed, amount) \in 0 .. WordSize - 1
  <2>1. stats.total_freed + amount <= MaxAllocated
    BY <1>1, <1>2, <1>3, <1>4
  <2> QED BY <1>1, <1>2, <2>1, CountersExact
<1>6. /\ stats' \in Counters
      /\ stats'.total_allocated = stats.total_allocated
      /\ stats'.total_freed = stats.total_freed + amount
      /\ stats'.peak_allocated = stats.peak_allocated
  BY <1>1, <1>3, <1>5 DEF Counters
<1>7. AllocInv'
  BY <1>1, <1>2, <1>3, <1>4, <1>6 DEF AllocInv, Heap, Balanced
<1>8. Usage!Free(amount)
  BY <1>1, <1>2, <1>3, <1>4, <1>6 DEF Usage!Free, Counted
<1> QED BY <1>2, <1>7, <1>8 DEF Usage!Next

\* An allocation of IREE is the reallocation of a block that takes nothing.
LEMMA IreeResizes ==
  ASSUME AllocInv, platform = "iree", UNCHANGED platform,
         NEW b \in Blocks, NEW n \in Sizes, Asks(n), Gives(b, n) \/ Fails,
         stats' \in Counters,
         stats'.total_allocated = Plus(stats.total_allocated, n),
         stats'.total_freed = Plus(stats.total_freed, usable_size(block[b])),
         stats'.peak_allocated =
           Larger(stats.peak_allocated, Minus(stats.total_allocated, stats.total_freed))
  PROVE  AllocInv'
<1> DEFINE old == usable_size(block[b])
<1>1. /\ Heap /\ stats \in Counters
      /\ stats.total_allocated \in Nat /\ stats.total_freed \in Nat
      /\ stats.peak_allocated \in 0 .. WordSize - 1
      /\ MaxAllocated \in Nat /\ WordSize \in Nat
  BY AllocInvParts
<1>2. Heap'
  BY <1>1, HeapGives, HeapFails
<1>3. CASE ~exact'
  BY <1>1, <1>2, <1>3 DEF AllocInv, Heap, Balanced
<1>4. CASE exact'
  <2>1. Gives(b, n) /\ exact /\ usable_size(n) = n
    BY <1>4 DEF Gives, Fails
  <2>2. /\ in_use \in Nat /\ in_use' \in Nat
        /\ old \in Nat /\ old <= in_use /\ in_use' = in_use + n - old
    BY <1>1, <2>1, HeapGives
  <2> HIDE DEF old
  <2>3. /\ stats.total_allocated <= MaxAllocated
        /\ stats.total_allocated - stats.total_freed = in_use
        /\ stats.total_allocated + n <= MaxAllocated
        /\ most \in Nat /\ in_use <= most /\ stats.peak_allocated <= most /\ n \in Nat
    BY <2>1, SizesAre DEF AllocInv, Balanced, Asks
  <2>4. Plus(stats.total_allocated, n) = stats.total_allocated + n
    BY <1>1, <2>3, CountersExact
  <2>5. Plus(stats.total_freed, old) = stats.total_freed + old
    <3>1. stats.total_freed + old <= MaxAllocated
      BY <1>1, <2>2, <2>3
    <3> QED BY <1>1, <2>2, <3>1, CountersExact
  <2>6. Minus(stats.total_allocated, stats.total_freed) = in_use
    <3>1. stats.total_freed <= stats.total_allocated
      BY <1>1, <2>2, <2>3
    <3> QED BY <1>1, <2>3, <3>1, CountersExact
  <2>7. /\ stats'.total_allocated = stats.total_allocated + n
        /\ stats'.total_freed = stats.total_freed + old
        /\ stats'.peak_allocated = Larger(stats.peak_allocated, in_use)
    BY <2>4, <2>5, <2>6 DEF old
  <2>8. most' = Larger(most, in_use')
    BY <2>1 DEF Gives
  <2>9. most' \in Nat /\ in_use' <= most' /\ most <= most'
    BY <2>2, <2>3, <2>8 DEF Larger
  <2>10. stats'.peak_allocated <= most'
    BY <1>1, <2>2, <2>3, <2>7, <2>9 DEF Larger
  <2>11. /\ stats'.total_allocated <= MaxAllocated
         /\ stats'.total_allocated - stats'.total_freed = in_use'
    BY <1>1, <2>2, <2>3, <2>7
  <2> QED BY <1>2, <2>9, <2>10, <2>11 DEF AllocInv, Heap, Balanced
<1> QED BY <1>3, <1>4

LEMMA IreeAllocates ==
  ASSUME AllocInv, platform = "iree", UNCHANGED platform,
         NEW b \in Blocks, NEW n \in Sizes, Asks(n),
         iree_allocator_system_alloc(b, n) \/ iree_allocator_system_realloc(b, n)
  PROVE  AllocInv'
<1>1. /\ Heap /\ stats \in Counters
      /\ stats.total_allocated \in 0 .. WordSize - 1 /\ stats.total_freed \in 0 .. WordSize - 1
      /\ stats.peak_allocated \in 0 .. WordSize - 1
      /\ stats.total_allocated \in Nat /\ stats.total_freed \in Nat
      /\ MaxAllocated \in Nat /\ WordSize \in Nat \ {0}
  BY AllocationAssumption, AllocInvParts DEF Counters
<1>2. n \in Nat /\ usable_size(block[b]) \in Nat
  <2>1. block[b] \in Nat
    <3>1. block[b] \in Sizes \cup {0}
      BY <1>1 DEF Heap
    <3> DEFINE size == block[b]
    <3>2. size \in Sizes \cup {0}
      BY <3>1
    <3> HIDE DEF size
    <3>3. size \in Nat
      BY <3>2, AllocationAssumption
    <3> QED BY <3>3 DEF size
  <2> QED BY <2>1, SizesAre, UsableSizes
<1> DEFINE added == report_allocation(stats, n)
           peak == Larger(stats.peak_allocated, Minus(stats.total_allocated, stats.total_freed))
<1>3. peak \in 0 .. WordSize - 1
  <2>1. Minus(stats.total_allocated, stats.total_freed) \in 0 .. WordSize - 1
    BY <1>1, CountersExact
  <2> QED BY <1>1, <2>1, CountersExact
<1>4. /\ added \in Counters
      /\ added.total_allocated = Plus(stats.total_allocated, n)
      /\ added.total_freed = stats.total_freed
      /\ added.peak_allocated = peak
  <2>1. Plus(stats.total_allocated, n) \in 0 .. WordSize - 1
    BY <1>1, <1>2, CountersExact
  <2> HIDE DEF peak
  <2>2. added = [stats EXCEPT !.peak_allocated = peak,
                              !.total_allocated = Plus(stats.total_allocated, n)]
    BY DEF report_allocation, peak
  <2> HIDE DEF added
  <2> QED BY <1>1, <1>3, <2>1, <2>2 DEF Counters
<1>5. Plus(stats.total_freed, usable_size(block[b])) \in 0 .. WordSize - 1
  BY <1>1, <1>2, CountersExact
<1>6. CASE iree_allocator_system_alloc(b, n)
  <2>1. usable_size(block[b]) = 0
    BY <1>6, UsableSizes DEF iree_allocator_system_alloc
  <2>2. Plus(stats.total_freed, usable_size(block[b])) = stats.total_freed
    <3>1. stats.total_freed \in Int /\ Plus(stats.total_freed, 0) = stats.total_freed % WordSize
      BY <1>1 DEF Plus
    <3> QED BY <1>1, <2>1, <3>1, Remainders
  <2>3. stats' = added /\ (Gives(b, n) \/ Fails)
    BY <1>6 DEF iree_allocator_system_alloc
  <2> HIDE DEF added
  <2> QED BY <1>4, <2>2, <2>3, IreeResizes DEF peak
<1>7. CASE iree_allocator_system_realloc(b, n)
  <2>1. /\ stats' = [added EXCEPT !.total_freed = Plus(@, usable_size(block[b]))]
        /\ Gives(b, n) \/ Fails
    BY <1>7 DEF iree_allocator_system_realloc, report_deallocation_ptr
  <2> HIDE DEF added, peak
  <2>2. /\ stats' \in Counters
        /\ stats'.total_allocated = added.total_allocated
        /\ stats'.total_freed = Plus(added.total_freed, usable_size(block[b]))
        /\ stats'.peak_allocated = added.peak_allocated
    BY <1>4, <1>5, <2>1 DEF Counters
  <2> QED BY <1>4, <2>1, <2>2, IreeResizes DEF peak
<1> QED BY <1>6, <1>7

LEMMA IreeFrees ==
  ASSUME AllocInv, platform = "iree", UNCHANGED platform,
         NEW b \in Blocks, iree_allocator_system_free(b)
  PROVE  AllocInv'
<1> DEFINE amount == usable_size(block[b])
<1>1. /\ Heap /\ stats \in Counters
      /\ stats.total_allocated \in Nat /\ stats.total_freed \in Nat
      /\ stats.peak_allocated \in 0 .. WordSize - 1
      /\ MaxAllocated \in Nat /\ WordSize \in Nat
  BY AllocInvParts
<1>2. /\ TakesBack(b)
      /\ stats' = [stats EXCEPT !.total_freed = Plus(@, amount)]
  BY DEF iree_allocator_system_free, report_deallocation_ptr
<1>3. /\ Heap' /\ in_use \in Nat /\ in_use' \in Nat
      /\ amount \in Nat /\ amount <= in_use /\ in_use' = in_use - amount
  BY <1>1, <1>2, HeapTakes
<1> HIDE DEF amount
<1>4. /\ stats' \in Counters
      /\ stats'.total_allocated = stats.total_allocated
      /\ stats'.total_freed = Plus(stats.total_freed, amount)
      /\ stats'.peak_allocated = stats.peak_allocated
  <2>1. Plus(stats.total_freed, amount) \in 0 .. WordSize - 1
    BY <1>1, <1>3, CountersExact
  <2> QED BY <1>1, <1>2, <2>1 DEF Counters
<1>5. exact' = exact /\ most' = most
  BY <1>2 DEF TakesBack
<1>6. CASE exact
  <2>1. /\ stats.total_allocated <= MaxAllocated
        /\ stats.total_allocated - stats.total_freed = in_use
        /\ most \in Nat /\ in_use <= most /\ stats.peak_allocated <= most
    BY <1>6 DEF AllocInv, Balanced
  <2>2. Plus(stats.total_freed, amount) = stats.total_freed + amount
    <3>1. stats.total_freed + amount <= MaxAllocated
      BY <1>1, <1>3, <2>1
    <3> QED BY <1>1, <1>3, <3>1, CountersExact
  <2> QED BY <1>1, <1>3, <1>4, <1>5, <2>1, <2>2 DEF AllocInv, Heap, Balanced
<1>7. CASE ~exact
  BY <1>1, <1>3, <1>4, <1>5, <1>7 DEF AllocInv, Heap, Balanced
<1> QED BY <1>6, <1>7

-----------------------------------------------------------------------------
(* The statistics.                                                         *)

LEMMA AllocInitInv == AllocInit => AllocInv /\ Usage!Init
<1> SUFFICES ASSUME AllocInit
             PROVE  AllocInv /\ Usage!Init
  OBVIOUS
<1>1. WordSize \in Nat \ {0} /\ MaxAllocated \in Nat
  BY AllocationAssumption
<1>2. UsedBy(block) = {}
  <2>1. \A b \in Blocks : usable_size(block[b]) = 0
    BY UsableSizes DEF AllocInit
  <2>2. ASSUME NEW b \in Blocks
        PROVE  1 .. usable_size(block[b]) = {}
    <3>1. 1 .. 0 = {}
      OBVIOUS
    <3> QED BY <2>1, <3>1, Zenon
  <2> QED BY <2>2 DEF UsedBy
<1>3. IsFiniteSet(UsedBy(block)) /\ Cardinality(UsedBy(block)) = 0
  BY <1>2, FS_EmptySet
<1>4. stats \in Counters
  BY <1>1 DEF AllocInit, Counters
<1>5. AllocInv
  BY <1>1, <1>3, <1>4 DEF AllocInit, AllocInv, Balanced
<1>6. Usage!Init
  BY DEF AllocInit, Usage!Init, Counted
<1> QED BY <1>5, <1>6

LEMMA AllocStep ==
  AllocInv /\ [AllocNext]_alloc_vars => AllocInv' /\ [Usage!Next]_(Usage!usage)
<1> SUFFICES ASSUME AllocInv, [AllocNext]_alloc_vars
             PROVE  AllocInv' /\ (Usage!Next \/ UNCHANGED Usage!usage)
  OBVIOUS
<1>1. CASE TvmNext /\ UNCHANGED platform
  <2>1. platform = "tvm"
    BY <1>1 DEF TvmNext
  <2>2. ASSUME NEW b \in Blocks, NEW n \in Sizes, Asks(n), TVMPlatformMemoryAllocate(b, n)
        PROVE  AllocInv' /\ (Usage!Next \/ UNCHANGED Usage!usage)
    BY <1>1, <2>1, <2>2, TvmAllocates
  <2>3. ASSUME NEW b \in Blocks, TVMPlatformMemoryFree(b)
        PROVE  AllocInv' /\ (Usage!Next \/ UNCHANGED Usage!usage)
    BY <1>1, <2>1, <2>3, TvmFrees
  <2> QED BY <1>1, <2>2, <2>3 DEF TvmNext
<1>2. CASE IreeNext /\ UNCHANGED platform
  <2>1. platform = "iree"
    BY <1>2 DEF IreeNext
  <2>2. ASSUME NEW b \in Blocks, NEW n \in Sizes, Asks(n),
               iree_allocator_system_alloc(b, n) \/ iree_allocator_system_realloc(b, n)
        PROVE  AllocInv'
    BY <1>2, <2>1, <2>2, IreeAllocates
  <2>3. ASSUME NEW b \in Blocks, iree_allocator_system_free(b)
        PROVE  AllocInv'
    BY <1>2, <2>1, <2>3, IreeFrees
  <2>4. AllocInv'
    BY <1>2, <2>2, <2>3 DEF IreeNext
  <2>5. UNCHANGED Usage!usage
    BY <1>2, <2>1 DEF Usage!usage, Counted
  <2> QED BY <2>4, <2>5
<1>3. CASE UNCHANGED alloc_vars
  <2>1. AllocInv'
    BY <1>3 DEF AllocInv, alloc_vars, Balanced
  <2>2. UNCHANGED Usage!usage
    BY <1>3 DEF alloc_vars, Usage!usage, Counted
  <2> QED BY <2>1, <2>2
<1> QED BY <1>1, <1>2, <1>3 DEF AllocNext

\* in_use is the number of bytes of the blocks there are, the counters have
\* not wrapped, and as long as they count what the heap gave their difference
\* is in_use.
THEOREM AllocInvariant == AllocSpec => []AllocInv
<1>1. AllocInit => AllocInv
  BY AllocInitInv
<1>2. AllocInv /\ [AllocNext]_alloc_vars => AllocInv'
  BY AllocStep
<1> QED BY <1>1, <1>2, PTL DEF AllocSpec

\* The totals of IREE (iree/platform.c) balance, over reallocations too, as
\* long as the heap gives exactly what it is asked for.
THEOREM IreeBalances == AllocSpec => []IreeTotalsBalance
<1>1. AllocInv => IreeTotalsBalance
  BY DEF AllocInv, Balanced, IreeTotalsBalance
<1> QED BY <1>1, AllocInvariant, PTL

\* The statistics of microTVM (tvm/platform.c) are those of its heap: every
\* allocation and every release is one of HeapUsage, and a refusal is none.
THEOREM TvmCountsHeap == AllocSpec => TvmIsHeapUsage
<1>1. AllocInit => Usage!Init
  BY AllocInitInv
<1>2. AllocInv /\ [AllocNext]_alloc_vars => [Usage!Next]_(Usage!usage)
  BY AllocStep
<1> QED BY <1>1, <1>2, AllocInvariant, PTL DEF AllocSpec, TvmIsHeapUsage, Usage!Spec
-----------------------------------------------------------------------------
(* AI8X: the words of a MODEL.                                             *)

\* What is still to come of a section when k - 1 of its entries have arrived.
IsRests(r, entries) ==
  /\ r \in [1 .. Len(entries) + 1 -> Seq(Nat)]
  /\ r[1] = Section(entries) /\ r[Len(entries) + 1] = <<0>>
  /\ \A k \in 1 .. Len(entries) :
       r[k] = <<entries[k].addr>> \o (<<Len(entries[k].words)>> \o (entries[k].words \o r[k + 1]))

Rests(entries) == CHOOSE r : IsRests(r, entries)

Sections == {"WEIGHTS", "BIASES"}

\* Section s may be the current one when d entries have arrived, and what is
\* then to come of the whole MODEL.
InSection(net, s, d) ==
  IF s = "WEIGHTS" THEN d \in 0 .. Len(net.weights)
                   ELSE d \in Len(net.weights) .. Len(net.weights) + Len(net.biases)

RestIn(net, s, d) ==
  IF s = "WEIGHTS" THEN Rests(net.weights)[d + 1] \o Section(net.biases)
                   ELSE Rests(net.biases)[d - Len(net.weights) + 1]

\* The loader, when d entries have arrived: it expects the next entry of
\* section s, that entry's length, a word of it, or nothing more.
AtStart(net, s, d, l, r) ==
  /\ l.state = ToStart[s] /\ InSection(net, s, d)
  /\ r = RestIn(net, s, d)

AtLength(net, s, d, l, r) ==
  /\ l.state = ToLength[ToStart[s]] /\ InSection(net, s, d) /\ InSection(net, s, d + 1)
  /\ l.addr = Entries(net)[d + 1].addr
  /\ r = <<Len(Entries(net)[d + 1].words)>> \o (Entries(net)[d + 1].words \o RestIn(net, s, d + 1))

AtWord(net, s, d, l, r, m) ==
  LET e == Entries(net)[d + 1]
  IN  /\ l.state = s /\ InSection(net, s, d) /\ InSection(net, s, d + 1)
      /\ l.addr = e.addr /\ l.max_size = Len(e.words) /\ l.written < Len(e.words)
      /\ r = SubSeq(e.words, l.written + 1, Len(e.words)) \o RestIn(net, s, d + 1)
      /\ \A i \in 1 .. l.written : m[e.addr + i - 1] = e.words[i]

AtEnd(net, d, l, r) ==
  l.state = "END" /\ r = <<>> /\ d = Len(Entries(net))

\* The first d entries are in memory, where no later one is to overwrite them.
Loaded(net, d, m) ==
  LET es == Entries(net)
  IN  \A k \in 1 .. d : \A i \in 1 .. Len(es[k].words) :
        (\A l \in DOMAIN es : l > k => es[k].addr + i - 1 \notin Targets(es[l]))
          => m[es[k].addr + i - 1] = es[k].words[i]

Arrived(net, d, l, r, m) ==
  /\ d \in 0 .. Len(Entries(net)) /\ Loaded(net, d, m)
  /\ \/ AtEnd(net, d, l, r)
     \/ \E s \in Sections : \/ AtStart(net, s, d, l, r)
                            \/ AtLength(net, s, d, l, r)
                            \/ AtWord(net, s, d, l, r, m)

States == {"WEIGHTS_START", "WEIGHTS_LENGTH", "WEIGHTS",
           "BIASES_START", "BIASES_LENGTH", "BIASES", "END"}
Loader == [state : States, addr : Nat, written : Nat, max_size : Nat]

\* The inductive invariant.  What the loader's state means can only be said
\* together with what is still to come of the MODEL.
LoaderInv ==
  /\ ldr \in Loader /\ mem \in [Cells -> Nat \cup {Touched}]
  /\ ldr.written <= ldr.max_size /\ ldr.addr \in Cells \cup {0}
  /\ network \in Networks \cup {None}
  /\ network = None => rest = <<>>
  /\ network # None => \E d : Arrived(network, d, ldr, rest, mem)

RunTypes ==
  /\ pc \in {"idle", "wait", "sleep"}
  /\ time \in 0 .. CONFIG_KENNING_AI8X_CNN_TIMEOUT_MS
  /\ wait_status \in {"OK", "FAIL"} /\ clock \in {"slow", "fast"}
  /\ accelerator \in {"idle", "running", "finished"}
  /\ cnn_done \in BOOLEAN /\ stale \in BOOLEAN

\* While an inference that found cnn_done clear waits, cnn_done is set by its
\* own completion only.
WaitsForOwn ==
  ~stale /\ pc # "idle" /\ cnn_done => accelerator # "running"

Ai8xInv == LoaderInv /\ RunTypes /\ WaitsForOwn /\ FirstWaitMeansCompleted

LEMMA NetworkIs ==
  ASSUME NEW net \in Networks
  PROVE  /\ net.weights \in Seq(Entry) /\ net.biases \in Seq(Entry)
         /\ Len(net.weights) \in Nat /\ Len(net.biases) \in Nat
         /\ Entries(net) \in Seq(Entry)
         /\ Len(Entries(net)) = Len(net.weights) + Len(net.biases)
         /\ DOMAIN Entries(net) = 1 .. Len(Entries(net))
         /\ \A k \in 1 .. Len(net.weights) : Entries(net)[k] = net.weights[k]
         /\ \A k \in 1 .. Len(net.biases) : Entries(net)[Len(net.weights) + k] = net.biases[k]
<1>1. net \in [weights : Seq(Entry), biases : Seq(Entry)]
  BY Ai8xAssumption
<1>2. net.weights \in Seq(Entry)
  BY <1>1
<1>3. net.biases \in Seq(Entry)
  BY <1>1
<1> DEFINE all == Entries(net)
           first == net.weights
           second == net.biases
<1>4. all = first \o second
  BY DEF Entries
<1> HIDE DEF all, first, second
<1>5. /\ all \in Seq(Entry)
      /\ Len(first) \in Nat /\ Len(second) \in Nat
      /\ Len(all) = Len(first) + Len(second)
      /\ \A k \in 1 .. Len(first) : all[k] = first[k]
      /\ \A k \in 1 .. Len(second) : all[Len(first) + k] = second[k]
  <2>1. first \in Seq(Entry)
    BY <1>2 DEF first
  <2>2. second \in Seq(Entry)
    BY <1>3 DEF second
  <2> QED BY <1>4, <2>1, <2>2, Concatenation
<1>6. DOMAIN all = 1 .. Len(all)
  BY <1>5, LenProperties
<1> QED BY <1>2, <1>3, <1>5, <1>6 DEF all, first, second

LEMMA EntryIs ==
  ASSUME NEW net \in Networks, NEW k \in 1 .. Len(Entries(net))
  PROVE  LET e == Entries(net)[k]
         IN  /\ e \in Entry /\ e \in ToSet(Entries(net))
             /\ e.addr \in Cells /\ e.addr \in Nat /\ e.addr # 0
             /\ e.words \in Seq(Nat) /\ Len(e.words) \in Nat /\ Len(e.words) > 0
             /\ Targets(e) \subseteq Cells
             /\ \A i \in 1 .. Len(e.words) : e.words[i] \in Nat /\ e.addr + i - 1 \in Targets(e)
<1> DEFINE all == Entries(net)
           e == all[k]
<1>1. all \in Seq(Entry) /\ DOMAIN all = 1 .. Len(all)
  BY NetworkIs
<1>2. e \in Entry /\ e \in ToSet(all)
  <2>1. k \in 1 .. Len(all)
    OBVIOUS
  <2> HIDE DEF all
  <2> QED BY <1>1, <2>1, ElementOfSeq DEF ToSet
<1> HIDE DEF e
<1>3. Len(e.words) > 0 /\ Targets(e) \subseteq Cells
  BY <1>2, Ai8xAssumption
<1>4. e.addr \in Cells /\ e.words \in Seq(Nat)
  BY <1>2 DEF Entry
<1>5. e.addr \in Nat /\ e.addr # 0
  BY <1>4, Ai8xAssumption
<1>6. Len(e.words) \in Nat
  BY <1>4, LenProperties
<1>7. ASSUME NEW i \in 1 .. Len(e.words)
      PROVE  e.words[i] \in Nat /\ e.addr + i - 1 \in Targets(e)
  <2>1. e.words[i] \in Nat
    BY <1>4, ElementOfSeq
  <2>2. e.addr + i - 1 \in Targets(e)
    BY <1>5, <1>6 DEF Targets
  <2> QED BY <2>1, <2>2
<1> QED BY <1>2, <1>3, <1>4, <1>5, <1>6, <1>7 DEF e, all

LEMMA Regroup == \A x, y, z \in Seq(Nat) : (x \o y) \o z = x \o (y \o z)
<1> DEFINE T == Nat
<1> HIDE DEF T
<1>1. \A x, y, z \in Seq(T) : (x \o y) \o z = x \o (y \o z)
  BY Regrouped
<1> QED BY <1>1 DEF T

LEMMA PairIsConcat ==
  ASSUME NEW a, NEW n
  PROVE  <<a, n>> = <<a>> \o <<n>>
<1> DEFINE T == {a, n}
           x == <<a>>
           c == Append(x, n)
           d == <<a, n>>
<1>1. a \in T /\ n \in T
  OBVIOUS
<1>2. c = Append(x, n) /\ Len(x) = 1 /\ x[1] = a /\ Len(d) = 2 /\ d[1] = a /\ d[2] = n
  OBVIOUS
<1> HIDE DEF T
<1>3. x \in Seq(T) /\ d \in Seq(T)
  BY <1>1
<1>4. c = x \o <<n>>
  BY <1>1, <1>3, AppendIsConcat
<1> HIDE DEF x, c, d
<1>5. /\ c \in Seq(T) /\ Len(c) = Len(x) + 1
      /\ \A i \in 1 .. Len(x) : c[i] = x[i]
      /\ c[Len(x) + 1] = n
  BY <1>1, <1>2, <1>3, Appended
<1>6. Len(c) = 2 /\ c[1] = a /\ c[2] = n
  <2>1. 1 \in 1 .. Len(x) /\ Len(x) + 1 = 2
    BY <1>2
  <2> QED BY <1>2, <1>5, <2>1
<1>7. \A i \in 1 .. Len(c) : c[i] = d[i]
  <2>1. \A i \in 1 .. Len(c) : i = 1 \/ i = 2
    BY <1>6
  <2> QED BY <1>2, <1>6, <2>1
<1>8. c = d
  BY <1>2, <1>3, <1>5, <1>6, <1>7, SeqEqual
<1> QED BY <1>4, <1>8 DEF d, x

\* Grouping of the two numbers and the words of an entry, and what follows.
LEMMA EntryWords ==
  ASSUME NEW a \in Nat, NEW n \in Nat, NEW w \in Seq(Nat), NEW r \in Seq(Nat)
  PROVE  /\ <<a, n>> \o w \in Seq(Nat)
         /\ (<<a, n>> \o w) \o r = <<a>> \o (<<n>> \o (w \o r))
<1> DEFINE x == <<a>>
           y == <<n>>
           p == <<a, n>>
           z == w \o r
<1>1. x \in Seq(Nat)
  OBVIOUS
<1>2. y \in Seq(Nat)
  OBVIOUS
<1>3. p \in Seq(Nat)
  OBVIOUS
<1>4. p = x \o y
  BY PairIsConcat
<1>5. z = w \o r
  OBVIOUS
<1> HIDE DEF x, y, p, z
<1>6. z \in Seq(Nat)
  BY <1>5, ConcatProperties
<1>7. p \o w \in Seq(Nat)
  BY <1>3, ConcatProperties
<1>8. (p \o w) \o r = p \o (w \o r)
  BY <1>3, Regroup, Zenon
<1>9. (x \o y) \o z = x \o (y \o z)
  <2>1. \A v \in Seq(Nat) : (x \o y) \o v = x \o (y \o v)
    BY <1>1, <1>2, Regroup, Zenon
  <2> QED BY <1>6, <2>1, Zenon
<1>10. (p \o w) \o r = x \o (y \o z)
  BY <1>4, <1>5, <1>8, <1>9, Zenon
<1> QED BY <1>7, <1>10 DEF x, y, p, z

LEMMA SectionRests ==
  ASSUME NEW entries \in Seq(Entry)
  PROVE  IsRests(Rests(entries), entries)
<1> DEFINE n == Len(entries)
           parts == [k \in DOMAIN entries |->
                       <<entries[k].addr, Len(entries[k].words)>> \o entries[k].words]
<1>1. n \in Nat /\ DOMAIN entries = 1 .. n
  BY LenProperties
<1>2. ASSUME NEW k \in 1 .. n
      PROVE  /\ entries[k].addr \in Nat /\ Len(entries[k].words) \in Nat
             /\ entries[k].words \in Seq(Nat)
             /\ parts[k] = <<entries[k].addr, Len(entries[k].words)>> \o entries[k].words
             /\ parts[k] \in Seq(Nat)
  <2> DEFINE e == entries[k]
  <2>1. e \in Entry
    BY ElementOfSeq
  <2> HIDE DEF e
  <2>2. e.addr \in Nat /\ e.words \in Seq(Nat)
    BY <2>1, Ai8xAssumption DEF Entry
  <2>3. Len(e.words) \in Nat
    BY <2>2, LenProperties
  <2>4. <<e.addr, Len(e.words)>> \o e.words \in Seq(Nat)
    <3>1. <<>> \in Seq(Nat)
      BY EmptySeq
    <3> QED BY <2>2, <2>3, <3>1, EntryWords
  <2>5. parts[k] = <<e.addr, Len(e.words)>> \o e.words
    BY <1>1 DEF e
  <2> QED BY <2>2, <2>3, <2>4, <2>5 DEF e
<1>3. Section(entries) = FlattenSeq(parts) \o <<0>>
  BY DEF Section
<1>4. parts \in [1 .. n -> Seq(Nat)]
  BY <1>1, <1>2
<1> HIDE DEF parts
<1>5. parts \in Seq(Seq(Nat)) /\ Len(parts) = n
  <2>1. parts \in Seq(Seq(Nat))
    BY <1>1, <1>4, SeqDef
  <2>2. DOMAIN parts = 1 .. Len(parts) /\ Len(parts) \in Nat
    BY <2>1, LenProperties
  <2>3. DOMAIN parts = 1 .. n
    BY <1>4
  <2>4. \A x, y \in Nat : 1 .. x = 1 .. y => x = y
    OBVIOUS
  <2>5. Len(parts) = n
    BY <1>1, <2>2, <2>3, <2>4, Zenon
  <2> QED BY <2>1, <2>5
<1>6. PICK q \in [1 .. n + 1 -> Seq(Nat)] :
        /\ q[1] = FlattenSeq(parts) /\ q[n + 1] = <<>>
        /\ \A k \in 1 .. n : q[k] = parts[k] \o q[k + 1]
  <2>1. parts \in Seq(Seq(Nat))
    BY <1>5
  <2>2. \E q \in [1 .. Len(parts) + 1 -> Seq(Nat)] :
          /\ q[1] = FlattenSeq(parts) /\ q[Len(parts) + 1] = <<>>
          /\ \A k \in 1 .. Len(parts) : q[k] = parts[k] \o q[k + 1]
    BY <2>1, FlattenSuffixes
  <2> QED BY <1>5, <2>2, Zenon
<1> DEFINE r == [k \in 1 .. n + 1 |-> q[k] \o <<0>>]
<1>7. <<0>> \in Seq(Nat)
  OBVIOUS
<1>8. r \in [1 .. n + 1 -> Seq(Nat)]
  <2>1. ASSUME NEW k \in 1 .. n + 1
        PROVE  q[k] \o <<0>> \in Seq(Nat)
    <3>1. q[k] \in Seq(Nat)
      BY <1>6
    <3> QED BY <1>7, <3>1, ConcatProperties
  <2> QED BY <2>1
<1>9. r[1] = Section(entries)
  <2>1. 1 \in 1 .. n + 1
    BY <1>1
  <2> QED BY <1>3, <1>6, <2>1
<1>10. r[n + 1] = <<0>>
  <2>1. n + 1 \in 1 .. n + 1
    BY <1>1
  <2>2. r[n + 1] = <<>> \o <<0>>
    BY <1>6, <2>1
  <2> HIDE DEF r
  <2> QED BY <1>7, <2>2, ConcatEmptySeq
<1>11. ASSUME NEW k \in 1 .. n
       PROVE  r[k] = <<entries[k].addr>> \o (<<Len(entries[k].words)>> \o (entries[k].words \o r[k + 1]))
  <2>1. k \in 1 .. n + 1 /\ k + 1 \in 1 .. n + 1
    BY <1>1
  <2>2. r[k] = q[k] \o <<0>> /\ r[k + 1] = q[k + 1] \o <<0>> /\ r[k + 1] \in Seq(Nat)
    BY <1>8, <2>1
  <2>3. q[k] = parts[k] \o q[k + 1] /\ q[k + 1] \in Seq(Nat)
    BY <1>6, <2>1
  <2> HIDE DEF r
  <2> DEFINE a == entries[k].addr
             l == Len(entries[k].words)
             w == entries[k].words
             p == parts[k]
             t == q[k + 1]
             u == r[k + 1]
  <2>4. /\ r[k] = (p \o t) \o <<0>> /\ u = t \o <<0>>
        /\ a \in Nat /\ l \in Nat /\ w \in Seq(Nat) /\ p = <<a, l>> \o w
    BY <1>2, <2>2, <2>3
  <2>5. p \in Seq(Nat)
    BY <1>2
  <2>6. t \in Seq(Nat)
    BY <2>3
  <2>7. u \in Seq(Nat)
    BY <2>2
  <2> HIDE DEF a, l, w, p, t, u
  <2>8. (p \o t) \o <<0>> = p \o (t \o <<0>>)
    BY <1>7, <2>5, <2>6, Regroup, Zenon
  <2>9. (<<a, l>> \o w) \o u = <<a>> \o (<<l>> \o (w \o u))
    <3>1. \A x, y \in Nat : \A v, z \in Seq(Nat) :
            (<<x, y>> \o v) \o z = <<x>> \o (<<y>> \o (v \o z))
      BY EntryWords
    <3> QED BY <2>4, <2>7, <3>1, Zenon
  <2>10. r[k] = <<a>> \o (<<l>> \o (w \o u))
    BY <2>4, <2>8, <2>9, Zenon
  <2> QED BY <2>10 DEF a, l, w, u
<1> HIDE DEF r
<1>12. IsRests(r, entries)
  BY <1>8, <1>9, <1>10, <1>11 DEF IsRests
<1> QED BY <1>12 DEF Rests

LEMMA RegroupEntry ==
  \A a, n \in Nat : \A w, r, u \in Seq(Nat) :
    (<<a>> \o (<<n>> \o (w \o r))) \o u = <<a>> \o (<<n>> \o (w \o (r \o u)))
<1> TAKE a, n \in Nat
<1> TAKE w, r, u \in Seq(Nat)
<1> DEFINE x == <<a>>
           y == <<n>>
           s == w \o r
           t == y \o s
<1>1. x \in Seq(Nat)
  OBVIOUS
<1>2. y \in Seq(Nat)
  OBVIOUS
<1>3. s = w \o r
  OBVIOUS
<1>4. t = y \o s
  OBVIOUS
<1> HIDE DEF x, y, s, t
<1>5. s \in Seq(Nat)
  BY <1>3, ConcatProperties
<1>6. t \in Seq(Nat)
  BY <1>2, <1>4, <1>5, ConcatProperties
<1>7. (w \o r) \o u = w \o (r \o u)
  BY Regroup, Zenon
<1>8. (y \o s) \o u = y \o (s \o u)
  BY <1>2, <1>5, Regroup, Zenon
<1>9. (x \o t) \o u = x \o (t \o u)
  BY <1>1, <1>6, Regroup, Zenon
<1>10. (x \o t) \o u = x \o (y \o (w \o (r \o u)))
  BY <1>3, <1>4, <1>7, <1>8, <1>9, Zenon
<1> QED BY <1>10 DEF x, y, s, t

\* The payload of a MODEL, entry by entry.
LEMMA NetworkRests ==
  ASSUME NEW net \in Networks
  PROVE  /\ Payload(net) = RestIn(net, "WEIGHTS", 0) /\ InSection(net, "WEIGHTS", 0)
         /\ LET d == Len(net.weights)
            IN  /\ RestIn(net, "WEIGHTS", d) = <<0>> \o RestIn(net, "BIASES", d)
                /\ InSection(net, "BIASES", d)
         /\ RestIn(net, "BIASES", Len(Entries(net))) = <<0>>
         /\ \A s \in Sections : \A d \in 0 .. Len(Entries(net)) :
              InSection(net, s, d) => RestIn(net, s, d) \in Seq(Nat)
         /\ \A s \in Sections : \A d \in 0 .. Len(Entries(net)) - 1 :
              LET e == Entries(net)[d + 1]
              IN  InSection(net, s, d) /\ InSection(net, s, d + 1) =>
                    RestIn(net, s, d) =
                      <<e.addr>> \o (<<Len(e.words)>> \o (e.words \o RestIn(net, s, d + 1)))
<1> DEFINE W == Len(net.weights)
           B == Len(net.biases)
           N == Len(Entries(net))
           rw == Rests(net.weights)
           rb == Rests(net.biases)
           after == Section(net.biases)
<1>1. /\ net.weights \in Seq(Entry) /\ net.biases \in Seq(Entry)
      /\ W \in Nat /\ B \in Nat /\ N = W + B
      /\ \A k \in 1 .. W : Entries(net)[k] = net.weights[k]
      /\ \A k \in 1 .. B : Entries(net)[W + k] = net.biases[k]
  BY NetworkIs
<1>2. /\ rw \in [1 .. W + 1 -> Seq(Nat)]
      /\ rw[1] = Section(net.weights) /\ rw[W + 1] = <<0>>
      /\ \A k \in 1 .. W :
           rw[k] = <<net.weights[k].addr>> \o (<<Len(net.weights[k].words)>> \o (net.weights[k].words \o rw[k + 1]))
  BY <1>1, SectionRests DEF IsRests
<1>3. /\ rb \in [1 .. B + 1 -> Seq(Nat)]
      /\ rb[1] = after /\ rb[B + 1] = <<0>>
      /\ \A k \in 1 .. B :
           rb[k] = <<net.biases[k].addr>> \o (<<Len(net.biases[k].words)>> \o (net.biases[k].words \o rb[k + 1]))
  BY <1>1, SectionRests DEF IsRests
<1> HIDE DEF rw, rb, after, W, B, N
<1>4. /\ \A d : RestIn(net, "WEIGHTS", d) = rw[d + 1] \o after
      /\ \A d : RestIn(net, "BIASES", d) = rb[d - W + 1]
      /\ \A d : InSection(net, "WEIGHTS", d) <=> d \in 0 .. W
      /\ \A d : InSection(net, "BIASES", d) <=> d \in W .. W + B
  BY DEF RestIn, InSection, rw, rb, after, W, B
<1>5. after \in Seq(Nat)
  <2>1. 1 \in 1 .. B + 1
    BY <1>1
  <2> QED BY <1>3, <2>1
<1>6. Payload(net) = RestIn(net, "WEIGHTS", 0) /\ InSection(net, "WEIGHTS", 0)
  <2>1. RestIn(net, "WEIGHTS", 0) = rw[0 + 1] \o after
    BY <1>4
  <2>2. 0 + 1 = 1
    OBVIOUS
  <2>3. RestIn(net, "WEIGHTS", 0) = Section(net.weights) \o Section(net.biases)
    BY <1>2, <2>1, <2>2 DEF after
  <2> QED BY <1>1, <1>4, <2>3 DEF Payload
<1>7. /\ RestIn(net, "WEIGHTS", W) = <<0>> \o RestIn(net, "BIASES", W)
      /\ InSection(net, "BIASES", W)
  <2>1. RestIn(net, "WEIGHTS", W) = <<0>> \o after
    BY <1>2, <1>4
  <2>2. RestIn(net, "BIASES", W) = after
    <3>1. W - W + 1 = 1
      BY <1>1
    <3> QED BY <1>3, <1>4, <3>1
  <2>3. InSection(net, "BIASES", W)
    BY <1>1, <1>4
  <2> QED BY <2>1, <2>2, <2>3
<1>8. RestIn(net, "BIASES", N) = <<0>>
  <2>1. W + B - W + 1 = B + 1
    BY <1>1
  <2>2. RestIn(net, "BIASES", W + B) = rb[W + B - W + 1]
    BY DEF RestIn, rb, W, B
  <2> QED BY <1>1, <1>3, <2>1, <2>2
<1>9. ASSUME NEW s \in Sections, NEW d \in 0 .. N, InSection(net, s, d)
      PROVE  RestIn(net, s, d) \in Seq(Nat)
  <2>1. CASE s = "WEIGHTS"
    <3>1. d + 1 \in 1 .. W + 1
      BY <1>1, <1>4, <1>9, <2>1
    <3>2. rw[d + 1] \in Seq(Nat)
      BY <1>2, <3>1
    <3>3. \A x, y \in Seq(Nat) : x \o y \in Seq(Nat)
      BY ConcatProperties
    <3>4. rw[d + 1] \o after \in Seq(Nat)
      BY <1>5, <3>2, <3>3, Zenon
    <3> QED BY <1>4, <2>1, <3>4
  <2>2. CASE s = "BIASES"
    <3>1. d - W + 1 \in 1 .. B + 1
      <4>1. d \in W .. W + B
        BY <1>4, <1>9, <2>2
      <4> QED BY <1>1, <4>1
    <3>2. rb[d - W + 1] \in Seq(Nat)
      BY <1>3, <3>1
    <3> QED BY <1>4, <2>2, <3>2
  <2> QED BY <2>1, <2>2 DEF Sections
<1>10. ASSUME NEW s \in Sections, NEW d \in 0 .. N - 1,
              InSection(net, s, d), InSection(net, s, d + 1)
       PROVE  LET e == Entries(net)[d + 1]
              IN  RestIn(net, s, d) =
                    <<e.addr>> \o (<<Len(e.words)>> \o (e.words \o RestIn(net, s, d + 1)))
  <2> DEFINE e == Entries(net)[d + 1]
  <2>1. d \in Nat /\ d + 1 \in 0 .. W + B /\ d + 1 \in 1 .. W + B
    BY <1>1
  <2>2. e.addr \in Nat /\ e.words \in Seq(Nat) /\ Len(e.words) \in Nat
    BY <1>1, <2>1, EntryIs DEF N
  <2>3. CASE s = "WEIGHTS"
    <3>1. d + 1 \in 1 .. W /\ d + 1 + 1 \in 1 .. W + 1
      <4>1. d + 1 \in 0 .. W
        BY <1>4, <1>10, <2>3
      <4> QED BY <1>1, <2>1, <4>1
    <3>2. e = net.weights[d + 1]
      BY <1>1, <3>1
    <3>3. RestIn(net, s, d) = rw[d + 1] \o after /\ RestIn(net, s, d + 1) = rw[d + 1 + 1] \o after
      BY <1>4, <2>3
    <3> DEFINE next == rw[d + 1 + 1]
    <3>4. next \in Seq(Nat)
      BY <1>2, <3>1
    <3>5. rw[d + 1] = <<e.addr>> \o (<<Len(e.words)>> \o (e.words \o next))
      BY <1>2, <3>1, <3>2
    <3> HIDE DEF next, e
    <3>6. rw[d + 1] \o after = <<e.addr>> \o (<<Len(e.words)>> \o (e.words \o (next \o after)))
      <4> DEFINE a == e.addr
                 n == Len(e.words)
                 w == e.words
      <4>1. a \in Nat /\ n \in Nat /\ w \in Seq(Nat)
        BY <2>2 DEF e
      <4>2. rw[d + 1] = <<a>> \o (<<n>> \o (w \o next))
        BY <3>5
      <4> HIDE DEF a, n, w
      <4>3. (<<a>> \o (<<n>> \o (w \o next))) \o after = <<a>> \o (<<n>> \o (w \o (next \o after)))
        <5>1. \A v, r, u \in Seq(Nat) :
                (<<a>> \o (<<n>> \o (v \o r))) \o u = <<a>> \o (<<n>> \o (v \o (r \o u)))
          BY <4>1, RegroupEntry, Zenon
        <5>2. w \in Seq(Nat)
          BY <4>1
        <5> QED BY <1>5, <3>4, <5>1, <5>2, Zenon
      <4> QED BY <4>2, <4>3, Zenon DEF a, n, w
    <3>7. RestIn(net, s, d) = <<e.addr>> \o (<<Len(e.words)>> \o (e.words \o RestIn(net, s, d + 1)))
      BY <3>3, <3>6, Zenon DEF next
    <3> QED BY <3>7, Zenon DEF e
  <2>4. CASE s = "BIASES"
    <3> DEFINE k == d - W + 1
    <3>1. k \in 1 .. B /\ W + k = d + 1 /\ d + 1 - W + 1 = k + 1
      <4>1. d \in W .. W + B /\ d + 1 \in W .. W + B
        BY <1>4, <1>10, <2>4
      <4> QED BY <1>1, <2>1, <4>1
    <3>2. e = net.biases[k]
      BY <1>1, <3>1
    <3>3. RestIn(net, s, d) = rb[k] /\ RestIn(net, s, d + 1) = rb[k + 1]
      <4>1. RestIn(net, s, d) = rb[k] /\ RestIn(net, s, d + 1) = rb[d + 1 - W + 1]
        BY <2>4 DEF RestIn, rb, W, k
      <4> QED BY <3>1, <4>1
    <3> HIDE DEF k, e
    <3>4. RestIn(net, s, d) = <<e.addr>> \o (<<Len(e.words)>> \o (e.words \o RestIn(net, s, d + 1)))
      BY <1>3, <3>1, <3>2, <3>3
    <3> QED BY <3>4, Zenon DEF e
  <2> QED BY <2>3, <2>4 DEF Sections
<1> QED BY <1>6, <1>7, <1>8, <1>9, <1>10, Zenon DEF W, N

-----------------------------------------------------------------------------
(* A word arrives.                                                         *)

LEMMA StateNames ==
  /\ DOMAIN ToLength = {"WEIGHTS_START", "BIASES_START"}
  /\ DOMAIN ToContent = {"WEIGHTS_LENGTH", "BIASES_LENGTH"}
  /\ DOMAIN ToStart = {"WEIGHTS", "BIASES"}
  /\ ToLength["WEIGHTS_START"] = "WEIGHTS_LENGTH" /\ ToLength["BIASES_START"] = "BIASES_LENGTH"
  /\ ToContent["WEIGHTS_LENGTH"] = "WEIGHTS" /\ ToContent["BIASES_LENGTH"] = "BIASES"
  /\ ToStart["WEIGHTS"] = "WEIGHTS_START" /\ ToStart["BIASES"] = "BIASES_START"
  /\ ToNext["WEIGHTS_START"] = "BIASES_START" /\ ToNext["BIASES_START"] = "END"
BY DEF ToLength, ToContent, ToStart, ToNext

\* In each state of the loader a word is taken in one way.
LEMMA WayToTake ==
  ASSUME NEW s \in Sections, NEW val, buf_save_one_cnn(val)
  PROVE  /\ ldr.state = ToStart[s] => TakeAddress(val)
         /\ ldr.state = ToLength[ToStart[s]] => TakeLength(val)
         /\ ldr.state = s => TakeWord(val)
BY StateNames DEF Sections, buf_save_one_cnn, TakeAddress, TakeLength, TakeWord, IgnoreWord

\* What is written to the targets of the next entry does not touch what counts
\* of those that have arrived.
LEMMA LoadedKept ==
  ASSUME NEW net \in Networks, NEW d \in 0 .. Len(Entries(net)) - 1, NEW m, NEW n,
         Loaded(net, d, m), \A c \in Cells : c \notin Targets(Entries(net)[d + 1]) => n[c] = m[c]
  PROVE  Loaded(net, d, n)
<1> DEFINE es == Entries(net)
<1>1. Len(es) \in Nat /\ DOMAIN es = 1 .. Len(es)
  BY NetworkIs, LenProperties
<1>2. d + 1 \in DOMAIN es /\ d \in Nat
  BY <1>1
<1>3. ASSUME NEW k \in 1 .. d, NEW i \in 1 .. Len(es[k].words),
             \A l \in DOMAIN es : l > k => es[k].addr + i - 1 \notin Targets(es[l])
      PROVE  n[es[k].addr + i - 1] = es[k].words[i]
  <2>1. d + 1 > k
    BY <1>2
  <2>2. es[k].addr + i - 1 \notin Targets(es[d + 1])
    BY <1>2, <1>3, <2>1
  <2>3. m[es[k].addr + i - 1] = es[k].words[i]
    BY <1>3 DEF Loaded
  <2>4. es[k].addr + i - 1 \in Cells
    <3>1. k \in 1 .. Len(es)
      BY <1>1, <1>2
    <3>2. es[k].addr + i - 1 \in Targets(es[k]) /\ Targets(es[k]) \subseteq Cells
      BY <3>1, EntryIs
    <3> QED BY <3>2
  <2> QED BY <2>2, <2>3, <2>4
<1> QED BY <1>3 DEF Loaded

LEMMA LoadedNext ==
  ASSUME NEW net \in Networks, NEW d \in 0 .. Len(Entries(net)) - 1, NEW m, NEW n,
         Loaded(net, d, m), \A c \in Cells : c \notin Targets(Entries(net)[d + 1]) => n[c] = m[c],
         \A i \in 1 .. Len(Entries(net)[d + 1].words) :
           n[Entries(net)[d + 1].addr + i - 1] = Entries(net)[d + 1].words[i]
  PROVE  Loaded(net, d + 1, n)
<1> DEFINE es == Entries(net)
<1>1. Loaded(net, d, n)
  BY LoadedKept
<1>2. d \in Nat
  BY NetworkIs
<1>3. ASSUME NEW k \in 1 .. d + 1, NEW i \in 1 .. Len(es[k].words),
             \A l \in DOMAIN es : l > k => es[k].addr + i - 1 \notin Targets(es[l])
      PROVE  n[es[k].addr + i - 1] = es[k].words[i]
  <2>1. CASE k = d + 1
    BY <2>1
  <2>2. CASE k # d + 1
    <3>1. k \in 1 .. d
      BY <1>2, <2>2
    <3> QED BY <1>1, <1>3, <3>1 DEF Loaded
  <2> QED BY <2>1, <2>2
<1> QED BY <1>3 DEF Loaded

\* A word is written to the targets of the entries only.
WritesWithin(net) ==
  \A c \in Cells : mem'[c] # mem[c] => \E e \in ToSet(Entries(net)) : c \in Targets(e)

\* What a step of the loader has to provide.
LEMMA GoesOnLoading ==
  ASSUME NEW net \in Networks, network' = net,
         ldr' \in Loader, mem' \in [Cells -> Nat \cup {Touched}],
         ldr'.written <= ldr'.max_size, ldr'.addr \in Cells \cup {0},
         NEW d \in 0 .. Len(Entries(net)), Loaded(net, d, mem'),
         \/ AtEnd(net, d, ldr', rest')
         \/ \E s \in Sections : \/ AtStart(net, s, d, ldr', rest')
                                \/ AtLength(net, s, d, ldr', rest')
                                \/ AtWord(net, s, d, ldr', rest', mem')
  PROVE  LoaderInv'
<1>1. Arrived(net, d, ldr', rest', mem')
  BY Zenon DEF Arrived
<1>2. network' # None
  BY Ai8xAssumption
<1> QED BY <1>1, <1>2 DEF LoaderInv

\* Where an entry may start, one does, or its section ends.
LEMMA SectionGoesOn ==
  ASSUME NEW net \in Networks, NEW s \in Sections, NEW d \in 0 .. Len(Entries(net)),
         InSection(net, s, d)
  PROVE  \/ InSection(net, s, d + 1) /\ d \in 0 .. Len(Entries(net)) - 1
         \/ s = "WEIGHTS" /\ d = Len(net.weights)
         \/ s = "BIASES" /\ d = Len(Entries(net))
<1> DEFINE N == Len(Entries(net))
           W == Len(net.weights)
           B == Len(net.biases)
<1>1. W \in Nat /\ B \in Nat /\ N = W + B /\ d \in 0 .. N
  BY NetworkIs
<1>2. /\ s = "WEIGHTS" => \A k : InSection(net, s, k) <=> k \in 0 .. W
      /\ s = "BIASES" => \A k : InSection(net, s, k) <=> k \in W .. W + B
  BY DEF InSection
<1> HIDE DEF N, W, B
<1>3. CASE s = "WEIGHTS"
  <2>1. d = W \/ (InSection(net, s, d + 1) /\ d \in 0 .. N - 1)
    BY <1>1, <1>2, <1>3
  <2> QED BY <1>3, <2>1 DEF N, W
<1>4. CASE s = "BIASES"
  <2>1. d = N \/ (InSection(net, s, d + 1) /\ d \in 0 .. N - 1)
    BY <1>1, <1>2, <1>4
  <2> QED BY <1>4, <2>1 DEF N
<1> QED BY <1>3, <1>4 DEF Sections

\* A MODEL is at its end only where the loader is.
LEMMA MoreToCome ==
  ASSUME NEW net \in Networks, NEW s \in Sections, NEW d \in 0 .. Len(Entries(net)),
         NEW l \in Loader, NEW r, NEW m,
         \/ AtStart(net, s, d, l, r)
         \/ AtLength(net, s, d, l, r) /\ d + 1 \in 1 .. Len(Entries(net))
         \/ AtWord(net, s, d, l, r, m) /\ d + 1 \in 1 .. Len(Entries(net))
  PROVE  r # <<>>
<1> DEFINE N == Len(Entries(net))
           e == Entries(net)[d + 1]
           after == RestIn(net, s, d + 1)
<1>1. \A x, y \in Seq(Nat) : x \o y \in Seq(Nat)
  BY ConcatProperties
<1>2. \A x \in Nat : <<x>> \in Seq(Nat)
  OBVIOUS
<1>3. \A x \in Nat : \A y \in Seq(Nat) : <<x>> \o y # <<>>
  BY HeadAndTail
<1>4. d \in 0 .. N /\ N \in Nat
  BY NetworkIs, LenProperties
<1>5. ASSUME InSection(net, s, d + 1), d + 1 \in 1 .. N
      PROVE  /\ e.addr \in Nat /\ Len(e.words) \in Nat /\ Len(e.words) > 0
             /\ e.words \in Seq(Nat) /\ after \in Seq(Nat)
  <2>1. d + 1 \in 0 .. N
    <3>1. d + 1 \in 1 .. N
      BY <1>5
    <3> HIDE DEF N
    <3> QED BY <1>4, <3>1
  <2>2. after \in Seq(Nat)
    BY <1>5, <2>1, NetworkRests
  <2> HIDE DEF after
  <2> QED BY <1>5, <2>2, EntryIs
<1>6. CASE AtStart(net, s, d, l, r)
  <2>1. r = RestIn(net, s, d) /\ InSection(net, s, d)
    BY <1>6 DEF AtStart
  <2>2. CASE InSection(net, s, d + 1) /\ d \in 0 .. N - 1
    <3>1. r = <<e.addr>> \o (<<Len(e.words)>> \o (e.words \o after))
      BY <2>1, <2>2, NetworkRests
    <3>2. d + 1 \in 1 .. N
      <4> HIDE DEF N
      <4> QED BY <1>4, <2>2
    <3> HIDE DEF N, e, after
    <3> QED BY <1>1, <1>2, <1>3, <1>5, <2>2, <3>1, <3>2, Zenon
  <2>3. CASE s = "WEIGHTS" /\ d = Len(net.weights)
    <3> DEFINE W == Len(net.weights)
    <3>1. r = <<0>> \o RestIn(net, "BIASES", W) /\ InSection(net, "BIASES", W)
      BY <2>1, <2>3, NetworkRests
    <3>2. RestIn(net, "BIASES", W) \in Seq(Nat)
      <4>1. W \in 0 .. N /\ "BIASES" \in Sections
        BY <1>4, <2>3 DEF Sections
      <4> QED BY <3>1, <4>1, NetworkRests
    <3> HIDE DEF W
    <3>3. 0 \in Nat
      OBVIOUS
    <3> QED BY <1>3, <3>1, <3>2, <3>3, Zenon
  <2>4. CASE s = "BIASES" /\ d = N
    <3>1. r = <<0>>
      BY <2>1, <2>4, NetworkRests
    <3> QED BY <3>1
  <2>5. \/ InSection(net, s, d + 1) /\ d \in 0 .. N - 1
        \/ s = "WEIGHTS" /\ d = Len(net.weights)
        \/ s = "BIASES" /\ d = N
    BY <2>1, SectionGoesOn
  <2> QED BY <2>2, <2>3, <2>4, <2>5
<1>7. CASE AtLength(net, s, d, l, r) /\ d + 1 \in 1 .. N
  <2>1. r = <<Len(e.words)>> \o (e.words \o after) /\ InSection(net, s, d + 1)
    BY <1>7 DEF AtLength
  <2> HIDE DEF e, after
  <2> QED BY <1>1, <1>3, <1>5, <1>7, <2>1, Zenon
<1>8. CASE AtWord(net, s, d, l, r, m) /\ d + 1 \in 1 .. N
  <2> DEFINE ws == e.words
             t == SubSeq(ws, l.written + 1, Len(ws))
  <2>1. /\ r = t \o after /\ InSection(net, s, d + 1) /\ l.written < Len(ws)
    BY <1>8 DEF AtWord
  <2>2. ws \in Seq(Nat) /\ Len(ws) \in Nat /\ after \in Seq(Nat)
    BY <1>5, <1>8, <2>1
  <2>3. l.written \in Nat
    BY DEF Loader
  <2> HIDE DEF e, after, ws
  <2>4. l.written + 1 \in 1 .. Len(ws) + 1
    BY <2>1, <2>2, <2>3
  <2>5. t \in Seq(Nat) /\ Len(t) = Len(ws) - (l.written + 1) + 1
    BY <2>2, <2>4, Suffix
  <2>6. Len(t) > 0
    BY <2>1, <2>2, <2>3, <2>5
  <2> HIDE DEF t
  <2>7. r \in Seq(Nat) /\ Len(r) = Len(t) + Len(after) /\ Len(after) \in Nat
    <3>1. t \in Seq(Nat)
      BY <2>5
    <3>2. after \in Seq(Nat)
      BY <2>2
    <3> QED BY <2>1, <3>1, <3>2, ConcatProperties, LenProperties
  <2>8. Len(r) > 0
    BY <2>6, <2>7
  <2> QED BY <2>8
<1> QED BY <1>6, <1>7, <1>8

\* The address of the next entry arrives, or the zero that ends the section.
LEMMA TakesStart ==
  ASSUME LoaderInv, ReceiveWord, NEW net \in Networks, network = net,
         NEW s \in Sections, NEW d \in 0 .. Len(Entries(net)), Loaded(net, d, mem),
         AtStart(net, s, d, ldr, rest)
  PROVE  LoaderInv' /\ WritesWithin(net)
<1> DEFINE es == Entries(net)
           N == Len(es)
           W == Len(net.weights)
           B == Len(net.biases)
<1>1. /\ TakeAddress(Head(rest)) /\ rest' = Tail(rest) /\ network' = net
      /\ ldr.state = ToStart[s] /\ InSection(net, s, d) /\ rest = RestIn(net, s, d)
  BY WayToTake DEF ReceiveWord, AtStart
<1>2. W \in Nat /\ B \in Nat /\ N = W + B /\ N \in Nat /\ d \in 0 .. N
  BY NetworkIs, LenProperties
<1>3. /\ ldr \in Loader /\ mem \in [Cells -> Nat \cup {Touched}]
      /\ ldr.written <= ldr.max_size /\ ldr.addr \in Cells \cup {0}
  BY DEF LoaderInv
<1>4. \/ s = "WEIGHTS" /\ ldr.state = "WEIGHTS_START"
      \/ s = "BIASES" /\ ldr.state = "BIASES_START"
  BY <1>1, StateNames DEF Sections
<1>5. \/ InSection(net, s, d + 1) /\ d \in 0 .. N - 1
      \/ s = "WEIGHTS" /\ d = W
      \/ s = "BIASES" /\ d = N
  BY <1>1, SectionGoesOn
<1> HIDE DEF N, W, B
<1>6. CASE InSection(net, s, d + 1) /\ d \in 0 .. N - 1
  <2> DEFINE e == es[d + 1]
             a == e.addr
             t == <<Len(e.words)>> \o (e.words \o RestIn(net, s, d + 1))
  <2>1. d + 1 \in 1 .. N
    BY <1>2, <1>6
  <2>2. /\ a \in Cells /\ a \in Nat /\ a # 0 /\ e.words \in Seq(Nat)
        /\ Len(e.words) \in Nat /\ Len(e.words) > 0 /\ e \in ToSet(es)
    BY <2>1, EntryIs DEF N
  <2>3. a \in Targets(e)
    BY <2>2 DEF Targets
  <2>4. rest = <<a>> \o t
    BY <1>1, <1>6, NetworkRests DEF N
  <2>5. t \in Seq(Nat)
    <3>1. RestIn(net, s, d + 1) \in Seq(Nat)
      <4>1. d + 1 \in 0 .. N
        BY <1>2, <2>1
      <4> QED BY <1>6, <4>1, NetworkRests DEF N
    <3>2. <<Len(e.words)>> \in Seq(Nat)
      BY <2>2
    <3>3. \A x, y \in Seq(Nat) : x \o y \in Seq(Nat)
      BY ConcatProperties
    <3> QED BY <2>2, <3>1, <3>2, <3>3, Zenon
  <2>6. Head(rest) = a /\ Tail(rest) = t
    <3>1. a \in Nat
      BY <2>2
    <3> HIDE DEF a, t
    <3>2. Head(<<a>> \o t) = a /\ Tail(<<a>> \o t) = t
      BY <2>5, <3>1, HeadAndTail
    <3> QED BY <2>4, <3>2, Zenon
  <2> HIDE DEF t
  <2> HIDE DEF a, e
  <2>7. /\ ldr' = [ldr EXCEPT !.addr = a, !.state = ToLength[ToStart[s]]]
        /\ mem' = mem \/ mem' = [mem EXCEPT ![a] = Touched]
    BY <1>1, <1>4, <2>2, <2>6, StateNames DEF TakeAddress
  <2>8. /\ ldr' \in Loader /\ ldr'.state = ToLength[ToStart[s]] /\ ldr'.addr = a
        /\ ldr'.written <= ldr'.max_size /\ ldr'.addr \in Cells \cup {0}
    <3>1. ToLength[ToStart[s]] \in States
      BY StateNames DEF Sections, States
    <3> QED BY <1>3, <2>2, <2>7, <3>1 DEF Loader
  <2>9. /\ mem' \in [Cells -> Nat \cup {Touched}]
        /\ \A c \in Cells : c # a => mem'[c] = mem[c]
    BY <1>3, <2>7
  <2>10. \A c \in Cells : c \notin Targets(es[d + 1]) => mem'[c] = mem[c]
    BY <2>3, <2>9 DEF e
  <2>11. Loaded(net, d, mem')
    <3>1. d \in 0 .. Len(Entries(net)) - 1
      BY <1>6 DEF N
    <3> QED BY <2>10, <3>1, LoadedKept
  <2>12. AtLength(net, s, d, ldr', rest')
    BY <1>1, <1>6, <2>6, <2>8 DEF AtLength, a, e, t
  <2>13. LoaderInv'
    BY <1>1, <2>8, <2>9, <2>11, <2>12, GoesOnLoading
  <2>14. WritesWithin(net)
    BY <2>2, <2>3, <2>9 DEF WritesWithin
  <2> QED BY <2>13, <2>14
<1>7. ASSUME NEW u, \/ s = "WEIGHTS" /\ d = W /\ u = RestIn(net, "BIASES", d)
                    \/ s = "BIASES" /\ d = N /\ u = <<>>
      PROVE  LoaderInv' /\ WritesWithin(net)
  <2>1. rest = <<0>> \o u /\ u \in Seq(Nat)
    <3>1. CASE s = "WEIGHTS"
      <4>1. u = RestIn(net, "BIASES", W) /\ InSection(net, "BIASES", W) /\ d = W
        BY <1>7, <3>1, NetworkRests DEF W
      <4>2. u \in Seq(Nat)
        <5>1. W \in 0 .. N /\ "BIASES" \in Sections
          BY <1>2 DEF Sections
        <5> QED BY <4>1, <5>1, NetworkRests DEF N
      <4>3. rest = <<0>> \o u
        BY <1>1, <3>1, <4>1, NetworkRests DEF W
      <4> QED BY <4>2, <4>3
    <3>2. CASE s = "BIASES"
      <4>1. u = <<>> /\ rest = <<0>>
        BY <1>1, <1>7, <3>2, NetworkRests DEF N
      <4>2. u \in Seq(Nat) /\ <<0>> \in Seq(Nat)
        BY <4>1
      <4> QED BY <4>1, <4>2, ConcatEmptySeq
    <3> QED BY <3>1, <3>2 DEF Sections
  <2>2. Head(rest) = 0 /\ Tail(rest) = u
    BY <2>1, HeadAndTail
  <2>3. mem' = mem /\ ldr' = [ldr EXCEPT !.addr = 0, !.state = ToNext[ToStart[s]]]
    BY <1>1, <1>4, <2>2, StateNames DEF TakeAddress
  <2>4. /\ ldr' \in Loader /\ ldr'.state = ToNext[ToStart[s]]
        /\ ldr'.written <= ldr'.max_size /\ ldr'.addr \in Cells \cup {0}
    <3>1. ToNext[ToStart[s]] \in States
      BY StateNames DEF Sections, States
    <3> QED BY <1>3, <2>3, <3>1 DEF Loader
  <2>5. Loaded(net, d, mem')
    BY <2>3
  <2>6. AtEnd(net, d, ldr', rest') \/ AtStart(net, "BIASES", d, ldr', rest')
    <3>1. CASE s = "WEIGHTS"
      <4>1. InSection(net, "BIASES", d)
        BY <1>7, <3>1, NetworkRests DEF W
      <4> QED BY <1>1, <1>7, <2>2, <2>4, <3>1, <4>1, StateNames DEF AtStart
    <3>2. CASE s = "BIASES"
      BY <1>1, <1>7, <2>2, <2>4, <3>2, StateNames DEF AtEnd, N
    <3> QED BY <3>1, <3>2 DEF Sections
  <2>7. LoaderInv'
    <3>1. "BIASES" \in Sections
      BY DEF Sections
    <3>2. mem' \in [Cells -> Nat \cup {Touched}]
      BY <1>3, <2>3
    <3> QED BY <1>1, <2>4, <2>5, <2>6, <3>1, <3>2, GoesOnLoading
  <2>8. WritesWithin(net)
    BY <2>3 DEF WritesWithin
  <2> QED BY <2>7, <2>8
<1> QED BY <1>5, <1>6, <1>7

\* The number of words of an entry arrives.
LEMMA TakesLength ==
  ASSUME LoaderInv, ReceiveWord, NEW net \in Networks, network = net,
         NEW s \in Sections, NEW d \in 0 .. Len(Entries(net)), Loaded(net, d, mem),
         AtLength(net, s, d, ldr, rest), d + 1 \in 1 .. Len(Entries(net))
  PROVE  LoaderInv' /\ WritesWithin(net)
<1> DEFINE e == Entries(net)[d + 1]
           n == Len(e.words)
           t == e.words \o RestIn(net, s, d + 1)
<1>1. /\ TakeLength(Head(rest)) /\ rest' = Tail(rest) /\ network' = net
      /\ ldr.state = ToLength[ToStart[s]] /\ ldr.addr = e.addr
      /\ InSection(net, s, d) /\ InSection(net, s, d + 1) /\ rest = <<n>> \o t
  BY WayToTake DEF ReceiveWord, AtLength
<1>2. /\ e.words \in Seq(Nat) /\ n \in Nat /\ n > 0
  BY EntryIs
<1>3. t \in Seq(Nat)
  <2>1. RestIn(net, s, d + 1) \in Seq(Nat)
    <3>1. d + 1 \in 0 .. Len(Entries(net))
      <4> DEFINE N == Len(Entries(net))
      <4>1. d + 1 \in 1 .. N
        OBVIOUS
      <4> HIDE DEF N
      <4>2. d + 1 \in 0 .. N
        BY <4>1
      <4> QED BY <4>2 DEF N
    <3> QED BY <1>1, <3>1, NetworkRests
  <2> QED BY <1>2, <2>1, ConcatProperties
<1>4. ldr \in Loader /\ mem \in [Cells -> Nat \cup {Touched}] /\ ldr.addr \in Cells \cup {0}
  BY DEF LoaderInv
<1>5. t = SubSeq(e.words, 0 + 1, n) \o RestIn(net, s, d + 1)
  <2>1. SubSeq(e.words, 1, n) = e.words
    BY <1>2, SubSeqFull
  <2>2. 0 + 1 = 1
    OBVIOUS
  <2> QED BY <2>1, <2>2
<1> HIDE DEF t, n
<1>6. Head(rest) = n /\ Tail(rest) = t
  BY <1>1, <1>2, <1>3, HeadAndTail
<1>7. /\ ldr' = [ldr EXCEPT !.max_size = n, !.written = 0, !.state = s] /\ mem' = mem
  BY <1>1, <1>6, StateNames DEF TakeLength, Sections
<1>8. /\ ldr' \in Loader /\ ldr'.state = s /\ ldr'.addr = ldr.addr
      /\ ldr'.max_size = n /\ ldr'.written = 0
  <2>1. s \in States
    BY DEF Sections, States
  <2> QED BY <1>2, <1>4, <1>7, <2>1 DEF Loader
<1>9. AtWord(net, s, d, ldr', rest', mem')
  <2>1. \A i \in 1 .. 0 : FALSE
    OBVIOUS
  <2> QED BY <1>1, <1>2, <1>5, <1>6, <1>8, <2>1 DEF AtWord, n
<1>10. LoaderInv'
  <2>1. ldr'.written <= ldr'.max_size /\ ldr'.addr \in Cells \cup {0}
    BY <1>2, <1>4, <1>8
  <2>2. Loaded(net, d, mem') /\ mem' \in [Cells -> Nat \cup {Touched}]
    BY <1>4, <1>7
  <2> QED BY <1>1, <1>8, <1>9, <2>1, <2>2, GoesOnLoading
<1>11. WritesWithin(net)
  BY <1>7 DEF WritesWithin
<1> QED BY <1>10, <1>11

\* A word of an entry arrives, perhaps the last one.
LEMMA TakesWord ==
  ASSUME LoaderInv, ReceiveWord, NEW net \in Networks, network = net,
         NEW s \in Sections, NEW d \in 0 .. Len(Entries(net)), Loaded(net, d, mem),
         AtWord(net, s, d, ldr, rest, mem), d + 1 \in 1 .. Len(Entries(net))
  PROVE  LoaderInv' /\ WritesWithin(net)
<1> DEFINE N == Len(Entries(net))
           e == Entries(net)[d + 1]
           ws == e.words
           n == Len(ws)
           a == e.addr
           w == ldr.written
           after == RestIn(net, s, d + 1)
           t == SubSeq(ws, w + 1 + 1, n)
<1>1. /\ TakeWord(Head(rest)) /\ rest' = Tail(rest) /\ network' = net
      /\ ldr.state = s /\ ldr.addr = a /\ ldr.max_size = n /\ w < n
      /\ InSection(net, s, d) /\ InSection(net, s, d + 1)
      /\ rest = SubSeq(ws, w + 1, n) \o after
      /\ \A i \in 1 .. w : mem[a + i - 1] = ws[i]
  BY WayToTake DEF ReceiveWord, AtWord
<1>2. /\ ws \in Seq(Nat) /\ n \in Nat /\ a \in Cells /\ a \in Nat /\ e \in ToSet(Entries(net))
      /\ Targets(e) \subseteq Cells
      /\ \A i \in 1 .. n : ws[i] \in Nat /\ a + i - 1 \in Targets(e)
  BY EntryIs
<1>3. ldr \in Loader /\ mem \in [Cells -> Nat \cup {Touched}] /\ w \in Nat
  BY DEF LoaderInv, Loader
<1>4. d + 1 \in 0 .. N /\ d \in 0 .. N - 1 /\ N \in Nat
  <2>1. d \in 0 .. N /\ d + 1 \in 1 .. N /\ N \in Nat
    BY NetworkIs
  <2> HIDE DEF N
  <2> QED BY <2>1
<1>5. after \in Seq(Nat)
  BY <1>1, <1>4, NetworkRests
<1> HIDE DEF n, w, a
<1>6. w + 1 \in 1 .. n /\ n \in w + 1 .. n /\ w + 1 + 1 \in 1 .. n + 1 /\ w + 1 + 1 \in Int
  BY <1>1, <1>2, <1>3
<1>7. SubSeq(ws, w + 1, n) = <<ws[w + 1]>> \o t /\ t \in Seq(Nat)
  <2>1. SubSeq(ws, w + 1, n) = <<ws[w + 1]>> \o t
    BY <1>2, <1>6, SubSeqRecursiveFirst DEF n
  <2>2. t \in Seq(Nat)
    BY <1>2, <1>6, Suffix DEF n
  <2> QED BY <2>1, <2>2
<1> DEFINE v == ws[w + 1]
<1>8. v \in Nat /\ a + w \in Targets(e) /\ a + w \in Cells
  <2>1. a + (w + 1) - 1 = a + w
    BY <1>2, <1>3
  <2> QED BY <1>2, <1>6, <2>1
<1> HIDE DEF v, t, after
<1>9. Head(rest) = v /\ Tail(rest) = t \o after
  <2>1. <<v>> \in Seq(Nat) /\ t \o after \in Seq(Nat)
    BY <1>5, <1>7, <1>8, ConcatProperties
  <2>2. rest = (<<v>> \o t) \o after
    BY <1>1, <1>7 DEF v
  <2>3. (<<v>> \o t) \o after = <<v>> \o (t \o after)
    <3>1. t \in Seq(Nat)
      BY <1>7
    <3>2. <<v>> \in Seq(Nat)
      BY <2>1
    <3> DEFINE x == <<v>>
    <3> HIDE DEF x
    <3>3. x \in Seq(Nat)
      BY <3>2 DEF x
    <3>4. (x \o t) \o after = x \o (t \o after)
      BY <1>5, <3>1, <3>3, Regroup, Zenon
    <3> QED BY <3>4 DEF x
  <2>4. rest = <<v>> \o (t \o after)
    BY <2>2, <2>3, Zenon
  <2> QED BY <1>8, <2>1, <2>4, HeadAndTail
<1>10. /\ mem' = [mem EXCEPT ![a + w] = v]
       /\ ldr' = [ldr EXCEPT !.written = w + 1, !.state = IF w + 1 = n THEN ToStart[s] ELSE s]
  BY <1>1, <1>3, <1>9 DEF TakeWord, EntryEnds, w, Loader
<1>11. /\ ldr' \in Loader /\ ldr'.addr = a /\ ldr'.max_size = n /\ ldr'.written = w + 1
       /\ ldr'.state = IF w + 1 = n THEN ToStart[s] ELSE s
       /\ ldr'.written <= ldr'.max_size /\ ldr'.addr \in Cells \cup {0}
  <2>1. s \in States /\ ToStart[s] \in States
    BY StateNames DEF Sections, States
  <2>2. w + 1 \in Nat /\ w + 1 <= n
    BY <1>1, <1>2, <1>3
  <2> QED BY <1>1, <1>2, <1>3, <1>10, <2>1, <2>2 DEF Loader
<1>12. /\ mem' \in [Cells -> Nat \cup {Touched}] /\ mem'[a + w] = v
       /\ \A c \in Cells : c # a + w => mem'[c] = mem[c]
  BY <1>3, <1>8, <1>10
<1>13. \A c \in Cells : c \notin Targets(e) => mem'[c] = mem[c]
  BY <1>8, <1>12
<1>14. \A i \in 1 .. w + 1 : mem'[a + i - 1] = ws[i]
  <2> TAKE i \in 1 .. w + 1
  <2>1. CASE i = w + 1
    <3>1. a + i - 1 = a + w
      BY <1>2, <1>3, <2>1
    <3> QED BY <1>12, <2>1, <3>1 DEF v
  <2>2. CASE i # w + 1
    <3>1. i \in 1 .. w /\ i \in 1 .. n /\ a + i - 1 # a + w
      BY <1>1, <1>2, <1>3, <2>2
    <3>2. a + i - 1 \in Cells
      BY <1>2, <3>1
    <3> QED BY <1>1, <1>12, <3>1, <3>2
  <2> QED BY <2>1, <2>2
<1>15. WritesWithin(net)
  BY <1>2, <1>13 DEF WritesWithin
<1>16. CASE w + 1 = n
  <2>1. t \o after = after
    <3>1. t = <<>>
      <4>1. n \in Int /\ n < w + 1 + 1
        BY <1>2, <1>16
      <4> QED BY <1>6, <4>1, SubSeqEmpty DEF t
    <3> QED BY <1>5, <3>1, ConcatEmptySeq
  <2>2. AtStart(net, s, d + 1, ldr', rest')
    BY <1>1, <1>9, <1>11, <1>16, <2>1 DEF AtStart, after
  <2>3. Loaded(net, d + 1, mem')
    <3>1. \A i \in 1 .. Len(Entries(net)[d + 1].words) :
            mem'[Entries(net)[d + 1].addr + i - 1] = Entries(net)[d + 1].words[i]
      BY <1>14, <1>16 DEF n, a
    <3> QED BY <1>4, <1>13, <3>1, LoadedNext
  <2>4. LoaderInv'
    BY <1>1, <1>4, <1>11, <1>12, <2>2, <2>3, GoesOnLoading
  <2> QED BY <1>15, <2>4
<1>17. CASE w + 1 # n
  <2>1. w + 1 < n
    BY <1>1, <1>2, <1>3, <1>17
  <2>2. AtWord(net, s, d, ldr', rest', mem')
    <3>1. rest' = SubSeq(ws, ldr'.written + 1, Len(ws)) \o RestIn(net, s, d + 1)
      BY <1>1, <1>9, <1>11 DEF t, after, n
    <3>2. ldr'.state = s /\ ldr'.written < n
      BY <1>11, <1>17, <2>1
    <3> QED BY <1>1, <1>11, <1>14, <3>1, <3>2 DEF AtWord, n, a
  <2>3. Loaded(net, d, mem')
    BY <1>4, <1>13, LoadedKept
  <2>4. LoaderInv'
    BY <1>1, <1>11, <1>12, <2>2, <2>3, GoesOnLoading
  <2> QED BY <1>15, <2>4
<1> QED BY <1>16, <1>17

LEMMA NextIsEntry ==
  ASSUME NEW net \in Networks, NEW s \in Sections, NEW d \in 0 .. Len(Entries(net)),
         InSection(net, s, d + 1)
  PROVE  d + 1 \in 1 .. Len(Entries(net))
<1> DEFINE N == Len(Entries(net))
           W == Len(net.weights)
           B == Len(net.biases)
<1>1. W \in Nat /\ B \in Nat /\ N = W + B
  BY NetworkIs
<1>2. d \in 0 .. N /\ (d + 1 \in 0 .. W \/ d + 1 \in W .. W + B)
  BY DEF InSection
<1> HIDE DEF N, W, B
<1>3. d + 1 \in 1 .. N
  BY <1>1, <1>2
<1> QED BY <1>3 DEF N

LEMMA ReceivesWord ==
  ASSUME LoaderInv, ReceiveWord
  PROVE  LoaderInv' /\ WritesWithin(network)
<1> DEFINE net == network
<1>1. net \in Networks /\ rest # <<>>
  BY DEF LoaderInv, ReceiveWord
<1>2. PICK d : Arrived(net, d, ldr, rest, mem)
  BY <1>1, Ai8xAssumption DEF LoaderInv
<1>3. d \in 0 .. Len(Entries(net)) /\ Loaded(net, d, mem)
  BY <1>2 DEF Arrived
<1>4. PICK s \in Sections : \/ AtStart(net, s, d, ldr, rest)
                            \/ AtLength(net, s, d, ldr, rest)
                            \/ AtWord(net, s, d, ldr, rest, mem)
  BY <1>1, <1>2 DEF Arrived, AtEnd
<1> HIDE DEF net
<1>5. InSection(net, s, d + 1) => d + 1 \in 1 .. Len(Entries(net))
  BY <1>1, <1>3, NextIsEntry DEF net
<1>6. CASE AtStart(net, s, d, ldr, rest)
  BY <1>1, <1>3, <1>6, TakesStart DEF net
<1>7. CASE AtLength(net, s, d, ldr, rest)
  <2>1. d + 1 \in 1 .. Len(Entries(net))
    BY <1>5, <1>7 DEF AtLength
  <2> QED BY <1>1, <1>3, <1>7, <2>1, TakesLength DEF net
<1>8. CASE AtWord(net, s, d, ldr, rest, mem)
  <2>1. d + 1 \in 1 .. Len(Entries(net))
    BY <1>5, <1>8 DEF AtWord
  <2> QED BY <1>1, <1>3, <1>8, <2>1, TakesWord DEF net
<1> QED BY <1>4, <1>6, <1>7, <1>8 DEF net

-----------------------------------------------------------------------------
(* The other steps.                                                        *)

\* A MODEL starts the loader afresh, whatever state it was left in.
LEMMA BeginsModel ==
  ASSUME LoaderInv, NEW net \in Networks, BeginModel(net)
  PROVE  LoaderInv' /\ mem' = mem
<1>1. ldr' = Fresh /\ rest' = Payload(net) /\ network' = net /\ mem' = mem
  BY DEF BeginModel, ResetLoader
<1>2. /\ ldr' \in Loader /\ ldr'.state = "WEIGHTS_START"
      /\ ldr'.written <= ldr'.max_size /\ ldr'.addr \in Cells \cup {0}
  BY <1>1 DEF Fresh, Loader, States
<1>3. AtStart(net, "WEIGHTS", 0, ldr', rest')
  <2>1. Payload(net) = RestIn(net, "WEIGHTS", 0) /\ InSection(net, "WEIGHTS", 0)
    BY NetworkRests
  <2> QED BY <1>1, <1>2, <2>1, StateNames DEF AtStart
<1>4. Loaded(net, 0, mem')
  <2>1. \A k \in 1 .. 0 : FALSE
    OBVIOUS
  <2> QED BY <2>1 DEF Loaded
<1>5. 0 \in 0 .. Len(Entries(net))
  <2> DEFINE N == Len(Entries(net))
  <2>1. N \in Nat
    BY NetworkIs, LenProperties
  <2> HIDE DEF N
  <2>2. 0 \in 0 .. N
    BY <2>1
  <2> QED BY <2>2 DEF N
<1>6. mem' \in [Cells -> Nat \cup {Touched}] /\ "WEIGHTS" \in Sections
  BY <1>1 DEF LoaderInv, Sections
<1>7. \E s \in Sections : AtStart(net, s, 0, ldr', rest')
  BY <1>3, <1>6
<1>8. LoaderInv'
  BY <1>1, <1>2, <1>4, <1>5, <1>6, <1>7, GoesOnLoading
<1> QED BY <1>1, <1>8

LEMMA LosesRest ==
  ASSUME LoaderInv, LoseRest
  PROVE  LoaderInv' /\ mem' = mem
BY Ai8xAssumption DEF LoaderInv, LoseRest

\* The steps of an inference.
RunStep == StartCnn \/ Poll \/ Sleep \/ cnn_isr

RunInv == RunTypes /\ WaitsForOwn /\ FirstWaitMeansCompleted

LEMMA KeepsLoader ==
  ASSUME LoaderInv, UNCHANGED loader_vars
  PROVE  LoaderInv' /\ mem' = mem
BY DEF LoaderInv, loader_vars

LEMMA KeepsRun ==
  ASSUME RunInv, UNCHANGED run_vars
  PROVE  RunInv'
BY DEF RunInv, RunTypes, WaitsForOwn, FirstWaitMeansCompleted, WaitMeansCompleted, run_vars

LEMMA RunsOn ==
  ASSUME RunInv, RunStep
  PROVE  RunInv' /\ UNCHANGED loader_vars
<1> DEFINE Limit == CONFIG_KENNING_AI8X_CNN_TIMEOUT_MS
<1>1. /\ pc \in {"idle", "wait", "sleep"} /\ time \in 0 .. Limit /\ Limit \in Nat
      /\ wait_status \in {"OK", "FAIL"} /\ clock \in {"slow", "fast"}
      /\ accelerator \in {"idle", "running", "finished"}
      /\ cnn_done \in BOOLEAN /\ stale \in BOOLEAN
      /\ (~stale /\ pc # "idle" /\ cnn_done => accelerator # "running")
      /\ (~stale /\ pc = "idle" /\ wait_status = "OK" => accelerator # "running")
  BY Ai8xAssumption DEF RunInv, RunTypes, WaitsForOwn, FirstWaitMeansCompleted, WaitMeansCompleted
<1>2. CASE StartCnn
  BY <1>1, <1>2 DEF StartCnn, RunInv, RunTypes, WaitsForOwn, FirstWaitMeansCompleted, WaitMeansCompleted
<1>3. CASE Poll
  BY <1>1, <1>3 DEF Poll, Return, RunInv, RunTypes, WaitsForOwn, FirstWaitMeansCompleted, WaitMeansCompleted, loader_vars
<1>4. CASE Sleep
  BY <1>1, <1>4 DEF Sleep, Return, TimedOut, NextTime, TimeoutStatus,
    RunInv, RunTypes, WaitsForOwn, FirstWaitMeansCompleted, WaitMeansCompleted, loader_vars
<1>5. CASE cnn_isr
  BY <1>1, <1>5 DEF cnn_isr, RunInv, RunTypes, WaitsForOwn, FirstWaitMeansCompleted, WaitMeansCompleted, loader_vars
<1> QED BY <1>2, <1>3, <1>4, <1>5 DEF RunStep

LEMMA Ai8xInit ==
  ASSUME Init
  PROVE  Ai8xInv
<1>1. LoaderInv
  BY Ai8xAssumption DEF Init, LoaderInv, Fresh, Loader, States
<1>2. RunTypes /\ WaitsForOwn /\ FirstWaitMeansCompleted
  <2>1. RunTypes
    <3>1. cnn_done \in BOOLEAN /\ stale \in BOOLEAN
      BY Zenon DEF Init
    <3> QED BY <3>1, Ai8xAssumption DEF Init, RunTypes
  <2>2. accelerator = "idle"
    BY DEF Init
  <2> QED BY <2>1, <2>2 DEF WaitsForOwn, FirstWaitMeansCompleted, WaitMeansCompleted
<1> QED BY <1>1, <1>2 DEF Ai8xInv

LEMMA Ai8xStep ==
  ASSUME Ai8xInv, [Next]_vars
  PROVE  Ai8xInv' /\ (WritesWithin(network) \/ mem' = mem)
<1>1. LoaderInv /\ RunInv
  BY DEF Ai8xInv, RunInv
<1>2. LoaderInv' /\ RunInv' /\ (WritesWithin(network) \/ mem' = mem)
  <2>1. ASSUME NEW net \in Networks, BeginModel(net)
        PROVE  LoaderInv' /\ RunInv' /\ (WritesWithin(network) \/ mem' = mem)
    <3>1. UNCHANGED run_vars
      BY <2>1 DEF BeginModel
    <3> QED BY <1>1, <2>1, <3>1, BeginsModel, KeepsRun
  <2>2. CASE ReceiveWord
    <3>1. UNCHANGED run_vars
      BY <2>2 DEF ReceiveWord
    <3> QED BY <1>1, <2>2, <3>1, ReceivesWord, KeepsRun
  <2>3. CASE LoseRest
    <3>1. UNCHANGED run_vars
      BY <2>3 DEF LoseRest
    <3> QED BY <1>1, <2>3, <3>1, LosesRest, KeepsRun
  <2>4. CASE RunStep
    BY <1>1, <2>4, RunsOn, KeepsLoader
  <2>5. CASE UNCHANGED vars
    <3>1. UNCHANGED loader_vars /\ UNCHANGED run_vars
      BY <2>5 DEF vars
    <3> QED BY <1>1, <3>1, KeepsLoader, KeepsRun
  <2> QED BY <2>1, <2>2, <2>3, <2>4, <2>5 DEF Next, RunStep
<1> QED BY <1>2 DEF Ai8xInv, RunInv

-----------------------------------------------------------------------------
(* What holds of the AI8X runtime.                                         *)

\* In every state of the loader (buf_save_one_cnn) and of the wait, what is
\* still to come of a MODEL is what the loader's state makes of it, and what
\* has come is in the accelerator's memory.
THEOREM Ai8xInvariant == Spec => []Ai8xInv
<1>1. Init => Ai8xInv
  BY Ai8xInit
<1>2. Ai8xInv /\ [Next]_vars => Ai8xInv'
  BY Ai8xStep
<1> QED BY <1>1, <1>2, PTL DEF Spec

\* The loader never counts more words than the entry has, its address is a
\* word of the memory, and a wait never lasts longer than the timeout
\* (cnn_wait).
THEOREM Ai8xTypeCorrect == Spec => []TypeOK
<1>1. Ai8xInv => TypeOK
  <2> SUFFICES ASSUME Ai8xInv PROVE TypeOK
    OBVIOUS
  <2>1. /\ ldr \in Loader /\ mem \in [Cells -> Nat \cup {Touched}]
        /\ ldr.written <= ldr.max_size /\ ldr.addr \in Cells \cup {0}
        /\ network \in Networks \cup {None} /\ RunTypes
    BY DEF Ai8xInv, LoaderInv
  <2>2. DOMAIN ToLength \cup DOMAIN ToContent \cup DOMAIN ToStart \cup {"END"} = States
    BY StateNames DEF States
  <2>3. ldr.state \in States /\ ldr.written \in 0 .. ldr.max_size
    BY <2>1 DEF Loader
  <2> QED BY <2>1, <2>2, <2>3 DEF TypeOK, RunTypes
<1> QED BY <1>1, Ai8xInvariant, PTL

\* A MODEL that arrived to its end is in the accelerator's memory word for
\* word, whatever had been loaded, or broken off, before it
\* (loader_save_model, buf_save_one_cnn).
THEOREM LoadsWhatArrived == Spec => []LoadsNetwork
<1>1. Ai8xInv => LoadsNetwork
  <2> SUFFICES ASSUME Ai8xInv, network # None, rest = <<>>
               PROVE  LoadsNetwork
    BY DEF LoadsNetwork
  <2>1. network \in Networks
    BY DEF Ai8xInv, LoaderInv
  <2>2. PICK d : Arrived(network, d, ldr, rest, mem)
    BY DEF Ai8xInv, LoaderInv
  <2>3. Loaded(network, d, mem) /\ d \in 0 .. Len(Entries(network))
    BY <2>2 DEF Arrived
  <2>4. AtEnd(network, d, ldr, rest)
    <3>1. ASSUME NEW s \in Sections,
                 \/ AtStart(network, s, d, ldr, rest)
                 \/ AtLength(network, s, d, ldr, rest)
                 \/ AtWord(network, s, d, ldr, rest, mem)
          PROVE  FALSE
      <4>1. ldr \in Loader
        BY DEF Ai8xInv, LoaderInv
      <4>2. AtLength(network, s, d, ldr, rest) \/ AtWord(network, s, d, ldr, rest, mem)
              => InSection(network, s, d + 1)
        BY DEF AtLength, AtWord
      <4>3. InSection(network, s, d + 1) => d + 1 \in 1 .. Len(Entries(network))
        BY <2>1, <2>3, NextIsEntry
      <4>4. rest # <<>>
        BY <2>1, <2>3, <3>1, <4>1, <4>2, <4>3, MoreToCome
      <4> QED BY <4>4
    <3> QED BY <2>2, <3>1 DEF Arrived
  <2>5. d = Len(Entries(network))
    BY <2>4 DEF AtEnd
  <2>6. DOMAIN Entries(network) = 1 .. Len(Entries(network))
    BY <2>1, NetworkIs
  <2> QED BY <2>3, <2>5, <2>6 DEF LoadsNetwork, Loaded
<1> QED BY <1>1, Ai8xInvariant, PTL

\* Whatever arrives, the loader writes no word of the accelerator's memory but
\* those that entries of the MODEL name (buf_save_one_cnn).
THEOREM WritesOnlyTargets == Spec => WritesTargetsOnly
<1>1. Ai8xInv /\ [Next]_vars =>
        [\A c \in Cells : mem'[c] # mem[c] =>
           \E e \in ToSet(Entries(network)) : c \in Targets(e)]_vars
  BY Ai8xStep DEF WritesWithin
<1> QED BY <1>1, Ai8xInvariant, PTL DEF Spec, WritesTargetsOnly

\* A wait that found cnn_done clear reports success only when the accelerator
\* has completed (cnn_wait, cnn_isr).
THEOREM FirstWaitCompletes == Spec => []FirstWaitMeansCompleted
<1>1. Ai8xInv => FirstWaitMeansCompleted
  BY DEF Ai8xInv
<1> QED BY <1>1, Ai8xInvariant, PTL
=============================================================================
