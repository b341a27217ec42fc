---------------------------- MODULE SequenceLemmas ---------------------------
(***************************************************************************)
(* Facts about numbers and sequences that the proofs about the protocol    *)
(* and the loaders rest on.                                                *)
(*                                                                         *)
(* What holds of sequences of any length is proved by the least length for *)
(* which it would fail (LeastNumber): it cannot be the shortest one, and   *)
(* the fact holds of the length before it.                                 *)
(***************************************************************************)
EXTENDS Integers, SequencesExt, SequenceTheorems, WellFoundedInduction, TLAPS

-----------------------------------------------------------------------------
(* Induction.                                                              *)

LEMMA LeastNumber ==
  ASSUME NEW S \in SUBSET Nat, S # {}
  PROVE  \E x \in S : \A y \in S : x <= y
<1> DEFINE R == OpToRel(<, Nat)
<1>1. IsWellFoundedOn(R, Nat)
  BY NatLessThanWellFounded
<1>2. \A x, y \in Nat : <<x, y>> \in R <=> x < y
  BY DEF OpToRel
<1> HIDE DEF R
<1>3. \E x \in S : \A y \in S : ~(<<y, x>> \in R)
  BY <1>1, WFMin
<1>4. PICK x \in S : \A y \in S : ~(<<y, x>> \in R)
  BY <1>3
<1>5. \A y \in S : x <= y
  <2> TAKE y \in S
  <2>1. x \in Nat /\ y \in Nat /\ ~(y < x)
    BY <1>2, <1>4
  <2> QED BY <2>1
<1> QED BY <1>5

\* What holds of 1, and of each number up to N with the number before it,
\* holds of all numbers up to N.  (P is the set of those it holds of.)
LEMMA UpTo ==
  ASSUME NEW N \in Nat, NEW P, N > 0 => 1 \in P,
         \A j \in 2 .. N : j - 1 \in P => j \in P
  PROVE  \A j \in 1 .. N : j \in P
<1> SUFFICES ASSUME \E j \in 1 .. N : j \notin P
             PROVE  FALSE
  OBVIOUS
<1> DEFINE Bad == {j \in 1 .. N : j \notin P}
<1>1. Bad \in SUBSET Nat /\ Bad # {}
  OBVIOUS
<1>2. \E x \in Bad : \A y \in Bad : x <= y
  <2> HIDE DEF Bad
  <2> QED BY <1>1, LeastNumber
<1>3. PICK x \in Bad : \A y \in Bad : x <= y
  BY <1>2
<1>4. x \in 2 .. N /\ x - 1 \in 1 .. N
  <2>1. x \in 1 .. N /\ x \notin P
    OBVIOUS
  <2>2. x # 1
    BY <2>1
  <2> QED BY <2>1, <2>2
<1>5. x - 1 \in P
  <2>1. x - 1 \notin Bad
    BY <1>3, <1>4
  <2> QED BY <1>4, <2>1
<1> QED BY <1>4, <1>5

-----------------------------------------------------------------------------
(* Concatenation and parts of sequences.                                   *)

\* FlattenSeq is the concatenation of its argument's elements.
LEMMA FlattenExists ==
  ASSUME NEW parts, Len(parts) \in Nat
  PROVE  \A N \in 1 .. Len(parts) :
           \E f : f = [i \in 1 .. N |-> IF i = 1 THEN parts[i] ELSE f[i - 1] \o parts[i]]
<1> DEFINE Rec(f, N) == f = [i \in 1 .. N |-> IF i = 1 THEN parts[i] ELSE f[i - 1] \o parts[i]]
           P == {N \in Nat : \E f : Rec(f, N)}
<1>1. 1 \in P
  <2>1. Rec([i \in 1 .. 1 |-> parts[1]], 1)
    OBVIOUS
  <2> QED BY <2>1
<1>2. ASSUME NEW N \in 2 .. Len(parts), N - 1 \in P
      PROVE  N \in P
  <2>1. PICK f : Rec(f, N - 1)
    BY <1>2
  <2> DEFINE g == [i \in 1 .. N |-> IF i = N THEN f[N - 1] \o parts[N] ELSE f[i]]
  <2>2. \A i \in 1 .. N - 1 : f[i] = IF i = 1 THEN parts[i] ELSE f[i - 1] \o parts[i]
    BY <2>1
  <2>3. \A i \in 1 .. N : g[i] = IF i = 1 THEN parts[i] ELSE g[i - 1] \o parts[i]
    BY <2>2
  <2>4. Rec(g, N)
    BY <2>3
  <2>5. N \in Nat
    OBVIOUS
  <2> HIDE DEF g, Rec
  <2> QED BY <2>4, <2>5
<1> HIDE DEF P
<1>3. \A N \in 1 .. Len(parts) : N \in P
  BY <1>1, <1>2, UpTo
<1> QED BY <1>3 DEF P

LEMMA Concatenation ==
  ASSUME NEW S, NEW a \in Seq(S), NEW b \in Seq(S), NEW c, c = a \o b
  PROVE  /\ c \in Seq(S)
         /\ Len(a) \in Nat /\ Len(b) \in Nat /\ Len(c) = Len(a) + Len(b)
         /\ \A q \in 1 .. Len(a) : c[q] = a[q]
         /\ \A q \in 1 .. Len(b) : c[Len(a) + q] = b[q]
<1>1. Len(a) \in Nat /\ Len(b) \in Nat
  BY LenProperties
<1> QED BY <1>1, ConcatProperties

\* Grouping does not matter.
LEMMA Regrouped ==
  ASSUME NEW S
  PROVE  \A a, b, c \in Seq(S) : (a \o b) \o c = a \o (b \o c)
<1> SUFFICES ASSUME NEW a \in Seq(S), NEW b \in Seq(S), NEW c \in Seq(S)
             PROVE  (a \o b) \o c = a \o (b \o c)
  OBVIOUS
<1> QED BY ConcatAssociative

LEMMA JoinedIn ==
  ASSUME NEW S
  PROVE  \A a, b \in Seq(S) : a \o b \in Seq(S)
<1> SUFFICES ASSUME NEW a \in Seq(S), NEW b \in Seq(S) PROVE a \o b \in Seq(S)
  OBVIOUS
<1> QED BY ConcatProperties

LEMMA Appended ==
  ASSUME NEW S, NEW a \in Seq(S), NEW e \in S, NEW b, b = Append(a, e)
  PROVE  /\ b \in Seq(S) /\ Len(a) \in Nat /\ Len(b) = Len(a) + 1
         /\ \A i \in 1 .. Len(a) : b[i] = a[i]
         /\ b[Len(a) + 1] = e
<1>1. Len(a) \in Nat
  BY LenProperties
<1> QED BY <1>1, AppendProperties

\* Where the elements of its argument's elements are found in it, given the
\* offsets at which these begin.
LEMMA FlattenLayout ==
  ASSUME NEW S, NEW parts \in Seq(Seq(S)), parts # <<>>,
         NEW off \in [1 .. Len(parts) + 1 -> Nat], off[1] = 0,
         \A j \in 1 .. Len(parts) : off[j + 1] = off[j] + Len(parts[j])
  PROVE  /\ FlattenSeq(parts) \in Seq(S)
         /\ Len(FlattenSeq(parts)) = off[Len(parts) + 1]
         /\ \A j \in 1 .. Len(parts) : \A k \in 1 .. Len(parts[j]) :
              FlattenSeq(parts)[off[j] + k] = parts[j][k]
<1> DEFINE N == Len(parts)
           Rec(f) == f = [i \in 1 .. N |-> IF i = 1 THEN parts[i] ELSE f[i - 1] \o parts[i]]
           flat == CHOOSE f : Rec(f)
<1>1. N \in Nat /\ N >= 1
  BY LenProperties, EmptySeq
<1>2. FlattenSeq(parts) = flat[N]
  BY <1>1 DEF FlattenSeq
<1>3. Rec(flat)
  <2>1. \E f : Rec(f)
    <3>1. N \in 1 .. Len(parts) /\ Len(parts) \in Nat
      BY <1>1
    <3> QED BY <3>1, FlattenExists
  <2> HIDE DEF Rec
  <2> QED BY <2>1
<1> HIDE DEF flat
<1>4. \A i \in 1 .. N : flat[i] = IF i = 1 THEN parts[i] ELSE flat[i - 1] \o parts[i]
  BY <1>3
<1> DEFINE Holds(i) == /\ flat[i] \in Seq(S) /\ Len(flat[i]) = off[i + 1]
                       /\ \A j \in 1 .. i : \A k \in 1 .. Len(parts[j]) :
                            off[j] + k <= off[i + 1] /\ flat[i][off[j] + k] = parts[j][k]
           P == {i \in 1 .. N : Holds(i)}
<1>5. ASSUME NEW i \in 1 .. N
      PROVE  /\ parts[i] \in Seq(S) /\ Len(parts[i]) \in Nat
             /\ off[i] \in Nat /\ off[i + 1] = off[i] + Len(parts[i])
  <2>1. parts[i] \in Seq(S)
    BY ElementOfSeq
  <2>2. Len(parts[i]) \in Nat
    BY <2>1, LenProperties
  <2>3. i \in 1 .. N + 1
    BY <1>1
  <2> QED BY <2>1, <2>2, <2>3
<1>6. 1 \in P
  <2>1. 1 \in 1 .. N
    BY <1>1
  <2>2. flat[1] = parts[1] /\ off[1 + 1] = Len(parts[1])
    BY <1>4, <1>5, <2>1
  <2>3. Holds(1)
    BY <1>5, <2>1, <2>2
  <2> HIDE DEF Holds
  <2> QED BY <2>1, <2>3
<1>7. ASSUME NEW i \in 2 .. N, i - 1 \in P
      PROVE  i \in P
  <2>1. i \in Nat /\ i >= 2 /\ i - 1 \in 1 .. N /\ i \in 1 .. N /\ i - 1 + 1 = i
    BY <1>1
  <2>2. Holds(i - 1)
    <3> HIDE DEF Holds
    <3> QED BY <1>7
  <2>3. /\ flat[i - 1] \in Seq(S) /\ Len(flat[i - 1]) = off[i]
        /\ \A j \in 1 .. i - 1 : \A k \in 1 .. Len(parts[j]) :
             off[j] + k <= off[i] /\ flat[i - 1][off[j] + k] = parts[j][k]
    BY <2>1, <2>2
  <2> HIDE DEF Holds, P
  <2>4. flat[i] = flat[i - 1] \o parts[i]
    <3>1. i # 1
      BY <2>1
    <3> QED BY <1>4, <2>1, <3>1
  <2>5. /\ parts[i] \in Seq(S) /\ Len(parts[i]) \in Nat
        /\ off[i] \in Nat /\ off[i + 1] = off[i] + Len(parts[i])
    BY <1>5, <2>1
  <2>6. /\ flat[i] \in Seq(S) /\ Len(flat[i]) = off[i + 1]
        /\ \A q \in 1 .. off[i] : flat[i][q] = flat[i - 1][q]
        /\ \A k \in 1 .. Len(parts[i]) : flat[i][off[i] + k] = parts[i][k]
    <3> DEFINE a == flat[i - 1]
               b == parts[i]
               c == flat[i]
    <3>1. a \in Seq(S)
      BY <2>3
    <3>2. b \in Seq(S)
      BY <2>5
    <3>3. c = a \o b
      BY <2>4
    <3> HIDE DEF a, b, c
    <3>4. /\ c \in Seq(S) /\ Len(c) = Len(a) + Len(b)
          /\ \A q \in 1 .. Len(a) : c[q] = a[q]
          /\ \A q \in 1 .. Len(b) : c[Len(a) + q] = b[q]
      BY <3>1, <3>2, <3>3, Concatenation
    <3> QED BY <2>3, <2>5, <3>4 DEF a, b, c
  <2>7. ASSUME NEW j \in 1 .. i, NEW k \in 1 .. Len(parts[j])
        PROVE  off[j] + k <= off[i + 1] /\ flat[i][off[j] + k] = parts[j][k]
    <3>0. k \in Nat /\ j \in Nat
      BY <2>1, <2>5
    <3>1. CASE j = i
      BY <2>5, <2>6, <3>0, <3>1
    <3>2. CASE j # i
      <4>1. j \in 1 .. i - 1 /\ j \in 1 .. N
        BY <2>1, <3>2
      <4>2. off[j] \in Nat /\ Len(parts[j]) \in Nat
        BY <1>5, <4>1
      <4>3. off[j] + k <= off[i] /\ flat[i - 1][off[j] + k] = parts[j][k]
        BY <2>3, <4>1
      <4>4. off[j] + k \in 1 .. off[i]
        <5>1. ASSUME NEW x \in Nat, NEW y \in Nat, NEW z \in Nat, z >= 1, x + z <= y
              PROVE  x + z \in 1 .. y
          BY <5>1
        <5>2. off[j] \in Nat /\ off[i] \in Nat /\ k \in Nat /\ k >= 1
          BY <2>5, <3>0, <4>2
        <5> QED BY <4>3, <5>1, <5>2
      <4>5. flat[i][off[j] + k] = flat[i - 1][off[j] + k]
        BY <2>6, <4>4
      <4>6. off[j] + k <= off[i + 1]
        <5> DEFINE x == off[j] + k
        <5>1. off[i] \in Nat /\ off[i + 1] \in Nat /\ off[i] <= off[i + 1]
          BY <2>5
        <5>2. x \in 1 .. off[i]
          BY <4>4
        <5> HIDE DEF x
        <5>3. x <= off[i + 1]
          BY <5>1, <5>2
        <5> QED BY <5>3 DEF x
      <4> QED BY <4>3, <4>5, <4>6
    <3> QED BY <3>1, <3>2
  <2>8. Holds(i)
    BY <2>6, <2>7 DEF Holds
  <2> QED BY <2>1, <2>8 DEF P
<1> HIDE DEF P, Holds
<1>8. \A i \in 1 .. N : i \in P
  BY <1>1, <1>6, <1>7, UpTo
<1>9. Holds(N)
  BY <1>1, <1>8 DEF P
<1> QED BY <1>2, <1>9 DEF Holds

LEMMA Suffix ==
  ASSUME NEW S, NEW a \in Seq(S), NEW p \in 1 .. Len(a) + 1, NEW w, w = SubSeq(a, p, Len(a))
  PROVE  /\ w \in Seq(S) /\ Len(w) = Len(a) - p + 1
         /\ \A i \in 1 .. Len(w) : w[i] = a[p + i - 1]
         /\ \A j \in 0 .. Len(w) : SubSeq(w, j + 1, Len(w)) = SubSeq(a, p + j, Len(a))
<1>1. Len(a) \in Nat /\ p \in Int /\ Len(a) \in Int /\ \A i \in p .. Len(a) : a[i] \in S
  <2>1. Len(a) \in Nat
    BY LenProperties
  <2>2. \A i \in p .. Len(a) : i \in 1 .. Len(a)
    BY <2>1
  <2>3. \A i \in 1 .. Len(a) : a[i] \in S
    BY ElementOfSeq
  <2> QED BY <2>1, <2>2, <2>3
<1>2. /\ w \in Seq(S) /\ Len(w) = IF p <= Len(a) THEN Len(a) - p + 1 ELSE 0
      /\ \A i \in 1 .. Len(a) - p + 1 : w[i] = a[p + i - 1]
  BY <1>1, SubSeqProperties
<1>3. Len(w) = Len(a) - p + 1
  BY <1>1, <1>2
<1>4. ASSUME NEW j \in 0 .. Len(w)
      PROVE  SubSeq(w, j + 1, Len(w)) = SubSeq(a, p + j, Len(a))
  <2> DEFINE u == SubSeq(w, j + 1, Len(w))
             v == SubSeq(a, p + j, Len(a))
  <2>1. j \in Nat /\ p \in Nat /\ Len(w) \in Nat /\ p + j \in 1 .. Len(a) + 1
    BY <1>1, <1>3
  <2>2. /\ u \in Seq(S) /\ Len(u) = IF j + 1 <= Len(w) THEN Len(w) - (j + 1) + 1 ELSE 0
        /\ \A i \in 1 .. Len(w) - (j + 1) + 1 : u[i] = w[j + 1 + i - 1]
    <3>1. \A i \in j + 1 .. Len(w) : w[i] \in S
      <4>1. \A i \in 1 .. Len(w) : w[i] \in S
        BY <1>2, ElementOfSeq
      <4> QED BY <2>1, <4>1
    <3>2. j + 1 \in Int /\ Len(w) \in Int
      BY <2>1
    <3> QED BY <3>1, <3>2, SubSeqProperties
  <2>3. /\ v \in Seq(S) /\ Len(v) = IF p + j <= Len(a) THEN Len(a) - (p + j) + 1 ELSE 0
        /\ \A i \in 1 .. Len(a) - (p + j) + 1 : v[i] = a[p + j + i - 1]
    <3>1. \A i \in p + j .. Len(a) : a[i] \in S
      BY <1>1, <2>1
    <3>2. p + j \in Int /\ Len(a) \in Int
      BY <1>1, <2>1
    <3> QED BY <3>1, <3>2, SubSeqProperties
  <2>4. Len(u) = Len(v) /\ Len(u) = Len(w) - j
    BY <1>1, <1>3, <2>1, <2>2, <2>3
  <2>5. ASSUME NEW i \in 1 .. Len(u)
        PROVE  u[i] = v[i]
    <3>1. i \in 1 .. Len(w) - (j + 1) + 1 /\ i \in 1 .. Len(a) - (p + j) + 1
      BY <1>1, <1>3, <2>1, <2>4
    <3>2. j + i \in 1 .. Len(a) - p + 1
      BY <1>1, <1>3, <2>1, <3>1
    <3>3. j + 1 + i - 1 = j + i /\ p + (j + i) - 1 = p + j + i - 1
      BY <2>1
    <3>4. u[i] = w[j + i]
      BY <2>2, <3>1, <3>3
    <3>5. w[j + i] = a[p + (j + i) - 1]
      BY <1>2, <3>2
    <3>6. v[i] = a[p + j + i - 1]
      BY <2>3, <3>1
    <3> HIDE DEF u, v
    <3> QED BY <3>3, <3>4, <3>5, <3>6
  <2>6. u \in Seq(S)
    BY <2>2
  <2>7. v \in Seq(S)
    BY <2>3
  <2> HIDE DEF u, v
  <2>8. u = v
    BY <2>4, <2>5, <2>6, <2>7, SeqEqual
  <2> QED BY <2>8 DEF u, v
<1>5. \A i \in 1 .. Len(w) : w[i] = a[p + i - 1]
  BY <1>2, <1>3
<1> QED BY <1>2, <1>3, <1>4, <1>5

LEMMA Slice ==
  ASSUME NEW S, NEW a \in Seq(S), NEW c \in Nat, NEW t \in Nat, c + t <= Len(a),
         NEW u, u = SubSeq(a, c + 1, c + t)
  PROVE  u \in Seq(S) /\ Len(u) = t /\ \A i \in 1 .. t : u[i] = a[c + i]
<1>1. Len(a) \in Nat /\ c + 1 \in Int /\ c + t \in Int
  BY LenProperties
<1>2. \A i \in c + 1 .. c + t : a[i] \in S
  <2>1. \A i \in c + 1 .. c + t : i \in 1 .. Len(a)
    BY <1>1
  <2>2. \A i \in 1 .. Len(a) : a[i] \in S
    BY ElementOfSeq
  <2> QED BY <2>1, <2>2
<1>3. /\ u \in Seq(S) /\ Len(u) = IF c + 1 <= c + t THEN c + t - (c + 1) + 1 ELSE 0
      /\ \A i \in 1 .. c + t - (c + 1) + 1 : u[i] = a[c + 1 + i - 1]
  <2> DEFINE x == c + 1
             y == c + t
  <2>1. x \in Int /\ y \in Int /\ \A i \in x .. y : a[i] \in S
    BY <1>1, <1>2
  <2>2. u = SubSeq(a, x, y)
    OBVIOUS
  <2> HIDE DEF x, y
  <2>3. /\ u \in Seq(S) /\ Len(u) = IF x <= y THEN y - x + 1 ELSE 0
        /\ \A i \in 1 .. y - x + 1 : u[i] = a[x + i - 1]
    BY <2>1, <2>2, SubSeqProperties
  <2> QED BY <2>3 DEF x, y
<1>4. c + t - (c + 1) + 1 = t /\ (c + 1 <= c + t <=> 1 <= t)
  OBVIOUS
<1>5. ASSUME NEW i \in 1 .. t
      PROVE  u[i] = a[c + i]
  <2>1. c + 1 + i - 1 = c + i
    OBVIOUS
  <2> QED BY <1>3, <1>4, <2>1
<1>6. Len(u) = t
  BY <1>3, <1>4
<1> QED BY <1>3, <1>5, <1>6

LEMMA HeadAndTail ==
  ASSUME NEW S, NEW x \in S, NEW s \in Seq(S), NEW c, c = <<x>> \o s
  PROVE  c \in Seq(S) /\ c # <<>> /\ Head(c) = x /\ Tail(c) = s
<1>1. <<x>> \in Seq(S) /\ Len(<<x>>) = 1 /\ <<x>>[1] = x
  OBVIOUS
<1>2. /\ c \in Seq(S) /\ Len(s) \in Nat /\ Len(c) = Len(s) + 1
      /\ c[1] = x /\ \A q \in 1 .. Len(s) : c[1 + q] = s[q]
  <2> DEFINE a == <<x>>
  <2>1. a \in Seq(S) /\ Len(a) = 1 /\ a[1] = x /\ c = a \o s
    BY <1>1
  <2> HIDE DEF a
  <2>2. /\ c \in Seq(S) /\ Len(s) \in Nat /\ Len(c) = Len(a) + Len(s)
        /\ \A q \in 1 .. Len(a) : c[q] = a[q]
        /\ \A q \in 1 .. Len(s) : c[Len(a) + q] = s[q]
    BY <2>1, Concatenation
  <2>3. 1 \in 1 .. Len(a)
    BY <2>1
  <2> QED BY <2>1, <2>2, <2>3
<1>3. c # <<>>
  BY <1>2, EmptySeq
<1>4. Head(c) = x
  BY <1>2, <1>3
<1>5. Tail(c) = s
  <2> DEFINE t == Tail(c)
  <2>1. t \in Seq(S) /\ Len(t) = Len(s) /\ t = SubSeq(c, 2, Len(c))
    BY <1>2, <1>3, HeadTailProperties, TailIsSubSeq
  <2>2. \A i \in 1 .. Len(t) : t[i] = s[i]
    <3>1. 2 \in 1 .. Len(c) + 1
      BY <1>2
    <3>2. \A i \in 1 .. Len(t) : t[i] = c[2 + i - 1]
      BY <1>2, <2>1, <3>1, Suffix
    <3>3. ASSUME NEW i \in 1 .. Len(t)
          PROVE  t[i] = s[i]
      <4>1. i \in 1 .. Len(s) /\ 2 + i - 1 = 1 + i
        BY <1>2, <2>1
      <4> QED BY <1>2, <3>2, <4>1
    <3> QED BY <3>3
  <2> HIDE DEF t
  <2>3. t = s
    BY <2>1, <2>2, SeqEqual
  <2> QED BY <2>3 DEF t
<1> QED BY <1>2, <1>3, <1>4, <1>5

\* What is left of a concatenation when the first of its parts were taken.
LEMMA FlattenSuffixes ==
  ASSUME NEW S, NEW parts \in Seq(Seq(S))
  PROVE  \E r \in [1 .. Len(parts) + 1 -> Seq(S)] :
           /\ r[1] = FlattenSeq(parts) /\ r[Len(parts) + 1] = <<>>
           /\ \A k \in 1 .. Len(parts) : r[k] = parts[k] \o r[k + 1]
<1> DEFINE N == Len(parts)
           Rec(f) == f = [i \in 1 .. N |-> IF i = 1 THEN parts[i] ELSE f[i - 1] \o parts[i]]
           flat == CHOOSE f : Rec(f)
           Rests(i, r) ==
             /\ r \in [1 .. i + 1 -> Seq(S)] /\ r[1] = flat[i] /\ r[i + 1] = <<>>
             /\ \A k \in 1 .. i : r[k] = parts[k] \o r[k + 1]
           P == {i \in 1 .. N : \E r : Rests(i, r)}
<1>0. \A a, b, c \in Seq(S) : (a \o b) \o c = a \o (b \o c)
  BY Regrouped
<1>1. N \in Nat /\ \A i \in 1 .. N : parts[i] \in Seq(S)
  BY LenProperties, ElementOfSeq
<1>2. <<>> \in Seq(S)
  BY EmptySeq
<1>3. CASE N = 0
  <2>1. parts = <<>>
    BY <1>3, EmptySeq
  <2>2. FlattenSeq(parts) = <<>>
    BY <1>3, <2>1 DEF FlattenSeq
  <2> DEFINE r == [k \in 1 .. 0 + 1 |-> <<>>]
  <2>3. r \in [1 .. Len(parts) + 1 -> Seq(S)] /\ r[1] = <<>> /\ r[Len(parts) + 1] = <<>>
    BY <1>2, <1>3
  <2>4. \A k \in 1 .. Len(parts) : r[k] = parts[k] \o r[k + 1]
    BY <1>3
  <2> HIDE DEF r
  <2> QED BY <2>2, <2>3, <2>4
<1>4. CASE N >= 1
  <2>1. FlattenSeq(parts) = flat[N]
    BY <1>1, <1>4 DEF FlattenSeq
  <2>2. Rec(flat)
    <3>1. \E f : Rec(f)
      <4>1. N \in 1 .. Len(parts) /\ Len(parts) \in Nat
        BY <1>1, <1>4
      <4> QED BY <4>1, FlattenExists
    <3> HIDE DEF Rec
    <3> QED BY <3>1
  <2> HIDE DEF flat
  <2>3. \A i \in 1 .. N : flat[i] = IF i = 1 THEN parts[i] ELSE flat[i - 1] \o parts[i]
    BY <2>2
  <2>4. 1 \in P
    <3>1. 1 \in 1 .. N
      BY <1>1, <1>4
    <3>2. parts[1] \in Seq(S) /\ flat[1] = parts[1]
      BY <1>1, <2>3, <3>1
    <3> DEFINE r == [k \in 1 .. 1 + 1 |-> IF k = 1 THEN parts[1] ELSE <<>>]
    <3>3. parts[1] \o <<>> = parts[1]
      BY <3>2, ConcatEmptySeq
    <3>4. r \in [1 .. 1 + 1 -> Seq(S)]
      BY <1>2, <3>2
    <3>5. r[1] = parts[1] /\ r[1 + 1] = <<>>
      OBVIOUS
    <3> HIDE DEF r
    <3>6. \A k \in 1 .. 1 : r[k] = parts[k] \o r[k + 1]
      <4>1. \A k \in 1 .. 1 : k = 1
        OBVIOUS
      <4>2. r[1] = parts[1] \o r[1 + 1]
        BY <3>3, <3>5
      <4> QED BY <4>1, <4>2, Zenon
    <3>7. Rests(1, r)
      BY <3>2, <3>4, <3>5, <3>6
    <3> HIDE DEF Rests
    <3> QED BY <3>1, <3>7
  <2>5. ASSUME NEW i \in 2 .. N, i - 1 \in P
        PROVE  i \in P
    <3>1. i \in Nat /\ i - 1 \in 1 .. N /\ i \in 1 .. N /\ i # 1 /\ i - 1 + 1 = i
      BY <1>1
    <3>2. PICK r : Rests(i - 1, r)
      <4> HIDE DEF Rests
      <4> QED BY <2>5
    <3> HIDE DEF P
    <3>3. /\ r \in [1 .. i -> Seq(S)] /\ r[1] = flat[i - 1] /\ r[i] = <<>>
          /\ \A k \in 1 .. i - 1 : r[k] = parts[k] \o r[k + 1]
      BY <3>1, <3>2
    <3>4. parts[i] \in Seq(S) /\ flat[i] = flat[i - 1] \o parts[i]
      BY <1>1, <2>3, <3>1
    <3> DEFINE g == [k \in 1 .. i + 1 |-> IF k <= i THEN r[k] \o parts[i] ELSE <<>>]
    <3>5. g \in [1 .. i + 1 -> Seq(S)]
      <4>1. ASSUME NEW k \in 1 .. i + 1
            PROVE  (IF k <= i THEN r[k] \o parts[i] ELSE <<>>) \in Seq(S)
        <5>1. CASE k <= i
          <6>1. r[k] \in Seq(S)
            BY <3>1, <3>3, <5>1
          <6>2. r[k] \o parts[i] \in Seq(S)
            BY <3>4, <6>1, ConcatProperties
          <6> QED BY <5>1, <6>2
        <5>2. CASE ~(k <= i)
          BY <1>2, <5>2
        <5> QED BY <5>1, <5>2
      <4> QED BY <4>1
    <3>6. g[1] = flat[i] /\ g[i + 1] = <<>>
      <4>1. g[1] = r[1] \o parts[i]
        <5>1. 1 \in 1 .. i + 1 /\ 1 <= i
          BY <3>1
        <5> QED BY <5>1
      <4>2. g[i + 1] = <<>>
        BY <3>1
      <4> HIDE DEF g
      <4> QED BY <3>3, <3>4, <4>1, <4>2
    <3>7. ASSUME NEW k \in 1 .. i
          PROVE  g[k] = parts[k] \o g[k + 1]
      <4>0. k \in Nat /\ k \in 1 .. N /\ k \in 1 .. i + 1 /\ k + 1 \in 1 .. i + 1 /\ k <= i
        BY <1>1, <3>1
      <4>1. g[k] = r[k] \o parts[i] /\ r[k] \in Seq(S) /\ parts[k] \in Seq(S)
        BY <1>1, <3>1, <3>3, <4>0
      <4>2. CASE k = i
        <5>1. g[k + 1] = <<>>
          BY <3>1, <4>2
        <5> HIDE DEF g
        <5>2. g[k] = <<>> \o parts[k]
          BY <3>3, <4>1, <4>2
        <5>3. <<>> \o parts[k] = parts[k] /\ parts[k] \o <<>> = parts[k]
          BY <4>1, ConcatEmptySeq
        <5> QED BY <5>1, <5>2, <5>3
      <4>3. CASE k # i
        <5>1. k \in 1 .. i - 1 /\ k + 1 \in 1 .. i /\ k + 1 <= i
          BY <3>1, <4>0, <4>3
        <5>2. g[k + 1] = r[k + 1] \o parts[i]
          BY <4>0, <5>1
        <5>3. r[k + 1] \in Seq(S) /\ r[k] = parts[k] \o r[k + 1]
          BY <3>3, <5>1
        <5> HIDE DEF g
        <5> DEFINE next == r[k + 1]
        <5>4. next \in Seq(S) /\ g[k + 1] = next \o parts[i] /\ g[k] = (parts[k] \o next) \o parts[i]
          BY <4>1, <5>2, <5>3
        <5> HIDE DEF next
        <5>5. (parts[k] \o next) \o parts[i] = parts[k] \o (next \o parts[i])
          <6>1. parts[k] \in Seq(S)
            BY <4>1
          <6>2. parts[i] \in Seq(S)
            BY <3>4
          <6>3. next \in Seq(S)
            BY <5>4
          <6>4. \A a, b, c \in Seq(S) : (a \o b) \o c = a \o (b \o c)
            BY <1>0
          <6> QED BY <6>1, <6>2, <6>3, <6>4, ZenonT(30)
        <5> QED BY <5>4, <5>5
      <4> QED BY <4>2, <4>3
    <3> HIDE DEF g
    <3>8. Rests(i, g)
      BY <3>5, <3>6, <3>7
    <3> HIDE DEF Rests
    <3> QED BY <3>1, <3>8 DEF P
  <2> HIDE DEF P
  <2>6. \A i \in 1 .. N : i \in P
    BY <1>1, <1>4, <2>4, <2>5, UpTo
  <2>7. N \in P
    BY <1>1, <1>4, <2>6
  <2>8. PICK r : Rests(N, r)
    BY <2>7 DEF P
  <2> QED BY <2>1, <2>8
<1>5. N = 0 \/ N >= 1
  BY <1>1
<1> QED BY <1>3, <1>4, <1>5, Zenon
=============================================================================
