----------------------------- MODULE ListenProofs ----------------------------
(***************************************************************************)
(* The receiving side of the protocol, for every set of series a client    *)
(* may send, every size of loaders and of the receive buffer, any number   *)
(* of series and of interrupted reads.                                     *)
(*                                                                         *)
(* Facts about a series of any length are proved message by message (UpTo, *)
(* LeastNumber of SequenceLemmas).                                         *)
(***************************************************************************)
EXTENDS ProtocolListen, SequenceLemmas

-----------------------------------------------------------------------------
(* The layout of a series: before the payload of its m-th message come     *)
(* Before(scr)[m] units of payload and m headers.                          *)

Unit == [is_header : BOOLEAN, header : Header, series : Nat, at : Nat \X Nat]

Before(scr) ==
  LET upto[m \in 1 .. Len(scr) + 1] ==
        IF m = 1 THEN 0 ELSE upto[m - 1] + scr[m - 1].payload_size
  IN  upto

LEMMA BeforeExists ==
  ASSUME NEW scr, Len(scr) \in Nat
  PROVE  \A N \in 1 .. Len(scr) + 1 :
           \E f : f = [m \in 1 .. N |-> IF m = 1 THEN 0 ELSE f[m - 1] + scr[m - 1].payload_size]
<1> DEFINE Rec(f, N) == f = [m \in 1 .. N |-> IF m = 1 THEN 0 ELSE f[m - 1] + scr[m - 1].payload_size]
           P == {N \in Nat : \E f : Rec(f, N)}
<1>1. 1 \in P
  <2>1. Rec([m \in 1 .. 1 |-> 0], 1)
    OBVIOUS
  <2> QED BY <2>1
<1>2. ASSUME NEW N \in 2 .. Len(scr) + 1, N - 1 \in P
      PROVE  N \in P
  <2>1. PICK f : Rec(f, N - 1)
    BY <1>2
  <2> DEFINE g == [m \in 1 .. N |-> IF m = N THEN f[N - 1] + scr[N - 1].payload_size ELSE f[m]]
  <2>2. \A m \in 1 .. N - 1 : f[m] = IF m = 1 THEN 0 ELSE f[m - 1] + scr[m - 1].payload_size
    BY <2>1
  <2>3. \A m \in 1 .. N : g[m] = IF m = 1 THEN 0 ELSE g[m - 1] + scr[m - 1].payload_size
    BY <2>2
  <2>4. Rec(g, N)
    BY <2>3
  <2>5. N \in Nat
    OBVIOUS
  <2> HIDE DEF g, Rec
  <2> QED BY <2>4, <2>5
<1> HIDE DEF P
<1>3. \A N \in 1 .. Len(scr) + 1 : N \in P
  <2>1. Len(scr) + 1 \in Nat
    OBVIOUS
  <2> QED BY <1>1, <1>2, <2>1, UpTo
<1> QED BY <1>3 DEF P

LEMMA BeforeIs ==
  ASSUME NEW scr \in Seq(Header)
  PROVE  /\ Len(scr) \in Nat
         /\ Before(scr) \in [1 .. Len(scr) + 1 -> Nat]
         /\ Before(scr)[1] = 0
         /\ \A m \in 1 .. Len(scr) :
              /\ scr[m] \in Header /\ scr[m].payload_size \in Nat
              /\ Before(scr)[m + 1] = Before(scr)[m] + scr[m].payload_size
<1> DEFINE N == Len(scr) + 1
           Rec(f) == f = [m \in 1 .. N |-> IF m = 1 THEN 0 ELSE f[m - 1] + scr[m - 1].payload_size]
<1>1. Len(scr) \in Nat
  BY LenProperties
<1>2. Rec(Before(scr))
  <2>1. Before(scr) = CHOOSE f : Rec(f)
    BY DEF Before
  <2>2. \E f : Rec(f)
    <3>1. N \in 1 .. Len(scr) + 1
      BY <1>1
    <3> QED BY <1>1, <3>1, BeforeExists
  <2> HIDE DEF Rec
  <2> QED BY <2>1, <2>2
<1>3. ASSUME NEW m \in 1 .. Len(scr)
      PROVE  scr[m] \in Header /\ scr[m].payload_size \in Nat
  <2>1. scr[m] \in Header
    BY ElementOfSeq
  <2> QED BY <2>1 DEF Header
<1> DEFINE b == Before(scr)
<1> HIDE DEF b
<1>4. /\ b[1] = 0 /\ DOMAIN b = 1 .. N
      /\ \A m \in 2 .. N : b[m] = b[m - 1] + scr[m - 1].payload_size
      /\ b = [m \in 1 .. N |-> b[m]]
  <2>1. b = [m \in 1 .. N |-> IF m = 1 THEN 0 ELSE b[m - 1] + scr[m - 1].payload_size]
    BY <1>2 DEF b
  <2>2. DOMAIN b = 1 .. N
    BY <2>1
  <2>3. \A m \in 1 .. N : b[m] = IF m = 1 THEN 0 ELSE b[m - 1] + scr[m - 1].payload_size
    BY <2>1
  <2>4. b = [m \in 1 .. N |-> b[m]]
    BY <2>1
  <2>5. 1 \in 1 .. N /\ \A m \in 2 .. N : m \in 1 .. N /\ m # 1
    BY <1>1
  <2> QED BY <2>2, <2>3, <2>4, <2>5
<1>5. \A m \in 1 .. N : b[m] \in Nat
  <2> DEFINE P == {m \in 1 .. N : b[m] \in Nat}
  <2>1. 1 \in P
    BY <1>1, <1>4
  <2>2. ASSUME NEW m \in 2 .. N, m - 1 \in P
        PROVE  m \in P
    <3>1. m - 1 \in 1 .. Len(scr) /\ m \in 1 .. N
      BY <1>1
    <3>2. scr[m - 1].payload_size \in Nat /\ b[m - 1] \in Nat
      BY <1>3, <2>2, <3>1
    <3>3. b[m] = b[m - 1] + scr[m - 1].payload_size
      BY <1>4
    <3>4. b[m] \in Nat
      BY <3>2, <3>3
    <3> QED BY <3>1, <3>4
  <2>3. N \in Nat
    BY <1>1
  <2> HIDE DEF P, N
  <2>4. \A m \in 1 .. N : m \in P
    BY <2>1, <2>2, <2>3, UpTo
  <2> QED BY <2>4 DEF P
<1>6. b \in [1 .. N -> Nat]
  BY <1>4, <1>5
<1>7. ASSUME NEW m \in 1 .. Len(scr)
      PROVE  b[m + 1] = b[m] + scr[m].payload_size
  <2>1. m + 1 \in 2 .. N /\ (m + 1) - 1 = m
    BY <1>1
  <2>2. b[m + 1] = b[(m + 1) - 1] + scr[(m + 1) - 1].payload_size
    BY <1>4, <2>1
  <2> QED BY <2>1, <2>2
<1>8. b[1] = 0
  BY <1>4
<1> QED BY <1>1, <1>3, <1>6, <1>7, <1>8 DEF b

LEMMA BeforeGrows ==
  ASSUME NEW scr \in Seq(Header)
  PROVE  \A j \in 1 .. Len(scr) + 1 : \A i \in 1 .. j : Before(scr)[i] <= Before(scr)[j]
<1> DEFINE L == Len(scr) + 1
           b == Before(scr)
           P == {j \in 1 .. L : \A i \in 1 .. j : b[i] <= b[j]}
<1>1. L \in Nat /\ L >= 1 /\ \A j \in 1 .. L : b[j] \in Nat
  BY BeforeIs
<1>2. \A j \in 2 .. L : b[j] >= b[j - 1]
  <2> TAKE j \in 2 .. L
  <2>1. j - 1 \in 1 .. Len(scr) /\ (j - 1) + 1 = j
    BY <1>1
  <2>2. b[(j - 1) + 1] = b[j - 1] + scr[j - 1].payload_size /\ scr[j - 1].payload_size \in Nat
    BY <2>1, BeforeIs
  <2>3. b[j - 1] \in Nat
    BY <1>1, <2>1
  <2> QED BY <2>1, <2>2, <2>3
<1> HIDE DEF b, L
<1>3. 1 \in P
  BY <1>1
<1>4. ASSUME NEW j \in 2 .. L, j - 1 \in P
      PROVE  j \in P
  <2>1. /\ j \in 1 .. L /\ j - 1 \in 1 .. L /\ b[j] \in Nat /\ b[j - 1] \in Nat /\ b[j] >= b[j - 1]
    BY <1>1, <1>2
  <2>2. ASSUME NEW i \in 1 .. j
        PROVE  b[i] <= b[j]
    <3>1. CASE i = j
      BY <2>1, <3>1
    <3>2. CASE i # j
      <4>1. i \in 1 .. j - 1 /\ i \in 1 .. L
        BY <1>1, <2>1, <3>2
      <4>2. b[i] <= b[j - 1] /\ b[i] \in Nat
        BY <1>1, <1>4, <4>1
      <4> QED BY <2>1, <4>2
    <3> QED BY <3>1, <3>2
  <2> QED BY <2>1, <2>2
<1> HIDE DEF P
<1>5. \A j \in 1 .. L : j \in P
  BY <1>1, <1>3, <1>4, UpTo
<1> QED BY <1>5 DEF P, L, b

\* Every place of a series is in one of its messages.
LEMMA PlaceInMessage ==
  ASSUME NEW scr \in Seq(Header)
  PROVE  \A q \in 1 .. Before(scr)[Len(scr) + 1] + Len(scr) :
           \E m \in 1 .. Len(scr) : \E k \in 0 .. scr[m].payload_size :
             q = Before(scr)[m] + m + k
<1> DEFINE L == Len(scr) + 1
           b == Before(scr)
           Found(j) == \A q \in 1 .. b[j] + (j - 1) :
                         \E m \in 1 .. Len(scr) : \E k \in 0 .. scr[m].payload_size : q = b[m] + m + k
           P == {j \in 1 .. L : Found(j)}
<1>1. L \in Nat /\ L >= 1 /\ L = Len(scr) + 1 /\ Len(scr) \in Nat /\ \A j \in 1 .. L : b[j] \in Nat
  BY BeforeIs
<1>2. b[1] = 0
  BY BeforeIs
<1>3. ASSUME NEW j \in 2 .. L
      PROVE  /\ j - 1 \in 1 .. Len(scr) /\ j \in 1 .. L /\ scr[j - 1].payload_size \in Nat
             /\ b[j] = b[j - 1] + scr[j - 1].payload_size /\ b[j - 1] \in Nat
  <2>1. j - 1 \in 1 .. Len(scr) /\ j \in 1 .. L /\ j - 1 \in 1 .. L /\ (j - 1) + 1 = j
    BY <1>1
  <2>2. b[(j - 1) + 1] = b[j - 1] + scr[j - 1].payload_size /\ scr[j - 1].payload_size \in Nat
    BY <2>1, BeforeIs
  <2> QED BY <1>1, <2>1, <2>2
<1> HIDE DEF b, L
<1>4. 1 \in P
  BY <1>1, <1>2
<1>5. ASSUME NEW j \in 2 .. L, j - 1 \in P
      PROVE  j \in P
  <2>1. /\ j - 1 \in 1 .. Len(scr) /\ j \in 1 .. L /\ scr[j - 1].payload_size \in Nat
        /\ b[j] = b[j - 1] + scr[j - 1].payload_size /\ b[j - 1] \in Nat
    BY <1>3
  <2>2. ASSUME NEW q \in 1 .. b[j] + (j - 1)
        PROVE  \E m \in 1 .. Len(scr) : \E k \in 0 .. scr[m].payload_size : q = b[m] + m + k
    <3>1. CASE q <= b[j - 1] + ((j - 1) - 1)
      <4>1. q \in 1 .. b[j - 1] + ((j - 1) - 1)
        BY <2>1, <3>1
      <4> QED BY <1>5, <4>1
    <3>2. CASE q > b[j - 1] + ((j - 1) - 1)
      <4> DEFINE k == q - (b[j - 1] + (j - 1))
      <4>1. k \in 0 .. scr[j - 1].payload_size /\ q = b[j - 1] + (j - 1) + k
        <5> DEFINE x == b[j - 1]
                   y == scr[j - 1].payload_size
        <5>1. x \in Nat /\ y \in Nat /\ j \in Nat /\ b[j] = x + y
          BY <1>1, <2>1
        <5>2. q \in Int /\ q <= b[j] + (j - 1) /\ q > x + ((j - 1) - 1)
          BY <2>1, <3>2
        <5> HIDE DEF x, y
        <5>3. q - (x + (j - 1)) \in 0 .. y /\ q = x + (j - 1) + (q - (x + (j - 1)))
          BY <5>1, <5>2
        <5> QED BY <5>3 DEF x, y
      <4> HIDE DEF k
      <4> QED BY <2>1, <4>1
    <3>3. q \in Int /\ b[j - 1] + ((j - 1) - 1) \in Int
      BY <2>1
    <3> QED BY <3>1, <3>2, <3>3
  <2> QED BY <2>1, <2>2
<1> HIDE DEF P
<1>6. \A j \in 1 .. L : j \in P
  BY <1>1, <1>4, <1>5, UpTo
<1>7. Found(L)
  BY <1>1, <1>6 DEF P
<1> QED BY <1>1, <1>7 DEF b, L

LEMMA UnitTypes ==
  ASSUME NEW h \in Header, NEW s \in Nat, NEW m \in Nat
  PROVE  /\ HeaderUnit(h, s, m) \in Unit
         /\ \A k \in Nat : DataUnit(h, s, m, k) \in Unit
BY DEF HeaderUnit, DataUnit, Unit

LEMMA MessageLayout ==
  ASSUME NEW h \in Header, NEW s \in Nat, NEW m \in Nat
  PROVE  /\ MessagePayload(h, s, m) \in Seq(Unit)
         /\ Len(MessagePayload(h, s, m)) = h.payload_size
         /\ MessageUnits(h, s, m) \in Seq(Unit)
         /\ Len(MessageUnits(h, s, m)) = h.payload_size + 1
         /\ MessageUnits(h, s, m)[1] = HeaderUnit(h, s, m)
         /\ \A k \in 1 .. h.payload_size :
              /\ MessagePayload(h, s, m)[k] = DataUnit(h, s, m, k)
              /\ MessageUnits(h, s, m)[k + 1] = DataUnit(h, s, m, k)
<1> DEFINE a == <<HeaderUnit(h, s, m)>>
           b == MessagePayload(h, s, m)
           c == MessageUnits(h, s, m)
<1>1. h.payload_size \in Nat
  BY DEF Header
<1>2. \A k \in 1 .. h.payload_size : DataUnit(h, s, m, k) \in Unit
  BY <1>1, UnitTypes
<1>3. /\ b \in Seq(Unit) /\ Len(b) = h.payload_size
      /\ \A k \in 1 .. h.payload_size : b[k] = DataUnit(h, s, m, k)
  BY <1>1, <1>2 DEF MessagePayload
<1>4. a \in Seq(Unit) /\ Len(a) = 1 /\ a[1] = HeaderUnit(h, s, m)
  BY UnitTypes
<1>5. c = a \o b
  BY DEF MessageUnits
<1> HIDE DEF a, b, c
<1>6. /\ c \in Seq(Unit) /\ Len(c) = Len(a) + Len(b)
      /\ \A q \in 1 .. Len(a) : c[q] = a[q]
      /\ \A q \in 1 .. Len(b) : c[Len(a) + q] = b[q]
  <2>1. a \in Seq(Unit)
    BY <1>4
  <2>2. b \in Seq(Unit)
    BY <1>3
  <2> QED BY <1>5, <2>1, <2>2, Concatenation
<1>7. \A k \in 1 .. h.payload_size : c[k + 1] = DataUnit(h, s, m, k)
  <2> TAKE k \in 1 .. h.payload_size
  <2>1. c[1 + k] = b[k]
    BY <1>3, <1>4, <1>6
  <2>2. 1 + k = k + 1
    BY <1>1
  <2> QED BY <1>3, <2>1, <2>2
<1> QED BY <1>1, <1>3, <1>4, <1>6, <1>7 DEF b, c

LEMMA SeriesLayout ==
  ASSUME NEW scr \in Seq(Header), scr # <<>>, NEW s \in Nat
  PROVE  /\ SeriesUnits(scr, s) \in Seq(Unit)
         /\ Len(SeriesUnits(scr, s)) = Before(scr)[Len(scr) + 1] + Len(scr)
         /\ \A m \in 1 .. Len(scr) :
              /\ SeriesUnits(scr, s)[Before(scr)[m] + m] = HeaderUnit(scr[m], s, m)
              /\ \A k \in 1 .. scr[m].payload_size :
                   SeriesUnits(scr, s)[Before(scr)[m] + m + k] = DataUnit(scr[m], s, m, k)
<1> DEFINE N == Len(scr)
           b == Before(scr)
           all == SeriesUnits(scr, s)
           parts == [m \in 1 .. N |-> MessageUnits(scr[m], s, m)]
           off == [m \in 1 .. N + 1 |-> b[m] + (m - 1)]
<1>1. N \in Nat /\ N >= 1 /\ DOMAIN scr = 1 .. N
  BY LenProperties, EmptySeq
<1>2. /\ b[1] = 0 /\ \A m \in 1 .. N + 1 : b[m] \in Nat
      /\ \A m \in 1 .. N : /\ scr[m] \in Header /\ scr[m].payload_size \in Nat
                           /\ b[m + 1] = b[m] + scr[m].payload_size
  BY BeforeIs
<1>3. all = FlattenSeq(parts)
  BY <1>1 DEF SeriesUnits
<1> HIDE DEF b, N, all
<1>4. \A m \in 1 .. N : /\ parts[m] \in Seq(Unit)
                        /\ Len(parts[m]) = scr[m].payload_size + 1
                        /\ parts[m][1] = HeaderUnit(scr[m], s, m)
                        /\ \A k \in 1 .. scr[m].payload_size :
                             parts[m][k + 1] = DataUnit(scr[m], s, m, k)
  <2> TAKE m \in 1 .. N
  <2>1. parts[m] = MessageUnits(scr[m], s, m) /\ m \in Nat /\ scr[m] \in Header
    BY <1>1, <1>2
  <2> QED BY <2>1, MessageLayout
<1>5. /\ off \in [1 .. N + 1 -> Nat] /\ off[1] = 0
      /\ \A m \in 1 .. N : off[m] = b[m] + (m - 1) /\ off[m + 1] = off[m] + (scr[m].payload_size + 1)
      /\ off[N + 1] = b[N + 1] + N
  <2>1. \A m \in 1 .. N + 1 : off[m] = b[m] + (m - 1) /\ off[m] \in Nat
    BY <1>1, <1>2
  <2>2. ASSUME NEW m \in 1 .. N
        PROVE  off[m] = b[m] + (m - 1) /\ off[m + 1] = off[m] + (scr[m].payload_size + 1)
    <3>1. m \in 1 .. N + 1 /\ m + 1 \in 1 .. N + 1 /\ m \in Nat
      BY <1>1
    <3>2. off[m + 1] = b[m + 1] + m
      BY <2>1, <3>1
    <3>3. b[m] \in Nat /\ scr[m].payload_size \in Nat /\ b[m + 1] = b[m] + scr[m].payload_size
      BY <1>2, <3>1
    <3>4. off[m] = b[m] + (m - 1)
      BY <2>1, <3>1
    <3>5. ASSUME NEW x \in Nat, NEW y \in Nat
          PROVE  (x + y) + m = (x + (m - 1)) + (y + 1)
      BY <3>1
    <3>6. (b[m] + scr[m].payload_size) + m = (b[m] + (m - 1)) + (scr[m].payload_size + 1)
      BY <3>3, <3>5
    <3> HIDE DEF off
    <3> QED BY <3>2, <3>3, <3>4, <3>6
  <2>3. 1 \in 1 .. N + 1 /\ N + 1 \in 1 .. N + 1
    BY <1>1
  <2>4. off \in [1 .. N + 1 -> Nat]
    BY <2>1
  <2>5. off[1] = 0 /\ off[N + 1] = b[N + 1] + N
    <3>1. off[1] = b[1] + (1 - 1) /\ off[N + 1] = b[N + 1] + ((N + 1) - 1)
      BY <2>1, <2>3
    <3>2. b[1] = 0 /\ b[N + 1] \in Nat
      BY <1>2, <2>3
    <3> HIDE DEF off
    <3> QED BY <1>1, <3>1, <3>2
  <2> HIDE DEF off
  <2> QED BY <2>2, <2>4, <2>5
<1>6. /\ parts \in Seq(Seq(Unit)) /\ Len(parts) = N
      /\ parts # <<>>
  <2>1. \A m \in 1 .. N : parts[m] \in Seq(Unit)
    BY <1>4
  <2>2. parts \in Seq(Seq(Unit))
    BY <1>1, <2>1
  <2>3. Len(parts) = N
    BY <1>1
  <2> HIDE DEF parts
  <2>4. parts # <<>>
    BY <1>1, <2>3
  <2> QED BY <2>2, <2>3, <2>4
<1> HIDE DEF parts, off
<1>7. /\ all \in Seq(Unit) /\ Len(all) = off[N + 1]
      /\ \A j \in 1 .. N : \A k \in 1 .. Len(parts[j]) : all[off[j] + k] = parts[j][k]
  <2>1. off \in [1 .. Len(parts) + 1 -> Nat] /\ off[1] = 0
    BY <1>5, <1>6
  <2>2. \A j \in 1 .. Len(parts) : off[j + 1] = off[j] + Len(parts[j])
    BY <1>4, <1>5, <1>6
  <2>3. parts \in Seq(Seq(Unit))
    BY <1>6
  <2>4. parts # <<>>
    BY <1>6
  <2>5. /\ FlattenSeq(parts) \in Seq(Unit) /\ Len(FlattenSeq(parts)) = off[Len(parts) + 1]
        /\ \A j \in 1 .. Len(parts) : \A k \in 1 .. Len(parts[j]) :
             FlattenSeq(parts)[off[j] + k] = parts[j][k]
    BY <2>1, <2>2, <2>3, <2>4, FlattenLayout
  <2> QED BY <1>3, <1>6, <2>5
<1>8. ASSUME NEW m \in 1 .. N
      PROVE  all[b[m] + m] = HeaderUnit(scr[m], s, m)
  <2>1. m \in Nat /\ b[m] \in Nat /\ scr[m].payload_size \in Nat
    BY <1>1, <1>2
  <2>2. off[m] + 1 = b[m] + m /\ 1 \in 1 .. Len(parts[m])
    <3>1. off[m] = b[m] + (m - 1)
      BY <1>5
    <3>2. Len(parts[m]) = scr[m].payload_size + 1
      BY <1>4
    <3> QED BY <2>1, <3>1, <3>2
  <2>3. all[off[m] + 1] = parts[m][1]
    BY <1>7, <2>2
  <2> QED BY <1>4, <2>2, <2>3
<1>9. ASSUME NEW m \in 1 .. N, NEW k \in 1 .. scr[m].payload_size
      PROVE  all[b[m] + m + k] = DataUnit(scr[m], s, m, k)
  <2>1. m \in Nat /\ b[m] \in Nat /\ scr[m].payload_size \in Nat /\ k \in Nat
    BY <1>1, <1>2
  <2>2. off[m] + (k + 1) = b[m] + m + k /\ k + 1 \in 1 .. Len(parts[m])
    <3>1. off[m] = b[m] + (m - 1)
      BY <1>5
    <3>2. Len(parts[m]) = scr[m].payload_size + 1
      BY <1>4
    <3>3. ASSUME NEW x \in Nat
          PROVE  (x + (m - 1)) + (k + 1) = x + m + k
      BY <2>1
    <3>4. (b[m] + (m - 1)) + (k + 1) = b[m] + m + k
      BY <2>1, <3>3
    <3>5. k + 1 \in 1 .. scr[m].payload_size + 1
      BY <2>1
    <3> QED BY <3>1, <3>2, <3>4, <3>5
  <2>3. all[off[m] + (k + 1)] = parts[m][k + 1]
    BY <1>7, <2>2
  <2> QED BY <1>4, <2>2, <2>3
<1>10. Len(all) = b[N + 1] + N
  BY <1>5, <1>7
<1> QED BY <1>7, <1>8, <1>9, <1>10 DEF N, b, all

LEMMA PayloadLayout ==
  ASSUME NEW scr \in Seq(Header), scr # <<>>, NEW s \in Nat
  PROVE  /\ PayloadUnits(scr, s) \in Seq(Unit)
         /\ Len(PayloadUnits(scr, s)) = Before(scr)[Len(scr) + 1]
         /\ \A m \in 1 .. Len(scr) : \A k \in 1 .. scr[m].payload_size :
              PayloadUnits(scr, s)[Before(scr)[m] + k] = DataUnit(scr[m], s, m, k)
<1> DEFINE N == Len(scr)
           b == Before(scr)
           all == PayloadUnits(scr, s)
           parts == [m \in 1 .. N |-> MessagePayload(scr[m], s, m)]
<1>1. N \in Nat /\ N >= 1 /\ DOMAIN scr = 1 .. N
  BY LenProperties, EmptySeq
<1>2. /\ b \in [1 .. N + 1 -> Nat] /\ b[1] = 0
      /\ \A m \in 1 .. N : /\ scr[m] \in Header /\ b[m + 1] = b[m] + scr[m].payload_size
  BY BeforeIs
<1>3. all = FlattenSeq(parts)
  BY <1>1 DEF PayloadUnits
<1> HIDE DEF b, N, all
<1>4. \A m \in 1 .. N : /\ parts[m] \in Seq(Unit)
                        /\ Len(parts[m]) = scr[m].payload_size
                        /\ \A k \in 1 .. scr[m].payload_size :
                             parts[m][k] = DataUnit(scr[m], s, m, k)
  <2> TAKE m \in 1 .. N
  <2>1. parts[m] = MessagePayload(scr[m], s, m) /\ m \in Nat /\ scr[m] \in Header
    BY <1>1, <1>2
  <2> QED BY <2>1, MessageLayout
<1>5. /\ parts \in Seq(Seq(Unit)) /\ Len(parts) = N
      /\ parts # <<>>
  <2>1. \A m \in 1 .. N : parts[m] \in Seq(Unit)
    BY <1>4
  <2>2. parts \in Seq(Seq(Unit))
    BY <1>1, <2>1
  <2>3. Len(parts) = N
    BY <1>1
  <2> HIDE DEF parts
  <2>4. parts # <<>>
    BY <1>1, <2>3
  <2> QED BY <2>2, <2>3, <2>4
<1> HIDE DEF parts
<1>6. /\ all \in Seq(Unit) /\ Len(all) = b[N + 1]
      /\ \A j \in 1 .. N : \A k \in 1 .. Len(parts[j]) : all[b[j] + k] = parts[j][k]
  <2>1. b \in [1 .. Len(parts) + 1 -> Nat]
    BY <1>2, <1>5
  <2>2. \A j \in 1 .. Len(parts) : b[j + 1] = b[j] + Len(parts[j])
    BY <1>2, <1>4, <1>5
  <2>3. parts \in Seq(Seq(Unit))
    BY <1>5
  <2>4. parts # <<>> /\ b[1] = 0
    BY <1>2, <1>5
  <2>5. /\ FlattenSeq(parts) \in Seq(Unit) /\ Len(FlattenSeq(parts)) = b[Len(parts) + 1]
        /\ \A j \in 1 .. Len(parts) : \A k \in 1 .. Len(parts[j]) :
             FlattenSeq(parts)[b[j] + k] = parts[j][k]
    BY <2>1, <2>2, <2>3, <2>4, FlattenLayout
  <2> QED BY <1>3, <1>5, <2>5
<1>7. \A m \in 1 .. N : \A k \in 1 .. scr[m].payload_size : all[b[m] + k] = DataUnit(scr[m], s, m, k)
  BY <1>4, <1>6
<1> QED BY <1>6, <1>7 DEF N, b, all

-----------------------------------------------------------------------------
(* The inductive invariant.                                                *)

\* The series the client sent last, and its units.
Current == script[Len(script)]
Sent    == SeriesUnits(Current, Len(script))
Payload == PayloadUnits(Current, Len(script))
Fits    == Len(Payload) <= MaxSize

\* The line w holds what was sent from its p-th unit on.
LineFrom(w, p) == p \in 1 .. Len(Sent) + 1 /\ w = SubSeq(Sent, p, Len(Sent))

\* Of the first m messages all is read but the last `left` units of payload.
LineAfter(w, m, left) ==
  /\ m \in 0 .. Len(Current) /\ left \in Nat
  /\ left <= Before(Current)[m + 1] /\ (m > 0 => left <= Current[m].payload_size)
  /\ LineFrom(w, Before(Current)[m + 1] + m + 1 - left)

\* These messages are parts of one payload, and it is in its loader as far as
\* it was read, provided that all of it fits there.
HasReceived(ldrs, m, left) ==
  /\ Current[m].type = Current[1].type /\ Current[m].flow = Current[1].flow
  /\ Fits => ldrs[Current[m].type] = SubSeq(Payload, 1, Before(Current)[m + 1] - left)

Receiving == pc \in {"next_header", "payload"}

\* The place on the line is known as long as the client never paused, and, if
\* it did, in a call that began with a header.
Aware == script # <<>> /\ (stalls = 0 \/ (Receiving /\ ~garbled))

Place(m) ==
  /\ LineAfter(wire, m, n)
  /\ pc # "first_header" => m > 0 /\ header = Current[m]
  /\ Receiving => HasReceived(loaders, m, n)

KnowsPlace ==
  /\ stalls = 0 => ~garbled
  /\ Aware => \E m \in 0 .. Len(Current) : Place(m)

LineIsSuffix ==
  IF script = <<>> THEN wire = <<>> /\ pc = "first_header"
  ELSE LineFrom(wire, Len(Sent) - Len(wire) + 1)

ReceivingRight ==
  Receiving => /\ header \in Header /\ header.type \in LoaderTypes
               /\ pc = "next_header" => ~header.last

ReportedRight ==
  (/\ pc = "first_header"
   /\ outcome.status = "OK" /\ ~outcome.garbled /\ outcome.has_payload) =>
     /\ outcome.series \in 1 .. Len(script)
     /\ WholeSeriesOrNothing

\* Where a well formed series can be that was not reported yet.
Pending == (pc = "first_header" /\ LineFrom(wire, 1)) \/ Receiving

Delivered(s) == \E i \in DOMAIN delivered : delivered[i] = s

Delivering ==
  stalls = 0 =>
    \A s \in 1 .. Len(script) :
      WellFormed(script[s]) => Delivered(s) \/ (s = Len(script) /\ Pending)

ListenTypes ==
  /\ TypeOK
  /\ wire \in Seq(Unit) /\ garbled \in BOOLEAN
  /\ loaders \in [LoaderTypes -> Seq(Unit)]
  /\ delivered \in Seq(Nat)

ListenInv ==
  /\ ListenTypes /\ LineIsSuffix /\ KnowsPlace /\ ReceivingRight
  /\ ReportedRight /\ Delivering

-----------------------------------------------------------------------------
(* The series that is being received.                                      *)

\* The series sent last is one of the client's, and its parts lie as follows.
LEMMA CurrentIs ==
  ASSUME script \in Seq(Scripts), script # <<>>
  PROVE  /\ Len(script) \in Nat /\ Len(script) >= 1 /\ Current \in Scripts
         /\ Current \in Seq(Header) /\ Current # <<>>
         /\ Len(Current) \in Nat /\ Len(Current) >= 1
         /\ \A m \in 1 .. Len(Current) :
              /\ Current[m] \in Header /\ Current[m].payload_size \in Nat
              /\ Current[m].first => m = 1
              /\ Current[m].last => m = Len(Current)
              /\ Current[m].has_payload \/ Current[m].payload_size = 0
         /\ Before(Current)[1] = 0
         /\ \A m \in 0 .. Len(Current) : Before(Current)[m + 1] \in Nat
         /\ \A m \in 1 .. Len(Current) :
              Before(Current)[m + 1] = Before(Current)[m] + Current[m].payload_size
<1>1. Len(script) \in Nat /\ Len(script) >= 1
  BY LenProperties, EmptySeq
<1>2. Current \in Scripts
  <2>1. Len(script) \in 1 .. Len(script)
    BY <1>1
  <2> QED BY <2>1, ElementOfSeq DEF Current
<1>3. Series(Current)
  BY <1>2, ScriptAssumption
<1>4. Current \in Seq(Header) /\ Current # <<>>
  BY <1>3 DEF Series
<1>5. Len(Current) \in Nat /\ Len(Current) >= 1 /\ DOMAIN Current = 1 .. Len(Current)
  BY <1>4, LenProperties, EmptySeq
<1>6. /\ Before(Current) \in [1 .. Len(Current) + 1 -> Nat]
      /\ Before(Current)[1] = 0
      /\ \A m \in 1 .. Len(Current) :
           /\ Current[m] \in Header /\ Current[m].payload_size \in Nat
           /\ Before(Current)[m + 1] = Before(Current)[m] + Current[m].payload_size
  BY <1>4, BeforeIs
<1>7. \A m \in 0 .. Len(Current) : Before(Current)[m + 1] \in Nat
  <2> TAKE m \in 0 .. Len(Current)
  <2>1. m + 1 \in 1 .. Len(Current) + 1
    BY <1>5
  <2> QED BY <1>6, <2>1
<1>8. \A m \in 1 .. Len(Current) :
        /\ Current[m].first => m = 1
        /\ Current[m].last => m = Len(Current)
        /\ Current[m].has_payload \/ Current[m].payload_size = 0
  BY <1>3, <1>5 DEF Series
<1> QED BY <1>1, <1>2, <1>4, <1>5, <1>6, <1>7, <1>8

LEMMA SentIs ==
  ASSUME script \in Seq(Scripts), script # <<>>
  PROVE  /\ Sent \in Seq(Unit) /\ Payload \in Seq(Unit)
         /\ Len(Sent) = Before(Current)[Len(Current) + 1] + Len(Current)
         /\ Len(Payload) = Before(Current)[Len(Current) + 1]
         /\ \A m \in 1 .. Len(Current) :
              /\ Sent[Before(Current)[m] + m] = HeaderUnit(Current[m], Len(script), m)
              /\ \A k \in 1 .. Current[m].payload_size :
                   /\ Sent[Before(Current)[m] + m + k] = DataUnit(Current[m], Len(script), m, k)
                   /\ Payload[Before(Current)[m] + k] = DataUnit(Current[m], Len(script), m, k)
<1>1. Len(script) \in Nat /\ Current \in Seq(Header) /\ Current # <<>>
  BY CurrentIs
<1> QED BY <1>1, SeriesLayout, PayloadLayout DEF Sent, Payload

\* Nothing said of the series sent last changes unless another one is sent.
LEMMA SameSeries ==
  ASSUME script' = script
  PROVE  Current' = Current /\ Sent' = Sent /\ Payload' = Payload /\ Fits' = Fits
BY DEF Current, Sent, Payload, Fits

\* Reading j units, and losing all that is left.
LEMMA Reads ==
  ASSUME script \in Seq(Scripts), script # <<>>, NEW w, NEW p, LineFrom(w, p)
  PROVE  /\ w \in Seq(Unit) /\ Len(w) \in Nat /\ Len(w) = Len(Sent) - p + 1
         /\ \A i \in 1 .. Len(w) : w[i] = Sent[p + i - 1]
         /\ \A j \in 0 .. Len(w) : LineFrom(SubSeq(w, j + 1, Len(w)), p + j)
<1>1. Sent \in Seq(Unit) /\ Len(Sent) \in Nat
  BY SentIs, LenProperties
<1>2. p \in 1 .. Len(Sent) + 1 /\ w = SubSeq(Sent, p, Len(Sent))
  BY DEF LineFrom
<1>3. /\ w \in Seq(Unit) /\ Len(w) = Len(Sent) - p + 1
      /\ \A i \in 1 .. Len(w) : w[i] = Sent[p + i - 1]
      /\ \A j \in 0 .. Len(w) : SubSeq(w, j + 1, Len(w)) = SubSeq(Sent, p + j, Len(Sent))
  BY <1>1, <1>2, Suffix
<1>4. ASSUME NEW j \in 0 .. Len(w)
      PROVE  LineFrom(SubSeq(w, j + 1, Len(w)), p + j)
  <2>1. p + j \in 1 .. Len(Sent) + 1
    BY <1>1, <1>2, <1>3
  <2> QED BY <1>3, <2>1 DEF LineFrom
<1>5. Len(w) \in Nat
  BY <1>1, <1>2, <1>3
<1> QED BY <1>3, <1>4, <1>5

LEMMA LosesAll ==
  ASSUME script \in Seq(Scripts), script # <<>>
  PROVE  /\ LineFrom(<<>>, Len(Sent) + 1)
         /\ LineAfter(<<>>, Len(Current), 0)
<1>1. Len(Sent) \in Nat /\ Len(Sent) = Before(Current)[Len(Current) + 1] + Len(Current)
  BY SentIs, LenProperties
<1>2. LineFrom(<<>>, Len(Sent) + 1)
  <2>1. SubSeq(Sent, Len(Sent) + 1, Len(Sent)) = <<>>
    BY <1>1, SubSeqEmpty
  <2>2. Len(Sent) + 1 \in 1 .. Len(Sent) + 1
    BY <1>1
  <2> QED BY <2>1, <2>2 DEF LineFrom
<1>3. /\ Len(Current) \in Nat /\ Len(Current) >= 1 /\ Before(Current)[Len(Current) + 1] \in Nat
      /\ Current[Len(Current)].payload_size \in Nat
  <2>1. Len(Current) \in Nat /\ Len(Current) >= 1
    BY CurrentIs
  <2>2. Len(Current) \in 1 .. Len(Current) /\ Len(Current) \in 0 .. Len(Current)
    BY <2>1
  <2> QED BY <2>1, <2>2, CurrentIs
<1>4. Before(Current)[Len(Current) + 1] + Len(Current) + 1 - 0 = Len(Sent) + 1
  BY <1>1, <1>3
<1>5. /\ Len(Current) \in 0 .. Len(Current) /\ 0 \in Nat
      /\ 0 <= Before(Current)[Len(Current) + 1] /\ 0 <= Current[Len(Current)].payload_size
  BY <1>3
<1> QED BY <1>2, <1>4, <1>5 DEF LineAfter

\* Between two messages the next header is read, and it is that of the next
\* message of the series.
LEMMA NextHeaderRead ==
  ASSUME script \in Seq(Scripts), script # <<>>, NEW m, LineAfter(wire, m, 0), Take(1)
  PROVE  /\ m \in 0 .. Len(Current) - 1
         /\ Head(wire).is_header /\ Head(wire).header = Current[m + 1]
         /\ LineAfter(wire', m + 1, Current[m + 1].payload_size)
<1> DEFINE p == Before(Current)[m + 1] + m + 1
           b == Before(Current)
<1>1. /\ m \in 0 .. Len(Current) /\ Len(Current) \in Nat /\ m \in Nat
      /\ b[m + 1] \in Nat /\ p \in Nat
  BY CurrentIs DEF LineAfter
<1>2. LineFrom(wire, p)
  <2>1. b[m + 1] + m + 1 - 0 = p
    BY <1>1
  <2> QED BY <2>1 DEF LineAfter
<1>3. 1 <= Len(wire) /\ wire' = SubSeq(wire, 2, Len(wire))
  BY DEF Take
<1>4. /\ Len(wire) \in Nat /\ Len(wire) = Len(Sent) - p + 1
      /\ wire[1] = Sent[p] /\ wire \in Seq(Unit) /\ LineFrom(wire', p + 1)
  <2>1. /\ wire \in Seq(Unit) /\ Len(wire) \in Nat /\ Len(wire) = Len(Sent) - p + 1
        /\ \A i \in 1 .. Len(wire) : wire[i] = Sent[p + i - 1]
        /\ \A j \in 0 .. Len(wire) : LineFrom(SubSeq(wire, j + 1, Len(wire)), p + j)
    <3> HIDE DEF p
    <3> QED BY <1>2, Reads
  <2>2. 1 \in 0 .. Len(wire) /\ 1 \in 1 .. Len(wire) /\ p + 1 - 1 = p
    BY <1>1, <1>3, <2>1
  <2>3. wire[1] = Sent[p + 1 - 1]
    BY <2>1, <2>2
  <2>4. LineFrom(SubSeq(wire, 1 + 1, Len(wire)), p + 1)
    BY <2>1, <2>2
  <2> HIDE DEF p
  <2> QED BY <1>3, <2>1, <2>2, <2>3, <2>4
<1>5. m # Len(Current)
  <2>1. ASSUME m = Len(Current) PROVE FALSE
    <3>1. Len(Sent) = b[m + 1] + m
      BY <2>1, SentIs
    <3> QED BY <1>1, <1>3, <1>4, <3>1
  <2> QED BY <2>1
<1>6. m \in 0 .. Len(Current) - 1 /\ m + 1 \in 1 .. Len(Current) /\ m + 1 \in 0 .. Len(Current)
  BY <1>1, <1>5
<1>7. /\ Current[m + 1].payload_size \in Nat /\ b[m + 2] \in Nat
      /\ b[m + 2] = b[m + 1] + Current[m + 1].payload_size
  <2>1. m + 1 + 1 = m + 2
    BY <1>1
  <2>2. Current[m + 1].payload_size \in Nat /\ b[m + 1 + 1] = b[m + 1] + Current[m + 1].payload_size
    BY <1>6, CurrentIs
  <2>3. b[m + 1 + 1] \in Nat
    BY <1>6, CurrentIs
  <2> QED BY <2>1, <2>2, <2>3
<1>8. Head(wire) = HeaderUnit(Current[m + 1], Len(script), m + 1)
  <2>1. Sent[b[m + 1] + (m + 1)] = HeaderUnit(Current[m + 1], Len(script), m + 1)
    BY <1>6, SentIs
  <2>2. b[m + 1] + (m + 1) = p
    BY <1>1
  <2>3. Head(wire) = wire[1]
    BY <1>3, <1>4
  <2> QED BY <1>4, <2>1, <2>2, <2>3
<1>9. LineAfter(wire', m + 1, Current[m + 1].payload_size)
  <2> DEFINE x == Current[m + 1].payload_size
  <2>1. b[m + 1 + 1] = b[m + 2]
    <3>1. m + 1 + 1 = m + 2
      BY <1>1
    <3> QED BY <3>1
  <2>2. b[m + 1 + 1] + (m + 1) + 1 - x = p + 1
    <3>1. b[m + 1] \in Nat /\ x \in Nat /\ b[m + 1 + 1] = b[m + 1] + x
      BY <1>1, <1>7, <2>1
    <3>2. ASSUME NEW y \in Nat, NEW z \in Nat
          PROVE  (y + z) + (m + 1) + 1 - z = y + m + 1 + 1
      BY <1>1
    <3>3. p = b[m + 1] + m + 1
      OBVIOUS
    <3> HIDE DEF x, b, p
    <3>4. (b[m + 1] + x) + (m + 1) + 1 - x = b[m + 1] + m + 1 + 1
      BY <3>1, <3>2
    <3> QED BY <3>1, <3>3, <3>4
  <2>3. x <= b[m + 1 + 1]
    <3>1. b[m + 1] \in Nat /\ x \in Nat /\ b[m + 1 + 1] = b[m + 1] + x
      BY <1>1, <1>7, <2>1
    <3> HIDE DEF x, b
    <3> QED BY <3>1
  <2>4. x \in Nat /\ m + 1 \in 0 .. Len(Current) /\ x <= Current[m + 1].payload_size
    BY <1>6, <1>7
  <2> HIDE DEF p
  <2> QED BY <1>4, <2>2, <2>3, <2>4 DEF LineAfter
<1> QED BY <1>6, <1>8, <1>9 DEF HeaderUnit

\* Wherever the reading begins, a unit that is a header begins a message.
LEMMA HeaderFound ==
  ASSUME script \in Seq(Scripts), script # <<>>, LineIsSuffix, Take(1), Head(wire).is_header
  PROVE  \E m \in 1 .. Len(Current) :
           /\ LineAfter(wire, m - 1, 0)
           /\ Head(wire).header = Current[m]
           /\ LineAfter(wire', m, Current[m].payload_size)
<1> DEFINE p == Len(Sent) - Len(wire) + 1
           b == Before(Current)
<1>1. LineFrom(wire, p)
  BY DEF LineIsSuffix
<1>2. 1 <= Len(wire)
  BY DEF Take
<1>3. /\ wire \in Seq(Unit) /\ Len(wire) \in Nat /\ p \in 1 .. Len(Sent)
      /\ Head(wire) = Sent[p]
  <2>1. p \in 1 .. Len(Sent) + 1
    BY <1>1 DEF LineFrom
  <2>2. /\ wire \in Seq(Unit) /\ Len(wire) \in Nat
        /\ \A i \in 1 .. Len(wire) : wire[i] = Sent[p + i - 1]
    <3> HIDE DEF p
    <3> QED BY <1>1, Reads
  <2>3. Len(Sent) \in Nat
    BY SentIs, LenProperties
  <2>4. p \in 1 .. Len(Sent) /\ p + 1 - 1 = p
    BY <1>2, <2>1, <2>2, <2>3
  <2>5. Head(wire) = wire[1] /\ 1 \in 1 .. Len(wire)
    BY <1>2, <2>2
  <2>6. wire[1] = Sent[p + 1 - 1]
    BY <2>2, <2>5
  <2> HIDE DEF p
  <2> QED BY <2>2, <2>4, <2>5, <2>6
<1> HIDE DEF p
<1>3b. PICK m \in 1 .. Len(Current) : \E k \in 0 .. Current[m].payload_size : p = b[m] + m + k
  <2>1. Current \in Seq(Header)
    BY CurrentIs
  <2>2. p \in 1 .. b[Len(Current) + 1] + Len(Current)
    BY <1>3, SentIs
  <2> QED BY <2>1, <2>2, PlaceInMessage
<1>4. PICK k \in 0 .. Current[m].payload_size : p = b[m] + m + k
  BY <1>3b
<1>5. m \in Nat /\ m - 1 \in 0 .. Len(Current) /\ m - 1 + 1 = m /\ Len(Current) \in Nat
  BY CurrentIs
<1>6. b[m] \in Nat /\ Current[m].payload_size \in Nat
  BY <1>5, CurrentIs
<1>7. k = 0
  <2>1. ASSUME k # 0 PROVE FALSE
    <3>1. k \in 1 .. Current[m].payload_size
      BY <1>6, <2>1
    <3>2. Head(wire) = DataUnit(Current[m], Len(script), m, k)
      BY <1>3, <1>4, <3>1, SentIs
    <3> QED BY <3>2 DEF DataUnit
  <2> QED BY <2>1
<1>8. LineAfter(wire, m - 1, 0)
  <2>1. b[m - 1 + 1] + (m - 1) + 1 - 0 = p
    BY <1>4, <1>5, <1>6, <1>7
  <2>2. m - 1 > 0 => 0 <= Current[m - 1].payload_size
    <3>1. m - 1 > 0 => m - 1 \in 1 .. Len(Current)
      BY <1>5
    <3> QED BY <3>1, CurrentIs
  <2>3. 0 \in Nat /\ 0 <= b[m - 1 + 1]
    BY <1>5, <1>6
  <2> QED BY <1>1, <1>5, <2>1, <2>2, <2>3 DEF LineAfter
<1>9. Head(wire).header = Current[m - 1 + 1] /\ LineAfter(wire', m - 1 + 1, Current[m - 1 + 1].payload_size)
  <2> DEFINE mm == m - 1
  <2>1. LineAfter(wire, mm, 0)
    BY <1>8
  <2> HIDE DEF mm
  <2>2. Head(wire).header = Current[mm + 1] /\ LineAfter(wire', mm + 1, Current[mm + 1].payload_size)
    BY <2>1, NextHeaderRead
  <2> QED BY <2>2 DEF mm
<1> QED BY <1>5, <1>8, <1>9

\* A round of receive_message_payload takes t of the units that are left, and
\* they continue what is in the loader.
LEMMA PayloadRead ==
  ASSUME script \in Seq(Scripts), script # <<>>,
         NEW m \in 1 .. Len(Current), n \in Nat, LineAfter(wire, m, n),
         NEW t \in 1 .. n, Take(t), HasReceived(loaders, m, n),
         MaxSize \in Nat
  PROVE  /\ LineAfter(wire', m, n - t)
         /\ Fits => LET held == loaders[Current[m].type]
                        read == SubSeq(wire, 1, t)
                    IN  /\ Len(held) + Len(read) <= MaxSize
                        /\ held \o read = SubSeq(Payload, 1, Before(Current)[m + 1] - (n - t))
<1> DEFINE b == Before(Current)
           x == Current[m].payload_size
           p == b[m + 1] + m + 1 - n
           held == loaders[Current[m].type]
           read == SubSeq(wire, 1, t)
           c == b[m + 1] - n
<1>1. /\ m \in Nat /\ x \in Nat /\ b[m] \in Nat /\ b[m + 1] \in Nat /\ b[m + 1] = b[m] + x
      /\ n \in Nat /\ n <= x /\ t \in Nat /\ t <= n /\ 1 <= t
  <2>1. m \in Nat /\ m - 1 \in 0 .. Len(Current) /\ m \in 0 .. Len(Current) /\ m - 1 + 1 = m
    BY CurrentIs
  <2>2. x \in Nat /\ b[m + 1] = b[m] + x /\ b[m + 1] \in Nat
    BY <2>1, CurrentIs
  <2>3. b[m - 1 + 1] \in Nat
    BY <2>1, CurrentIs
  <2>4. n <= x
    BY <2>1 DEF LineAfter
  <2> QED BY <2>1, <2>2, <2>3, <2>4
<1>2. LineFrom(wire, p)
  BY DEF LineAfter
<1>3. /\ wire \in Seq(Unit) /\ Len(wire) \in Nat
      /\ \A i \in 1 .. Len(wire) : wire[i] = Sent[p + i - 1]
      /\ \A j \in 0 .. Len(wire) : LineFrom(SubSeq(wire, j + 1, Len(wire)), p + j)
  <2> HIDE DEF p
  <2> QED BY <1>2, Reads
<1>4. t <= Len(wire) /\ wire' = SubSeq(wire, t + 1, Len(wire))
  BY DEF Take
<1>5. LineAfter(wire', m, n - t)
  <2>1. LineFrom(wire', p + t)
    <3>1. t \in 0 .. Len(wire)
      BY <1>1, <1>3, <1>4
    <3> HIDE DEF p
    <3> QED BY <1>3, <1>4, <3>1
  <2>2. p + t = b[m + 1] + m + 1 - (n - t)
    <3>1. b[m + 1] \in Nat
      BY <1>1
    <3>2. ASSUME NEW y \in Nat
          PROVE  (y + m + 1 - n) + t = y + m + 1 - (n - t)
      BY <1>1
    <3> QED BY <3>1, <3>2
  <2>3. n - t \in Nat /\ n - t <= b[m + 1] /\ n - t <= x
    <3>1. n - t \in Nat /\ n - t <= x
      BY <1>1
    <3> HIDE DEF x, b
    <3> QED BY <1>1, <3>1
  <2>4. m \in 0 .. Len(Current)
    BY CurrentIs
  <2> HIDE DEF p
  <2> QED BY <2>1, <2>2, <2>3, <2>4 DEF LineAfter
<1>6. ASSUME Fits
      PROVE  /\ Len(held) + Len(read) <= MaxSize
             /\ held \o read = SubSeq(Payload, 1, c + t)
  <2>1. /\ Payload \in Seq(Unit) /\ Len(Payload) = b[Len(Current) + 1]
        /\ b[m + 1] <= Len(Payload) /\ Len(Payload) \in Nat /\ Len(Payload) <= MaxSize
    <3>1. Payload \in Seq(Unit) /\ Len(Payload) = b[Len(Current) + 1]
      BY SentIs
    <3>2. Len(Payload) \in Nat /\ Len(Payload) <= MaxSize
      BY <1>6, <3>1, LenProperties DEF Fits
    <3>3. Current \in Seq(Header) /\ m + 1 \in 1 .. Len(Current) + 1 /\ Len(Current) + 1 \in 1 .. Len(Current) + 1
      BY <1>1, CurrentIs
    <3>4. b[m + 1] <= b[Len(Current) + 1]
      BY <3>3, BeforeGrows
    <3> QED BY <3>1, <3>2, <3>4
  <2>2. c \in Nat /\ c + t \in Nat /\ c + t <= b[m + 1] /\ c >= b[m]
    <3>1. ASSUME NEW y \in Nat, NEW z \in Nat, n <= z
          PROVE  /\ y + z - n \in Nat /\ y + z - n + t \in Nat
                 /\ y + z - n + t <= y + z /\ y + z - n >= y
      BY <1>1, <3>1
    <3> HIDE DEF b, x
    <3>2. /\ b[m] + x - n \in Nat /\ b[m] + x - n + t \in Nat
          /\ b[m] + x - n + t <= b[m] + x /\ b[m] + x - n >= b[m]
      BY <1>1, <3>1
    <3>3. c = b[m] + x - n /\ b[m + 1] = b[m] + x
      BY <1>1
    <3> HIDE DEF c
    <3> QED BY <1>1, <3>2, <3>3, Zenon
  <2> HIDE DEF b, c
  <2>3. held = SubSeq(Payload, 1, c)
    BY <1>6 DEF HasReceived, b, c
  <2> HIDE DEF held
  <2>4. /\ read \in Seq(Unit) /\ Len(read) = t
        /\ \A i \in 1 .. t : read[i] = wire[i]
    <3>1. read = SubSeq(wire, 0 + 1, 0 + t) /\ 0 \in Nat /\ 0 + t <= Len(wire)
      BY <1>1, <1>3, <1>4
    <3>2. \A i \in 1 .. t : 0 + i = i
      OBVIOUS
    <3> HIDE DEF read
    <3>3. wire \in Seq(Unit) /\ t \in Nat
      BY <1>1, <1>3
    <3>4. read \in Seq(Unit) /\ Len(read) = t /\ \A i \in 1 .. t : read[i] = wire[0 + i]
      BY <3>1, <3>3, Slice
    <3> QED BY <3>2, <3>4
  <2> HIDE DEF read
  <2> DEFINE next == SubSeq(Payload, c + 1, c + t)
  <2>5. /\ next \in Seq(Unit) /\ Len(next) = t
        /\ \A i \in 1 .. t : next[i] = Payload[c + i]
    <3>1. c + t <= Len(Payload)
      BY <2>1, <2>2, <1>1
    <3> HIDE DEF next
    <3>2. next = SubSeq(Payload, c + 1, c + t)
      BY DEF next
    <3>3. Payload \in Seq(Unit) /\ c \in Nat /\ t \in Nat
      BY <1>1, <2>1, <2>2
    <3> QED BY <3>1, <3>2, <3>3, Slice
  <2>6. ASSUME NEW i \in 1 .. t
        PROVE  read[i] = next[i]
    <3> DEFINE k == x - n + i
    <3>1. k \in 1 .. x /\ i \in 1 .. Len(wire) /\ i \in Nat
      <4>1. i \in Nat /\ i \in 1 .. Len(wire)
        BY <1>1, <1>3, <1>4
      <4>2. ASSUME NEW z \in Nat, n <= z
            PROVE  z - n + i \in 1 .. z
        BY <1>1, <4>2
      <4> HIDE DEF x
      <4> QED BY <1>1, <4>1, <4>2
    <3>2. p + i - 1 = b[m] + m + k /\ c + i = b[m] + k
      <4>1. b[m] \in Nat /\ x \in Nat /\ b[m + 1] = b[m] + x /\ n \in Nat /\ m \in Nat /\ i \in Nat
        BY <1>1, <3>1
      <4>2. ASSUME NEW y \in Nat, NEW z \in Nat
            PROVE  /\ ((y + z) + m + 1 - n) + i - 1 = y + m + (z - n + i)
                   /\ ((y + z) - n) + i = y + (z - n + i)
        BY <4>1
      <4>3. c = b[m + 1] - n /\ p = b[m + 1] + m + 1 - n
        BY DEF b, c
      <4> HIDE DEF x, p
      <4>4. /\ ((b[m] + x) + m + 1 - n) + i - 1 = b[m] + m + (x - n + i)
            /\ ((b[m] + x) - n) + i = b[m] + (x - n + i)
        BY <4>1, <4>2
      <4> QED BY <4>1, <4>3, <4>4
    <3>3. Sent[b[m] + m + k] = DataUnit(Current[m], Len(script), m, k)
      BY <3>1, SentIs DEF b
    <3>4. Payload[b[m] + k] = DataUnit(Current[m], Len(script), m, k)
      BY <3>1, SentIs DEF b
    <3>5. read[i] = Sent[p + i - 1]
      BY <1>3, <2>4, <3>1
    <3>6. next[i] = Payload[c + i]
      BY <2>5
    <3> HIDE DEF k, p, next
    <3> QED BY <3>2, <3>3, <3>4, <3>5, <3>6
  <2>7. read = next
    <3>1. read \in Seq(Unit)
      BY <2>4
    <3>2. next \in Seq(Unit)
      BY <2>5
    <3>3. Len(read) = Len(next) /\ \A i \in 1 .. Len(read) : read[i] = next[i]
      BY <2>4, <2>5, <2>6
    <3> HIDE DEF next
    <3> QED BY <3>1, <3>2, <3>3, SeqEqual
  <2>8. held \o read = SubSeq(Payload, 1, c + t)
    <3>1. /\ 1 \in 1 .. Len(Payload) + 1 /\ c \in 1 - 1 .. Len(Payload)
          /\ c + t \in c .. Len(Payload)
      BY <1>1, <2>1, <2>2
    <3>2. SubSeq(Payload, 1, c) \o SubSeq(Payload, c + 1, c + t) = SubSeq(Payload, 1, c + t)
      BY <2>1, <3>1, ConcatAdjacentSubSeq
    <3> QED BY <2>3, <2>7, <3>2
  <2>9. Len(held) + Len(read) <= MaxSize
    <3>1. held = SubSeq(Payload, 0 + 1, 0 + c) /\ 0 \in Nat /\ 0 + c <= Len(Payload)
      BY <1>1, <2>1, <2>2, <2>3
    <3>2. Len(held) = c
      BY <2>1, <2>2, <3>1, Slice
    <3>3. c + t <= MaxSize
      <4>1. ASSUME NEW y \in Nat, NEW z \in Nat, c + t <= y, y <= z, z <= MaxSize
            PROVE  c + t <= MaxSize
        BY <2>2, <4>1, <1>1
      <4> QED BY <1>1, <2>1, <2>2, <4>1
    <3> QED BY <2>4, <3>2, <3>3
  <2> QED BY <2>8, <2>9
<1>7. c + t = b[m + 1] - (n - t)
  <2>1. b[m + 1] \in Nat
    BY <1>1
  <2>2. ASSUME NEW y \in Nat
        PROVE  (y - n) + t = y - (n - t)
    BY <1>1
  <2> QED BY <2>1, <2>2
<1> HIDE DEF c
<1> QED BY <1>5, <1>6, <1>7

-----------------------------------------------------------------------------
(* What a step of protocol_listen has to establish.                        *)

\* A read by the server: the client sends nothing, the line loses units at
\* its beginning, and the loaders hold no more than they can.
Hears ==
  /\ ListenInv /\ script' = script
  /\ wire' \in Seq(Unit) /\ garbled' \in BOOLEAN /\ stalls' \in 0 .. MaxStalls
  /\ loaders' \in [LoaderTypes -> Seq(Unit)]
  /\ \A t \in LoaderTypes : Len(loaders'[t]) <= MaxSize
  /\ IF script = <<>> THEN wire' = <<>> ELSE LineFrom(wire', Len(Sent) - Len(wire') + 1)
  /\ stalls' = 0 => stalls = 0 /\ ~garbled'

LEMMA HearsTypes ==
  ASSUME Hears, pc' \in {"first_header", "next_header", "payload", "drain"},
         n' \in Nat, pc' \in {"first_header", "next_header"} => n' = 0,
         pc' = "payload" => n' > 0 /\ header'.type \in LoaderTypes,
         pc' = "drain" => status' # "OK",
         status' \in {"OK", "MSG_TOO_BIG", "FLOW_CONTROL_ERROR", "INVALID_MESSAGE_TYPE",
                      "LOADER_RESET_ERROR"},
         delivered' \in Seq(Nat)
  PROVE  ListenTypes'
<1>1. \A i \in DOMAIN wire' : wire'[i].is_header \in BOOLEAN
  <2>1. wire' \in Seq(Unit)
    BY DEF Hears
  <2>2. DOMAIN wire' = 1 .. Len(wire')
    BY <2>1, LenProperties
  <2>3. \A i \in 1 .. Len(wire') : wire'[i] \in Unit
    BY <2>1, ElementOfSeq
  <2> QED BY <2>2, <2>3 DEF Unit
<1>2. DOMAIN loaders' = LoaderTypes /\ \A t \in LoaderTypes : Len(loaders'[t]) <= MaxSize
  BY DEF Hears
<1>3. script' \in Seq(Scripts) /\ stalls' \in 0 .. MaxStalls
  BY DEF Hears, ListenInv, ListenTypes, TypeOK
<1>4. TypeOK'
  BY <1>1, <1>2, <1>3 DEF TypeOK, written
<1> QED BY <1>4 DEF Hears, ListenTypes

LEMMA HearsLine ==
  ASSUME Hears, script = <<>> => pc' = "first_header"
  PROVE  LineIsSuffix'
<1>1. Sent' = Sent
  BY SameSeries DEF Hears
<1> QED BY <1>1 DEF Hears, LineIsSuffix, LineFrom

LEMMA DeliveredStays ==
  ASSUME NEW s, Delivered(s), delivered \in Seq(Nat), NEW e \in Nat,
         delivered' = delivered \/ delivered' = Append(delivered, e)
  PROVE  Delivered(s)'
<1>1. PICK i \in DOMAIN delivered : delivered[i] = s
  BY DEF Delivered
<1>2. i \in DOMAIN delivered' /\ delivered'[i] = s
  <2>1. CASE delivered' = delivered
    BY <1>1, <2>1
  <2>2. CASE delivered' = Append(delivered, e)
    <3>1. /\ Len(delivered) \in Nat /\ Len(delivered') = Len(delivered) + 1
          /\ \A j \in 1 .. Len(delivered) : delivered'[j] = delivered[j]
          /\ DOMAIN delivered = 1 .. Len(delivered) /\ DOMAIN delivered' = 1 .. Len(delivered')
      BY <2>2, AppendProperties, LenProperties
    <3> QED BY <1>1, <3>1
  <2> QED BY <2>1, <2>2
<1> QED BY <1>2 DEF Delivered

LEMMA DeliveredNow ==
  ASSUME delivered \in Seq(Nat), NEW e \in Nat, delivered' = Append(delivered, e)
  PROVE  Delivered(e)' /\ delivered' \in Seq(Nat)
<1>1. /\ Len(delivered) \in Nat /\ Len(delivered') = Len(delivered) + 1
      /\ delivered'[Len(delivered) + 1] = e /\ delivered' \in Seq(Nat)
      /\ DOMAIN delivered' = 1 .. Len(delivered')
  BY AppendProperties, LenProperties
<1>2. Len(delivered) + 1 \in DOMAIN delivered'
  BY <1>1
<1> QED BY <1>1, <1>2 DEF Delivered

\* protocol_listen returns st for a message with the header h.
LEMMA Returns ==
  ASSUME Hears, NEW st, NEW h, Return(st, h, loaders'),
         st = "OK" => script # <<>>,
         stalls' = 0 /\ script # <<>> => \E m \in 0 .. Len(Current) : LineAfter(wire', m, 0),
         st = "OK" /\ h.has_payload /\ ~garbled' /\ Fits =>
           /\ h.type = Current[1].type /\ h.type \in LoaderTypes
           /\ loaders'[h.type] = Payload,
         stalls' = 0 => \A s \in 1 .. Len(script) :
           WellFormed(script[s]) => Delivered(s) \/ (s = Len(script) /\ st = "OK")
  PROVE  ListenInv'
<1>1. /\ ListenInv /\ script' = script /\ script \in Seq(Scripts) /\ delivered \in Seq(Nat)
      /\ Len(script) \in Nat
  BY LenProperties DEF Hears, ListenInv, ListenTypes, TypeOK
<1>2. Current' = Current /\ Sent' = Sent /\ Payload' = Payload /\ Fits' = Fits
  BY <1>1, SameSeries
<1>3. pc' = "first_header" /\ status' = "OK" /\ n' = 0
  BY DEF Return
<1>4. delivered' = delivered \/ (st = "OK" /\ delivered' = Append(delivered, Len(script)))
  BY DEF Return
<1>5. ListenTypes'
  <2>1. delivered' \in Seq(Nat)
    BY <1>1, <1>4, DeliveredNow
  <2> QED BY <1>3, <2>1, HearsTypes
<1>6. LineIsSuffix'
  BY <1>3, HearsLine
<1>7. KnowsPlace'
  <2>1. stalls' = 0 => ~garbled'
    BY DEF Hears
  <2>2. ASSUME Aware'
        PROVE  \E m \in 0 .. Len(Current') : Place(m)'
    <3>1. stalls' = 0 /\ script # <<>>
      BY <1>1, <1>3, <2>2 DEF Aware, Receiving
    <3>2. PICK m \in 0 .. Len(Current) : LineAfter(wire', m, 0)
      BY <3>1
    <3>3. Place(m)'
      BY <1>2, <1>3, <3>2 DEF Place, Receiving, LineAfter, LineFrom
    <3> QED BY <1>2, <3>3
  <2> QED BY <2>1, <2>2 DEF KnowsPlace
<1>8. ReceivingRight'
  BY <1>3 DEF ReceivingRight, Receiving
<1>9. ReportedRight'
  <2> SUFFICES ASSUME outcome'.status = "OK", ~outcome'.garbled, outcome'.has_payload
               PROVE  outcome'.series \in 1 .. Len(script') /\ WholeSeriesOrNothing'
    BY DEF ReportedRight
  <2>1. st = "OK"
    BY DEF Return, NoOutcome
  <2>2. PICK size \in IF h.type \in LoaderTypes THEN {Len(loaders'[h.type])} ELSE NullLoaderSizes :
               outcome' = [status |-> "OK", type |-> h.type, size |-> size,
                           has_payload |-> h.has_payload,
                           is_request |-> h.flow = "REQUEST",
                           series |-> Len(script), garbled |-> garbled']
    BY <2>1 DEF Return
  <2>3. ~garbled' /\ h.has_payload /\ outcome'.series = Len(script) /\ outcome'.type = h.type
        /\ outcome'.size = size
    BY <2>2
  <2>4. outcome'.series \in 1 .. Len(script')
    <3>1. Len(script) >= 1
      BY <1>1, <2>1, CurrentIs
    <3> QED BY <1>1, <2>3, <3>1
  <2>5. script'[outcome'.series] = Current
        /\ PayloadUnits(script'[outcome'.series], outcome'.series) = Payload
    BY <1>1, <2>3 DEF Current, Payload
  <2>6. Len(Payload) <= MaxSize =>
          /\ outcome'.type = Current[1].type /\ outcome'.size = Len(Payload)
          /\ loaders'[outcome'.type] = Payload
    BY <2>1, <2>2, <2>3 DEF Fits
  <2>7. WholeSeriesOrNothing'
    BY <2>5, <2>6 DEF WholeSeriesOrNothing
  <2> QED BY <2>4, <2>7
<1>10. Delivering'
  <2> SUFFICES ASSUME stalls' = 0, NEW s \in 1 .. Len(script), WellFormed(script[s])
               PROVE  Delivered(s)'
    BY <1>1 DEF Delivering, WellFormed, PayloadUnits
  <2>1. CASE Delivered(s)
    BY <1>1, <1>4, <2>1, DeliveredStays
  <2>2. CASE s = Len(script) /\ st = "OK"
    <3>1. ~garbled'
      BY DEF Hears
    <3>2. delivered' = Append(delivered, Len(script))
      BY <2>2, <3>1 DEF Return
    <3>3. Delivered(s)'
      BY <1>1, <2>2, <3>2, DeliveredNow
    <3> QED BY <3>3
  <2> QED BY <2>1, <2>2
<1> QED BY <1>5, <1>6, <1>7, <1>8, <1>9, <1>10 DEF ListenInv

\* protocol_listen goes on, to drain or to receive the m-th message.
LEMMA GoesOn ==
  ASSUME Hears, script # <<>>, pc' \in {"next_header", "payload", "drain"},
         n' \in Nat, pc' = "next_header" => n' = 0, pc' = "payload" => n' > 0,
         pc' = "drain" => status' # "OK",
         status' \in {"OK", "MSG_TOO_BIG", "FLOW_CONTROL_ERROR", "INVALID_MESSAGE_TYPE",
                      "LOADER_RESET_ERROR"},
         delivered' = delivered,
         stalls' = 0 \/ (pc' # "drain" /\ ~garbled') =>
           \E m \in 1 .. Len(Current) :
             /\ LineAfter(wire', m, n') /\ header' = Current[m]
             /\ pc' # "drain" => HasReceived(loaders', m, n'),
         pc' # "drain" => /\ header' \in Header /\ header'.type \in LoaderTypes
                          /\ pc' = "next_header" => ~header'.last,
         stalls' = 0 => \A s \in 1 .. Len(script) :
           WellFormed(script[s]) => Delivered(s) \/ (s = Len(script) /\ pc' # "drain")
  PROVE  ListenInv'
<1>1. /\ ListenInv /\ script' = script /\ script \in Seq(Scripts) /\ delivered \in Seq(Nat)
      /\ Len(script) \in Nat
  BY LenProperties DEF Hears, ListenInv, ListenTypes, TypeOK
<1>2. Current' = Current /\ Sent' = Sent /\ Payload' = Payload /\ Fits' = Fits
  BY <1>1, SameSeries
<1>3. Receiving' <=> pc' # "drain"
  BY DEF Receiving
<1>4. ListenTypes'
  BY <1>1, HearsTypes
<1>5. LineIsSuffix'
  BY HearsLine
<1>6. KnowsPlace'
  <2>1. stalls' = 0 => ~garbled'
    BY DEF Hears
  <2>2. ASSUME Aware'
        PROVE  \E m \in 0 .. Len(Current') : Place(m)'
    <3>1. stalls' = 0 \/ (pc' # "drain" /\ ~garbled')
      BY <1>3, <2>2 DEF Aware
    <3>2. PICK m \in 1 .. Len(Current) :
             /\ LineAfter(wire', m, n') /\ header' = Current[m]
             /\ pc' # "drain" => HasReceived(loaders', m, n')
      BY <3>1
    <3>3. LineAfter(wire, m, n)'
      BY <1>2, <3>2 DEF LineAfter, LineFrom
    <3>4. Receiving' => HasReceived(loaders, m, n)'
      BY <1>2, <1>3, <3>2 DEF HasReceived
    <3>5. m > 0 /\ m \in 0 .. Len(Current') /\ header' = Current'[m]
      BY <1>1, <1>2, <3>2, CurrentIs
    <3> QED BY <3>3, <3>4, <3>5 DEF Place
  <2> QED BY <2>1, <2>2 DEF KnowsPlace
<1>7. ReceivingRight'
  BY <1>3 DEF ReceivingRight
<1>8. ReportedRight'
  BY DEF ReportedRight
<1>9. Delivering'
  <2> SUFFICES ASSUME stalls' = 0, NEW s \in 1 .. Len(script), WellFormed(script[s])
               PROVE  Delivered(s)' \/ (s = Len(script) /\ Pending')
    BY <1>1 DEF Delivering, WellFormed, PayloadUnits
  <2>1. CASE Delivered(s)
    BY <1>1, <2>1, DeliveredStays
  <2>2. CASE s = Len(script) /\ pc' # "drain"
    BY <1>3, <2>2 DEF Pending
  <2> QED BY <2>1, <2>2
<1> QED BY <1>4, <1>5, <1>6, <1>7, <1>8, <1>9 DEF ListenInv

LEMMA WellFormedFits ==
  ASSUME script \in Seq(Scripts), script # <<>>, WellFormed(script[Len(script)])
  PROVE  /\ Fits
         /\ Current[1].flow \in {"TRANSMISSION", "REQUEST"}
         /\ Current[1].type \notin InvalidTypes \cup ResetMayFail
         /\ \A m \in 1 .. Len(Current) :
              /\ Current[m].type = Current[1].type /\ Current[m].flow = Current[1].flow
              /\ Current[m].first = (m = 1) /\ Current[m].last = (m = Len(Current))
<1>1. WellFormed(Current) /\ Current \in Seq(Header) /\ Current # <<>>
  BY CurrentIs DEF Current
<1>2. Len(PayloadUnits(Current, 1)) = Before(Current)[Len(Current) + 1]
  BY <1>1, PayloadLayout
<1>3. Fits
  BY <1>1, <1>2, SentIs DEF Fits, WellFormed
<1>4. DOMAIN Current = 1 .. Len(Current)
  BY <1>1, LenProperties
<1> QED BY <1>1, <1>3, <1>4 DEF WellFormed

\* All of a message was received: the series ends, or its next header is read.
LEMMA EndsMessage ==
  ASSUME Hears, script # <<>>, NEW st \in {"OK", "MSG_TOO_BIG"},
         NEW h \in Header, h.type \in LoaderTypes, AfterMessage(st, h, loaders'),
         ~garbled' => \E m \in 1 .. Len(Current) :
           LineAfter(wire', m, 0) /\ h = Current[m] /\ HasReceived(loaders', m, 0),
         ~garbled' /\ Fits => st = "OK",
         stalls' = 0 => \A s \in 1 .. Len(script) :
           WellFormed(script[s]) => Delivered(s) \/ s = Len(script)
  PROVE  ListenInv'
<1>1. script \in Seq(Scripts) /\ (stalls' = 0 => ~garbled')
  BY DEF Hears, ListenInv, ListenTypes, TypeOK
<1>2. Len(Current) \in Nat
  BY <1>1, CurrentIs
<1>3. CASE (st # "OK" \/ EndsSeries(h)) /\ Return(st, [h EXCEPT !.has_payload = TRUE], loaders')
  <2> DEFINE hh == [h EXCEPT !.has_payload = TRUE]
  <2>1. hh.type = h.type
    BY DEF Header
  <2>2. stalls' = 0 => \E m \in 0 .. Len(Current) : LineAfter(wire', m, 0)
    BY <1>1, <1>2
  <2>3. ASSUME st = "OK", ~garbled', Fits
        PROVE  h.type = Current[1].type /\ loaders'[h.type] = Payload
    <3>1. PICK m \in 1 .. Len(Current) :
             LineAfter(wire', m, 0) /\ h = Current[m] /\ HasReceived(loaders', m, 0)
      BY <2>3
    <3>2. m = Len(Current)
      BY <1>1, <1>3, <2>3, <3>1, CurrentIs DEF EndsSeries
    <3>3. loaders'[h.type] = SubSeq(Payload, 1, Before(Current)[m + 1] - 0)
      BY <2>3, <3>1 DEF HasReceived
    <3>4. Payload \in Seq(Unit) /\ Before(Current)[m + 1] = Len(Payload)
      BY <1>1, <3>2, SentIs
    <3>5. Len(Payload) \in Nat
      BY <3>4, LenProperties
    <3>6. SubSeq(Payload, 1, Len(Payload)) = Payload
      BY <3>4, SubSeqFull
    <3>7. Len(Payload) - 0 = Len(Payload)
      BY <3>5
    <3> QED BY <3>1, <3>3, <3>4, <3>6, <3>7 DEF HasReceived
  <2>4. stalls' = 0 => \A s \in 1 .. Len(script) :
          WellFormed(script[s]) => Delivered(s) \/ (s = Len(script) /\ st = "OK")
    BY <1>1, WellFormedFits
  <2>5. Return(st, hh, loaders')
    BY <1>3
  <2> HIDE DEF hh
  <2> QED BY <2>1, <2>2, <2>3, <2>4, <2>5, Returns
<1>4. CASE /\ st = "OK" /\ ~EndsSeries(h)
           /\ pc' = "next_header"
           /\ n' = 0 /\ status' = "OK" /\ header' = h
           /\ UNCHANGED <<outcome, delivered>>
  <2>1. stalls' = 0 \/ (pc' # "drain" /\ ~garbled') =>
          \E m \in 1 .. Len(Current) :
            /\ LineAfter(wire', m, n') /\ header' = Current[m]
            /\ pc' # "drain" => HasReceived(loaders', m, n')
    BY <1>1, <1>4
  <2>2. header' \in Header /\ header'.type \in LoaderTypes /\ ~header'.last
    BY <1>4 DEF EndsSeries
  <2> QED BY <1>4, <2>1, <2>2, GoesOn
<1> QED BY <1>3, <1>4 DEF AfterMessage

\* The header of a message was read and is accepted.
LEMMA Accepts ==
  ASSUME Hears, script # <<>>, NEW h \in Header, h.type \in LoaderTypes,
         ReceiveMessage(h, loaders'),
         ~garbled' => \E m \in 1 .. Len(Current) :
           /\ LineAfter(wire', m, h.payload_size) /\ h = Current[m]
           /\ HasReceived(loaders', m, h.payload_size),
         stalls' = 0 => \A s \in 1 .. Len(script) :
           WellFormed(script[s]) => Delivered(s) \/ s = Len(script)
  PROVE  ListenInv'
<1>1. script \in Seq(Scripts) /\ (stalls' = 0 => ~garbled')
  BY DEF Hears, ListenInv, ListenTypes, TypeOK
<1>2. h.payload_size \in Nat
  BY DEF Header
<1>3. CASE /\ h.has_payload /\ h.payload_size > 0
           /\ pc' = "payload" /\ n' = h.payload_size /\ status' = "OK"
           /\ header' = h
           /\ UNCHANGED <<outcome, delivered>>
  <2>1. stalls' = 0 \/ (pc' # "drain" /\ ~garbled') =>
          \E m \in 1 .. Len(Current) :
            /\ LineAfter(wire', m, n') /\ header' = Current[m]
            /\ pc' # "drain" => HasReceived(loaders', m, n')
    BY <1>1, <1>3
  <2> QED BY <1>2, <1>3, <2>1, GoesOn
<1>4. CASE ~(h.has_payload /\ h.payload_size > 0) /\ AfterMessage("OK", h, loaders')
  <2>1. ~garbled' => \E m \in 1 .. Len(Current) :
          LineAfter(wire', m, 0) /\ h = Current[m] /\ HasReceived(loaders', m, 0)
    <3> SUFFICES ASSUME ~garbled'
                 PROVE  \E m \in 1 .. Len(Current) :
                          LineAfter(wire', m, 0) /\ h = Current[m] /\ HasReceived(loaders', m, 0)
      OBVIOUS
    <3>1. PICK m \in 1 .. Len(Current) :
            /\ LineAfter(wire', m, h.payload_size) /\ h = Current[m]
            /\ HasReceived(loaders', m, h.payload_size)
      OBVIOUS
    <3>2. h.payload_size = 0
      <4>1. h.has_payload \/ h.payload_size = 0
        BY <1>1, <3>1, CurrentIs
      <4> QED BY <1>2, <1>4, <4>1
    <3> QED BY <3>1, <3>2
  <2> QED BY <1>4, <2>1, EndsMessage
<1> QED BY <1>3, <1>4 DEF ReceiveMessage

\* The header of a message was read and is refused with the status st.
LEMMA Refuses ==
  ASSUME Hears, script # <<>>, NEW h \in Header,
         NEW st \in {"FLOW_CONTROL_ERROR", "INVALID_MESSAGE_TYPE", "LOADER_RESET_ERROR"},
         Drain(st, h),
         stalls' = 0 => /\ \E m \in 1 .. Len(Current) :
                             LineAfter(wire', m, h.payload_size) /\ h = Current[m]
                        /\ \A s \in 1 .. Len(script) : WellFormed(script[s]) => Delivered(s)
  PROVE  ListenInv'
<1>1. h.payload_size \in Nat
  BY DEF Header
<1>2. /\ pc' = "drain" /\ n' = h.payload_size /\ status' = st /\ header' = h
      /\ outcome' = outcome /\ delivered' = delivered
  BY DEF Drain
<1>3. stalls' = 0 \/ (pc' # "drain" /\ ~garbled') =>
        \E m \in 1 .. Len(Current) :
          /\ LineAfter(wire', m, n') /\ header' = Current[m]
          /\ pc' # "drain" => HasReceived(loaders', m, n')
  BY <1>2
<1> QED BY <1>1, <1>2, <1>3, GoesOn

-----------------------------------------------------------------------------
(* Every step keeps the invariant.                                         *)

LEMMA SomethingSent ==
  ASSUME script \in Seq(Scripts), script # <<>>
  PROVE  Len(Sent) \in Nat /\ Len(Sent) >= 1
<1>1. /\ Len(Current) \in Nat /\ Len(Current) >= 1
      /\ Before(Current)[Len(Current) + 1] \in Nat
  <2>1. Len(Current) \in Nat /\ Len(Current) >= 1
    BY CurrentIs
  <2>2. Len(Current) \in 0 .. Len(Current)
    BY <2>1
  <2> QED BY <2>1, <2>2, CurrentIs
<1>2. Len(Sent) = Before(Current)[Len(Current) + 1] + Len(Current)
  BY SentIs
<1> QED BY <1>1, <1>2

LEMMA SendStep ==
  ASSUME ListenInv, NEW s \in Scripts, Send(s)
  PROVE  ListenInv'
<1>1. /\ script \in Seq(Scripts) /\ delivered \in Seq(Nat) /\ Len(script) \in Nat
      /\ loaders \in [LoaderTypes -> Seq(Unit)]
      /\ pc = "first_header" /\ wire = <<>> /\ n = 0
  BY LenProperties DEF Send, ListenInv, ListenTypes, TypeOK
<1>2. /\ script' = Append(script, s) /\ wire' = SeriesUnits(s, Len(script) + 1)
      /\ pc' = "first_header" /\ n' = 0
      /\ UNCHANGED <<header, status, loaders, outcome, garbled, delivered, stalls>>
  BY <1>1 DEF Send
<1>3. /\ script' \in Seq(Scripts) /\ Len(script') = Len(script) + 1 /\ script' # <<>>
      /\ script'[Len(script) + 1] = s
      /\ \A i \in 1 .. Len(script) : script'[i] = script[i]
  BY <1>1, <1>2, AppendProperties
<1>4. Current' = s /\ Sent' = wire'
  BY <1>2, <1>3 DEF Current, Sent
<1>5. /\ s \in Seq(Header) /\ s # <<>> /\ Len(s) \in Nat /\ Len(script) + 1 \in Nat
  BY <1>1, ScriptAssumption, LenProperties DEF Series
<1>6. wire' \in Seq(Unit) /\ Len(wire') \in Nat
  BY <1>2, <1>5, SeriesLayout, LenProperties
<1>7. LineFrom(wire, 1)'
  <2>1. SubSeq(wire', 1, Len(wire')) = wire'
    BY <1>6, SubSeqFull
  <2>2. 1 \in 1 .. Len(wire') + 1
    BY <1>6
  <2> QED BY <1>4, <2>1, <2>2 DEF LineFrom
<1>8. ListenTypes'
  <2>1. \A i \in DOMAIN wire' : wire'[i].is_header \in BOOLEAN
    <3>1. \A i \in DOMAIN wire' : wire'[i] \in Unit
      BY <1>6, ElementOfSeq, LenProperties
    <3> QED BY <3>1 DEF Unit
  <2>2. TypeOK'
    BY <1>1, <1>2, <1>3, <2>1 DEF ListenInv, ListenTypes, TypeOK, written
  <2> QED BY <1>2, <1>6, <2>2 DEF ListenInv, ListenTypes
<1>9. LineIsSuffix'
  <2>1. Len(Sent') - Len(wire') + 1 = 1
    BY <1>4, <1>6
  <2> QED BY <1>3, <1>7, <2>1 DEF LineIsSuffix, LineFrom
<1>10. KnowsPlace'
  <2>1. stalls' = 0 => ~garbled'
    BY <1>2 DEF ListenInv, KnowsPlace
  <2>2. 0 \in 0 .. Len(Current') /\ Before(Current')[0 + 1] = 0
    BY <1>4, <1>5, BeforeIs
  <2>3. LineAfter(wire, 0, n)'
    BY <1>2, <1>7, <2>2 DEF LineAfter, LineFrom
  <2>4. Place(0)'
    BY <1>2, <2>3 DEF Place, Receiving
  <2> QED BY <2>1, <2>2, <2>4 DEF KnowsPlace
<1>11. ReceivingRight'
  BY <1>2 DEF ReceivingRight, Receiving
<1>12. ReportedRight'
  <2> SUFFICES ASSUME outcome.status = "OK", ~outcome.garbled, outcome.has_payload
               PROVE  outcome.series \in 1 .. Len(script') /\ WholeSeriesOrNothing'
    BY <1>2 DEF ReportedRight
  <2>1. outcome.series \in 1 .. Len(script) /\ WholeSeriesOrNothing
    BY <1>1 DEF ListenInv, ReportedRight
  <2>2. script'[outcome.series] = script[outcome.series] /\ outcome.series \in 1 .. Len(script')
    BY <1>1, <1>3, <2>1
  <2> QED BY <1>1, <1>2, <2>1, <2>2 DEF WholeSeriesOrNothing
<1>13. Delivering'
  <2> SUFFICES ASSUME stalls = 0, NEW i \in 1 .. Len(script'), WellFormed(script'[i])
               PROVE  Delivered(i)' \/ (i = Len(script') /\ Pending')
    BY <1>2 DEF Delivering, WellFormed, PayloadUnits
  <2>1. CASE i = Len(script')
    BY <1>2, <1>7, <2>1 DEF Pending
  <2>2. CASE i # Len(script')
    <3>1. i \in 1 .. Len(script) /\ WellFormed(script[i])
      BY <1>1, <1>3, <2>2
    <3>2. Delivered(i) \/ Pending
      BY <3>1 DEF ListenInv, Delivering
    <3>3. ~Pending
      <4>1. script # <<>>
        BY <1>1, <3>1
      <4>2. ~LineFrom(wire, 1)
        <5> SUFFICES ASSUME LineFrom(wire, 1) PROVE FALSE
          OBVIOUS
        <5>1. Len(wire) = Len(Sent) - 1 + 1
          BY <1>1, <4>1, Reads
        <5> QED BY <1>1, <4>1, <5>1, SomethingSent
      <4> QED BY <1>1, <4>2 DEF Pending, Receiving
    <3>4. delivered' = delivered
      BY <1>2
    <3> QED BY <1>1, <3>2, <3>3, <3>4 DEF Delivered
  <2> QED BY <2>1, <2>2
<1> QED BY <1>8, <1>9, <1>10, <1>11, <1>12, <1>13 DEF ListenInv

\* A read of k units that succeeds, and one that times out.
LEMMA TakeHears ==
  ASSUME ListenInv, script' = script, stalls' = stalls, NEW k \in Nat, Take(k),
         k > 0 \/ script # <<>>,
         garbled' \in BOOLEAN, stalls = 0 => ~garbled',
         loaders' \in [LoaderTypes -> Seq(Unit)],
         \A t \in LoaderTypes : Len(loaders'[t]) <= MaxSize
  PROVE  Hears /\ script # <<>>
<1>1. /\ script \in Seq(Scripts) /\ wire \in Seq(Unit) /\ stalls \in 0 .. MaxStalls
      /\ LineIsSuffix
  BY DEF ListenInv, ListenTypes, TypeOK
<1>2. k <= Len(wire) /\ wire' = SubSeq(wire, k + 1, Len(wire))
  BY DEF Take
<1>3. script # <<>>
  BY <1>1, <1>2 DEF LineIsSuffix
<1> DEFINE p == Len(Sent) - Len(wire) + 1
<1>4. LineFrom(wire, p)
  BY <1>1, <1>3 DEF LineIsSuffix
<1> HIDE DEF p
<1>5. /\ Len(wire) \in Nat /\ Len(wire) = Len(Sent) - p + 1
      /\ \A j \in 0 .. Len(wire) : LineFrom(SubSeq(wire, j + 1, Len(wire)), p + j)
  BY <1>1, <1>3, <1>4, Reads
<1>6. LineFrom(wire', p + k)
  BY <1>2, <1>5
<1>7. wire' \in Seq(Unit) /\ Len(wire') = Len(Sent) - (p + k) + 1
  BY <1>1, <1>3, <1>6, Reads
<1>8. Len(Sent) - Len(wire') + 1 = p + k
  <2>1. Len(Sent) \in Nat /\ p + k \in Int
    BY <1>1, <1>3, <1>6, SomethingSent DEF LineFrom
  <2> QED BY <1>7, <2>1
<1> QED BY <1>1, <1>3, <1>6, <1>7, <1>8 DEF Hears

LEMMA TimeoutHears ==
  ASSUME ListenInv, script' = script, NEW k \in Nat, k > 0, TimesOut(k),
         garbled' \in BOOLEAN, stalls = 0 => ~garbled', loaders' = loaders
  PROVE  /\ Hears
         /\ stalls' = 0 => wire' = <<>> /\ Len(wire) < k
<1>1. /\ script \in Seq(Scripts) /\ wire \in Seq(Unit) /\ stalls \in 0 .. MaxStalls
      /\ loaders \in [LoaderTypes -> Seq(Unit)]
      /\ \A t \in LoaderTypes : Len(loaders[t]) <= MaxSize
      /\ LineIsSuffix /\ Len(wire) \in Nat /\ MaxStalls \in Nat
  BY LenProperties, ListenAssumption DEF ListenInv, ListenTypes, TypeOK, written
<1>2. CASE Len(wire) < k /\ wire' = <<>> /\ stalls' = stalls
  <2>1. script # <<>> => LineFrom(wire', Len(Sent) - Len(wire') + 1)
    <3>1. ASSUME script # <<>>
          PROVE  LineFrom(wire', Len(Sent) - Len(wire') + 1)
      <4>1. Len(wire') = 0 /\ Len(Sent) \in Nat
        BY <1>1, <1>2, <3>1, SomethingSent
      <4>2. Len(Sent) - Len(wire') + 1 = Len(Sent) + 1
        BY <4>1
      <4> QED BY <1>1, <1>2, <3>1, <4>2, LosesAll
    <3> QED BY <3>1
  <2>2. wire' \in Seq(Unit)
    BY <1>2
  <2> QED BY <1>1, <1>2, <2>1, <2>2 DEF Hears
<1>3. CASE /\ stalls < MaxStalls
           /\ \E j \in 0 .. Lesser(k - 1, Len(wire)) : wire' = SubSeq(wire, j + 1, Len(wire))
           /\ stalls' = stalls + 1
  <2>1. PICK j \in 0 .. Lesser(k - 1, Len(wire)) : wire' = SubSeq(wire, j + 1, Len(wire))
    BY <1>3
  <2>2. j \in 0 .. Len(wire)
    BY <1>1, <2>1 DEF Lesser
  <2>3. stalls' \in 0 .. MaxStalls /\ stalls' # 0
    BY <1>1, <1>3
  <2>4. CASE script = <<>>
    <3>1. wire = <<>>
      BY <1>1, <2>4 DEF LineIsSuffix
    <3>2. wire' = <<>>
      <4>1. Len(wire) = 0 /\ j + 1 \in Int /\ Len(wire) < j + 1
        BY <2>2, <3>1
      <4> QED BY <2>1, <4>1, SubSeqEmpty
    <3> QED BY <1>1, <2>3, <2>4, <3>2 DEF Hears
  <2>5. CASE script # <<>>
    <3> DEFINE p == Len(Sent) - Len(wire) + 1
    <3>1. LineFrom(wire, p)
      BY <1>1, <2>5 DEF LineIsSuffix
    <3> HIDE DEF p
    <3>2. LineFrom(wire', p + j)
      BY <1>1, <2>1, <2>2, <2>5, <3>1, Reads
    <3>3. wire' \in Seq(Unit) /\ Len(wire') = Len(Sent) - (p + j) + 1
      BY <1>1, <2>5, <3>2, Reads
    <3>4. Len(Sent) - Len(wire') + 1 = p + j
      <4>1. Len(Sent) \in Nat /\ p + j \in Int
        BY <1>1, <2>5, <3>2, SomethingSent DEF LineFrom
      <4> QED BY <3>3, <4>1
    <3> QED BY <1>1, <2>3, <2>5, <3>2, <3>3, <3>4 DEF Hears
  <2> QED BY <2>4, <2>5
<1> QED BY <1>2, <1>3 DEF TimesOut

\* The facts of ListenInv the server's steps start from.
LEMMA Known ==
  ASSUME ListenInv
  PROVE  /\ script \in Seq(Scripts) /\ Len(script) \in Nat /\ wire \in Seq(Unit) /\ Len(wire) \in Nat
         /\ n \in Nat /\ garbled \in BOOLEAN /\ delivered \in Seq(Nat)
         /\ loaders \in [LoaderTypes -> Seq(Unit)]
         /\ \A t \in LoaderTypes : Len(loaders[t]) <= MaxSize
         /\ MaxSize \in Nat /\ stalls \in 0 .. MaxStalls
         /\ stalls = 0 => ~garbled
         /\ Aware => \E m \in 0 .. Len(Current) : Place(m)
         /\ pc # "first_header" => script # <<>>
         /\ stalls = 0 => \A s \in 1 .. Len(script) :
              WellFormed(script[s]) => Delivered(s) \/ (s = Len(script) /\ Pending)
BY LenProperties, ListenAssumption
   DEF ListenInv, ListenTypes, TypeOK, KnowsPlace, LineIsSuffix, Delivering, written

LEMMA FirstHeaderStep ==
  ASSUME ListenInv, FirstHeader
  PROVE  ListenInv'
<1>1. /\ pc = "first_header" /\ Take(1) /\ garbled' = ~Head(wire).is_header
      /\ script' = script /\ stalls' = stalls /\ n = 0 /\ LineIsSuffix
  BY DEF FirstHeader, ListenInv, ListenTypes, TypeOK
<1>2. /\ script # <<>> /\ script \in Seq(Scripts) /\ Len(wire) >= 1 /\ Head(wire) \in Unit
  <2>1. Len(wire) >= 1 /\ wire # <<>>
    BY <1>1, Known DEF Take
  <2>2. Head(wire) \in Unit
    BY <2>1, Known, HeadTailProperties
  <2> QED BY <1>1, <2>1, <2>2, Known DEF LineIsSuffix
<1>3. Len(script) >= 1 /\ Len(script) \in Nat
  BY <1>2, CurrentIs
<1>4. stalls = 0 => ~garbled'
  <2>1. ASSUME stalls = 0
        PROVE  Head(wire).is_header
    <3>1. PICK m \in 0 .. Len(Current) : Place(m)
      BY <1>2, <2>1, Known DEF Aware
    <3>2. LineAfter(wire, m, 0)
      BY <1>1, <3>1 DEF Place
    <3> QED BY <1>1, <1>2, <3>2, NextHeaderRead
  <2> QED BY <1>1, <2>1
<1>5. PICK h \in GarbageHeaders \cup {Head(wire).header} :
       /\ ReadsAs(Head(wire), h)
       /\ \/ /\ FirstRefused(h)
             /\ Drain("FLOW_CONTROL_ERROR", h) /\ UNCHANGED loaders
          \/ /\ ~FirstRefused(h) /\ h.type \in InvalidTypes
             /\ Drain("INVALID_MESSAGE_TYPE", h) /\ UNCHANGED loaders
          \/ /\ ~FirstRefused(h) /\ h.type \in ResetMayFail /\ h.has_payload
             /\ Drain("LOADER_RESET_ERROR", h) /\ loaders' = [loaders EXCEPT ![h.type] = <<>>]
          \/ /\ ~FirstRefused(h) /\ h.type \in LoaderTypes /\ h.has_payload
             /\ ReceiveMessage(h, Reset(h.type))
          \/ /\ ~FirstRefused(h) /\ h.type \notin InvalidTypes /\ ~h.has_payload
             /\ Return("OK", h, loaders) /\ UNCHANGED loaders
  BY DEF FirstHeader
<1>6. h \in Header
  BY <1>2, ScriptAssumption DEF Unit
<1>7. ~garbled' => \E m \in 1 .. Len(Current) :
        LineAfter(wire', m, h.payload_size) /\ h = Current[m]
  <2>1. ASSUME ~garbled'
        PROVE  Head(wire).is_header /\ h = Head(wire).header
    BY <1>1, <1>5, <2>1 DEF ReadsAs
  <2> QED BY <1>1, <1>2, <2>1, HeaderFound
<1>8. ASSUME stalls = 0, NEW s \in 1 .. Len(script), WellFormed(script[s])
      PROVE  \/ Delivered(s)
             \/ /\ s = Len(script) /\ ~FirstRefused(h)
                /\ h.type \notin InvalidTypes \cup ResetMayFail
  <2>1. Delivered(s) \/ (s = Len(script) /\ LineFrom(wire, 1))
    BY <1>1, <1>8, Known DEF Pending, Receiving
  <2>2. CASE s = Len(script) /\ LineFrom(wire, 1)
    <3>1. /\ Current[1].flow \in {"TRANSMISSION", "REQUEST"}
          /\ Current[1].type \notin InvalidTypes \cup ResetMayFail
          /\ Current[1].first
      <4>1. 1 \in 1 .. Len(Current)
        BY <1>2, CurrentIs
      <4> QED BY <1>2, <1>8, <2>2, <4>1, WellFormedFits
    <3>2. LineAfter(wire, 0, 0)
      <4>1. /\ 0 \in 0 .. Len(Current) /\ Before(Current)[0 + 1] = 0
            /\ Before(Current)[0 + 1] + 0 + 1 - 0 = 1
        BY <1>2, CurrentIs
      <4> QED BY <2>2, <4>1 DEF LineAfter
    <3>3. Head(wire).is_header /\ Head(wire).header = Current[0 + 1]
      BY <1>1, <1>2, <3>2, NextHeaderRead
    <3>4. h = Current[1]
      BY <1>5, <3>3 DEF ReadsAs
    <3> QED BY <2>2, <3>1, <3>4 DEF FirstRefused
  <2> QED BY <2>1, <2>2
<1>9. \A s \in 1 .. Len(script) : stalls = 0 /\ WellFormed(script[s]) => Delivered(s) \/ s = Len(script)
  BY <1>8
<1>10. garbled' \in BOOLEAN
  BY <1>1, <1>2 DEF Unit
<1>11. ASSUME loaders' = loaders PROVE Hears
  BY <1>1, <1>4, <1>10, <1>11, Known, TakeHears
<1>12. ASSUME h.type \in LoaderTypes, loaders' = [loaders EXCEPT ![h.type] = <<>>]
       PROVE  Hears
  <2>1. loaders' \in [LoaderTypes -> Seq(Unit)] /\ \A t \in LoaderTypes : Len(loaders'[t]) <= MaxSize
    BY <1>12, Known
  <2> QED BY <1>1, <1>4, <1>10, <2>1, Known, TakeHears
<1>13. CASE /\ FirstRefused(h) \/ h.type \in InvalidTypes
            /\ Drain("FLOW_CONTROL_ERROR", h) \/ Drain("INVALID_MESSAGE_TYPE", h)
            /\ loaders' = loaders
  BY <1>1, <1>2, <1>4, <1>6, <1>7, <1>8, <1>11, <1>13, Refuses
<1>14. CASE /\ h.type \in ResetMayFail
            /\ Drain("LOADER_RESET_ERROR", h) /\ loaders' = [loaders EXCEPT ![h.type] = <<>>]
  <2>1. Hears
    BY <1>12, <1>14, ListenAssumption
  <2> QED BY <1>1, <1>2, <1>4, <1>6, <1>7, <1>8, <1>14, <2>1, Refuses
<1>15. CASE ~FirstRefused(h) /\ h.type \in LoaderTypes /\ ReceiveMessage(h, Reset(h.type))
  <2>1. loaders' = [loaders EXCEPT ![h.type] = <<>>] /\ ReceiveMessage(h, loaders')
    BY <1>15 DEF ReceiveMessage, Reset
  <2>2. Hears
    BY <1>12, <1>15, <2>1
  <2>3. ASSUME ~garbled'
        PROVE  \E m \in 1 .. Len(Current) :
                 /\ LineAfter(wire', m, h.payload_size) /\ h = Current[m]
                 /\ HasReceived(loaders', m, h.payload_size)
    <3>1. PICK m \in 1 .. Len(Current) : LineAfter(wire', m, h.payload_size) /\ h = Current[m]
      BY <1>7, <2>3
    <3>2. m = 1
      BY <1>2, <1>15, <3>1, CurrentIs DEF FirstRefused
    <3>3. Before(Current)[m + 1] - h.payload_size = 0
      <4>1. /\ Before(Current)[1] = 0 /\ h.payload_size \in Nat
            /\ Before(Current)[m + 1] = Before(Current)[m] + h.payload_size
        BY <1>2, <3>1, CurrentIs
      <4> QED BY <3>2, <4>1
    <3>4. SubSeq(Payload, 1, 0) = <<>>
      BY SubSeqEmpty
    <3>5. loaders'[h.type] = <<>>
      BY <1>15, <2>1, Known
    <3> QED BY <3>1, <3>2, <3>3, <3>4, <3>5 DEF HasReceived
  <2> QED BY <1>1, <1>2, <1>6, <1>9, <1>15, <2>1, <2>2, <2>3, Accepts
<1>16. CASE ~FirstRefused(h) /\ ~h.has_payload /\ Return("OK", h, loaders) /\ loaders' = loaders
  <2>1. stalls' = 0 => \E m \in 0 .. Len(Current) : LineAfter(wire', m, 0)
    <3>1. ASSUME ~garbled'
          PROVE  \E m \in 0 .. Len(Current) : LineAfter(wire', m, 0)
      <4>1. PICK m \in 1 .. Len(Current) : LineAfter(wire', m, h.payload_size) /\ h = Current[m]
        BY <1>7, <3>1
      <4>2. h.payload_size = 0 /\ m \in 0 .. Len(Current)
        BY <1>2, <1>16, <4>1, CurrentIs
      <4> QED BY <4>1, <4>2
    <3> QED BY <1>1, <1>4, <3>1
  <2>2. Return("OK", h, loaders')
    BY <1>16
  <2> QED BY <1>1, <1>2, <1>9, <1>11, <1>16, <2>1, <2>2, Returns
<1> QED BY <1>5, <1>13, <1>14, <1>15, <1>16

LEMMA NextHeaderStep ==
  ASSUME ListenInv, NextHeader
  PROVE  ListenInv'
<1>1. /\ pc = "next_header" /\ Take(1) /\ garbled' = (garbled \/ ~Head(wire).is_header)
      /\ script' = script /\ stalls' = stalls /\ n = 0
      /\ header \in Header /\ header.type \in LoaderTypes /\ ~header.last
  BY DEF NextHeader, ListenInv, ListenTypes, TypeOK, ReceivingRight, Receiving
<1>2. /\ script # <<>> /\ script \in Seq(Scripts) /\ Head(wire) \in Unit
  <2>1. wire # <<>>
    BY <1>1, Known DEF Take
  <2>2. Head(wire) \in Unit
    BY <2>1, Known, HeadTailProperties
  <2> QED BY <1>1, <2>2, Known
<1>3. Len(script) >= 1 /\ Len(script) \in Nat
  BY <1>2, CurrentIs
<1>4. PICK h \in GarbageHeaders \cup {Head(wire).header} :
       /\ ReadsAs(Head(wire), h)
       /\ \/ /\ ~SameType(h)
             /\ Drain("INVALID_MESSAGE_TYPE", h) /\ UNCHANGED loaders
          \/ /\ SameType(h) /\ h.flow # header.flow
             /\ Drain("FLOW_CONTROL_ERROR", h) /\ UNCHANGED loaders
          \/ /\ SameType(h) /\ h.flow = header.flow
             /\ ReceiveMessage(h, loaders)
  BY DEF NextHeader
<1>5. h \in Header
  BY <1>2, ScriptAssumption DEF Unit
<1>6. ASSUME stalls = 0 \/ ~garbled'
      PROVE  /\ ~garbled'
             /\ \E m \in 1 .. Len(Current) - 1 :
                  /\ header = Current[m] /\ h = Current[m + 1]
                  /\ HasReceived(loaders, m, 0)
                  /\ LineAfter(wire', m + 1, h.payload_size)
  <2>1. ~garbled
    BY <1>1, <1>6, Known
  <2>2. PICK m \in 0 .. Len(Current) : Place(m)
    BY <1>1, <1>2, <2>1, Known DEF Aware, Receiving
  <2>3. LineAfter(wire, m, 0) /\ m > 0 /\ header = Current[m] /\ HasReceived(loaders, m, 0)
    BY <1>1, <2>2 DEF Place, Receiving
  <2>4. /\ m \in 0 .. Len(Current) - 1
        /\ Head(wire).is_header /\ Head(wire).header = Current[m + 1]
        /\ LineAfter(wire', m + 1, Current[m + 1].payload_size)
    BY <1>1, <1>2, <2>3, NextHeaderRead
  <2>5. h = Current[m + 1] /\ ~garbled'
    BY <1>1, <1>4, <2>1, <2>4 DEF ReadsAs
  <2>6. m \in 1 .. Len(Current) - 1
    BY <1>2, <2>3, <2>4, CurrentIs
  <2> QED BY <2>3, <2>4, <2>5, <2>6
<1>7. stalls = 0 => ~garbled'
  BY <1>6
<1>8. loaders' = loaders
  BY <1>4 DEF ReceiveMessage
<1>9. garbled' \in BOOLEAN
  BY <1>1, <1>2, Known DEF Unit
<1>10. Hears
  BY <1>1, <1>7, <1>8, <1>9, Known, TakeHears
<1>11. ASSUME stalls = 0, NEW s \in 1 .. Len(script), WellFormed(script[s])
       PROVE  Delivered(s) \/ (s = Len(script) /\ SameType(h) /\ h.flow = header.flow)
  <2>1. Delivered(s) \/ s = Len(script)
    BY <1>11, Known
  <2>2. CASE s = Len(script)
    <3>1. PICK m \in 1 .. Len(Current) - 1 : header = Current[m] /\ h = Current[m + 1]
      BY <1>6, <1>11
    <3>2. m \in 1 .. Len(Current) /\ m + 1 \in 1 .. Len(Current)
      BY <1>2, CurrentIs
    <3> QED BY <1>2, <1>11, <2>2, <3>1, <3>2, WellFormedFits DEF SameType
  <2> QED BY <2>1, <2>2
<1>12. CASE /\ ~(SameType(h) /\ h.flow = header.flow)
            /\ Drain("INVALID_MESSAGE_TYPE", h) \/ Drain("FLOW_CONTROL_ERROR", h)
  <2>1. stalls' = 0 => \E m \in 1 .. Len(Current) :
          LineAfter(wire', m, h.payload_size) /\ h = Current[m]
    <3>1. ASSUME stalls = 0
          PROVE  \E m \in 1 .. Len(Current) : LineAfter(wire', m, h.payload_size) /\ h = Current[m]
      <4>1. PICK m \in 1 .. Len(Current) - 1 :
              h = Current[m + 1] /\ LineAfter(wire', m + 1, h.payload_size)
        BY <1>6, <3>1
      <4>2. m + 1 \in 1 .. Len(Current)
        BY <1>2, CurrentIs
      <4> QED BY <4>1, <4>2
    <3> QED BY <1>1, <3>1
  <2> QED BY <1>1, <1>2, <1>5, <1>10, <1>11, <1>12, <2>1, Refuses
<1>13. CASE SameType(h) /\ h.flow = header.flow /\ ReceiveMessage(h, loaders)
  <2>1. ASSUME ~garbled'
        PROVE  \E m \in 1 .. Len(Current) :
                 /\ LineAfter(wire', m, h.payload_size) /\ h = Current[m]
                 /\ HasReceived(loaders', m, h.payload_size)
    <3>1. PICK m \in 1 .. Len(Current) - 1 :
            /\ header = Current[m] /\ h = Current[m + 1]
            /\ HasReceived(loaders, m, 0)
            /\ LineAfter(wire', m + 1, h.payload_size)
      BY <1>6, <2>1
    <3>2. m + 1 \in 1 .. Len(Current) /\ m + 1 \in 0 .. Len(Current) /\ m \in 0 .. Len(Current)
      BY <1>2, CurrentIs
    <3>3. Before(Current)[m + 1 + 1] - h.payload_size = Before(Current)[m + 1] - 0
      <4>1. /\ Before(Current)[m + 1] \in Nat /\ h.payload_size \in Nat
            /\ Before(Current)[m + 1 + 1] = Before(Current)[m + 1] + h.payload_size
        BY <1>2, <3>1, <3>2, CurrentIs
      <4> QED BY <4>1
    <3>4. HasReceived(loaders', m + 1, h.payload_size)
      BY <1>8, <1>13, <3>1, <3>3 DEF HasReceived, SameType
    <3> QED BY <3>1, <3>2, <3>4
  <2>2. h.type \in LoaderTypes /\ ReceiveMessage(h, loaders')
    BY <1>1, <1>8, <1>13 DEF SameType
  <2> QED BY <1>1, <1>2, <1>5, <1>10, <1>11, <2>1, <2>2, Accepts
<1> QED BY <1>4, <1>12, <1>13

LEMMA PayloadChunkStep ==
  ASSUME ListenInv, PayloadChunk
  PROVE  ListenInv'
<1> DEFINE T == header.type
           t == ToRead
           units == SubSeq(wire, 1, t)
           fits == buf_save_fits(T, units)
           st == IF fits THEN "OK" ELSE "MSG_TOO_BIG"
<1>1. /\ pc = "payload" /\ Take(t) /\ garbled' = garbled
      /\ script' = script /\ stalls' = stalls /\ n \in Nat /\ n > 0
      /\ header \in Header /\ T \in LoaderTypes
  BY DEF PayloadChunk, ListenInv, ListenTypes, TypeOK, ReceivingRight, Receiving
<1>2. script # <<>> /\ script \in Seq(Scripts) /\ Len(script) \in Nat /\ Len(script) >= 1
  BY <1>1, Known, CurrentIs
<1>3. t \in 1 .. n /\ t \in Nat /\ t > 0
  BY <1>1, ListenAssumption DEF ToRead, Lesser
<1>4. loaders' = IF fits THEN [loaders EXCEPT ![T] = @ \o units] ELSE loaders
  BY DEF PayloadChunk
<1>5. \/ /\ n > t
         /\ n' = n - t /\ status' = st
         /\ UNCHANGED <<pc, header, outcome, delivered>>
      \/ /\ n <= t
         /\ AfterMessage(st, header, loaders')
  BY <1>4 DEF PayloadChunk
<1>6. units \in Seq(Unit)
  <2>1. t <= Len(wire) /\ Len(wire) \in Nat
    BY <1>1, Known DEF Take
  <2>2. wire \in Seq(Unit) /\ units = SubSeq(wire, 0 + 1, 0 + t) /\ 0 + t <= Len(wire)
    BY <1>3, <2>1, Known
  <2> HIDE DEF units, t
  <2> QED BY <1>3, <2>2, Slice
<1> HIDE DEF t, units
<1>7. fits <=> Len(loaders[T]) + Len(units) <= MaxSize
  BY DEF buf_save_fits, written
<1>8. loaders' \in [LoaderTypes -> Seq(Unit)] /\ \A ty \in LoaderTypes : Len(loaders'[ty]) <= MaxSize
  <2>1. CASE fits
    <3> DEFINE a == loaders[T]
               c == loaders'[T]
    <3>1. a \in Seq(Unit)
      BY <1>1, Known
    <3>2. c = a \o units
      BY <1>1, <1>4, <2>1, Known
    <3> HIDE DEF a, c
    <3>3. c \in Seq(Unit) /\ Len(c) = Len(a) + Len(units)
      BY <1>6, <3>1, <3>2, Concatenation
    <3>4. Len(c) <= MaxSize
      BY <1>7, <2>1, <3>3 DEF a
    <3>5. loaders' = [loaders EXCEPT ![T] = c]
      BY <1>4, <2>1, <3>2 DEF a
    <3> HIDE DEF T
    <3> QED BY <1>1, <3>3, <3>4, <3>5, Known
  <2>2. CASE ~fits
    <3> HIDE DEF fits
    <3> QED BY <1>4, <2>2, Known
  <2> QED BY <2>1, <2>2
<1>9. Hears
  BY <1>1, <1>2, <1>3, <1>8, Known, TakeHears
<1>10. stalls = 0 => ~garbled'
  BY <1>1, Known
<1>11. ASSUME ~garbled'
       PROVE  \E m \in 1 .. Len(Current) :
                /\ LineAfter(wire', m, n - t) /\ header = Current[m]
                /\ HasReceived(loaders', m, n - t)
                /\ Fits => fits
  <2>1. PICK m \in 0 .. Len(Current) : Place(m)
    BY <1>1, <1>2, <1>11, Known DEF Aware, Receiving
  <2>2. LineAfter(wire, m, n) /\ m > 0 /\ header = Current[m] /\ HasReceived(loaders, m, n)
    BY <1>1, <2>1 DEF Place, Receiving
  <2>3. m \in 1 .. Len(Current)
    BY <1>2, <2>2, CurrentIs
  <2>4. /\ LineAfter(wire', m, n - t)
        /\ Fits => /\ Len(loaders[Current[m].type]) + Len(SubSeq(wire, 1, t)) <= MaxSize
                   /\ loaders[Current[m].type] \o SubSeq(wire, 1, t)
                        = SubSeq(Payload, 1, Before(Current)[m + 1] - (n - t))
    BY <1>1, <1>2, <1>3, <2>2, <2>3, Known, PayloadRead
  <2>5. Fits => fits
    BY <1>7, <2>2, <2>4 DEF units
  <2>6. Fits => loaders'[Current[m].type] = SubSeq(Payload, 1, Before(Current)[m + 1] - (n - t))
    <3>1. ASSUME Fits
          PROVE  loaders'[T] = SubSeq(Payload, 1, Before(Current)[m + 1] - (n - t))
      <4>1. loaders' = [loaders EXCEPT ![T] = @ \o units]
        BY <1>4, <2>5, <3>1
      <4>2. loaders'[T] = loaders[T] \o units
        BY <1>1, <4>1, Known
      <4> QED BY <2>2, <2>4, <3>1, <4>2 DEF units
    <3> QED BY <2>2, <3>1
  <2>7. HasReceived(loaders', m, n - t)
    BY <2>2, <2>6 DEF HasReceived
  <2> QED BY <2>2, <2>3, <2>4, <2>5, <2>7
<1>12. stalls = 0 => \A s \in 1 .. Len(script) : WellFormed(script[s]) => Delivered(s) \/ s = Len(script)
  BY Known
<1> HIDE DEF fits
<1>13. CASE /\ n > t
            /\ n' = n - t /\ status' = st
            /\ UNCHANGED <<pc, header, outcome, delivered>>
  <2>1. n' \in Nat /\ n' > 0 /\ pc' = "payload" /\ header' = header /\ delivered' = delivered
    BY <1>1, <1>3, <1>13
  <2>2. ~garbled' => \E m \in 1 .. Len(Current) :
          LineAfter(wire', m, n') /\ header' = Current[m] /\ HasReceived(loaders', m, n')
    BY <1>11, <1>13, <2>1
  <2>3. status' \in {"OK", "MSG_TOO_BIG"}
    BY <1>13
  <2> HIDE DEF st
  <2> QED BY <1>1, <1>2, <1>9, <1>10, <1>12, <2>1, <2>2, <2>3, GoesOn
<1>14. CASE n <= t /\ AfterMessage(st, header, loaders')
  <2>1. n - t = 0
    BY <1>1, <1>3, <1>14
  <2>2. ~garbled' => \E m \in 1 .. Len(Current) :
          LineAfter(wire', m, 0) /\ header = Current[m] /\ HasReceived(loaders', m, 0)
    BY <1>11, <2>1
  <2>3. ~garbled' /\ Fits => st = "OK"
    BY <1>11
  <2>4. st \in {"OK", "MSG_TOO_BIG"}
    OBVIOUS
  <2> HIDE DEF st
  <2> QED BY <1>1, <1>2, <1>9, <1>10, <1>12, <1>14, <2>2, <2>3, <2>4, EndsMessage
<1> QED BY <1>5, <1>13, <1>14

LEMMA DrainedStep ==
  ASSUME ListenInv, Drained
  PROVE  ListenInv'
<1>1. /\ pc = "drain" /\ garbled' = garbled /\ status # "OK"
      /\ Return(status, header, loaders') /\ loaders' = loaders /\ script' = script
      /\ n \in Nat
  BY DEF Drained, ListenInv, ListenTypes, TypeOK
<1>2. script # <<>> /\ script \in Seq(Scripts)
  BY <1>1, Known
<1>3. (Take(n) /\ stalls' = stalls) \/ (n > 0 /\ TimesOut(n))
  BY DEF Drained
<1>4. Hears
  <2>1. CASE Take(n) /\ stalls' = stalls
    BY <1>1, <1>2, <2>1, Known, TakeHears
  <2>2. CASE n > 0 /\ TimesOut(n)
    BY <1>1, <2>2, Known, TimeoutHears
  <2> QED BY <1>3, <2>1, <2>2
<1>5. stalls' = 0 => stalls = 0
  BY <1>4 DEF Hears
<1>6. ASSUME stalls' = 0
      PROVE  \E m \in 0 .. Len(Current) : LineAfter(wire', m, 0)
  <2>1. CASE Take(n)
    <3>1. PICK m \in 0 .. Len(Current) : Place(m)
      BY <1>2, <1>5, <1>6, Known DEF Aware
    <3> DEFINE b == Before(Current)[m + 1]
               p == b + m + 1 - n
    <3>2. /\ LineAfter(wire, m, n) /\ LineFrom(wire, p) /\ b \in Nat /\ m \in Nat
          /\ m \in 1 .. Len(Current)
      BY <1>1, <1>2, <3>1, CurrentIs DEF Place, LineAfter
    <3>3. LineFrom(wire', p + n)
      <4>1. n \in 0 .. Len(wire) /\ wire' = SubSeq(wire, n + 1, Len(wire))
        BY <1>1, <2>1, Known DEF Take
      <4> HIDE DEF p
      <4> QED BY <1>2, <3>2, <4>1, Reads
    <3>4. p + n = b + m + 1 - 0
      <4> HIDE DEF b
      <4> QED BY <1>1, <3>2
    <3>5. LineAfter(wire', m, 0)
      <4>1. Current[m].payload_size \in Nat
        BY <1>2, <3>2, CurrentIs
      <4> HIDE DEF p
      <4> QED BY <3>2, <3>3, <3>4, <4>1 DEF LineAfter
    <3> QED BY <3>5
  <2>2. CASE n > 0 /\ TimesOut(n)
    <3>1. wire' = <<>>
      BY <1>1, <1>6, <2>2, Known, TimeoutHears
    <3> QED BY <1>2, <3>1, LosesAll DEF LineAfter
  <2> QED BY <1>3, <2>1, <2>2
<1>7. stalls' = 0 => \A s \in 1 .. Len(script) : WellFormed(script[s]) => Delivered(s)
  BY <1>1, <1>5, Known DEF Pending, Receiving
<1> QED BY <1>1, <1>2, <1>4, <1>6, <1>7, Returns

LEMMA TimeoutStep ==
  ASSUME ListenInv, Timeout
  PROVE  ListenInv'
<1> DEFINE k == IF pc = "payload" THEN ToRead ELSE 1
<1>1. /\ pc \in {"first_header", "next_header", "payload"} /\ garbled' = FALSE /\ TimesOut(k)
      /\ Return("TIMEOUT", header, loaders') /\ loaders' = loaders /\ script' = script
      /\ n \in Nat
      /\ pc = "payload" => n > 0
      /\ pc # "payload" => n = 0
  BY DEF Timeout, Abandons, ListenInv, ListenTypes, TypeOK
<1>2. k \in Nat /\ k > 0 /\ (pc = "payload" => k <= n) /\ (pc # "payload" => k = 1)
  BY <1>1, ListenAssumption DEF ToRead, Lesser
<1> HIDE DEF k
<1>3. Hears /\ (stalls' = 0 => wire' = <<>> /\ Len(wire) < k)
  BY <1>1, <1>2, TimeoutHears
<1>4. stalls' = 0 => stalls = 0
  BY <1>3 DEF Hears
<1>5. script \in Seq(Scripts) /\ Len(script) \in Nat /\ Len(wire) \in Nat
  BY Known
<1>6. stalls' = 0 /\ script # <<>> => \E m \in 0 .. Len(Current) : LineAfter(wire', m, 0)
  <2>1. script # <<>> => LineAfter(<<>>, Len(Current), 0)
    BY <1>5, LosesAll
  <2>2. script # <<>> => Len(Current) \in 0 .. Len(Current)
    BY <1>5, CurrentIs
  <2> QED BY <1>3, <2>1, <2>2
<1>7. ASSUME stalls' = 0, NEW s \in 1 .. Len(script), WellFormed(script[s])
      PROVE  Delivered(s)
  <2>1. Delivered(s) \/ (s = Len(script) /\ Pending)
    BY <1>4, <1>7, Known
  <2>2. script # <<>> /\ Len(wire) < k
    BY <1>3, <1>5, <1>7
  <2>3. CASE s = Len(script) /\ Pending /\ pc = "first_header"
    <3>1. LineFrom(wire, 1)
      BY <2>3 DEF Pending, Receiving
    <3>2. Len(wire) = Len(Sent) - 1 + 1 /\ Len(Sent) \in Nat /\ Len(Sent) >= 1
      BY <1>5, <2>2, <3>1, Reads, SomethingSent
    <3> QED BY <1>2, <2>2, <2>3, <3>2
  <2>4. CASE s = Len(script) /\ pc # "first_header"
    <3>1. PICK m \in 0 .. Len(Current) : Place(m)
      BY <1>4, <1>7, <2>2, Known DEF Aware
    <3>2. LineAfter(wire, m, n) /\ m \in 1 .. Len(Current) /\ header = Current[m]
      BY <1>5, <2>2, <2>4, <3>1, CurrentIs DEF Place
    <3> DEFINE b == Before(Current)
               L == Len(Current)
               p == b[m + 1] + m + 1 - n
    <3>3. Len(wire) = Len(Sent) - p + 1 /\ Len(Sent) = b[L + 1] + L
      <4>1. LineFrom(wire, p)
        BY <3>2 DEF LineAfter
      <4> HIDE DEF p
      <4> QED BY <1>5, <2>2, <4>1, Reads, SentIs
    <3>4. b[m + 1] <= b[L + 1] /\ b[m + 1] \in Nat /\ b[L + 1] \in Nat /\ L \in Nat
      <4>1. Current \in Seq(Header) /\ L \in Nat
        BY <1>5, <2>2, CurrentIs
      <4>2. L + 1 \in 1 .. L + 1 /\ m + 1 \in 1 .. L + 1 /\ m \in 0 .. L /\ L \in 0 .. L
        BY <3>2, <4>1
      <4>3. b[m + 1] <= b[L + 1]
        BY <4>1, <4>2, BeforeGrows
      <4> QED BY <1>5, <2>2, <4>1, <4>2, <4>3, CurrentIs
    <3>5. Len(wire) >= n + (L - m)
      <4>1. ASSUME NEW x \in Nat, NEW y \in Nat, x <= y
            PROVE  (y + L) - (x + m + 1 - n) + 1 >= n + (L - m)
        BY <1>1, <3>2, <3>4, <4>1
      <4>2. (b[L + 1] + L) - (b[m + 1] + m + 1 - n) + 1 >= n + (L - m)
        BY <3>4, <4>1
      <4>3. Len(wire) = (b[L + 1] + L) - (b[m + 1] + m + 1 - n) + 1
        BY <3>3
      <4> QED BY <4>2, <4>3
    <3>6. CASE pc = "payload"
      BY <1>1, <1>2, <2>2, <3>2, <3>4, <3>5, <3>6, <1>5
    <3>7. CASE pc = "next_header"
      <4>1. ~header.last
        BY <3>7 DEF ListenInv, ReceivingRight, Receiving
      <4>2. m # L
        BY <1>5, <1>7, <2>2, <2>4, <3>2, <4>1, WellFormedFits
      <4>3. m < L
        BY <3>2, <3>4, <4>2
      <4> QED BY <1>1, <1>2, <2>2, <3>2, <3>4, <3>5, <3>7, <4>3, <1>5
    <3> QED BY <1>1, <2>4, <3>6, <3>7
  <2> QED BY <2>1, <2>3, <2>4
<1> QED BY <1>1, <1>3, <1>6, <1>7, Returns

LEMMA InitStep ==
  ASSUME Init
  PROVE  ListenInv
<1>1. ListenTypes
  <2>1. TypeOK
    BY ListenAssumption DEF Init, TypeOK, written
  <2>2. <<>> \in Seq(Unit) /\ <<>> \in Seq(Nat)
    BY EmptySeq
  <2>3. loaders \in [LoaderTypes -> Seq(Unit)]
    <3>1. loaders = [t \in LoaderTypes |-> <<>>]
      BY DEF Init
    <3> QED BY <2>2, <3>1
  <2>4. wire = <<>> /\ delivered = <<>> /\ garbled \in BOOLEAN
    BY DEF Init
  <2> QED BY <2>1, <2>2, <2>3, <2>4 DEF ListenTypes
<1>2. LineIsSuffix /\ KnowsPlace /\ ReceivingRight
  BY DEF Init, LineIsSuffix, KnowsPlace, Aware, ReceivingRight, Receiving
<1>3. ReportedRight
  BY DEF Init, ReportedRight, NoOutcome
<1>4. Delivering
  <2>1. Len(script) = 0
    BY DEF Init
  <2> QED BY <2>1 DEF Delivering
<1> QED BY <1>1, <1>2, <1>3, <1>4 DEF ListenInv

LEMMA StutterStep ==
  ASSUME ListenInv, UNCHANGED vars
  PROVE  ListenInv'
<1>1. /\ UNCHANGED <<wire, pc, header, n, status, loaders, outcome, script, garbled,
                    delivered, stalls>>
  BY DEF vars
<1>2. Current' = Current /\ Sent' = Sent /\ Payload' = Payload /\ Fits' = Fits
  BY <1>1, SameSeries
<1>3. ListenTypes' /\ LineIsSuffix'
  BY <1>1, <1>2 DEF ListenInv, ListenTypes, TypeOK, written, LineIsSuffix, LineFrom
<1>4. KnowsPlace'
  BY <1>1, <1>2 DEF ListenInv, KnowsPlace, Aware, Receiving, Place, LineAfter, LineFrom, HasReceived
<1>5. ReceivingRight' /\ ReportedRight'
  BY <1>1 DEF ListenInv, ReceivingRight, Receiving, ReportedRight, WholeSeriesOrNothing
<1>6. Delivering'
  BY <1>1, <1>2 DEF ListenInv, Delivering, Delivered, Pending, Receiving, LineFrom
<1> QED BY <1>3, <1>4, <1>5, <1>6 DEF ListenInv

\* ListenInv is an invariant of the receiving side: at every step of every
\* interleaving of the client's sending with the reads of protocol_listen,
\* the line holds the rest of the last series, and the loader holds what was
\* read of its payload.
THEOREM ListenInvariant == Spec => []ListenInv
<1>1. ASSUME ListenInv, [Next]_vars
      PROVE  ListenInv'
  <2>1. CASE \E s \in Scripts : Send(s)
    BY <1>1, <2>1, SendStep
  <2>2. CASE Listen
    BY <1>1, <2>2, FirstHeaderStep, NextHeaderStep, PayloadChunkStep, DrainedStep, TimeoutStep
       DEF Listen
  <2>3. CASE UNCHANGED vars
    BY <1>1, <2>3, StutterStep
  <2> QED BY <1>1, <2>1, <2>2, <2>3 DEF Next
<1> QED BY InitStep, <1>1, PTL DEF Spec

\* No series, however it is divided into messages and reads, and whatever is
\* taken for a header, makes a loader hold more than its max_size (buf_save of
\* core/loaders.c), and the reads of protocol_listen are in a legal state.
THEOREM ListenTypeCorrect == Spec => []TypeOK
<1>1. ListenInv => TypeOK
  BY DEF ListenInv, ListenTypes
<1> QED BY <1>1, ListenInvariant, PTL

\* Whatever protocol_listen refuses or gives up, the next header it reads is
\* the header of a message, unless the client paused inside a message.
THEOREM RefusalsKeepAlignment == Spec => []RefusalKeepsAlignment
<1>1. ASSUME ListenInv
      PROVE  RefusalKeepsAlignment
  <2> SUFFICES ASSUME pc = "first_header", stalls = 0, wire # <<>>
               PROVE  Head(wire).is_header
    BY DEF RefusalKeepsAlignment, Aligned
  <2>1. script # <<>> /\ script \in Seq(Scripts) /\ n = 0
    BY <1>1, Known DEF ListenInv, LineIsSuffix, ListenTypes, TypeOK
  <2>2. PICK m \in 0 .. Len(Current) : Place(m)
    BY <1>1, <2>1, Known DEF Aware
  <2> DEFINE b == Before(Current)[m + 1]
             p == b + m + 1
  <2>3. LineFrom(wire, p) /\ b \in Nat /\ m \in Nat /\ Len(Current) \in Nat /\ m <= Len(Current)
    <3>1. LineFrom(wire, b + m + 1 - 0)
      BY <2>1, <2>2 DEF Place, LineAfter
    <3>2. b \in Nat /\ m \in Nat /\ Len(Current) \in Nat /\ m <= Len(Current)
      <4>1. Len(Current) \in Nat /\ \A k \in 0 .. Len(Current) : Before(Current)[k + 1] \in Nat
        BY <2>1, CurrentIs
      <4>2. b \in Nat
        BY <4>1
      <4> QED BY <4>1, <4>2
    <3>3. b + m + 1 - 0 = p
      BY <3>2
    <3> HIDE DEF p
    <3> QED BY <3>1, <3>2, <3>3
  <2>4. /\ Len(wire) \in Nat /\ Len(wire) >= 1 /\ Len(wire) = Len(Sent) - p + 1
        /\ wire[1] = Sent[p]
    <3>1. Len(wire) \in Nat /\ Len(wire) >= 1 /\ wire \in Seq(Unit)
      BY <1>1, Known
    <3>2. p + 1 - 1 = p /\ 1 \in 1 .. Len(wire)
      BY <2>3, <3>1
    <3> HIDE DEF p
    <3>3. Len(wire) = Len(Sent) - p + 1 /\ wire[1] = Sent[p + 1 - 1]
      BY <2>1, <2>3, <3>2, Reads
    <3> QED BY <3>1, <3>2, <3>3
  <2>5. m # Len(Current)
    <3>1. ASSUME m = Len(Current) PROVE FALSE
      <4>1. Len(Sent) = b + m
        BY <2>1, <3>1, SentIs
      <4> HIDE DEF b
      <4> QED BY <2>3, <2>4, <4>1
    <3> QED BY <3>1
  <2>6. m + 1 \in 1 .. Len(Current) /\ b + (m + 1) = p
    <3> HIDE DEF b
    <3> QED BY <2>3, <2>5
  <2>7. Sent[b + (m + 1)] = HeaderUnit(Current[m + 1], Len(script), m + 1)
    BY <2>1, <2>6, SentIs
  <2>8. Head(wire) = wire[1]
    BY <2>4
  <2> HIDE DEF p
  <2> QED BY <2>4, <2>6, <2>7, <2>8 DEF HeaderUnit
<1> QED BY <1>1, ListenInvariant, PTL

\* What is reported with STATUS_OK is a whole series, all its messages in
\* order and nothing else, for every way the client interrupts it.
THEOREM ReportsWholeSeries == Spec => []WholeSeriesOrNothing
<1>1. ListenInv => WholeSeriesOrNothing
  BY DEF ListenInv, ReportedRight, WholeSeriesOrNothing
<1> QED BY <1>1, ListenInvariant, PTL

\* A well formed series that is not interrupted is reported, whatever came
\* before it was refused.
THEOREM ReportsEveryWellFormed == Spec => []WellFormedReported
<1>1. ASSUME ListenInv
      PROVE  WellFormedReported
  <2> SUFFICES ASSUME pc = "first_header", wire = <<>>, stalls = 0,
                      NEW s \in DOMAIN script, WellFormed(script[s])
               PROVE  Delivered(s)
    BY DEF WellFormedReported, Delivered
  <2>1. script \in Seq(Scripts) /\ script # <<>> /\ s \in 1 .. Len(script)
    BY <1>1, Known, LenProperties
  <2>2. Delivered(s) \/ Pending
    BY <1>1, <2>1, Known
  <2>3. ~LineFrom(wire, 1)
    <3> SUFFICES ASSUME LineFrom(wire, 1) PROVE FALSE
      OBVIOUS
    <3>1. Len(wire) = Len(Sent) - 1 + 1 /\ Len(wire) = 0
      BY <2>1, Reads
    <3> QED BY <2>1, <3>1, SomethingSent
  <2> QED BY <2>2, <2>3 DEF Pending, Receiving
<1> QED BY <1>1, ListenInvariant, PTL
=============================================================================
