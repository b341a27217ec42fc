--------------------------- MODULE TransmitProofs ---------------------------
(***************************************************************************)
(* protocol_busy of core/kenning_protocol.c and what it is for: that every *)
(* series is on the line as a whole, and that the client reads whole       *)
(* messages (the refinement of AtomicLink), for every message size, every  *)
(* set of payload sizes, any number of events and any depth of nesting.    *)
(***************************************************************************)
EXTENDS ProtocolTransmit, SequenceLemmas

Outcome == [kind : Kinds, size : Nat, status : {"active", "OK", "BUSY"}]

\* An active call is the call of an event that began, and a response is only
\* sent from the main loop, where no other call is active.
CallsKnown ==
  \A k \in DOMAIN stack :
    /\ stack[k].kind = result[stack[k].id].kind
    /\ stack[k].kind = "RESPONSE" => k = 1

IInv == TypeOK /\ OneWriter /\ CallsKnown /\ ResponseNeverBusy

\* No call below the topmost one is inside a message.
NoWriterBelow == \A k \in 1 .. Len(stack) - 1 : stack[k].pc \notin Writing

-----------------------------------------------------------------------------
(* What the two operations on the stack do.                                *)

LEMMA MessageCountPositive ==
  ASSUME NEW size \in Nat
  PROVE  message_count(size) \in Nat \ {0}
<1>1. MAX_SIZE \in Nat \ {0}
  BY TransmitAssumption DEF MAX_SIZE
<1>2. ASSUME size > 0
      PROVE  (size - 1) \div MAX_SIZE \in Nat
  BY <1>1, <1>2
<1> QED BY <1>2 DEF message_count

LEMMA TopProperties ==
  ASSUME TypeOK, stack # <<>>
  PROVE  /\ Len(stack) \in Nat \ {0} /\ DOMAIN stack = 1 .. Len(stack)
         /\ Top = stack[Len(stack)] /\ Top \in Frame
         /\ Top.id \in DOMAIN result /\ Top.size = result[Top.id].size
         /\ Top.bytes_sent <= Top.size
         /\ Top.i < message_count(Top.size)
<1>1. stack \in Seq(Frame)
  BY DEF TypeOK
<1>2. Len(stack) \in Nat \ {0} /\ DOMAIN stack = 1 .. Len(stack)
  BY <1>1, EmptySeq, LenProperties
<1>3. Len(stack) \in DOMAIN stack
  BY <1>2
<1>4. stack[Len(stack)] \in Frame
  BY <1>1, <1>2, <1>3, ElementOfSeq
<1> QED BY <1>2, <1>3, <1>4 DEF Top, TypeOK

LEMMA SetTopProperties ==
  ASSUME TypeOK, stack # <<>>, NEW f \in Frame, SetTop(f)
  PROVE  /\ stack' \in Seq(Frame) /\ Len(stack') = Len(stack)
         /\ DOMAIN stack' = 1 .. Len(stack)
         /\ stack'[Len(stack)] = f
         /\ \A k \in 1 .. Len(stack) - 1 : stack'[k] = stack[k]
<1>1. stack \in Seq(Frame) /\ Len(stack) \in Nat \ {0}
  BY TopProperties DEF TypeOK
<1>2. stack' = [stack EXCEPT ![Len(stack)] = f]
  BY DEF SetTop
<1>3. Len(stack) \in 1 .. Len(stack)
  BY <1>1
<1>4. /\ stack' \in Seq(Frame) /\ Len(stack') = Len(stack)
      /\ \A j \in 1 .. Len(stack) :
           stack'[j] = IF j = Len(stack) THEN f ELSE stack[j]
  BY <1>1, <1>2, <1>3, ExceptSeq
<1>5. DOMAIN stack' = 1 .. Len(stack)
  BY <1>4, LenProperties
<1>6. stack'[Len(stack)] = f
  BY <1>3, <1>4
<1>7. Len(stack) \in Nat
  BY <1>1
<1>8. ASSUME NEW k \in 1 .. Len(stack) - 1
      PROVE  stack'[k] = stack[k]
  <2>1. k \in 1 .. Len(stack) /\ k # Len(stack)
    BY <1>7
  <2> QED BY <1>4, <2>1
<1> QED BY <1>4, <1>5, <1>6, <1>8

LEMMA PopProperties ==
  ASSUME TypeOK, stack # <<>>, NEW status, Pop(status)
  PROVE  /\ stack' \in Seq(Frame) /\ Len(stack') = Len(stack) - 1
         /\ DOMAIN stack' = 1 .. Len(stack) - 1
         /\ \A k \in 1 .. Len(stack) - 1 : stack'[k] = stack[k]
<1>1. stack \in Seq(Frame) /\ Len(stack) \in Nat \ {0}
  BY TopProperties DEF TypeOK
<1>2. stack' = SubSeq(stack, 1, Len(stack) - 1)
  BY DEF Pop
<1>3. \A i \in 1 .. Len(stack) - 1 : stack[i] \in Frame
  BY <1>1, ElementOfSeq
<1>4. Len(stack) \in Nat \ {0}
  BY <1>1
<1>5. 1 \in Int /\ Len(stack) - 1 \in Int
  BY <1>4
<1> DEFINE m == Len(stack) - 1
<1>6. /\ SubSeq(stack, 1, m) \in Seq(Frame)
      /\ Len(SubSeq(stack, 1, m)) = IF 1 <= m THEN m - 1 + 1 ELSE 0
      /\ \A i \in 1 .. m - 1 + 1 : SubSeq(stack, 1, m)[i] = stack[1 + i - 1]
  BY <1>3, <1>5, SubSeqProperties
<1>7. m \in Nat
  BY <1>4
<1>8. stack' = SubSeq(stack, 1, m)
  BY <1>2
<1> HIDE DEF m
<1>9. Len(stack') = m
  BY <1>6, <1>7, <1>8
<1>10. stack' \in Seq(Frame) /\ DOMAIN stack' = 1 .. m
  BY <1>6, <1>8, <1>9, LenProperties
<1>11. ASSUME NEW k \in 1 .. m
       PROVE  stack'[k] = stack[k]
  <2>1. k \in 1 .. m - 1 + 1 /\ 1 + k - 1 = k
    BY <1>7
  <2> QED BY <1>6, <1>8, <2>1
<1> QED BY <1>9, <1>10, <1>11 DEF m

LEMMA PopResult ==
  ASSUME TypeOK, stack # <<>>, NEW status \in {"OK", "BUSY"}, Pop(status)
  PROVE  /\ result' \in Seq(Outcome) /\ Len(result') = Len(result)
         /\ DOMAIN result' = DOMAIN result
         /\ \A id \in DOMAIN result :
              /\ result'[id].kind = result[id].kind /\ result'[id].size = result[id].size
              /\ result'[id].status = IF id = Top.id THEN status ELSE result[id].status
<1>1. Top.id \in DOMAIN result
  BY TopProperties
<1>2. result \in Seq(Outcome)
  BY DEF TypeOK, Outcome
<1>3. Len(result) \in Nat /\ DOMAIN result = 1 .. Len(result)
  BY <1>2, LenProperties
<1>4. result[Top.id] \in Outcome
  BY <1>1, <1>2, <1>3, ElementOfSeq
<1> DEFINE r == [result[Top.id] EXCEPT !.status = status]
<1>5. /\ r \in Outcome /\ r.kind = result[Top.id].kind
      /\ r.size = result[Top.id].size /\ r.status = status
  BY <1>4 DEF Outcome
<1>6. result' = [result EXCEPT ![Top.id] = r]
  BY DEF Pop
<1> HIDE DEF r
<1>7. /\ result' \in Seq(Outcome) /\ Len(result') = Len(result)
      /\ \A j \in 1 .. Len(result) : result'[j] = IF j = Top.id THEN r ELSE result[j]
  BY <1>1, <1>2, <1>3, <1>5, <1>6, ExceptSeq
<1>8. DOMAIN result' = 1 .. Len(result)
  BY <1>7, LenProperties
<1> QED BY <1>1, <1>3, <1>5, <1>7, <1>8

\* A call that passed the check has no writer below it.
LEMMA PassedCheckIsAlone ==
  ASSUME TypeOK, OneWriter, stack # <<>>, Top.pc # "check" \/ ~protocol_busy
  PROVE  NoWriterBelow
<1>1. /\ Len(stack) \in Nat \ {0} /\ DOMAIN stack = 1 .. Len(stack)
      /\ Top = stack[Len(stack)]
  BY TopProperties
<1> SUFFICES ASSUME NEW k \in 1 .. Len(stack) - 1, stack[k].pc \in Writing
             PROVE  FALSE
  BY DEF NoWriterBelow
<1>2. k \in Writers /\ Len(stack) \in DOMAIN stack /\ Len(stack) > k
  BY <1>1 DEF Writers
<1>3. protocol_busy
  BY <1>2 DEF OneWriter
<1>4. stack[Len(stack)].pc = "check"
  BY <1>2 DEF OneWriter
<1> QED BY <1>1, <1>3, <1>4

-----------------------------------------------------------------------------
(* The two kinds of steps of a call: it goes on, or it returns.            *)

LEMMA GoesOn ==
  ASSUME IInv, stack # <<>>, NoWriterBelow,
         NEW f \in Frame, SetTop(f), result' = result,
         f.id = Top.id, f.kind = Top.kind, f.size = Top.size,
         f.bytes_sent <= f.size, f.i < message_count(f.size),
         protocol_busy' \in BOOLEAN, protocol_busy' <=> f.pc \in Writing
  PROVE  IInv'
<1> DEFINE n == Len(stack)
<1>1. /\ n \in Nat \ {0} /\ DOMAIN stack = 1 .. n /\ Top = stack[n] /\ Top \in Frame
      /\ Top.id \in DOMAIN result /\ Top.size = result[Top.id].size
  BY TopProperties DEF IInv
<1>2. /\ stack' \in Seq(Frame) /\ DOMAIN stack' = 1 .. n /\ stack'[n] = f
      /\ \A k \in 1 .. n - 1 : stack'[k] = stack[k]
  BY SetTopProperties DEF IInv
<1> HIDE DEF n
<1>3. TypeOK'
  <2>1. ASSUME NEW k \in DOMAIN stack'
        PROVE  /\ stack'[k].id \in DOMAIN result'
               /\ stack'[k].size = result'[stack'[k].id].size
               /\ stack'[k].bytes_sent <= stack'[k].size
               /\ stack'[k].i < message_count(stack'[k].size)
    <3>1. CASE k = n
      BY <1>1, <1>2, <3>1
    <3>2. CASE k \in 1 .. n - 1
      BY <1>1, <1>2, <3>2 DEF IInv, TypeOK
    <3> QED BY <1>1, <1>2, <3>1, <3>2
  <2> QED BY <1>2, <2>1 DEF IInv, TypeOK
<1>4. OneWriter'
  <2>1. Writers' = IF f.pc \in Writing THEN {n} ELSE {}
    BY <1>1, <1>2 DEF Writers, NoWriterBelow, n
  <2>2. \A l \in DOMAIN stack' : ~(l > n)
    BY <1>1, <1>2
  <2>3. Writers' # {} <=> f.pc \in Writing
    BY <2>1
  <2>4. \A k \in Writers' : k = n
    BY <2>1
  <2> QED BY <2>2, <2>3, <2>4 DEF OneWriter
<1>5. CallsKnown'
  <2>1. ASSUME NEW k \in DOMAIN stack'
        PROVE  /\ stack'[k].kind = result'[stack'[k].id].kind
               /\ stack'[k].kind = "RESPONSE" => k = 1
    <3>1. CASE k = n
      BY <1>1, <1>2, <3>1 DEF IInv, CallsKnown
    <3>2. CASE k \in 1 .. n - 1
      BY <1>1, <1>2, <3>2 DEF IInv, CallsKnown
    <3> QED BY <1>1, <1>2, <3>1, <3>2
  <2> QED BY <2>1 DEF CallsKnown
<1>6. ResponseNeverBusy'
  BY DEF IInv, ResponseNeverBusy
<1> QED BY <1>3, <1>4, <1>5, <1>6 DEF IInv

LEMMA Returns ==
  ASSUME IInv, stack # <<>>, NEW status \in {"OK", "BUSY"}, Pop(status),
         status = "BUSY" => Top.kind # "RESPONSE",
         protocol_busy' \in BOOLEAN,
         protocol_busy' <=> \E k \in 1 .. Len(stack) - 1 : stack[k].pc \in Writing
  PROVE  IInv'
<1> DEFINE n == Len(stack)
<1>1. /\ n \in Nat \ {0} /\ DOMAIN stack = 1 .. n /\ Top = stack[n] /\ Top \in Frame
      /\ Top.id \in DOMAIN result
  BY TopProperties DEF IInv
<1>2. /\ stack' \in Seq(Frame) /\ DOMAIN stack' = 1 .. n - 1
      /\ \A k \in 1 .. n - 1 : stack'[k] = stack[k]
  BY PopProperties DEF IInv
<1>3. result \in Seq(Outcome) /\ Len(result) <= MaxEvents
  BY DEF IInv, TypeOK, Outcome
<1>4. /\ result' \in Seq(Outcome) /\ Len(result') = Len(result)
      /\ DOMAIN result' = DOMAIN result
      /\ \A id \in DOMAIN result :
           /\ result'[id].kind = result[id].kind /\ result'[id].size = result[id].size
           /\ result'[id].status = IF id = Top.id THEN status ELSE result[id].status
  BY PopResult DEF IInv
<1> HIDE DEF n
<1>5. TypeOK'
  <2>1. ASSUME NEW k \in DOMAIN stack'
        PROVE  /\ stack'[k].id \in DOMAIN result'
               /\ stack'[k].size = result'[stack'[k].id].size
               /\ stack'[k].bytes_sent <= stack'[k].size
               /\ stack'[k].i < message_count(stack'[k].size)
    <3>1. k \in 1 .. n - 1 /\ k \in DOMAIN stack /\ stack'[k] = stack[k]
      BY <1>1, <1>2
    <3>2. /\ stack[k].id \in DOMAIN result
          /\ stack[k].size = result[stack[k].id].size
          /\ stack[k].bytes_sent <= stack[k].size
          /\ stack[k].i < message_count(stack[k].size)
      BY <3>1 DEF IInv, TypeOK
    <3> QED BY <1>4, <3>1, <3>2
  <2> QED BY <1>2, <1>3, <1>4, <2>1 DEF TypeOK, Outcome
<1>6. OneWriter'
  <2>1. Writers' = {k \in 1 .. n - 1 : stack[k].pc \in Writing}
    BY <1>2 DEF Writers
  <2>2. \A k \in Writers' : \A l \in DOMAIN stack' : l > k => stack'[l].pc = "check"
    <3>1. \A k \in Writers' : k \in Writers
      BY <1>1, <2>1 DEF Writers
    <3>2. \A l \in DOMAIN stack' : l \in DOMAIN stack /\ stack'[l] = stack[l]
      BY <1>1, <1>2
    <3> QED BY <3>1, <3>2 DEF IInv, OneWriter
  <2>3. protocol_busy' <=> Writers' # {}
    BY <2>1 DEF n
  <2> QED BY <2>2, <2>3 DEF OneWriter
<1>7. CallsKnown'
  <2>1. ASSUME NEW k \in DOMAIN stack'
        PROVE  /\ stack'[k].kind = result'[stack'[k].id].kind
               /\ stack'[k].kind = "RESPONSE" => k = 1
    <3>1. k \in DOMAIN stack /\ stack'[k] = stack[k]
      BY <1>1, <1>2
    <3>2. stack[k].id \in DOMAIN result
      BY <3>1 DEF IInv, TypeOK
    <3>3. /\ stack[k].kind = result[stack[k].id].kind
          /\ stack[k].kind = "RESPONSE" => k = 1
      BY <3>1 DEF IInv, CallsKnown
    <3> QED BY <1>4, <3>1, <3>2, <3>3
  <2> QED BY <2>1 DEF CallsKnown
<1>8. ResponseNeverBusy'
  <2>1. Top.kind = result[Top.id].kind
    BY <1>1 DEF IInv, CallsKnown
  <2> QED BY <1>4, <2>1 DEF IInv, ResponseNeverBusy
<1> QED BY <1>5, <1>6, <1>7, <1>8 DEF IInv

-----------------------------------------------------------------------------
LEMMA InitIInv == Init => IInv
<1> SUFFICES ASSUME Init PROVE IInv
  OBVIOUS
<1>1. stack = <<>> /\ result = <<>> /\ protocol_busy = FALSE
  BY DEF Init
<1>2. <<>> \in Seq(Frame) /\ <<>> \in Seq([kind : Kinds, size : Nat, status : {"active", "OK", "BUSY"}])
  OBVIOUS
<1>3. TypeOK
  <2>1. Len(result) <= MaxEvents
    BY <1>1, TransmitAssumption
  <2>2. DOMAIN stack = {}
    BY <1>1
  <2>3. protocol_busy \in BOOLEAN
    BY <1>1
  <2> QED BY <1>1, <1>2, <2>1, <2>2, <2>3 DEF TypeOK
<1>4. OneWriter
  BY <1>1 DEF OneWriter, Writers
<1> QED BY <1>1, <1>3, <1>4 DEF IInv, CallsKnown, ResponseNeverBusy

\* A new call has not passed the check, and a response is the only call.
LEMMA CallIInv ==
  ASSUME IInv, NEW kind \in Kinds, NEW size \in Sizes, Call(kind, size)
  PROVE  IInv'
<1> DEFINE f == [id |-> Len(result) + 1, kind |-> kind, size |-> size,
                 pc |-> "check", i |-> 0, bytes_sent |-> 0, written |-> 0]
           r == [kind |-> kind, size |-> size, status |-> "active"]
           n == Len(stack)
           m == Len(result)
<1>1. /\ stack' = Append(stack, f) /\ result' = Append(result, r)
      /\ protocol_busy' = protocol_busy
      /\ kind = "RESPONSE" => stack = <<>>
      /\ m < MaxEvents
  BY DEF Call
<1>2. /\ stack \in Seq(Frame) /\ result \in Seq(Outcome) /\ protocol_busy \in BOOLEAN
      /\ m <= MaxEvents
  BY DEF IInv, TypeOK, Outcome
<1>3. /\ n \in Nat /\ DOMAIN stack = 1 .. n /\ m \in Nat /\ DOMAIN result = 1 .. m
  BY <1>2, LenProperties
<1>4. size \in Nat /\ MaxEvents \in Nat
  BY TransmitAssumption
<1>5. f \in Frame /\ r \in Outcome
  BY <1>1, <1>3, <1>4 DEF Frame, Outcome, Pcs, Ids
<1>6. /\ f.id = m + 1 /\ f.kind = kind /\ f.size = size /\ f.pc = "check" /\ f.bytes_sent = 0 /\ f.i = 0
      /\ r.kind = kind /\ r.size = size /\ r.status = "active"
  OBVIOUS
<1> HIDE DEF f, r, n, m
<1>7. /\ stack' \in Seq(Frame) /\ DOMAIN stack' = 1 .. n + 1 /\ stack'[n + 1] = f
      /\ \A k \in 1 .. n : stack'[k] = stack[k]
  BY <1>1, <1>2, <1>5 DEF n
<1>8. /\ result' \in Seq(Outcome) /\ DOMAIN result' = 1 .. m + 1 /\ Len(result') = m + 1
      /\ result'[m + 1] = r
      /\ \A id \in 1 .. m : result'[id] = result[id]
  BY <1>1, <1>2, <1>5 DEF m
<1>9. \A k \in 1 .. n : stack[k].id \in 1 .. m
  BY <1>3 DEF IInv, TypeOK
<1>10. TypeOK'
  <2>1. ASSUME NEW k \in DOMAIN stack'
        PROVE  /\ stack'[k].id \in DOMAIN result'
               /\ stack'[k].size = result'[stack'[k].id].size
               /\ stack'[k].bytes_sent <= stack'[k].size
               /\ stack'[k].i < message_count(stack'[k].size)
    <3>1. CASE k = n + 1
      <4>1. f.id \in 1 .. m + 1 /\ result'[f.id] = r
        BY <1>3, <1>6, <1>8
      <4>2. 0 < message_count(size)
        BY <1>4, MessageCountPositive
      <4> QED BY <1>4, <1>6, <1>7, <1>8, <3>1, <4>1, <4>2
    <3>2. CASE k \in 1 .. n
      <4>1. /\ stack[k].id \in 1 .. m
            /\ stack[k].size = result[stack[k].id].size
            /\ stack[k].bytes_sent <= stack[k].size
            /\ stack[k].i < message_count(stack[k].size)
        BY <1>3, <1>9, <3>2 DEF IInv, TypeOK
      <4>2. stack[k].id \in 1 .. m + 1
        BY <1>3, <4>1
      <4> QED BY <1>7, <1>8, <3>2, <4>1, <4>2
    <3> QED BY <1>3, <1>7, <3>1, <3>2
  <2>2. Len(result') <= MaxEvents
    BY <1>1, <1>3, <1>4, <1>8
  <2> QED BY <1>1, <1>2, <1>7, <1>8, <2>1, <2>2 DEF TypeOK, Outcome
<1>11. OneWriter'
  <2>1. Writers' = Writers
    <3>1. stack'[n + 1].pc \notin Writing
      BY <1>6, <1>7 DEF Writing
    <3> QED BY <1>3, <1>7, <3>1 DEF Writers
  <2>2. \A k \in Writers' : \A l \in DOMAIN stack' : l > k => stack'[l].pc = "check"
    <3> SUFFICES ASSUME NEW k \in Writers', NEW l \in DOMAIN stack', l > k
                 PROVE  stack'[l].pc = "check"
      OBVIOUS
    <3>1. CASE l = n + 1
      BY <1>6, <1>7, <3>1
    <3>2. CASE l \in 1 .. n
      BY <1>3, <1>7, <2>1, <3>2 DEF IInv, OneWriter
    <3> QED BY <1>3, <1>7, <3>1, <3>2
  <2> QED BY <1>1, <2>1, <2>2 DEF IInv, OneWriter
<1>12. CallsKnown'
  <2>1. ASSUME NEW k \in DOMAIN stack'
        PROVE  /\ stack'[k].kind = result'[stack'[k].id].kind
               /\ stack'[k].kind = "RESPONSE" => k = 1
    <3>1. CASE k = n + 1
      <4>1. result'[f.id] = r
        BY <1>6, <1>8
      <4>2. kind = "RESPONSE" => n = 0
        BY <1>1 DEF n
      <4> QED BY <1>6, <1>7, <3>1, <4>1, <4>2
    <3>2. CASE k \in 1 .. n
      BY <1>3, <1>7, <1>8, <1>9, <3>2 DEF IInv, CallsKnown
    <3> QED BY <1>3, <1>7, <3>1, <3>2
  <2> QED BY <2>1 DEF CallsKnown
<1>13. ResponseNeverBusy'
  <2> SUFFICES ASSUME NEW id \in DOMAIN result', result'[id].kind = "RESPONSE"
               PROVE  result'[id].status # "BUSY"
    BY DEF ResponseNeverBusy
  <2>1. CASE id = m + 1
    BY <1>6, <1>8, <2>1
  <2>2. CASE id \in 1 .. m
    BY <1>3, <1>8, <2>2 DEF IInv, ResponseNeverBusy
  <2> QED BY <1>3, <1>8, <2>1, <2>2
<1> QED BY <1>10, <1>11, <1>12, <1>13 DEF IInv

LEMMA CheckIInv ==
  ASSUME IInv, Check
  PROVE  IInv'
<1>1. stack # <<>> /\ Top.pc = "check" /\ protocol_busy' = protocol_busy
  BY DEF Check, At
<1>2. /\ Len(stack) \in Nat \ {0} /\ DOMAIN stack = 1 .. Len(stack)
      /\ Top = stack[Len(stack)] /\ Top \in Frame /\ Top.bytes_sent <= Top.size
      /\ Top.i < message_count(Top.size) /\ protocol_busy \in BOOLEAN
  BY <1>1, TopProperties DEF IInv, TypeOK
<1>3. CASE protocol_busy /\ Pop("BUSY")
  <2>1. PICK k \in DOMAIN stack : stack[k].pc \in Writing
    BY <1>3 DEF IInv, OneWriter, Writers
  <2>2. k # Len(stack)
    BY <1>1, <1>2, <2>1 DEF Writing
  <2>3. k \in 1 .. Len(stack) - 1
    BY <1>2, <2>2
  <2>4. Top.kind # "RESPONSE"
    <3>1. Len(stack) # 1
      BY <1>2, <2>3
    <3>2. Len(stack) \in DOMAIN stack
      BY <1>2
    <3> QED BY <1>2, <3>1, <3>2 DEF IInv, CallsKnown
  <2>5. protocol_busy' <=> \E j \in 1 .. Len(stack) - 1 : stack[j].pc \in Writing
    BY <1>1, <1>3, <2>1, <2>3
  <2> QED BY <1>1, <1>2, <1>3, <2>4, <2>5, Returns
<1>4. CASE ~protocol_busy /\ SetTop([Top EXCEPT !.pc = "loop"]) /\ UNCHANGED result
  <2> DEFINE f == [Top EXCEPT !.pc = "loop"]
  <2>1. /\ f \in Frame /\ f.id = Top.id /\ f.kind = Top.kind /\ f.size = Top.size
        /\ f.bytes_sent = Top.bytes_sent /\ f.i = Top.i /\ f.pc = "loop"
    BY <1>2 DEF Frame, Pcs
  <2>2. NoWriterBelow
    BY <1>1, <1>4, PassedCheckIsAlone DEF IInv
  <2>3. f.i < message_count(f.size)
    BY <1>2, <2>1
  <2>4. protocol_busy' <=> f.pc \in Writing
    BY <1>1, <1>4, <2>1 DEF Writing
  <2> HIDE DEF f
  <2> QED BY <1>1, <1>2, <1>4, <2>1, <2>2, <2>3, <2>4, GoesOn DEF f
<1> QED BY <1>3, <1>4 DEF Check, Refuses

\* What is common to the steps of a call that passed the check.
LEMMA Passed ==
  ASSUME IInv, stack # <<>>, Top.pc # "check"
  PROVE  /\ NoWriterBelow /\ Len(stack) \in Nat \ {0}
         /\ Top \in Frame /\ Top.bytes_sent <= Top.size
         /\ Top.i < message_count(Top.size)
         /\ Top.pc \in Writing => protocol_busy
<1>1. /\ Len(stack) \in Nat \ {0} /\ DOMAIN stack = 1 .. Len(stack)
      /\ Top = stack[Len(stack)] /\ Top \in Frame /\ Top.bytes_sent <= Top.size
      /\ Top.i < message_count(Top.size)
  BY TopProperties DEF IInv
<1>2. NoWriterBelow
  BY PassedCheckIsAlone DEF IInv
<1>3. Top.pc \in Writing => protocol_busy
  <2>1. Len(stack) \in DOMAIN stack
    BY <1>1
  <2> QED BY <1>1, <2>1 DEF IInv, OneWriter, Writers
<1> QED BY <1>1, <1>2, <1>3

LEMMA BeginMessageIInv ==
  ASSUME IInv, BeginMessage
  PROVE  IInv'
<1> DEFINE f == [Top EXCEPT !.pc = "header"]
<1>1. /\ stack # <<>> /\ Top.pc = "loop" /\ protocol_busy' = TRUE
      /\ SetTop(f) /\ result' = result
  BY DEF BeginMessage, At
<1>2. /\ NoWriterBelow /\ Top \in Frame /\ Top.bytes_sent <= Top.size
      /\ Top.i < message_count(Top.size)
  BY <1>1, Passed
<1>3. /\ f \in Frame /\ f.id = Top.id /\ f.kind = Top.kind /\ f.size = Top.size
      /\ f.bytes_sent = Top.bytes_sent /\ f.i = Top.i /\ f.pc = "header"
  BY <1>2 DEF Frame, Pcs
<1>4. protocol_busy' \in BOOLEAN /\ (protocol_busy' <=> f.pc \in Writing)
  BY <1>1, <1>3 DEF Writing
<1>5. f.bytes_sent <= f.size /\ f.i < message_count(f.size)
  BY <1>2, <1>3
<1> HIDE DEF f
<1> QED BY <1>1, <1>2, <1>3, <1>4, <1>5, GoesOn

LEMMA WriteHeaderIInv ==
  ASSUME IInv, WriteHeader
  PROVE  IInv'
<1> DEFINE next == IF Top.size > 0 THEN "payload" ELSE "clear"
           f == [Top EXCEPT !.pc = next]
<1>1. /\ stack # <<>> /\ Top.pc = "header" /\ protocol_busy' = protocol_busy
      /\ SetTop(f) /\ result' = result
  BY DEF WriteHeader, At
<1>2. next \in Writing /\ next \in Pcs
  BY DEF Writing, Pcs
<1>3. /\ NoWriterBelow /\ Top \in Frame /\ Top.bytes_sent <= Top.size
      /\ Top.i < message_count(Top.size) /\ protocol_busy
  BY <1>1, Passed DEF Writing
<1> HIDE DEF next
<1>4. /\ f \in Frame /\ f.id = Top.id /\ f.kind = Top.kind /\ f.size = Top.size
      /\ f.bytes_sent = Top.bytes_sent /\ f.i = Top.i /\ f.pc = next
  BY <1>2, <1>3 DEF Frame
<1>5. protocol_busy' \in BOOLEAN /\ (protocol_busy' <=> f.pc \in Writing)
  BY <1>1, <1>2, <1>3, <1>4 DEF IInv, TypeOK
<1>6. f.bytes_sent <= f.size /\ f.i < message_count(f.size)
  BY <1>3, <1>4
<1> HIDE DEF f
<1> QED BY <1>1, <1>3, <1>4, <1>5, <1>6, GoesOn

LEMMA WriteByteIInv ==
  ASSUME IInv, WriteByte
  PROVE  IInv'
<1> DEFINE more == Top.written + 1 < message_payload_size(Top)
           next == IF more THEN "payload" ELSE "clear"
           w == Top.written + 1
           f == [Top EXCEPT !.written = w, !.pc = next]
<1>1. /\ stack # <<>> /\ Top.pc = "payload" /\ protocol_busy' = protocol_busy
      /\ SetTop(f) /\ result' = result
  BY DEF WriteByte, At
<1> HIDE DEF more
<1>2. next \in Writing /\ next \in Pcs
  BY DEF Writing, Pcs
<1>3. /\ NoWriterBelow /\ Top \in Frame /\ Top.bytes_sent <= Top.size
      /\ Top.i < message_count(Top.size) /\ protocol_busy
  BY <1>1, Passed DEF Writing
<1>7. w \in Nat
  BY <1>3 DEF Frame
<1> HIDE DEF next, w
<1>4. /\ f \in Frame /\ f.id = Top.id /\ f.kind = Top.kind /\ f.size = Top.size
      /\ f.bytes_sent = Top.bytes_sent /\ f.i = Top.i /\ f.pc = next
  BY <1>2, <1>3, <1>7 DEF Frame
<1>5. protocol_busy' \in BOOLEAN /\ (protocol_busy' <=> f.pc \in Writing)
  BY <1>1, <1>2, <1>3, <1>4 DEF IInv, TypeOK
<1>6. f.bytes_sent <= f.size /\ f.i < message_count(f.size)
  BY <1>3, <1>4
<1> HIDE DEF f
<1> QED BY <1>1, <1>3, <1>4, <1>5, <1>6, GoesOn

\* The payload of a message is within the event's.
LEMMA PayloadSizeBounds ==
  ASSUME NEW f \in Frame, f.bytes_sent <= f.size
  PROVE  /\ message_payload_size(f) \in Nat
         /\ f.bytes_sent + message_payload_size(f) <= f.size
<1>1. f.size \in Nat /\ f.bytes_sent \in Nat
  BY DEF Frame
<1>2. MAX_SIZE \in Nat \ {0}
  BY TransmitAssumption DEF MAX_SIZE
<1> QED BY <1>1, <1>2 DEF message_payload_size, Lesser

LEMMA EndMessageIInv ==
  ASSUME IInv, EndMessage
  PROVE  IInv'
<1>1. stack # <<>> /\ Top.pc = "clear" /\ protocol_busy' = FALSE
  BY DEF EndMessage, At, BusyAfterMessage
<1>2. /\ NoWriterBelow /\ Len(stack) \in Nat \ {0} /\ Top \in Frame
      /\ Top.bytes_sent <= Top.size
  BY <1>1, Passed
<1> DEFINE sent == Top.bytes_sent + message_payload_size(Top)
           f == [Top EXCEPT !.pc = "loop", !.i = NextIndex(Top), !.written = 0,
                            !.bytes_sent = sent]
<1>3. CASE /\ NextIndex(Top) < message_count(Top.size)
           /\ SetTop(f) /\ UNCHANGED result
  <2>1. sent \in Nat /\ sent <= Top.size /\ NextIndex(Top) \in Nat
    BY <1>2, PayloadSizeBounds DEF Frame, NextIndex
  <2> HIDE DEF sent
  <2>2. /\ f \in Frame /\ f.id = Top.id /\ f.kind = Top.kind /\ f.size = Top.size
        /\ f.bytes_sent = sent /\ f.i = NextIndex(Top) /\ f.pc = "loop"
    BY <1>2, <2>1 DEF Frame, Pcs
  <2>3. protocol_busy' \in BOOLEAN /\ (protocol_busy' <=> f.pc \in Writing)
    BY <1>1, <2>2 DEF Writing
  <2>4. f.bytes_sent <= f.size /\ f.i < message_count(f.size)
    BY <1>3, <2>1, <2>2
  <2> HIDE DEF f
  <2> QED BY <1>1, <1>2, <1>3, <2>2, <2>3, <2>4, GoesOn
<1>4. CASE Pop("OK")
  <2>1. protocol_busy' <=> \E k \in 1 .. Len(stack) - 1 : stack[k].pc \in Writing
    BY <1>1, <1>2 DEF NoWriterBelow
  <2> QED BY <1>1, <1>4, <2>1, Returns
<1> QED BY <1>3, <1>4 DEF EndMessage

LEMMA NextIInv ==
  ASSUME IInv, [Next]_vars
  PROVE  IInv'
<1>1. CASE \E kind \in Kinds, size \in Sizes : Call(kind, size)
  BY <1>1, CallIInv
<1>2. CASE Check
  BY <1>2, CheckIInv
<1>3. CASE BeginMessage
  BY <1>3, BeginMessageIInv
<1>4. CASE WriteHeader
  BY <1>4, WriteHeaderIInv
<1>5. CASE WriteByte
  BY <1>5, WriteByteIInv
<1>6. CASE EndMessage
  BY <1>6, EndMessageIInv
<1>7. CASE UNCHANGED vars
  BY <1>7 DEF vars, IInv, TypeOK, OneWriter, Writers, CallsKnown, ResponseNeverBusy
<1> QED BY <1>1, <1>2, <1>3, <1>4, <1>5, <1>6, <1>7 DEF Next, Step

-----------------------------------------------------------------------------
(* What is on the line.                                                    *)

Unit == [is_header : BOOLEAN, id : Ids, index : Nat, at : Nat, payload_size : Nat,
         first : BOOLEAN, last : BOOLEAN, has_payload : BOOLEAN]

\* The header of a message of an event of that size.
Announces(u, size) ==
  /\ u.first = (u.index = 0) /\ u.last = (u.index = message_count(size) - 1)
  /\ u.has_payload = (size > 0)
  /\ u.payload_size = Lesser(size - u.index * MAX_SIZE, MAX_SIZE)

\* Where the bytes and the headers of an event are on a line w.
BytesOn(w, id) == {k \in DOMAIN w : w[k].id = id /\ ~w[k].is_header}
HeadersOn(w, id) == {k \in DOMAIN w : w[k].id = id /\ w[k].is_header}

\* The first n bytes and the first m headers of an event are on line w, and
\* nothing else of it.
OnLine(w, id, size, n, m) ==
  /\ {w[k].at : k \in BytesOn(w, id)} = 0 .. n - 1
  /\ \A k, l \in BytesOn(w, id) : k < l => w[k].at < w[l].at
  /\ {w[k].index : k \in HeadersOn(w, id)} = 0 .. m - 1
  /\ \A k, l \in HeadersOn(w, id) : k < l => w[k].index < w[l].index
  /\ \A k \in HeadersOn(w, id) : Announces(w[k], size)

\* What a call has written so far.
BytesOut(f) == f.bytes_sent + f.written
HeadersOut(f) == IF f.pc \in {"payload", "clear"} THEN f.i + 1 ELSE f.i

\* Where a call is in its series.
Progress(f) ==
  /\ f.bytes_sent = f.i * MAX_SIZE
  /\ f.pc = "check" => f.i = 0
  /\ f.pc \in {"check", "loop", "header"} => f.written = 0
  /\ f.pc = "payload" => f.size > 0 /\ f.written < message_payload_size(f)
  /\ f.pc = "clear" => f.written = message_payload_size(f)

\* That a completed series is on the line as a whole is not inductive: so is
\* the part of each series that is being sent which its call says.
SendInv ==
  /\ wire \in Seq(Unit)
  /\ \A k \in DOMAIN wire : wire[k].id \in DOMAIN result
  /\ \A k \in DOMAIN stack :
       /\ result[stack[k].id].status = "active" /\ Progress(stack[k])
       /\ OnLine(wire, stack[k].id, stack[k].size, BytesOut(stack[k]), HeadersOut(stack[k]))
       /\ \A l \in DOMAIN stack : l # k => stack[l].id # stack[k].id
  /\ \A id \in DOMAIN result :
       /\ result[id].status = "OK" =>
            OnLine(wire, id, result[id].size, result[id].size, message_count(result[id].size))
       /\ result[id].status = "BUSY" => OnLine(wire, id, result[id].size, 0, 0)

\* A unit comes after those there are: it is a byte or a header of its event,
\* and what is on the line of the others stays as it is.
LEMMA LineGrows ==
  ASSUME NEW w \in Seq(Unit), NEW u \in Unit, NEW v, v = Append(w, u),
         NEW id, NEW size, NEW n \in Nat, NEW m \in Nat, OnLine(w, id, size, n, m)
  PROVE  /\ u.id # id => OnLine(v, id, size, n, m)
         /\ u.id = id /\ ~u.is_header /\ u.at = n => OnLine(v, id, size, n + 1, m)
         /\ u.id = id /\ u.is_header /\ u.index = m /\ Announces(u, size)
              => OnLine(v, id, size, n, m + 1)
<1> DEFINE e == Len(w) + 1
           B == BytesOn(w, id)
           H == HeadersOn(w, id)
           C == BytesOn(v, id)
           J == HeadersOn(v, id)
<1>1. /\ DOMAIN w = 1 .. e - 1 /\ DOMAIN v = 1 .. e /\ e \in Nat
      /\ v[e] = u /\ \A k \in 1 .. e - 1 : v[k] = w[k]
  <2>1. Len(w) \in Nat /\ DOMAIN w = 1 .. Len(w)
    BY LenProperties
  <2>2. /\ v \in Seq(Unit) /\ Len(v) = Len(w) + 1
        /\ v[Len(w) + 1] = u /\ \A k \in 1 .. Len(w) : v[k] = w[k]
    BY AppendProperties
  <2>3. DOMAIN v = 1 .. Len(v)
    BY <2>2, LenProperties
  <2> QED BY <2>1, <2>2, <2>3
<1> HIDE DEF e
<1>2. \A k \in 1 .. e : k = e \/ k \in 1 .. e - 1
  BY <1>1
<1>3. e \in 1 .. e /\ \A k \in 1 .. e - 1 : k \in 1 .. e
  BY <1>1
<1>4. /\ u.id = id /\ ~u.is_header => C = B \cup {e}
      /\ u.id # id \/ u.is_header => C = B
  BY <1>1, <1>2, <1>3 DEF BytesOn
<1>5. /\ u.id = id /\ u.is_header => J = H \cup {e}
      /\ u.id # id \/ ~u.is_header => J = H
  BY <1>1, <1>2, <1>3 DEF HeadersOn
<1>6. \A k \in B \cup H : v[k] = w[k] /\ k \in 1 .. e - 1
  BY <1>1 DEF BytesOn, HeadersOn
<1>7. /\ {w[k].at : k \in B} = 0 .. n - 1
      /\ \A k, l \in B : k < l => w[k].at < w[l].at
      /\ {w[k].index : k \in H} = 0 .. m - 1
      /\ \A k, l \in H : k < l => w[k].index < w[l].index
      /\ \A k \in H : Announces(w[k], size)
  BY DEF OnLine
<1> HIDE DEF B, C, H, J
<1>9. {v[k].at : k \in B} = 0 .. n - 1 /\ {v[k].index : k \in H} = 0 .. m - 1
  BY <1>6, <1>7
<1>10. /\ \A k, l \in B : k < l => v[k].at < v[l].at
       /\ \A k, l \in H : k < l => v[k].index < v[l].index
       /\ \A k \in H : Announces(v[k], size)
  BY <1>6, <1>7
<1>11. u.id # id => OnLine(v, id, size, n, m)
  <2> SUFFICES ASSUME u.id # id PROVE OnLine(v, id, size, n, m)
    OBVIOUS
  <2>1. C = B /\ J = H
    BY <1>4, <1>5
  <2> QED BY <1>9, <1>10, <2>1 DEF OnLine, C, J
<1>12. ASSUME u.id = id, ~u.is_header, u.at = n
       PROVE  OnLine(v, id, size, n + 1, m)
  <2>1. C = B \cup {e} /\ J = H /\ v[e].at = n
    BY <1>1, <1>4, <1>5, <1>12
  <2>2. {v[k].at : k \in C} = 0 .. (n + 1) - 1
    <3>1. {v[k].at : k \in C} = {v[k].at : k \in B} \cup {n}
      BY <2>1
    <3>2. 0 .. (n + 1) - 1 = (0 .. n - 1) \cup {n}
      OBVIOUS
    <3> QED BY <1>9, <3>1, <3>2
  <2>3. \A k, l \in C : k < l => v[k].at < v[l].at
    <3> SUFFICES ASSUME NEW k \in C, NEW l \in C, k < l
                 PROVE  v[k].at < v[l].at
      OBVIOUS
    <3>1. CASE l = e
      <4>1. k \in B
        BY <1>1, <2>1, <3>1
      <4>2. v[k].at \in 0 .. n - 1 /\ v[l].at = n
        BY <1>9, <2>1, <3>1, <4>1
      <4>3. \A x, y : x \in 0 .. n - 1 /\ y = n => x < y
        OBVIOUS
      <4> QED BY <4>2, <4>3, Zenon
    <3>2. CASE l # e
      <4>1. l \in B /\ k # e
        BY <1>1, <1>6, <2>1, <3>2
      <4> QED BY <1>10, <2>1, <4>1
    <3> QED BY <3>1, <3>2
  <2>4. /\ {v[k].index : k \in J} = 0 .. m - 1
        /\ \A k, l \in J : k < l => v[k].index < v[l].index
        /\ \A k \in J : Announces(v[k], size)
    BY <1>9, <1>10, <2>1
  <2> QED BY <2>2, <2>3, <2>4 DEF OnLine, C, J
<1>13. ASSUME u.id = id, u.is_header, u.index = m, Announces(u, size)
       PROVE  OnLine(v, id, size, n, m + 1)
  <2>1. C = B /\ J = H \cup {e} /\ v[e].index = m /\ Announces(v[e], size)
    BY <1>1, <1>4, <1>5, <1>13
  <2>2. {v[k].index : k \in J} = 0 .. (m + 1) - 1
    <3>1. {v[k].index : k \in J} = {v[k].index : k \in H} \cup {m}
      BY <2>1
    <3>2. 0 .. (m + 1) - 1 = (0 .. m - 1) \cup {m}
      OBVIOUS
    <3> QED BY <1>9, <3>1, <3>2
  <2>3. \A k, l \in J : k < l => v[k].index < v[l].index
    <3> SUFFICES ASSUME NEW k \in J, NEW l \in J, k < l
                 PROVE  v[k].index < v[l].index
      OBVIOUS
    <3>1. CASE l = e
      <4>1. k \in H
        BY <1>1, <2>1, <3>1
      <4>2. v[k].index \in 0 .. m - 1 /\ v[l].index = m
        BY <1>9, <2>1, <3>1, <4>1
      <4>3. \A x, y : x \in 0 .. m - 1 /\ y = m => x < y
        OBVIOUS
      <4> QED BY <4>2, <4>3, Zenon
    <3>2. CASE l # e
      <4>1. l \in H /\ k # e
        BY <1>1, <1>6, <2>1, <3>2
      <4> QED BY <1>10, <2>1, <4>1
    <3> QED BY <3>1, <3>2
  <2>4. \A k \in J : Announces(v[k], size)
    BY <1>10, <2>1
  <2>5. /\ {v[k].at : k \in C} = 0 .. n - 1
        /\ \A k, l \in C : k < l => v[k].at < v[l].at
    BY <1>9, <1>10, <2>1
  <2> QED BY <2>2, <2>3, <2>4, <2>5 DEF OnLine, C, J
<1> QED BY <1>11, <1>12, <1>13

\* An event of which no unit is on the line.
LEMMA NothingOut ==
  ASSUME NEW w, NEW id, NEW size, \A k \in DOMAIN w : w[k].id # id
  PROVE  OnLine(w, id, size, 0, 0)
<1>1. BytesOn(w, id) = {} /\ HeadersOn(w, id) = {}
  BY DEF BytesOn, HeadersOn
<1>2. 0 .. 0 - 1 = {}
  OBVIOUS
<1> QED BY <1>1, <1>2 DEF OnLine

\* The sizes of the messages of a series.
LEMMA MessageSizes ==
  ASSUME NEW size \in Nat, NEW i \in Nat, i < message_count(size)
  PROVE  /\ i + 1 = message_count(size) =>
              Lesser(size - i * MAX_SIZE, MAX_SIZE) = size - i * MAX_SIZE
         /\ i + 1 < message_count(size) => Lesser(size - i * MAX_SIZE, MAX_SIZE) = MAX_SIZE
         /\ i * MAX_SIZE \in Nat /\ i * MAX_SIZE <= size
         /\ size > 0 => Lesser(size - i * MAX_SIZE, MAX_SIZE) > 0
         /\ size = 0 => i = 0
         /\ message_count(size) <= size + 1
<1> DEFINE M == MAX_SIZE
           q == (size - 1) \div M
           s == i * M
<1>1. M \in Nat \ {0}
  BY TransmitAssumption DEF MAX_SIZE
<1>2. CASE size = 0
  <2>1. message_count(size) = 1 /\ i = 0 /\ s = 0
    BY <1>1, <1>2 DEF message_count
  <2> HIDE DEF s
  <2> QED BY <1>1, <1>2, <2>1 DEF Lesser, s
<1>3. CASE size > 0
  <2>1. message_count(size) = q + 1
    BY <1>3 DEF message_count
  <2> HIDE DEF M
  <2>2. q \in Nat /\ q * M <= size - 1 /\ size - 1 < (q + 1) * M
    BY <1>1, <1>3
  <2> HIDE DEF q
  <2>3. i <= q
    BY <2>1, <2>2
  <2>4. s \in Nat /\ s <= q * M
    BY <1>1, <2>2, <2>3
  <2>5. i + 1 = q + 1 => size - s <= M
    BY <1>1, <2>2
  <2>6. i + 1 < q + 1 => s + M <= q * M
    BY <1>1, <2>2
  <2>7. q <= size
    BY <1>1, <2>2
  <2> DEFINE p == q * M
  <2>8. p \in Nat /\ p <= size - 1
    BY <1>1, <2>2
  <2>9. s <= p /\ (i + 1 < q + 1 => s + M <= p)
    BY <2>4, <2>6
  <2> HIDE DEF s, p
  <2> QED BY <1>1, <1>3, <2>1, <2>2, <2>4, <2>5, <2>7, <2>8, <2>9 DEF Lesser, s, M
<1> QED BY <1>2, <1>3

-----------------------------------------------------------------------------
(* A step of the sending side keeps what is on the line.                   *)

\* The line goes from w to v without a unit of another event than `own`.
OthersStay(w, v, own) ==
  /\ v \in Seq(Unit) /\ \A k \in DOMAIN v : v[k].id \in DOMAIN result
  /\ \A id, size : \A n, m \in Nat :
       id # own /\ OnLine(w, id, size, n, m) => OnLine(v, id, size, n, m)

LEMMA LineSame ==
  ASSUME SendInv, NEW own
  PROVE  OthersStay(wire, wire, own)
BY DEF SendInv, OthersStay

LEMMA LineLonger ==
  ASSUME SendInv, NEW u \in Unit, u.id \in DOMAIN result, NEW v, v = Append(wire, u)
  PROVE  OthersStay(wire, v, u.id)
<1>1. wire \in Seq(Unit) /\ \A k \in DOMAIN wire : wire[k].id \in DOMAIN result
  BY DEF SendInv
<1> DEFINE e == Len(wire)
<1>2. e \in Nat /\ DOMAIN wire = 1 .. e
  BY <1>1, LenProperties
<1>3. /\ v \in Seq(Unit) /\ Len(v) = e + 1
      /\ v[e + 1] = u /\ \A k \in 1 .. e : v[k] = wire[k]
  BY <1>1, AppendProperties
<1>4. DOMAIN v = 1 .. e + 1
  BY <1>3, LenProperties
<1> HIDE DEF e
<1>5. \A k \in 1 .. e + 1 : k \in 1 .. e \/ k = e + 1
  BY <1>2
<1>6. \A k \in DOMAIN v : v[k].id \in DOMAIN result
  BY <1>1, <1>2, <1>3, <1>4, <1>5
<1>7. ASSUME NEW id, NEW size, NEW n \in Nat, NEW m \in Nat,
             id # u.id, OnLine(wire, id, size, n, m)
      PROVE  OnLine(v, id, size, n, m)
  BY <1>1, <1>7, LineGrows
<1> QED BY <1>3, <1>6, <1>7 DEF OthersStay

LEMMA CountsAreNumbers ==
  ASSUME NEW f \in Frame
  PROVE  BytesOut(f) \in Nat /\ HeadersOut(f) \in Nat
BY DEF Frame, BytesOut, HeadersOut

\* Events whose call returned, or is below the topmost one, have nothing to do
\* with what the topmost one writes.
LEMMA OtherEvents ==
  ASSUME IInv, SendInv, stack # <<>>, NEW v, OthersStay(wire, v, Top.id)
  PROVE  /\ \A k \in 1 .. Len(stack) - 1 :
              /\ result[stack[k].id].status = "active" /\ Progress(stack[k])
              /\ OnLine(v, stack[k].id, stack[k].size, BytesOut(stack[k]), HeadersOut(stack[k]))
              /\ stack[k].id # Top.id /\ k \in DOMAIN stack
         /\ \A id \in DOMAIN result : id # Top.id =>
              /\ result[id].status = "OK" =>
                   OnLine(v, id, result[id].size, result[id].size, message_count(result[id].size))
              /\ result[id].status = "BUSY" => OnLine(v, id, result[id].size, 0, 0)
         /\ result[Top.id].status = "active" /\ Progress(Top)
         /\ OnLine(wire, Top.id, Top.size, BytesOut(Top), HeadersOut(Top))
<1> DEFINE n == Len(stack)
<1>1. n \in Nat \ {0} /\ DOMAIN stack = 1 .. n /\ Top = stack[n]
  BY TopProperties DEF IInv
<1> HIDE DEF n
<1>2. ASSUME NEW k \in 1 .. n - 1
      PROVE  /\ result[stack[k].id].status = "active" /\ Progress(stack[k])
             /\ OnLine(v, stack[k].id, stack[k].size, BytesOut(stack[k]), HeadersOut(stack[k]))
             /\ stack[k].id # Top.id /\ k \in DOMAIN stack
  <2>1. k \in DOMAIN stack /\ n \in DOMAIN stack /\ k # n
    BY <1>1
  <2>2. /\ result[stack[k].id].status = "active" /\ Progress(stack[k])
        /\ OnLine(wire, stack[k].id, stack[k].size, BytesOut(stack[k]), HeadersOut(stack[k]))
        /\ stack[k].id # Top.id
    BY <1>1, <2>1 DEF SendInv
  <2>3. BytesOut(stack[k]) \in Nat /\ HeadersOut(stack[k]) \in Nat
    <3>1. stack \in Seq(Frame)
      BY DEF IInv, TypeOK
    <3>2. stack[k] \in Frame
      BY <1>1, <2>1, <3>1, ElementOfSeq DEF n
    <3> QED BY <3>2, CountsAreNumbers
  <2>4. \A id, size : \A a, b \in Nat :
          id # Top.id /\ OnLine(wire, id, size, a, b) => OnLine(v, id, size, a, b)
    BY DEF OthersStay
  <2>5. OnLine(v, stack[k].id, stack[k].size, BytesOut(stack[k]), HeadersOut(stack[k]))
    BY <2>2, <2>3, <2>4, Zenon
  <2> QED BY <2>1, <2>2, <2>5
<1>3. ASSUME NEW id \in DOMAIN result, id # Top.id
      PROVE  /\ result[id].status = "OK" =>
                  OnLine(v, id, result[id].size, result[id].size, message_count(result[id].size))
             /\ result[id].status = "BUSY" => OnLine(v, id, result[id].size, 0, 0)
  <2>1. result[id].size \in Nat
    <3>1. result \in Seq(Outcome)
      BY DEF IInv, TypeOK, Outcome
    <3>2. result[id] \in Outcome
      BY <3>1, ElementOfSeq, LenProperties
    <3> QED BY <3>2 DEF Outcome
  <2>2. message_count(result[id].size) \in Nat /\ 0 \in Nat
    BY <2>1, MessageCountPositive
  <2>3. \A i, size : \A a, b \in Nat :
          i # Top.id /\ OnLine(wire, i, size, a, b) => OnLine(v, i, size, a, b)
    BY DEF OthersStay
  <2>4. /\ result[id].status = "OK" =>
             OnLine(wire, id, result[id].size, result[id].size, message_count(result[id].size))
        /\ result[id].status = "BUSY" => OnLine(wire, id, result[id].size, 0, 0)
    BY DEF SendInv
  <2> QED BY <1>3, <2>1, <2>2, <2>3, <2>4, Zenon
<1>4. /\ result[Top.id].status = "active" /\ Progress(Top)
      /\ OnLine(wire, Top.id, Top.size, BytesOut(Top), HeadersOut(Top))
  <2>1. n \in DOMAIN stack
    BY <1>1
  <2> QED BY <1>1, <2>1 DEF SendInv
<1> QED BY <1>2, <1>3, <1>4 DEF n

\* The topmost call goes on.
LEMMA SendsOn ==
  ASSUME IInv, SendInv, stack # <<>>, NEW f \in Frame, SetTop(f), result' = result,
         f.id = Top.id, f.size = Top.size, Progress(f),
         OthersStay(wire, wire', Top.id),
         OnLine(wire', f.id, f.size, BytesOut(f), HeadersOut(f))
  PROVE  SendInv'
<1> DEFINE n == Len(stack)
<1>1. /\ n \in Nat \ {0} /\ DOMAIN stack = 1 .. n /\ Top = stack[n]
  BY TopProperties DEF IInv
<1>2. /\ DOMAIN stack' = 1 .. n /\ stack'[n] = f
      /\ \A k \in 1 .. n - 1 : stack'[k] = stack[k]
  BY SetTopProperties DEF IInv
<1>3. /\ \A k \in 1 .. n - 1 :
           /\ result[stack[k].id].status = "active" /\ Progress(stack[k])
           /\ OnLine(wire', stack[k].id, stack[k].size, BytesOut(stack[k]), HeadersOut(stack[k]))
           /\ stack[k].id # Top.id /\ k \in DOMAIN stack
      /\ \A id \in DOMAIN result : id # Top.id =>
           /\ result[id].status = "OK" =>
                OnLine(wire', id, result[id].size, result[id].size, message_count(result[id].size))
           /\ result[id].status = "BUSY" => OnLine(wire', id, result[id].size, 0, 0)
      /\ result[Top.id].status = "active"
  BY OtherEvents
<1> HIDE DEF n
<1>4. \A k \in 1 .. n : k = n \/ k \in 1 .. n - 1
  BY <1>1
<1>5. wire' \in Seq(Unit) /\ \A k \in DOMAIN wire' : wire'[k].id \in DOMAIN result
  BY DEF OthersStay
<1>6. ASSUME NEW k \in 1 .. n
      PROVE  /\ result[stack'[k].id].status = "active" /\ Progress(stack'[k])
             /\ OnLine(wire', stack'[k].id, stack'[k].size, BytesOut(stack'[k]), HeadersOut(stack'[k]))
             /\ \A l \in 1 .. n : l # k => stack'[l].id # stack'[k].id
  <2>1. stack'[k].id = stack[k].id /\ \A l \in 1 .. n : stack'[l].id = stack[l].id
    BY <1>1, <1>2, <1>4
  <2>2. \A l \in 1 .. n : l # k => stack[l].id # stack[k].id
    BY <1>1 DEF SendInv
  <2>3. CASE k = n
    BY <1>1, <1>2, <1>3, <2>1, <2>2, <2>3
  <2>4. CASE k \in 1 .. n - 1
    BY <1>2, <1>3, <2>1, <2>2, <2>4
  <2> QED BY <1>4, <2>3, <2>4
<1>7. ASSUME NEW id \in DOMAIN result
      PROVE  /\ result[id].status = "OK" =>
                  OnLine(wire', id, result[id].size, result[id].size, message_count(result[id].size))
             /\ result[id].status = "BUSY" => OnLine(wire', id, result[id].size, 0, 0)
  BY <1>3
<1> QED BY <1>2, <1>5, <1>6, <1>7 DEF SendInv

\* The topmost call returns.
LEMMA SendingEnds ==
  ASSUME IInv, SendInv, stack # <<>>, NEW status \in {"OK", "BUSY"}, Pop(status), wire' = wire,
         status = "OK" => BytesOut(Top) = Top.size /\ HeadersOut(Top) = message_count(Top.size),
         status = "BUSY" => BytesOut(Top) = 0 /\ HeadersOut(Top) = 0
  PROVE  SendInv'
<1> DEFINE n == Len(stack)
<1>1. /\ n \in Nat \ {0} /\ DOMAIN stack = 1 .. n /\ Top = stack[n]
      /\ Top.size = result[Top.id].size
  BY TopProperties DEF IInv
<1>2. /\ DOMAIN stack' = 1 .. n - 1
      /\ \A k \in 1 .. n - 1 : stack'[k] = stack[k]
  BY PopProperties DEF IInv
<1>3. /\ \A k \in 1 .. n - 1 :
           /\ result[stack[k].id].status = "active" /\ Progress(stack[k])
           /\ OnLine(wire, stack[k].id, stack[k].size, BytesOut(stack[k]), HeadersOut(stack[k]))
           /\ stack[k].id # Top.id /\ k \in DOMAIN stack
      /\ \A id \in DOMAIN result : id # Top.id =>
           /\ result[id].status = "OK" =>
                OnLine(wire, id, result[id].size, result[id].size, message_count(result[id].size))
           /\ result[id].status = "BUSY" => OnLine(wire, id, result[id].size, 0, 0)
      /\ OnLine(wire, Top.id, Top.size, BytesOut(Top), HeadersOut(Top))
  BY OtherEvents, LineSame
<1>4. /\ DOMAIN result' = DOMAIN result
      /\ \A id \in DOMAIN result :
           /\ result'[id].size = result[id].size
           /\ result'[id].status = IF id = Top.id THEN status ELSE result[id].status
  BY PopResult DEF IInv
<1>5. wire' \in Seq(Unit) /\ \A k \in DOMAIN wire' : wire'[k].id \in DOMAIN result'
  BY <1>4 DEF SendInv
<1> HIDE DEF n
<1>6. ASSUME NEW k \in 1 .. n - 1
      PROVE  /\ result'[stack'[k].id].status = "active" /\ Progress(stack'[k])
             /\ OnLine(wire, stack'[k].id, stack'[k].size, BytesOut(stack'[k]), HeadersOut(stack'[k]))
             /\ \A l \in 1 .. n - 1 : l # k => stack'[l].id # stack'[k].id
  <2>1. stack[k].id \in DOMAIN result
    BY <1>3 DEF IInv, TypeOK
  <2>2. \A l \in 1 .. n - 1 : l # k => stack[l].id # stack[k].id
    BY <1>3 DEF SendInv
  <2> QED BY <1>2, <1>3, <1>4, <2>1, <2>2
<1>7. ASSUME NEW id \in DOMAIN result
      PROVE  /\ result'[id].status = "OK" =>
                  OnLine(wire, id, result'[id].size, result'[id].size, message_count(result'[id].size))
             /\ result'[id].status = "BUSY" => OnLine(wire, id, result'[id].size, 0, 0)
  <2>1. CASE id = Top.id
    <3>1. result'[id].status = status /\ result'[id].size = Top.size
      BY <1>1, <1>4, <2>1
    <3>2. CASE status = "OK"
      BY <1>3, <2>1, <3>1, <3>2
    <3>3. CASE status = "BUSY"
      BY <1>3, <2>1, <3>1, <3>3
    <3> QED BY <3>2, <3>3
  <2>2. CASE id # Top.id
    BY <1>3, <1>4, <2>2
  <2> QED BY <2>1, <2>2
<1> QED BY <1>2, <1>4, <1>5, <1>6, <1>7 DEF SendInv

LEMMA InitSendInv == Init => SendInv
<1> SUFFICES ASSUME Init PROVE SendInv
  OBVIOUS
<1>1. stack = <<>> /\ result = <<>> /\ wire = <<>>
  BY DEF Init
<1>2. wire \in Seq(Unit) /\ DOMAIN wire = {} /\ DOMAIN stack = {} /\ DOMAIN result = {}
  BY <1>1
<1> QED BY <1>2 DEF SendInv

\* Nothing is on the line of an event that has just begun.
LEMMA CallSendInv ==
  ASSUME IInv, SendInv, NEW kind \in Kinds, NEW size \in Sizes, Call(kind, size)
  PROVE  SendInv'
<1> DEFINE f == [id |-> Len(result) + 1, kind |-> kind, size |-> size,
                 pc |-> "check", i |-> 0, bytes_sent |-> 0, written |-> 0]
           r == [kind |-> kind, size |-> size, status |-> "active"]
           n == Len(stack)
           m == Len(result)
<1>1. /\ stack' = Append(stack, f) /\ result' = Append(result, r) /\ wire' = wire /\ m < MaxEvents
  BY DEF Call
<1>2. stack \in Seq(Frame) /\ result \in Seq(Outcome)
  BY DEF IInv, TypeOK, Outcome
<1>3. /\ n \in Nat /\ DOMAIN stack = 1 .. n /\ m \in Nat /\ DOMAIN result = 1 .. m
  BY <1>2, LenProperties
<1>4. size \in Nat /\ MaxEvents \in Nat
  BY TransmitAssumption
<1>5. f \in Frame /\ r \in Outcome
  BY <1>1, <1>3, <1>4 DEF Frame, Outcome, Pcs, Ids
<1>6. f.id = m + 1 /\ f.size = size /\ r.size = size /\ r.status = "active"
  OBVIOUS
<1>7. Progress(f) /\ BytesOut(f) = 0 /\ HeadersOut(f) = 0
  <2>1. MAX_SIZE \in Nat
    BY TransmitAssumption DEF MAX_SIZE
  <2>2. 0 = 0 * MAX_SIZE
    BY <2>1
  <2> QED BY <2>2 DEF Progress, BytesOut, HeadersOut
<1> HIDE DEF f, r, n, m
<1>8. /\ DOMAIN stack' = 1 .. n + 1 /\ stack'[n + 1] = f
      /\ \A k \in 1 .. n : stack'[k] = stack[k]
  BY <1>1, <1>2, <1>5 DEF n
<1>9. /\ DOMAIN result' = 1 .. m + 1 /\ result'[m + 1] = r
      /\ \A id \in 1 .. m : result'[id] = result[id]
  BY <1>1, <1>2, <1>5 DEF m
<1>10. wire' \in Seq(Unit) /\ \A k \in DOMAIN wire' : wire'[k].id \in 1 .. m
  BY <1>1, <1>3 DEF SendInv
<1>11. OnLine(wire', m + 1, size, 0, 0)
  <2>1. \A id \in 1 .. m : id # m + 1
    BY <1>3
  <2> QED BY <1>10, <2>1, NothingOut
<1>12. \A k \in 1 .. n : stack[k].id \in 1 .. m
  BY <1>3 DEF IInv, TypeOK
<1>13. \A k \in 1 .. n + 1 : k = n + 1 \/ k \in 1 .. n
  BY <1>3
<1>14. \A id \in 1 .. m + 1 : id = m + 1 \/ id \in 1 .. m
  BY <1>3
<1>15. \A id \in 1 .. m : id # m + 1 /\ id \in 1 .. m + 1
  BY <1>3
<1>16. ASSUME NEW k \in 1 .. n + 1
       PROVE  /\ result'[stack'[k].id].status = "active" /\ Progress(stack'[k])
              /\ OnLine(wire', stack'[k].id, stack'[k].size, BytesOut(stack'[k]), HeadersOut(stack'[k]))
              /\ \A l \in 1 .. n + 1 : l # k => stack'[l].id # stack'[k].id
  <2>1. CASE k = n + 1
    <3>1. \A l \in 1 .. n + 1 : l # k => stack'[l].id # stack'[k].id
      BY <1>6, <1>8, <1>12, <1>13, <1>15, <2>1
    <3> QED BY <1>6, <1>7, <1>8, <1>9, <1>11, <2>1, <3>1
  <2>2. CASE k \in 1 .. n
    <3>1. /\ result[stack[k].id].status = "active" /\ Progress(stack[k])
          /\ OnLine(wire, stack[k].id, stack[k].size, BytesOut(stack[k]), HeadersOut(stack[k]))
          /\ \A l \in 1 .. n : l # k => stack[l].id # stack[k].id
      BY <1>3, <2>2 DEF SendInv
    <3>2. result'[stack[k].id] = result[stack[k].id]
      BY <1>9, <1>12, <2>2
    <3>3. \A l \in 1 .. n + 1 : l # k => stack'[l].id # stack'[k].id
      BY <1>6, <1>8, <1>12, <1>13, <1>15, <2>2, <3>1
    <3> QED BY <1>1, <1>8, <2>2, <3>1, <3>2, <3>3
  <2> QED BY <1>13, <2>1, <2>2
<1>17. ASSUME NEW id \in 1 .. m + 1
       PROVE  /\ result'[id].status = "OK" =>
                   OnLine(wire', id, result'[id].size, result'[id].size, message_count(result'[id].size))
              /\ result'[id].status = "BUSY" => OnLine(wire', id, result'[id].size, 0, 0)
  <2>1. CASE id = m + 1
    BY <1>6, <1>9, <2>1
  <2>2. CASE id \in 1 .. m
    BY <1>1, <1>3, <1>9, <2>2 DEF SendInv
  <2> QED BY <1>14, <2>1, <2>2
<1>18. \A k \in DOMAIN wire' : wire'[k].id \in DOMAIN result'
  BY <1>9, <1>10, <1>15
<1> QED BY <1>8, <1>9, <1>10, <1>16, <1>17, <1>18 DEF SendInv

\* What a step of the topmost call starts from.
LEMMA TopSends ==
  ASSUME IInv, SendInv, stack # <<>>
  PROVE  /\ Top \in Frame /\ Top.id \in DOMAIN result /\ Progress(Top)
         /\ Top.i \in Nat /\ Top.written \in Nat /\ Top.size \in Nat /\ Top.bytes_sent \in Nat
         /\ Top.bytes_sent <= Top.size /\ Top.i < message_count(Top.size)
         /\ OnLine(wire, Top.id, Top.size, BytesOut(Top), HeadersOut(Top))
<1>1. /\ Top \in Frame /\ Top.id \in DOMAIN result
      /\ Top.bytes_sent <= Top.size /\ Top.i < message_count(Top.size)
  BY TopProperties DEF IInv
<1>2. Progress(Top) /\ OnLine(wire, Top.id, Top.size, BytesOut(Top), HeadersOut(Top))
  BY LineSame, OtherEvents
<1> QED BY <1>1, <1>2 DEF Frame

LEMMA CheckSendInv ==
  ASSUME IInv, SendInv, Check
  PROVE  SendInv'
<1>1. stack # <<>> /\ Top.pc = "check" /\ wire' = wire
  BY DEF Check, At
<1>2. /\ Top \in Frame /\ Progress(Top)
      /\ OnLine(wire, Top.id, Top.size, BytesOut(Top), HeadersOut(Top))
  BY <1>1, TopSends
<1>3. Top.i = 0 /\ Top.written = 0 /\ Top.bytes_sent = Top.i * MAX_SIZE
  BY <1>1, <1>2 DEF Progress
<1>4. CASE Pop("BUSY")
  <2>1. Top.bytes_sent = 0
    <3>1. MAX_SIZE \in Nat
      BY TransmitAssumption DEF MAX_SIZE
    <3> QED BY <1>3, <3>1
  <2>2. BytesOut(Top) = 0 /\ HeadersOut(Top) = 0
    BY <1>1, <1>3, <2>1 DEF BytesOut, HeadersOut
  <2> QED BY <1>1, <1>4, <2>2, SendingEnds
<1>5. CASE SetTop([Top EXCEPT !.pc = "loop"]) /\ UNCHANGED result
  <2> DEFINE f == [Top EXCEPT !.pc = "loop"]
  <2>1. /\ f \in Frame /\ f.id = Top.id /\ f.size = Top.size /\ f.bytes_sent = Top.bytes_sent
        /\ f.i = Top.i /\ f.pc = "loop" /\ f.written = Top.written
    BY <1>2 DEF Frame, Pcs
  <2>2. SetTop(f) /\ result' = result
    BY <1>5
  <2> HIDE DEF f
  <2>3. Progress(f) /\ BytesOut(f) = BytesOut(Top) /\ HeadersOut(f) = HeadersOut(Top)
    BY <1>1, <1>3, <2>1 DEF Progress, BytesOut, HeadersOut
  <2>4. OnLine(wire', f.id, f.size, BytesOut(f), HeadersOut(f))
    BY <1>1, <1>2, <2>1, <2>3
  <2>5. OthersStay(wire, wire', Top.id)
    BY <1>1, LineSame
  <2> QED BY <1>1, <2>1, <2>2, <2>3, <2>4, <2>5, SendsOn
<1> QED BY <1>4, <1>5 DEF Check

LEMMA BeginMessageSendInv ==
  ASSUME IInv, SendInv, BeginMessage
  PROVE  SendInv'
<1> DEFINE f == [Top EXCEPT !.pc = "header"]
<1>1. /\ stack # <<>> /\ Top.pc = "loop" /\ wire' = wire /\ SetTop(f) /\ result' = result
  BY DEF BeginMessage, At
<1>2. /\ Top \in Frame /\ Progress(Top)
      /\ OnLine(wire, Top.id, Top.size, BytesOut(Top), HeadersOut(Top))
  BY <1>1, TopSends
<1>3. /\ f \in Frame /\ f.id = Top.id /\ f.size = Top.size /\ f.bytes_sent = Top.bytes_sent
      /\ f.i = Top.i /\ f.pc = "header" /\ f.written = Top.written
  BY <1>2 DEF Frame, Pcs
<1> HIDE DEF f
<1>4. Progress(f) /\ BytesOut(f) = BytesOut(Top) /\ HeadersOut(f) = HeadersOut(Top)
  BY <1>1, <1>2, <1>3 DEF Progress, BytesOut, HeadersOut
<1>5. OnLine(wire', f.id, f.size, BytesOut(f), HeadersOut(f))
  BY <1>1, <1>2, <1>3, <1>4
<1>6. OthersStay(wire, wire', Top.id)
  BY <1>1, LineSame
<1> QED BY <1>1, <1>3, <1>4, <1>5, <1>6, SendsOn

LEMMA WriteHeaderSendInv ==
  ASSUME IInv, SendInv, WriteHeader
  PROVE  SendInv'
<1> DEFINE next == IF Top.size > 0 THEN "payload" ELSE "clear"
           f == [Top EXCEPT !.pc = next]
           u == HeaderUnit(Top)
           p == message_payload_size(Top)
<1>1. /\ stack # <<>> /\ Top.pc = "header" /\ wire' = Append(wire, u)
      /\ SetTop(f) /\ result' = result
  BY DEF WriteHeader, At
<1>2. /\ Top \in Frame /\ Top.id \in DOMAIN result /\ Progress(Top)
      /\ Top.i \in Nat /\ Top.written \in Nat /\ Top.size \in Nat /\ Top.bytes_sent \in Nat
      /\ Top.bytes_sent <= Top.size /\ Top.i < message_count(Top.size)
      /\ OnLine(wire, Top.id, Top.size, BytesOut(Top), HeadersOut(Top))
  BY <1>1, TopSends
<1>3. /\ p \in Nat /\ Top.written = 0 /\ Top.bytes_sent = Top.i * MAX_SIZE
      /\ p = Lesser(Top.size - Top.i * MAX_SIZE, MAX_SIZE)
  <2>1. p \in Nat
    BY <1>2, PayloadSizeBounds
  <2>2. Top.written = 0 /\ Top.bytes_sent = Top.i * MAX_SIZE
    BY <1>1, <1>2 DEF Progress
  <2> QED BY <2>1, <2>2 DEF message_payload_size
<1>4. IF Top.size > 0 THEN p > 0 ELSE p = 0
  <2>1. CASE Top.size > 0
    BY <1>2, <1>3, <2>1, MessageSizes
  <2>2. CASE Top.size = 0
    <3>1. Top.bytes_sent = 0
      BY <1>2, <2>2
    <3>2. MAX_SIZE \in Nat
      BY TransmitAssumption DEF MAX_SIZE
    <3> QED BY <2>2, <3>1, <3>2 DEF message_payload_size, Lesser
  <2> QED BY <1>2, <2>1, <2>2
<1>5. u \in Unit /\ u.id = Top.id /\ u.is_header /\ u.index = Top.i /\ Announces(u, Top.size)
  <2>1. /\ u.id = Top.id /\ u.is_header /\ u.index = Top.i /\ u.payload_size = p
        /\ u.first = (Top.i = 0) /\ u.last = (Top.i = message_count(Top.size) - 1)
        /\ u.has_payload = (Top.size > 0)
    BY DEF HeaderUnit
  <2>2. Announces(u, Top.size)
    BY <1>3, <2>1 DEF Announces
  <2>3. u \in Unit
    BY <1>2, <1>3 DEF HeaderUnit, Unit, Frame
  <2> QED BY <2>1, <2>2, <2>3
<1> HIDE DEF p, u
<1>6. /\ f \in Frame /\ f.id = Top.id /\ f.size = Top.size /\ f.bytes_sent = Top.bytes_sent
      /\ f.i = Top.i /\ f.pc = next /\ f.written = Top.written
  BY <1>2 DEF Frame, Pcs
<1>7. message_payload_size(f) = p
  BY <1>6 DEF message_payload_size, p
<1> HIDE DEF f
<1>8. /\ Progress(f) /\ BytesOut(f) = BytesOut(Top)
      /\ HeadersOut(f) = Top.i + 1 /\ HeadersOut(Top) = Top.i
  BY <1>1, <1>2, <1>3, <1>4, <1>6, <1>7 DEF Progress, BytesOut, HeadersOut
<1>9. OnLine(wire', f.id, f.size, BytesOut(f), HeadersOut(f))
  <2>1. wire \in Seq(Unit) /\ BytesOut(Top) \in Nat
    BY <1>2, CountsAreNumbers DEF SendInv
  <2> DEFINE a == BytesOut(Top)
             b == Top.i
  <2>2. a \in Nat /\ b \in Nat /\ OnLine(wire, u.id, Top.size, a, b) /\ u.index = b
    BY <1>2, <1>5, <1>8, <2>1
  <2> HIDE DEF a, b
  <2>3. OnLine(wire', u.id, Top.size, a, b + 1)
    BY <1>1, <1>5, <2>1, <2>2, LineGrows
  <2> QED BY <1>5, <1>6, <1>8, <2>3 DEF a, b
<1>10. OthersStay(wire, wire', Top.id)
  BY <1>1, <1>2, <1>5, LineLonger
<1> QED BY <1>1, <1>6, <1>8, <1>9, <1>10, SendsOn

LEMMA WriteByteSendInv ==
  ASSUME IInv, SendInv, WriteByte
  PROVE  SendInv'
<1> DEFINE p == message_payload_size(Top)
           w == Top.written + 1
           next == IF w < p THEN "payload" ELSE "clear"
           f == [Top EXCEPT !.written = w, !.pc = next]
           u == DataUnit(Top)
<1>1. /\ stack # <<>> /\ Top.pc = "payload" /\ wire' = Append(wire, u)
      /\ SetTop(f) /\ result' = result
  BY DEF WriteByte, At
<1>2. /\ Top \in Frame /\ Top.id \in DOMAIN result /\ Progress(Top)
      /\ Top.i \in Nat /\ Top.written \in Nat /\ Top.size \in Nat /\ Top.bytes_sent \in Nat
      /\ Top.bytes_sent <= Top.size
      /\ OnLine(wire, Top.id, Top.size, BytesOut(Top), HeadersOut(Top))
  BY <1>1, TopSends
<1>3. p \in Nat /\ Top.size > 0 /\ Top.written < p /\ Top.bytes_sent = Top.i * MAX_SIZE
  <2>1. p \in Nat
    BY <1>2, PayloadSizeBounds
  <2> QED BY <1>1, <1>2, <2>1 DEF Progress
<1>4. u \in Unit /\ u.id = Top.id /\ ~u.is_header /\ u.at = Top.bytes_sent + Top.written
  <2>1. u.id = Top.id /\ ~u.is_header /\ u.at = Top.bytes_sent + Top.written
    BY DEF DataUnit
  <2>2. u \in Unit
    BY <1>2 DEF DataUnit, Unit, Frame
  <2> QED BY <2>1, <2>2
<1>5. w \in Nat /\ (w < p \/ w = p)
  BY <1>2, <1>3
<1> HIDE DEF p, u
<1>6. /\ f \in Frame /\ f.id = Top.id /\ f.size = Top.size /\ f.bytes_sent = Top.bytes_sent
      /\ f.i = Top.i /\ f.pc = next /\ f.written = w
  <2>1. next \in Pcs
    BY DEF Pcs
  <2> HIDE DEF w, next
  <2> QED BY <1>2, <1>5, <2>1 DEF Frame
<1>7. message_payload_size(f) = p
  BY <1>6 DEF message_payload_size, p
<1> HIDE DEF f
<1>8. /\ Progress(f) /\ BytesOut(f) = BytesOut(Top) + 1 /\ HeadersOut(f) = HeadersOut(Top)
      /\ BytesOut(Top) = Top.bytes_sent + Top.written
  <2>1. f.pc = "payload" => f.written < message_payload_size(f)
    BY <1>6, <1>7
  <2>2. f.pc = "clear" => f.written = message_payload_size(f)
    BY <1>5, <1>6, <1>7
  <2>3. f.pc \in {"payload", "clear"}
    BY <1>6
  <2>4. Progress(f)
    BY <1>3, <1>6, <2>1, <2>2, <2>3 DEF Progress
  <2>5. BytesOut(f) = BytesOut(Top) + 1 /\ BytesOut(Top) = Top.bytes_sent + Top.written
    BY <1>2, <1>6 DEF BytesOut
  <2>6. HeadersOut(f) = HeadersOut(Top)
    BY <1>1, <1>6, <2>3 DEF HeadersOut
  <2> QED BY <2>4, <2>5, <2>6
<1>9. OnLine(wire', f.id, f.size, BytesOut(f), HeadersOut(f))
  <2>1. wire \in Seq(Unit) /\ BytesOut(Top) \in Nat /\ HeadersOut(Top) \in Nat
    BY <1>2, CountsAreNumbers DEF SendInv
  <2> DEFINE a == BytesOut(Top)
             b == HeadersOut(Top)
  <2>2. a \in Nat /\ b \in Nat /\ OnLine(wire, u.id, Top.size, a, b) /\ u.at = a
    BY <1>2, <1>4, <1>8, <2>1
  <2> HIDE DEF a, b
  <2>3. OnLine(wire', u.id, Top.size, a + 1, b)
    BY <1>1, <1>4, <2>1, <2>2, LineGrows
  <2> QED BY <1>4, <1>6, <1>8, <2>3 DEF a, b
<1>10. OthersStay(wire, wire', Top.id)
  BY <1>1, <1>2, <1>4, LineLonger
<1> QED BY <1>1, <1>6, <1>8, <1>9, <1>10, SendsOn

LEMMA EndMessageSendInv ==
  ASSUME IInv, SendInv, EndMessage
  PROVE  SendInv'
<1> DEFINE p == message_payload_size(Top)
           sent == Top.bytes_sent + p
           f == [Top EXCEPT !.pc = "loop", !.i = NextIndex(Top), !.written = 0,
                            !.bytes_sent = sent]
<1>1. stack # <<>> /\ Top.pc = "clear" /\ wire' = wire
  BY DEF EndMessage, At
<1>2. /\ Top \in Frame /\ Progress(Top)
      /\ Top.i \in Nat /\ Top.written \in Nat /\ Top.size \in Nat /\ Top.bytes_sent \in Nat
      /\ Top.bytes_sent <= Top.size /\ Top.i < message_count(Top.size)
      /\ OnLine(wire, Top.id, Top.size, BytesOut(Top), HeadersOut(Top))
  BY <1>1, TopSends
<1>3. /\ p \in Nat /\ Top.written = p /\ Top.bytes_sent = Top.i * MAX_SIZE
      /\ p = Lesser(Top.size - Top.i * MAX_SIZE, MAX_SIZE)
  <2>1. p \in Nat
    BY <1>2, PayloadSizeBounds
  <2>2. Top.written = p /\ Top.bytes_sent = Top.i * MAX_SIZE
    BY <1>1, <1>2 DEF Progress
  <2> QED BY <2>1, <2>2 DEF message_payload_size
<1>4. message_count(Top.size) \in Nat
  BY <1>2, MessageCountPositive
<1>5. BytesOut(Top) = sent /\ HeadersOut(Top) = Top.i + 1
  BY <1>1, <1>3 DEF BytesOut, HeadersOut
<1> HIDE DEF p
<1>6. CASE /\ NextIndex(Top) < message_count(Top.size)
           /\ SetTop(f) /\ UNCHANGED result
  <2>1. p = MAX_SIZE
    <3>1. Top.i + 1 < message_count(Top.size)
      BY <1>6 DEF NextIndex
    <3> QED BY <1>2, <1>3, <3>1, MessageSizes
  <2>2. sent \in Nat /\ sent = (Top.i + 1) * MAX_SIZE
    <3>1. MAX_SIZE \in Nat
      BY TransmitAssumption DEF MAX_SIZE
    <3>2. \A x, y \in Nat : x * y + y = (x + 1) * y
      OBVIOUS
    <3> QED BY <1>2, <1>3, <2>1, <3>1, <3>2
  <2>10. NextIndex(Top) \in Nat /\ NextIndex(Top) = Top.i + 1
    BY <1>2 DEF NextIndex
  <2> HIDE DEF sent
  <2>11. /\ f \in Frame /\ f.id = Top.id /\ f.size = Top.size /\ f.bytes_sent = sent
         /\ f.i = NextIndex(Top) /\ f.pc = "loop" /\ f.written = 0
    BY <1>2, <2>2, <2>10 DEF Frame, Pcs
  <2>3. /\ f \in Frame /\ f.id = Top.id /\ f.size = Top.size /\ f.bytes_sent = sent
        /\ f.i = Top.i + 1 /\ f.pc = "loop" /\ f.written = 0
    BY <2>10, <2>11
  <2>4. SetTop(f) /\ result' = result
    BY <1>6
  <2> HIDE DEF f
  <2>5. Progress(f) /\ BytesOut(f) = sent /\ HeadersOut(f) = Top.i + 1
    BY <2>2, <2>3 DEF Progress, BytesOut, HeadersOut
  <2>6. OnLine(wire', f.id, f.size, BytesOut(f), HeadersOut(f))
    BY <1>1, <1>2, <1>5, <2>3, <2>5
  <2>7. OthersStay(wire, wire', Top.id)
    BY <1>1, LineSame
  <2> QED BY <1>1, <2>3, <2>4, <2>5, <2>6, <2>7, SendsOn
<1>7. CASE NextIndex(Top) >= message_count(Top.size) /\ Pop("OK")
  <2>1. Top.i + 1 = message_count(Top.size)
    BY <1>2, <1>4, <1>7 DEF NextIndex
  <2>2. p = Top.size - Top.bytes_sent
    BY <1>2, <1>3, <2>1, MessageSizes
  <2>3. BytesOut(Top) = Top.size /\ HeadersOut(Top) = message_count(Top.size)
    BY <1>2, <1>5, <2>1, <2>2
  <2> QED BY <1>1, <1>7, <2>3, SendingEnds
<1> QED BY <1>6, <1>7 DEF EndMessage, p

LEMMA NextSendInv ==
  ASSUME IInv, SendInv, [Next]_vars
  PROVE  SendInv'
<1>1. CASE \E kind \in Kinds, size \in Sizes : Call(kind, size)
  BY <1>1, CallSendInv
<1>2. CASE Check
  BY <1>2, CheckSendInv
<1>3. CASE BeginMessage
  BY <1>3, BeginMessageSendInv
<1>4. CASE WriteHeader
  BY <1>4, WriteHeaderSendInv
<1>5. CASE WriteByte
  BY <1>5, WriteByteSendInv
<1>6. CASE EndMessage
  BY <1>6, EndMessageSendInv
<1>7. CASE UNCHANGED vars
  BY <1>7 DEF vars, SendInv
<1> QED BY <1>1, <1>2, <1>3, <1>4, <1>5, <1>6, <1>7 DEF Next, Step

LEMMA SeriesFromLine ==
  ASSUME IInv, SendInv
  PROVE  SeriesComplete
<1> SUFFICES ASSUME NEW id \in DOMAIN result
             PROVE  /\ result[id].status = "OK" =>
                         /\ {wire[k].at : k \in Bytes(id)} = 0 .. result[id].size - 1
                         /\ \A k, l \in Bytes(id) : k < l => wire[k].at < wire[l].at
                         /\ \E n \in 1 .. result[id].size + 1 : HeadersAnnounce(id, result[id].size, n)
                    /\ result[id].status = "BUSY" => Bytes(id) = {} /\ Headers(id) = {}
  BY DEF SeriesComplete
<1> DEFINE size == result[id].size
           n == message_count(size)
<1>1. Bytes(id) = BytesOn(wire, id) /\ Headers(id) = HeadersOn(wire, id)
  BY DEF Bytes, Headers, BytesOn, HeadersOn
<1>2. size \in Nat
  <2>1. result \in Seq(Outcome)
    BY DEF IInv, TypeOK, Outcome
  <2>2. result[id] \in Outcome
    BY <2>1, ElementOfSeq, LenProperties
  <2> QED BY <2>2 DEF Outcome
<1>3. n \in Nat \ {0} /\ n <= size + 1
  <2>1. n \in Nat \ {0}
    BY <1>2, MessageCountPositive
  <2> DEFINE z == 0
  <2>2. z \in Nat /\ z < n
    BY <2>1
  <2> HIDE DEF z
  <2> QED BY <1>2, <2>1, <2>2, MessageSizes
<1>4. ASSUME result[id].status = "OK"
      PROVE  /\ {wire[k].at : k \in Bytes(id)} = 0 .. size - 1
             /\ \A k, l \in Bytes(id) : k < l => wire[k].at < wire[l].at
             /\ HeadersAnnounce(id, size, n)
  <2>1. OnLine(wire, id, size, size, n)
    BY <1>4 DEF SendInv
  <2> HIDE DEF size, n
  <2>2. /\ {wire[k].at : k \in Bytes(id)} = 0 .. size - 1
        /\ \A k, l \in Bytes(id) : k < l => wire[k].at < wire[l].at
        /\ {wire[k].index : k \in Headers(id)} = 0 .. n - 1
        /\ \A k, l \in Headers(id) : k < l => wire[k].index < wire[l].index
        /\ \A k \in Headers(id) : Announces(wire[k], size)
    BY <1>1, <2>1 DEF OnLine
  <2>3. ASSUME NEW k \in Headers(id)
        PROVE  /\ \A l \in Headers(id) : k < l => wire[k].index < wire[l].index
               /\ wire[k].first = (wire[k].index = 0) /\ wire[k].last = (wire[k].index = n - 1)
               /\ wire[k].has_payload = (size > 0)
               /\ wire[k].payload_size =
                    IF wire[k].last THEN size - wire[k].index * MAX_SIZE ELSE MAX_SIZE
    <3> DEFINE i == wire[k].index
    <3>1. i \in 0 .. n - 1
      BY <2>2
    <3>2. /\ wire[k].first = (i = 0) /\ wire[k].last = (i = n - 1)
          /\ wire[k].has_payload = (size > 0)
          /\ wire[k].payload_size = Lesser(size - i * MAX_SIZE, MAX_SIZE)
      BY <2>2 DEF Announces, n
    <3> HIDE DEF i
    <3>3. i \in Nat /\ i < n /\ (i = n - 1 => i + 1 = n) /\ (i # n - 1 => i + 1 < n)
      BY <1>3, <3>1
    <3>4. /\ i + 1 = n => Lesser(size - i * MAX_SIZE, MAX_SIZE) = size - i * MAX_SIZE
          /\ i + 1 < n => Lesser(size - i * MAX_SIZE, MAX_SIZE) = MAX_SIZE
      BY <1>2, <3>3, MessageSizes DEF n
    <3>5. wire[k].payload_size = IF wire[k].last THEN size - i * MAX_SIZE ELSE MAX_SIZE
      BY <3>2, <3>3, <3>4
    <3> QED BY <2>2, <3>2, <3>5 DEF i
  <2>4. HeadersAnnounce(id, size, n)
    BY <2>2, <2>3 DEF HeadersAnnounce
  <2> QED BY <2>2, <2>4
<1>5. n \in 1 .. size + 1
  <2> HIDE DEF n, size
  <2> QED BY <1>2, <1>3
<1>6. ASSUME result[id].status = "BUSY"
      PROVE  Bytes(id) = {} /\ Headers(id) = {}
  <2>1. OnLine(wire, id, size, 0, 0)
    BY <1>6 DEF SendInv
  <2>2. 0 .. 0 - 1 = {}
    OBVIOUS
  <2> HIDE DEF size
  <2> QED BY <1>1, <2>1, <2>2 DEF OnLine
<1> QED BY <1>4, <1>5, <1>6

-----------------------------------------------------------------------------
(* What the client has read.                                               *)

IsReading(f, w) ==
  f = [k \in 0 .. Len(w) |->
         IF k = 0 THEN {NothingRead} ELSE {Read(r, w[k]) : r \in f[k - 1]}]

\* The states the client goes through exist, and each is one state.
LEMMA ReadingExists ==
  ASSUME NEW w, Len(w) \in Nat
  PROVE  \E f : IsReading(f, w)
<1> DEFINE Is(f, N) == f = [k \in 0 .. N |->
                              IF k = 0 THEN {NothingRead} ELSE {Read(r, w[k]) : r \in f[k - 1]}]
           P == {N \in Nat : \E f : Is(f, N)}
<1>1. 0 \in P
  <2>1. Is([k \in 0 .. 0 |-> {NothingRead}], 0)
    OBVIOUS
  <2> QED BY <2>1
<1>2. ASSUME NEW N \in 1 .. Len(w), N - 1 \in P
      PROVE  N \in P
  <2>1. PICK f : Is(f, N - 1)
    BY <1>2
  <2> DEFINE last == {Read(r, w[N]) : r \in f[N - 1]}
             g == [k \in 0 .. N |-> IF k = N THEN last ELSE f[k]]
  <2>2. \A k \in 0 .. N - 1 :
          f[k] = IF k = 0 THEN {NothingRead} ELSE {Read(r, w[k]) : r \in f[k - 1]}
    BY <2>1
  <2>3. N \in Nat /\ N # 0
    OBVIOUS
  <2>4. \A k \in 0 .. N - 1 : g[k] = f[k]
    BY <2>3
  <2>5. g[N] = {Read(r, w[N]) : r \in g[N - 1]}
    <3>1. g[N] = last /\ N - 1 \in 0 .. N - 1
      BY <2>3
    <3> QED BY <2>4, <3>1
  <2>6. g = [k \in 0 .. N |-> g[k]]
    OBVIOUS
  <2> HIDE DEF g, last
  <2>7. ASSUME NEW k \in 0 .. N
        PROVE  g[k] = IF k = 0 THEN {NothingRead} ELSE {Read(r, w[k]) : r \in g[k - 1]}
    <3>1. CASE k = N
      BY <2>3, <2>5, <3>1
    <3>2. CASE k = 0
      <4>1. 0 \in 0 .. N - 1
        BY <2>3
      <4> QED BY <2>2, <2>4, <3>2, <4>1
    <3>3. CASE k # N /\ k # 0
      <4>1. k \in 0 .. N - 1 /\ k - 1 \in 0 .. N - 1
        BY <2>3, <3>3
      <4> QED BY <2>2, <2>4, <3>3, <4>1
    <3> QED BY <3>1, <3>2, <3>3
  <2>8. Is(g, N)
    BY <2>6, <2>7
  <2> HIDE DEF Is
  <2> QED BY <2>3, <2>8
<1> HIDE DEF P
<1>3. Len(w) > 0 => 1 \in P
  <2> HAVE Len(w) > 0
  <2>1. 1 \in 1 .. Len(w) /\ 1 - 1 = 0
    OBVIOUS
  <2> QED BY <1>1, <1>2, <2>1
<1>4. \A j \in 2 .. Len(w) : j - 1 \in P => j \in P
  <2> TAKE j \in 2 .. Len(w)
  <2>1. j \in 1 .. Len(w)
    OBVIOUS
  <2> QED BY <1>2, <2>1
<1>5. \A j \in 1 .. Len(w) : j \in P
  BY <1>3, <1>4, UpTo
<1>6. Len(w) \in P
  <2>1. Len(w) = 0 \/ Len(w) \in 1 .. Len(w)
    OBVIOUS
  <2> QED BY <1>1, <1>5, <2>1
<1> QED BY <1>6 DEF P, IsReading

LEMMA ReadingIs ==
  ASSUME NEW w, Len(w) \in Nat
  PROVE  \E f : IsReading(f, w) /\ Reading(w) = CHOOSE r \in f[Len(w)] : TRUE
<1> DEFINE f == CHOOSE f : IsReading(f, w)
<1>1. IsReading(f, w)
  BY ReadingExists
<1>2. Reading(w) = CHOOSE r \in f[Len(w)] : TRUE
  BY DEF Reading, IsReading
<1> QED BY <1>1, <1>2

\* Reading one unit more.
LEMMA ReadingGrows ==
  ASSUME NEW S, NEW w \in Seq(S), NEW u \in S, NEW v, v = Append(w, u)
  PROVE  Reading(v) = Read(Reading(w), u)
<1> DEFINE n == Len(w)
<1>1. /\ n \in Nat /\ Len(v) = n + 1 /\ v[n + 1] = u /\ \A k \in 1 .. n : v[k] = w[k]
  BY Appended
<1>2. PICK f : IsReading(f, w) /\ Reading(w) = CHOOSE r \in f[n] : TRUE
  BY <1>1, ReadingIs
<1>3. PICK g : IsReading(g, v) /\ Reading(v) = CHOOSE r \in g[n + 1] : TRUE
  <2>1. Len(v) \in Nat
    BY <1>1
  <2> HIDE DEF n
  <2> QED BY <1>1, <2>1, ReadingIs
<1> HIDE DEF n
<1>4. \A k \in 0 .. n :
        f[k] = IF k = 0 THEN {NothingRead} ELSE {Read(r, w[k]) : r \in f[k - 1]}
  BY <1>2 DEF IsReading, n
<1>5. \A k \in 0 .. n + 1 :
        g[k] = IF k = 0 THEN {NothingRead} ELSE {Read(r, v[k]) : r \in g[k - 1]}
  BY <1>1, <1>3 DEF IsReading
<1> DEFINE P == {k \in Nat : f[k] = g[k] /\ \E x : f[k] = {x}}
<1>6. 0 \in P
  <2>1. 0 \in 0 .. n /\ 0 \in 0 .. n + 1
    BY <1>1
  <2>2. f[0] = {NothingRead} /\ g[0] = {NothingRead}
    BY <1>4, <1>5, <2>1
  <2> QED BY <2>2
<1>7. ASSUME NEW k \in 1 .. n, k - 1 \in P
      PROVE  k \in P
  <2>1. k \in 0 .. n /\ k \in 0 .. n + 1 /\ k # 0 /\ k \in Nat
    BY <1>1
  <2>2. PICK x : f[k - 1] = {x} /\ g[k - 1] = {x}
    BY <1>7
  <2>3. /\ f[k] = {Read(r, w[k]) : r \in f[k - 1]}
        /\ g[k] = {Read(r, v[k]) : r \in g[k - 1]}
        /\ w[k] = v[k]
    BY <1>1, <1>4, <1>5, <2>1
  <2>4. f[k] = {Read(x, w[k])} /\ g[k] = {Read(x, w[k])}
    BY <2>2, <2>3
  <2> QED BY <2>1, <2>4
<1>8. n \in P
  <2> HIDE DEF P
  <2>1. n > 0 => 1 \in P
    <3> HAVE n > 0
    <3>1. 1 \in 1 .. n /\ 1 - 1 = 0
      BY <1>1
    <3> QED BY <1>6, <1>7, <3>1
  <2>2. \A j \in 2 .. n : j - 1 \in P => j \in P
    <3> TAKE j \in 2 .. n
    <3>1. j \in 1 .. n
      BY <1>1
    <3> QED BY <1>7, <3>1
  <2>3. \A j \in 1 .. n : j \in P
    BY <1>1, <2>1, <2>2, UpTo
  <2>4. n = 0 \/ n \in 1 .. n
    BY <1>1
  <2> QED BY <1>6, <2>3, <2>4
<1>9. PICK x : f[n] = {x} /\ g[n] = {x}
  BY <1>8
<1>10. g[n + 1] = {Read(x, u)}
  <2>1. n + 1 \in 0 .. n + 1 /\ n + 1 # 0 /\ (n + 1) - 1 = n
    BY <1>1
  <2>2. g[n + 1] = {Read(r, v[n + 1]) : r \in g[(n + 1) - 1]}
    BY <1>5, <2>1
  <2>3. g[n + 1] = {Read(r, u) : r \in {x}}
    BY <1>1, <1>9, <2>1, <2>2
  <2> QED BY <2>3
<1>11. \A y : (CHOOSE r \in {y} : TRUE) = y
  OBVIOUS
<1> QED BY <1>2, <1>3, <1>9, <1>10, <1>11

LEMMA ReadingNothing == Reading(<<>>) = NothingRead
<1> DEFINE w == <<>>
<1>1. Len(w) = 0
  OBVIOUS
<1>2. PICK f : IsReading(f, w) /\ Reading(w) = CHOOSE r \in f[0] : TRUE
  <2> HIDE DEF w
  <2>1. Len(w) \in Nat
    BY <1>1
  <2> QED BY <1>1, <2>1, ReadingIs
<1>3. f[0] = {NothingRead}
  BY <1>1, <1>2 DEF IsReading
<1>4. \A y : (CHOOSE r \in {y} : TRUE) = y
  OBVIOUS
<1> QED BY <1>2, <1>3, <1>4

-----------------------------------------------------------------------------
Byte == [id : Ids, at : Nat]
Message == [id : Ids, index : Nat, first : BOOLEAN, last : BOOLEAN, payload : Seq(Byte)]

\* The messages of an event among those in ms, and the bytes in them.
MessagesIn(ms, id) == {i \in DOMAIN ms : ms[i].id = id}
PayloadOf(m) == {m.payload[j].at : j \in DOMAIN m.payload}
BytesIn(ms, id) == UNION {PayloadOf(ms[i]) : i \in MessagesIn(ms, id)}

\* The client has the first m messages of an event of that size, with its
\* first n bytes, and nothing else of it.
Got(ms, id, size, n, m) ==
  /\ {ms[i].index : i \in MessagesIn(ms, id)} = 0 .. m - 1
  /\ BytesIn(ms, id) = 0 .. n - 1
  /\ \A i \in MessagesIn(ms, id) : ms[i].last = (ms[i].index = message_count(size) - 1)

\* What a call has written whole messages of.
MessagesGot(f) == IF f.pc = "clear" THEN f.i + 1 ELSE f.i
BytesGot(f) == IF f.pc = "clear" THEN f.bytes_sent + f.written ELSE f.bytes_sent

\* The message that is arriving is the one the call sends.
Arriving(r, f) ==
  /\ r.left = message_payload_size(f) - f.written
  /\ r.message \in Message
  /\ r.message.id = f.id /\ r.message.index = f.i /\ r.message.first = (f.i = 0)
  /\ r.message.last = (f.i = message_count(f.size) - 1)
  /\ Len(r.message.payload) = f.written
  /\ \A j \in 1 .. f.written :
       r.message.payload[j].id = f.id /\ r.message.payload[j].at = f.bytes_sent + j - 1

\* What the client has, for each call that is active, and that it knows
\* whether a header or a byte comes next.
Follows(r) ==
  /\ r.messages \in Seq(Message)
  /\ \A i \in DOMAIN r.messages : r.messages[i].id \in DOMAIN result
  /\ \A k \in DOMAIN stack :
       /\ Got(r.messages, stack[k].id, stack[k].size, BytesGot(stack[k]), MessagesGot(stack[k]))
       /\ stack[k].pc = "payload" => Arriving(r, stack[k])
  /\ (\A k \in DOMAIN stack : stack[k].pc # "payload") => r.left = 0

ClientInv == Follows(Reading(wire))

\* A message comes: the next one of its event.
LEMMA MessageComes ==
  ASSUME NEW ms \in Seq(Message), NEW m \in Message, NEW v, v = Append(ms, m),
         NEW id, NEW size, NEW n \in Nat, NEW c \in Nat, Got(ms, id, size, n, c)
  PROVE  /\ m.id # id => Got(v, id, size, n, c)
         /\ \A l \in Nat :
              /\ m.id = id /\ m.index = c /\ m.last = (c = message_count(size) - 1)
              /\ Len(m.payload) = l /\ \A j \in 1 .. l : m.payload[j].at = n + j - 1
              => Got(v, id, size, n + l, c + 1)
<1> DEFINE e == Len(ms) + 1
           B == MessagesIn(ms, id)
           C == MessagesIn(v, id)
<1>1. /\ DOMAIN ms = 1 .. e - 1 /\ DOMAIN v = 1 .. e /\ e \in Nat
      /\ v[e] = m /\ \A k \in 1 .. e - 1 : v[k] = ms[k]
  <2>1. Len(ms) \in Nat /\ DOMAIN ms = 1 .. Len(ms)
    BY LenProperties
  <2>2. /\ v \in Seq(Message) /\ Len(v) = Len(ms) + 1
        /\ v[Len(ms) + 1] = m /\ \A k \in 1 .. Len(ms) : v[k] = ms[k]
    BY AppendProperties
  <2>3. DOMAIN v = 1 .. Len(v)
    BY <2>2, LenProperties
  <2> QED BY <2>1, <2>2, <2>3
<1> HIDE DEF e
<1>2. \A k \in 1 .. e : k = e \/ k \in 1 .. e - 1
  BY <1>1
<1>3. e \in 1 .. e /\ \A k \in 1 .. e - 1 : k \in 1 .. e
  BY <1>1
<1>4. (m.id = id => C = B \cup {e}) /\ (m.id # id => C = B)
  BY <1>1, <1>2, <1>3 DEF MessagesIn
<1>5. \A k \in B : v[k] = ms[k]
  BY <1>1 DEF MessagesIn
<1> HIDE DEF B, C
<1>6. /\ {v[i].index : i \in B} = 0 .. c - 1
      /\ UNION {PayloadOf(v[i]) : i \in B} = 0 .. n - 1
      /\ \A i \in B : v[i].last = (v[i].index = message_count(size) - 1)
  <2>1. /\ {ms[i].index : i \in B} = 0 .. c - 1
        /\ UNION {PayloadOf(ms[i]) : i \in B} = 0 .. n - 1
        /\ \A i \in B : ms[i].last = (ms[i].index = message_count(size) - 1)
    BY DEF Got, BytesIn, B
  <2>2. {v[i].index : i \in B} = {ms[i].index : i \in B}
    BY <1>5
  <2>3. {PayloadOf(v[i]) : i \in B} = {PayloadOf(ms[i]) : i \in B}
    BY <1>5
  <2> QED BY <1>5, <2>1, <2>2, <2>3
<1>7. ASSUME {v[i].index : i \in C} = 0 .. c - 1, UNION {PayloadOf(v[i]) : i \in C} = 0 .. n - 1,
             \A i \in C : v[i].last = (v[i].index = message_count(size) - 1)
      PROVE  Got(v, id, size, n, c)
  BY <1>7 DEF Got, BytesIn, C
<1>8. m.id # id => Got(v, id, size, n, c)
  BY <1>4, <1>6, <1>7
<1>9. ASSUME NEW l \in Nat, Len(m.payload) = l,
             m.id = id, m.index = c, m.last = (c = message_count(size) - 1),
             \A j \in 1 .. l : m.payload[j].at = n + j - 1
      PROVE  Got(v, id, size, n + l, c + 1)
  <2>1. C = B \cup {e}
    BY <1>4, <1>9
  <2>2. {v[i].index : i \in C} = 0 .. (c + 1) - 1
    <3>1. {v[i].index : i \in C} = {v[i].index : i \in B} \cup {c}
      BY <1>1, <1>9, <2>1
    <3>2. 0 .. (c + 1) - 1 = (0 .. c - 1) \cup {c}
      OBVIOUS
    <3> QED BY <1>6, <3>1, <3>2
  <2>3. UNION {PayloadOf(v[i]) : i \in C} = 0 .. (n + l) - 1
    <3>1. PayloadOf(v[e]) = n .. (n + l) - 1
      <4>1. m.payload \in Seq(Byte)
        BY DEF Message
      <4>2. DOMAIN m.payload = 1 .. l
        BY <1>9, <4>1, LenProperties
      <4>3. PayloadOf(v[e]) = {m.payload[j].at : j \in 1 .. l}
        BY <1>1, <4>2 DEF PayloadOf
      <4>4. \A j \in 1 .. l : m.payload[j].at \in n .. (n + l) - 1
        <5>1. \A j \in 1 .. l : n + j - 1 \in n .. (n + l) - 1
          OBVIOUS
        <5> QED BY <1>9, <5>1
      <4>5. ASSUME NEW x \in n .. (n + l) - 1
            PROVE  \E j \in 1 .. l : x = m.payload[j].at
        <5>1. x - n + 1 \in 1 .. l /\ x = n + (x - n + 1) - 1
          OBVIOUS
        <5> QED BY <1>9, <5>1
      <4> QED BY <4>3, <4>4, <4>5
    <3>2. UNION {PayloadOf(v[i]) : i \in C} = (UNION {PayloadOf(v[i]) : i \in B}) \cup PayloadOf(v[e])
      BY <2>1
    <3>3. 0 .. (n + l) - 1 = (0 .. n - 1) \cup (n .. (n + l) - 1)
      OBVIOUS
    <3> QED BY <1>6, <3>1, <3>2, <3>3
  <2>4. \A i \in C : v[i].last = (v[i].index = message_count(size) - 1)
    BY <1>1, <1>6, <1>9, <2>1
  <2> QED BY <2>2, <2>3, <2>4 DEF Got, BytesIn, C
<1> QED BY <1>8, <1>9

\* The abstract link delivers such a message.
LEMMA MessageDelivered ==
  ASSUME NEW ms \in Seq(Message), NEW m \in Message,
         NEW size, NEW n \in Nat, NEW c \in Nat, Got(ms, m.id, size, n, c),
         message_count(size) \in Nat, c < message_count(size),
         m.index = c, m.first = (c = 0),
         \A j \in DOMAIN m.payload : m.payload[j].id = m.id /\ m.payload[j].at = n + j - 1,
         Received = ms, Received' = Append(ms, m)
  PROVE  Link!Next
<1> DEFINE v == Received'
<1>1. /\ v \in Seq(Message) /\ Len(v) = Len(ms) + 1 /\ v[Len(v)] = m /\ v = Append(ms, m)
      /\ Len(ms) \in Nat
  <2> DEFINE x == Append(ms, m)
  <2>1. x = Append(ms, m)
    OBVIOUS
  <2> HIDE DEF x
  <2>2. /\ x \in Seq(Message) /\ Len(ms) \in Nat /\ Len(x) = Len(ms) + 1
        /\ x[Len(ms) + 1] = m
    BY <2>1, Appended
  <2>3. v = x
    BY <2>1
  <2> HIDE DEF v
  <2> QED BY <2>1, <2>2, <2>3
<1>2. /\ {ms[i].index : i \in MessagesIn(ms, m.id)} = 0 .. c - 1
      /\ BytesIn(ms, m.id) = 0 .. n - 1
      /\ \A i \in MessagesIn(ms, m.id) : ms[i].last = (ms[i].index = message_count(size) - 1)
  BY DEF Got
<1>3. \A i \in MessagesIn(ms, m.id) : ~ms[i].last
  <2> TAKE i \in MessagesIn(ms, m.id)
  <2>1. ms[i].index \in 0 .. c - 1
    BY <1>2
  <2>2. ms[i].index # message_count(size) - 1
    BY <2>1
  <2> QED BY <1>2, <2>2
<1>4. ASSUME NEW j \in DOMAIN m.payload
      PROVE  /\ m.payload[j].id = m.id /\ m.payload[j].at \in Nat
             /\ BytesIn(ms, m.id) \cup {m.payload[k].at : k \in 1 .. j - 1}
                  = 0 .. m.payload[j].at - 1
  <2>1. m.payload \in Seq(Byte)
    BY DEF Message
  <2>2. DOMAIN m.payload = 1 .. Len(m.payload) /\ Len(m.payload) \in Nat
    BY <2>1, LenProperties
  <2> DEFINE l == j - 1
  <2>3. l \in Nat /\ j = l + 1 /\ \A k \in 1 .. l : k \in DOMAIN m.payload
    BY <2>2
  <2>4. m.payload[j].at = n + l
    BY <2>3
  <2> HIDE DEF l
  <2>5. \A k \in 1 .. l : m.payload[k].at \in n .. n + l - 1
    <3>1. \A k \in 1 .. l : n + k - 1 \in n .. n + l - 1
      BY <2>3
    <3> QED BY <2>3, <3>1
  <2>6. ASSUME NEW x \in n .. n + l - 1
        PROVE  \E k \in 1 .. l : x = m.payload[k].at
    <3>1. x - n + 1 \in 1 .. l /\ x = n + (x - n + 1) - 1
      BY <2>3
    <3> QED BY <2>3, <3>1
  <2>7. {m.payload[k].at : k \in 1 .. l} = n .. n + l - 1
    BY <2>5, <2>6
  <2>8. (0 .. n - 1) \cup (n .. n + l - 1) = 0 .. n + l - 1
    BY <2>3
  <2>9. BytesIn(ms, m.id) \cup {m.payload[k].at : k \in 1 .. l} = 0 .. m.payload[j].at - 1
    <3> DEFINE t == m.payload[j].at
    <3>1. t = n + l
      BY <2>4
    <3> HIDE DEF t
    <3>2. 0 .. n + l - 1 = 0 .. t - 1
      BY <2>3, <3>1
    <3>3. BytesIn(ms, m.id) = 0 .. n - 1
      BY <1>2
    <3> QED BY <2>7, <2>8, <3>2, <3>3, Zenon DEF t
  <2>10. m.payload[j].at \in Nat /\ j - 1 = l
    BY <2>3, <2>4
  <2> QED BY <2>9, <2>10
<1>5. Link!MessagesOf(m.id) = MessagesIn(ms, m.id)
  BY DEF Link!MessagesOf, MessagesIn
<1>6. Link!BytesOf(m.id) = BytesIn(ms, m.id)
  <2>1. Link!BytesOf(m.id) = UNION {{Received[i].payload[j].at : j \in DOMAIN Received[i].payload}
                                      : i \in Link!MessagesOf(m.id)}
    BY DEF Link!BytesOf
  <2> QED BY <1>5, <2>1 DEF BytesIn, PayloadOf
<1>7. m.id \in Ids /\ m.index \in Nat /\ m.first = (m.index = 0)
  BY DEF Message
<1>8. Link!Deliver(m)
  <2>1. {Received[i].index : i \in Link!MessagesOf(m.id)} = 0 .. m.index - 1
    BY <1>2, <1>5
  <2>2. \A i \in Link!MessagesOf(m.id) : ~Received[i].last
    BY <1>3, <1>5
  <2>3. \A j \in DOMAIN m.payload :
          /\ m.payload[j].id = m.id /\ m.payload[j].at \in Nat
          /\ Link!BytesOf(m.id) \cup {m.payload[k].at : k \in 1 .. j - 1}
               = 0 .. m.payload[j].at - 1
    BY <1>4, <1>6
  <2> QED BY <1>7, <2>1, <2>2, <2>3 DEF Link!Deliver
<1>9. Link!Deliver(v[Len(v)])
  BY <1>1, <1>8
<1>10. Len(v) = Len(Received) + 1 /\ v = Append(Received, v[Len(v)])
  BY <1>1
<1> QED BY <1>9, <1>10 DEF Link!Next

-----------------------------------------------------------------------------
(* A step keeps what the client has, or it gets one message more.          *)

\* The topmost call goes on.
LEMMA ReadsOn ==
  ASSUME IInv, stack # <<>>, NEW f \in Frame, SetTop(f), result' = result,
         NEW q, q = Reading(wire'), q.messages \in Seq(Message),
         \A i \in DOMAIN q.messages : q.messages[i].id \in DOMAIN result,
         \A k \in 1 .. Len(stack) - 1 :
           /\ Got(q.messages, stack[k].id, stack[k].size, BytesGot(stack[k]), MessagesGot(stack[k]))
           /\ stack[k].pc = "payload" => Arriving(q, stack[k]),
         Got(q.messages, f.id, f.size, BytesGot(f), MessagesGot(f)),
         f.pc = "payload" => Arriving(q, f),
         (f.pc # "payload" /\ \A k \in 1 .. Len(stack) - 1 : stack[k].pc # "payload") => q.left = 0
  PROVE  ClientInv'
<1> DEFINE n == Len(stack)
<1>1. n \in Nat \ {0}
  BY TopProperties DEF IInv
<1>2. /\ DOMAIN stack' = 1 .. n /\ stack'[n] = f
      /\ \A k \in 1 .. n - 1 : stack'[k] = stack[k]
  BY SetTopProperties DEF IInv
<1>3. /\ \A k \in 1 .. n - 1 :
           /\ Got(q.messages, stack[k].id, stack[k].size, BytesGot(stack[k]), MessagesGot(stack[k]))
           /\ stack[k].pc = "payload" => Arriving(q, stack[k])
      /\ (f.pc # "payload" /\ \A k \in 1 .. n - 1 : stack[k].pc # "payload") => q.left = 0
  OBVIOUS
<1> HIDE DEF n
<1>4. (\A k \in 1 .. n : k = n \/ k \in 1 .. n - 1) /\ n \in 1 .. n /\ \A k \in 1 .. n - 1 : k \in 1 .. n
  BY <1>1
<1>5. ASSUME NEW k \in 1 .. n
      PROVE  /\ Got(q.messages, stack'[k].id, stack'[k].size, BytesGot(stack'[k]), MessagesGot(stack'[k]))
             /\ stack'[k].pc = "payload" => Arriving(q, stack'[k])
  <2>1. CASE k = n
    BY <1>2, <2>1
  <2>2. CASE k \in 1 .. n - 1
    BY <1>2, <1>3, <2>2
  <2> QED BY <1>4, <2>1, <2>2
<1>6. (\A k \in 1 .. n : stack'[k].pc # "payload") => q.left = 0
  BY <1>2, <1>3, <1>4
<1> QED BY <1>2, <1>5, <1>6 DEF ClientInv, Follows

\* The topmost call goes on without writing anything.
LEMMA ReadsNothing ==
  ASSUME IInv, ClientInv, stack # <<>>, NEW f \in Frame, SetTop(f), result' = result, wire' = wire,
         f.id = Top.id, f.size = Top.size, Top.pc # "payload", f.pc # "payload",
         BytesGot(f) = BytesGot(Top), MessagesGot(f) = MessagesGot(Top)
  PROVE  ClientInv'
<1> DEFINE n == Len(stack)
           r == Reading(wire)
<1>1. /\ n \in Nat \ {0} /\ DOMAIN stack = 1 .. n /\ Top = stack[n]
  BY TopProperties DEF IInv
<1> HIDE DEF n
<1>2. /\ r.messages \in Seq(Message)
      /\ \A i \in DOMAIN r.messages : r.messages[i].id \in DOMAIN result
      /\ \A k \in DOMAIN stack :
           /\ Got(r.messages, stack[k].id, stack[k].size, BytesGot(stack[k]), MessagesGot(stack[k]))
           /\ stack[k].pc = "payload" => Arriving(r, stack[k])
      /\ (\A k \in DOMAIN stack : stack[k].pc # "payload") => r.left = 0
  BY DEF ClientInv, Follows
<1>3. r = Reading(wire')
  OBVIOUS
<1> HIDE DEF r
<1>4. (\A k \in 1 .. n : k = n \/ k \in 1 .. n - 1) /\ n \in 1 .. n /\ \A k \in 1 .. n - 1 : k \in 1 .. n
  BY <1>1
<1>5. Got(r.messages, f.id, f.size, BytesGot(f), MessagesGot(f))
  BY <1>1, <1>2, <1>4
<1>6. \A k \in 1 .. n - 1 :
        /\ Got(r.messages, stack[k].id, stack[k].size, BytesGot(stack[k]), MessagesGot(stack[k]))
        /\ stack[k].pc = "payload" => Arriving(r, stack[k])
  BY <1>1, <1>2, <1>4
<1>7. (f.pc # "payload" /\ \A k \in 1 .. n - 1 : stack[k].pc # "payload") => r.left = 0
  BY <1>1, <1>2, <1>4
<1> QED BY <1>2, <1>3, <1>5, <1>6, <1>7, ReadsOn DEF n

\* The topmost call returns.
LEMMA ReadingEnds ==
  ASSUME IInv, ClientInv, stack # <<>>, NEW status \in {"OK", "BUSY"}, Pop(status), wire' = wire,
         Top.pc # "payload"
  PROVE  ClientInv'
<1> DEFINE n == Len(stack)
           r == Reading(wire)
<1>1. /\ n \in Nat \ {0} /\ DOMAIN stack = 1 .. n /\ Top = stack[n]
  BY TopProperties DEF IInv
<1>2. /\ DOMAIN stack' = 1 .. n - 1
      /\ \A k \in 1 .. n - 1 : stack'[k] = stack[k]
  BY PopProperties DEF IInv
<1>3. DOMAIN result' = DOMAIN result
  BY PopResult DEF IInv
<1> HIDE DEF n
<1>4. /\ r.messages \in Seq(Message)
      /\ \A i \in DOMAIN r.messages : r.messages[i].id \in DOMAIN result
      /\ \A k \in DOMAIN stack :
           /\ Got(r.messages, stack[k].id, stack[k].size, BytesGot(stack[k]), MessagesGot(stack[k]))
           /\ stack[k].pc = "payload" => Arriving(r, stack[k])
      /\ (\A k \in DOMAIN stack : stack[k].pc # "payload") => r.left = 0
  BY DEF ClientInv, Follows
<1>5. r = Reading(wire')
  OBVIOUS
<1> HIDE DEF r
<1>6. (\A k \in 1 .. n : k = n \/ k \in 1 .. n - 1) /\ \A k \in 1 .. n - 1 : k \in 1 .. n
  BY <1>1
<1>7. \A k \in 1 .. n - 1 :
        /\ Got(r.messages, stack'[k].id, stack'[k].size, BytesGot(stack'[k]), MessagesGot(stack'[k]))
        /\ stack'[k].pc = "payload" => Arriving(r, stack'[k])
  BY <1>1, <1>2, <1>4, <1>6
<1>8. (\A k \in 1 .. n - 1 : stack'[k].pc # "payload") => r.left = 0
  BY <1>1, <1>2, <1>4, <1>6
<1> QED BY <1>2, <1>3, <1>4, <1>5, <1>7, <1>8 DEF ClientInv, Follows

\* Nothing has been read of the event that begins.
LEMMA CallClientInv ==
  ASSUME IInv, SendInv, ClientInv, NEW kind \in Kinds, NEW size \in Sizes, Call(kind, size)
  PROVE  ClientInv'
<1> DEFINE f == [id |-> Len(result) + 1, kind |-> kind, size |-> size,
                 pc |-> "check", i |-> 0, bytes_sent |-> 0, written |-> 0]
           a == [kind |-> kind, size |-> size, status |-> "active"]
           n == Len(stack)
           m == Len(result)
           r == Reading(wire)
<1>1. /\ stack' = Append(stack, f) /\ result' = Append(result, a) /\ wire' = wire /\ m < MaxEvents
  BY DEF Call
<1>2. stack \in Seq(Frame) /\ result \in Seq(Outcome)
  BY DEF IInv, TypeOK, Outcome
<1>3. /\ n \in Nat /\ DOMAIN stack = 1 .. n /\ m \in Nat /\ DOMAIN result = 1 .. m
  BY <1>2, LenProperties
<1>4. size \in Nat /\ MaxEvents \in Nat
  BY TransmitAssumption
<1>5. f \in Frame /\ a \in Outcome
  BY <1>1, <1>3, <1>4 DEF Frame, Outcome, Pcs, Ids
<1>6. /\ f.id = m + 1 /\ f.size = size /\ f.pc = "check" /\ f.i = 0 /\ f.bytes_sent = 0
  OBVIOUS
<1>7. BytesGot(f) = 0 /\ MessagesGot(f) = 0
  BY DEF BytesGot, MessagesGot
<1> HIDE DEF f, a, n, m
<1>8. /\ DOMAIN stack' = 1 .. n + 1 /\ stack'[n + 1] = f
      /\ \A k \in 1 .. n : stack'[k] = stack[k]
  BY <1>1, <1>2, <1>5 DEF n
<1>9. DOMAIN result' = 1 .. m + 1
  BY <1>1, <1>2, <1>5 DEF m
<1>10. /\ r.messages \in Seq(Message)
       /\ \A i \in DOMAIN r.messages : r.messages[i].id \in DOMAIN result
       /\ \A k \in DOMAIN stack :
            /\ Got(r.messages, stack[k].id, stack[k].size, BytesGot(stack[k]), MessagesGot(stack[k]))
            /\ stack[k].pc = "payload" => Arriving(r, stack[k])
       /\ (\A k \in DOMAIN stack : stack[k].pc # "payload") => r.left = 0
  BY DEF ClientInv, Follows
<1>11. r = Reading(wire')
  BY <1>1
<1> HIDE DEF r
<1>12. \A k \in 1 .. m : k # m + 1 /\ k \in 1 .. m + 1
  BY <1>3
<1>13. Got(r.messages, f.id, f.size, BytesGot(f), MessagesGot(f))
  <2>1. MessagesIn(r.messages, m + 1) = {}
    BY <1>3, <1>10, <1>12 DEF MessagesIn
  <2>2. 0 .. 0 - 1 = {}
    OBVIOUS
  <2>3. Got(r.messages, m + 1, size, 0, 0)
    BY <2>1, <2>2 DEF Got, BytesIn
  <2> QED BY <1>6, <1>7, <2>3
<1>14. \A k \in 1 .. n + 1 : k = n + 1 \/ k \in 1 .. n
  BY <1>3
<1>15. \A k \in 1 .. n : k \in 1 .. n + 1
  BY <1>3
<1>16. ASSUME NEW k \in 1 .. n + 1
       PROVE  /\ Got(r.messages, stack'[k].id, stack'[k].size, BytesGot(stack'[k]), MessagesGot(stack'[k]))
              /\ stack'[k].pc = "payload" => Arriving(r, stack'[k])
  <2>1. CASE k = n + 1
    BY <1>6, <1>8, <1>13, <2>1
  <2>2. CASE k \in 1 .. n
    BY <1>3, <1>8, <1>10, <2>2
  <2> QED BY <1>14, <2>1, <2>2
<1>17. (\A k \in 1 .. n + 1 : stack'[k].pc # "payload") => r.left = 0
  BY <1>3, <1>8, <1>10, <1>15
<1>18. \A i \in DOMAIN r.messages : r.messages[i].id \in DOMAIN result'
  BY <1>3, <1>9, <1>10, <1>12
<1> QED BY <1>8, <1>10, <1>11, <1>16, <1>17, <1>18 DEF ClientInv, Follows

LEMMA CheckClientInv ==
  ASSUME IInv, SendInv, ClientInv, Check
  PROVE  ClientInv'
<1>1. stack # <<>> /\ Top.pc = "check" /\ wire' = wire
  BY DEF Check, At
<1>2. Top \in Frame
  BY <1>1, TopSends
<1>3. CASE Pop("BUSY")
  BY <1>1, <1>3, ReadingEnds
<1>4. CASE SetTop([Top EXCEPT !.pc = "loop"]) /\ UNCHANGED result
  <2> DEFINE f == [Top EXCEPT !.pc = "loop"]
  <2>1. /\ f \in Frame /\ f.id = Top.id /\ f.size = Top.size /\ f.bytes_sent = Top.bytes_sent
        /\ f.i = Top.i /\ f.pc = "loop"
    BY <1>2 DEF Frame, Pcs
  <2>2. SetTop(f) /\ result' = result
    BY <1>4
  <2> HIDE DEF f
  <2>3. BytesGot(f) = BytesGot(Top) /\ MessagesGot(f) = MessagesGot(Top)
    BY <1>1, <2>1 DEF BytesGot, MessagesGot
  <2> QED BY <1>1, <2>1, <2>2, <2>3, ReadsNothing
<1> QED BY <1>3, <1>4 DEF Check

LEMMA BeginMessageClientInv ==
  ASSUME IInv, SendInv, ClientInv, BeginMessage
  PROVE  ClientInv'
<1> DEFINE f == [Top EXCEPT !.pc = "header"]
<1>1. /\ stack # <<>> /\ Top.pc = "loop" /\ wire' = wire /\ SetTop(f) /\ result' = result
  BY DEF BeginMessage, At
<1>2. Top \in Frame
  BY <1>1, TopSends
<1>3. /\ f \in Frame /\ f.id = Top.id /\ f.size = Top.size /\ f.bytes_sent = Top.bytes_sent
      /\ f.i = Top.i /\ f.pc = "header"
  BY <1>2 DEF Frame, Pcs
<1> HIDE DEF f
<1>4. BytesGot(f) = BytesGot(Top) /\ MessagesGot(f) = MessagesGot(Top)
  BY <1>1, <1>3 DEF BytesGot, MessagesGot
<1> QED BY <1>1, <1>3, <1>4, ReadsNothing

LEMMA EndMessageClientInv ==
  ASSUME IInv, SendInv, ClientInv, EndMessage
  PROVE  ClientInv'
<1> DEFINE p == message_payload_size(Top)
           sent == Top.bytes_sent + p
           f == [Top EXCEPT !.pc = "loop", !.i = NextIndex(Top), !.written = 0,
                            !.bytes_sent = sent]
<1>1. stack # <<>> /\ Top.pc = "clear" /\ wire' = wire
  BY DEF EndMessage, At
<1>2. /\ Top \in Frame /\ Progress(Top) /\ Top.i \in Nat /\ Top.bytes_sent \in Nat
      /\ Top.bytes_sent <= Top.size
  BY <1>1, TopSends
<1>3. p \in Nat /\ Top.written = p
  BY <1>1, <1>2, PayloadSizeBounds DEF Progress
<1> HIDE DEF p
<1>4. CASE SetTop(f) /\ UNCHANGED result
  <2>1. NextIndex(Top) \in Nat /\ NextIndex(Top) = Top.i + 1 /\ sent \in Nat
    BY <1>2, <1>3 DEF NextIndex
  <2>2. BytesGot(Top) = sent /\ MessagesGot(Top) = Top.i + 1
    BY <1>1, <1>3 DEF BytesGot, MessagesGot
  <2> HIDE DEF sent
  <2>3. /\ f \in Frame /\ f.id = Top.id /\ f.size = Top.size /\ f.bytes_sent = sent
        /\ f.i = NextIndex(Top) /\ f.pc = "loop"
    BY <1>2, <2>1 DEF Frame, Pcs
  <2>4. SetTop(f) /\ result' = result
    BY <1>4
  <2> HIDE DEF f
  <2>5. BytesGot(f) = BytesGot(Top) /\ MessagesGot(f) = MessagesGot(Top)
    BY <2>1, <2>2, <2>3 DEF BytesGot, MessagesGot
  <2> QED BY <1>1, <2>3, <2>4, <2>5, ReadsNothing
<1>5. CASE Pop("OK")
  BY <1>1, <1>5, ReadingEnds
<1> QED BY <1>4, <1>5 DEF EndMessage, p

\* What the client has of the events other than that of the topmost call stays
\* when a message of that one comes.
LEMMA OthersKept ==
  ASSUME IInv, SendInv, ClientInv, stack # <<>>, NEW m \in Message, m.id = Top.id,
         NEW v, v = Append(Reading(wire).messages, m)
  PROVE  /\ v \in Seq(Message) /\ \A i \in DOMAIN v : v[i].id \in DOMAIN result
         /\ \A k \in 1 .. Len(stack) - 1 :
              Got(v, stack[k].id, stack[k].size, BytesGot(stack[k]), MessagesGot(stack[k]))
<1> DEFINE n == Len(stack)
           ms == Reading(wire).messages
           e == Len(ms)
<1>1. /\ n \in Nat \ {0} /\ DOMAIN stack = 1 .. n /\ Top = stack[n] /\ Top.id \in DOMAIN result
  BY TopProperties DEF IInv
<1>2. /\ ms \in Seq(Message)
      /\ \A i \in DOMAIN ms : ms[i].id \in DOMAIN result
      /\ \A k \in DOMAIN stack :
           Got(ms, stack[k].id, stack[k].size, BytesGot(stack[k]), MessagesGot(stack[k]))
  BY DEF ClientInv, Follows
<1>3. stack \in Seq(Frame)
  BY DEF IInv, TypeOK
<1>4. \A k \in 1 .. n - 1 : stack[k].id # Top.id /\ k \in DOMAIN stack
  BY OtherEvents, LineSame
<1>5. v = Append(ms, m)
  OBVIOUS
<1> HIDE DEF n, ms
<1>6. /\ v \in Seq(Message) /\ e \in Nat /\ Len(v) = e + 1
      /\ v[e + 1] = m /\ \A i \in 1 .. e : v[i] = ms[i]
  BY <1>2, <1>5, Appended
<1>7. DOMAIN v = 1 .. e + 1 /\ DOMAIN ms = 1 .. e
  BY <1>2, <1>6, LenProperties
<1> HIDE DEF e
<1>8. \A i \in 1 .. e + 1 : i = e + 1 \/ i \in 1 .. e
  BY <1>6
<1>9. \A i \in DOMAIN v : v[i].id \in DOMAIN result
  BY <1>1, <1>2, <1>6, <1>7, <1>8
<1>10. ASSUME NEW k \in 1 .. n - 1
       PROVE  Got(v, stack[k].id, stack[k].size, BytesGot(stack[k]), MessagesGot(stack[k]))
  <2> DEFINE g == stack[k]
             a == BytesGot(g)
             b == MessagesGot(g)
  <2>1. g \in Frame
    BY <1>3, <1>4, ElementOfSeq, LenProperties
  <2>2. g.id # m.id /\ Got(ms, g.id, g.size, a, b)
    BY <1>2, <1>4
  <2> HIDE DEF g
  <2>3. a \in Nat /\ b \in Nat
    BY <2>1 DEF BytesGot, MessagesGot, Frame
  <2> HIDE DEF a, b
  <2>4. Got(v, g.id, g.size, a, b)
    BY <1>2, <1>5, <2>2, <2>3, MessageComes
  <2> QED BY <2>4 DEF g, a, b
<1> QED BY <1>6, <1>9, <1>10 DEF n

\* The calls below one that passed the check are not sending a payload.
LEMMA NoPayloadBelow ==
  ASSUME IInv, stack # <<>>, Top.pc # "check"
  PROVE  \A k \in 1 .. Len(stack) - 1 : stack[k].pc # "payload"
BY Passed DEF NoWriterBelow, Writing

\* The header comes when the client has all there was before.  If the event
\* has no payload, the message is complete.
LEMMA HeaderRead ==
  ASSUME IInv, SendInv, ClientInv, WriteHeader
  PROVE  ClientInv' /\ [Link!Next]_Received
<1> DEFINE next == IF Top.size > 0 THEN "payload" ELSE "clear"
           f == [Top EXCEPT !.pc = next]
           u == HeaderUnit(Top)
           p == message_payload_size(Top)
           n == Len(stack)
           r == Reading(wire)
           q == Reading(wire')
           m == MessageOf(u)
           c == message_count(Top.size)
<1>1. /\ stack # <<>> /\ Top.pc = "header" /\ wire' = Append(wire, u)
      /\ SetTop(f) /\ result' = result
  BY DEF WriteHeader, At
<1>2. /\ Top \in Frame /\ Progress(Top)
      /\ Top.i \in Nat /\ Top.written = 0 /\ Top.size \in Nat /\ Top.bytes_sent \in Nat
      /\ Top.bytes_sent <= Top.size /\ Top.i < c /\ Top.bytes_sent = Top.i * MAX_SIZE
  BY <1>1, TopSends DEF Progress
<1>3. c \in Nat
  BY <1>2, MessageCountPositive
<1>4. p \in Nat /\ (IF Top.size > 0 THEN p > 0 ELSE p = 0)
  <2>1. p \in Nat /\ p = Lesser(Top.size - Top.i * MAX_SIZE, MAX_SIZE)
    BY <1>2, PayloadSizeBounds DEF message_payload_size
  <2>2. CASE Top.size > 0
    BY <1>2, <2>1, <2>2, MessageSizes
  <2>3. CASE Top.size = 0
    <3>1. Top.bytes_sent = 0
      BY <1>2, <2>3
    <3>2. MAX_SIZE \in Nat
      BY TransmitAssumption DEF MAX_SIZE
    <3> QED BY <2>3, <3>1, <3>2 DEF message_payload_size, Lesser
  <2> QED BY <1>2, <2>1, <2>2, <2>3
<1>5. /\ u \in Unit /\ u.id = Top.id /\ u.index = Top.i /\ u.first = (Top.i = 0)
      /\ u.last = (Top.i = c - 1) /\ u.payload_size = p
  <2>1. u \in Unit
    BY <1>2, <1>4 DEF HeaderUnit, Unit, Frame
  <2> QED BY <2>1 DEF HeaderUnit
<1>6. /\ m \in Message /\ m.id = Top.id /\ m.index = Top.i /\ m.first = (Top.i = 0)
      /\ m.last = (Top.i = c - 1) /\ m.payload = <<>>
  <2>1. m.id = u.id /\ m.index = u.index /\ m.first = u.first /\ m.last = u.last /\ m.payload = <<>>
    BY DEF MessageOf
  <2>2. <<>> \in Seq(Byte)
    OBVIOUS
  <2> HIDE DEF u
  <2>3. m \in Message
    BY <1>5, <2>2 DEF MessageOf, Message, Unit
  <2> QED BY <1>5, <2>1, <2>3
<1> HIDE DEF u
<1>7. q = Read(r, u)
  <2>1. wire \in Seq(Unit)
    BY DEF SendInv
  <2>2. u \in Unit /\ wire' = Append(wire, u)
    BY <1>1, <1>5
  <2> QED BY <2>1, <2>2, ReadingGrows
<1>8. \A k \in 1 .. n - 1 : stack[k].pc # "payload"
  BY <1>1, NoPayloadBelow
<1>9. n \in Nat \ {0} /\ DOMAIN stack = 1 .. n /\ Top = stack[n]
  BY <1>1, TopProperties DEF IInv
<1> HIDE DEF n
<1>10. (\A k \in 1 .. n : k = n \/ k \in 1 .. n - 1) /\ n \in 1 .. n /\ \A k \in 1 .. n - 1 : k \in 1 .. n
  BY <1>9
<1>11. /\ r.messages \in Seq(Message)
       /\ \A i \in DOMAIN r.messages : r.messages[i].id \in DOMAIN result
       /\ \A k \in 1 .. n - 1 :
            Got(r.messages, stack[k].id, stack[k].size, BytesGot(stack[k]), MessagesGot(stack[k]))
       /\ Got(r.messages, Top.id, Top.size, Top.bytes_sent, Top.i)
       /\ r.left = 0
  <2>1. /\ r.messages \in Seq(Message)
        /\ \A i \in DOMAIN r.messages : r.messages[i].id \in DOMAIN result
        /\ \A k \in 1 .. n :
             Got(r.messages, stack[k].id, stack[k].size, BytesGot(stack[k]), MessagesGot(stack[k]))
        /\ (\A k \in 1 .. n : stack[k].pc # "payload") => r.left = 0
    BY <1>9 DEF ClientInv, Follows
  <2>2. BytesGot(Top) = Top.bytes_sent /\ MessagesGot(Top) = Top.i
    BY <1>1 DEF BytesGot, MessagesGot
  <2> HIDE DEF r
  <2>3. Got(r.messages, Top.id, Top.size, BytesGot(Top), MessagesGot(Top))
    BY <1>9, <1>10, <2>1
  <2>4. r.left = 0
    BY <1>1, <1>8, <1>9, <1>10, <2>1
  <2> QED BY <1>10, <2>1, <2>2, <2>3, <2>4
<1>12. /\ q.message = m /\ q.left = p
       /\ q.messages = IF p = 0 THEN Append(r.messages, m) ELSE r.messages
  <2> HIDE DEF r, q, m
  <2> QED BY <1>5, <1>7, <1>11 DEF Read, m
<1>13. /\ f \in Frame /\ f.id = Top.id /\ f.size = Top.size /\ f.bytes_sent = Top.bytes_sent
       /\ f.i = Top.i /\ f.pc = next /\ f.written = 0
  BY <1>2 DEF Frame, Pcs
<1>14. message_payload_size(f) = p
  BY <1>13 DEF message_payload_size
<1>15. Received = r.messages /\ Received' = q.messages
  BY DEF Received
<1> HIDE DEF f, m, p, c, r, q
<1>16. CASE Top.size > 0
  <2>1. p > 0 /\ f.pc = "payload" /\ q.messages = r.messages
    BY <1>4, <1>12, <1>13, <1>16
  <2>2. Arriving(q, f)
    <3>1. q.left = message_payload_size(f) - f.written
      BY <1>4, <1>12, <1>13, <1>14
    <3>2. Len(q.message.payload) = f.written /\ 1 .. f.written = {}
      BY <1>6, <1>12, <1>13
    <3> QED BY <1>6, <1>12, <1>13, <3>1, <3>2 DEF Arriving, c
  <2>3. Got(q.messages, f.id, f.size, BytesGot(f), MessagesGot(f))
    BY <1>11, <1>13, <2>1 DEF BytesGot, MessagesGot
  <2>4. ClientInv'
    BY <1>1, <1>8, <1>11, <1>13, <2>1, <2>2, <2>3, ReadsOn DEF n, q
  <2>5. Received' = Received
    BY <1>15, <2>1
  <2> QED BY <2>4, <2>5
<1>17. CASE Top.size = 0
  <2>1. p = 0 /\ f.pc = "clear" /\ q.messages = Append(r.messages, m) /\ q.left = 0
    BY <1>2, <1>4, <1>12, <1>13, <1>17
  <2>2. /\ q.messages \in Seq(Message) /\ \A i \in DOMAIN q.messages : q.messages[i].id \in DOMAIN result
        /\ \A k \in 1 .. n - 1 :
             Got(q.messages, stack[k].id, stack[k].size, BytesGot(stack[k]), MessagesGot(stack[k]))
    BY <1>1, <1>6, <2>1, OthersKept DEF n, r
  <2> DEFINE a == Top.bytes_sent
             b == Top.i
             size == Top.size
             ms == r.messages
             l == 0
  <2>3. /\ a \in Nat /\ b \in Nat /\ l \in Nat /\ ms \in Seq(Message) /\ Got(ms, m.id, size, a, b)
        /\ m.index = b /\ m.last = (b = message_count(size) - 1) /\ m.first = (b = 0)
        /\ Len(m.payload) = l /\ 1 .. l = {} /\ DOMAIN m.payload = {} /\ a + l = a
        /\ message_count(size) \in Nat /\ b < message_count(size)
    BY <1>2, <1>3, <1>6, <1>11 DEF c
  <2>4. f.id = m.id /\ f.size = size /\ BytesGot(f) = a + l /\ MessagesGot(f) = b + 1
    BY <1>2, <1>6, <1>13, <2>1 DEF BytesGot, MessagesGot
  <2>5. q.messages = Append(ms, m)
    BY <2>1
  <2> HIDE DEF a, b, size, ms, l
  <2>6. Got(q.messages, m.id, size, a + l, b + 1)
    BY <1>6, <2>3, <2>5, MessageComes
  <2>7. Got(q.messages, f.id, f.size, BytesGot(f), MessagesGot(f))
    BY <2>4, <2>6
  <2>8. ClientInv'
    BY <1>1, <1>8, <1>13, <2>1, <2>2, <2>7, ReadsOn DEF n, q
  <2>9. Received = ms /\ Received' = Append(ms, m)
    BY <1>15, <2>5 DEF ms
  <2>10. Link!Next
    BY <1>6, <2>3, <2>9, MessageDelivered
  <2> QED BY <2>8, <2>10
<1> QED BY <1>2, <1>16, <1>17

\* A byte comes that the client waits for: it belongs to the message that is
\* arriving, also when it comes after nested calls.  With the last byte the
\* message is complete.
LEMMA ByteRead ==
  ASSUME IInv, SendInv, ClientInv, WriteByte
  PROVE  ClientInv' /\ [Link!Next]_Received
<1> DEFINE p == message_payload_size(Top)
           w == Top.written + 1
           next == IF w < p THEN "payload" ELSE "clear"
           f == [Top EXCEPT !.written = w, !.pc = next]
           u == DataUnit(Top)
           n == Len(stack)
           r == Reading(wire)
           q == Reading(wire')
           byte == [id |-> u.id, at |-> u.at]
           payload == Append(r.message.payload, byte)
           m == [r.message EXCEPT !.payload = payload]
           c == message_count(Top.size)
<1>1. /\ stack # <<>> /\ Top.pc = "payload" /\ wire' = Append(wire, u)
      /\ SetTop(f) /\ result' = result
  BY DEF WriteByte, At
<1>2. /\ Top \in Frame /\ Progress(Top)
      /\ Top.i \in Nat /\ Top.written \in Nat /\ Top.size \in Nat /\ Top.bytes_sent \in Nat
      /\ Top.bytes_sent <= Top.size /\ Top.i < c
  BY <1>1, TopSends
<1>3. c \in Nat
  BY <1>2, MessageCountPositive
<1>4. p \in Nat /\ Top.written < p
  BY <1>1, <1>2, PayloadSizeBounds DEF Progress
<1>5. u \in Unit /\ u.id = Top.id /\ u.at = Top.bytes_sent + Top.written
  <2>1. u \in Unit
    BY <1>2 DEF DataUnit, Unit, Frame
  <2> QED BY <2>1 DEF DataUnit
<1>6. byte \in Byte /\ byte.id = Top.id /\ byte.at = Top.bytes_sent + Top.written
  BY <1>5 DEF Byte, Unit
<1> HIDE DEF u
<1>7. q = Read(r, u)
  <2>1. wire \in Seq(Unit)
    BY DEF SendInv
  <2>2. u \in Unit /\ wire' = Append(wire, u)
    BY <1>1, <1>5
  <2> QED BY <2>1, <2>2, ReadingGrows
<1>8. \A k \in 1 .. n - 1 : stack[k].pc # "payload"
  BY <1>1, NoPayloadBelow
<1>9. n \in Nat \ {0} /\ DOMAIN stack = 1 .. n /\ Top = stack[n]
  BY <1>1, TopProperties DEF IInv
<1> HIDE DEF n
<1>10. n \in 1 .. n /\ \A k \in 1 .. n - 1 : k \in 1 .. n
  BY <1>9
<1>11. /\ r.messages \in Seq(Message)
       /\ \A i \in DOMAIN r.messages : r.messages[i].id \in DOMAIN result
       /\ \A k \in 1 .. n - 1 :
            Got(r.messages, stack[k].id, stack[k].size, BytesGot(stack[k]), MessagesGot(stack[k]))
       /\ Got(r.messages, Top.id, Top.size, Top.bytes_sent, Top.i)
       /\ Arriving(r, Top)
  <2>1. /\ r.messages \in Seq(Message)
        /\ \A i \in DOMAIN r.messages : r.messages[i].id \in DOMAIN result
        /\ \A k \in 1 .. n :
             /\ Got(r.messages, stack[k].id, stack[k].size, BytesGot(stack[k]), MessagesGot(stack[k]))
             /\ stack[k].pc = "payload" => Arriving(r, stack[k])
    BY <1>9 DEF ClientInv, Follows
  <2>2. BytesGot(Top) = Top.bytes_sent /\ MessagesGot(Top) = Top.i
    BY <1>1 DEF BytesGot, MessagesGot
  <2> HIDE DEF r
  <2>3. Got(r.messages, Top.id, Top.size, BytesGot(Top), MessagesGot(Top)) /\ Arriving(r, Top)
    BY <1>1, <1>9, <1>10, <2>1
  <2> QED BY <1>10, <2>1, <2>2, <2>3
<1>12. /\ r.left = p - Top.written /\ r.left # 0
       /\ r.message \in Message /\ r.message.payload \in Seq(Byte)
       /\ r.message.id = Top.id /\ r.message.index = Top.i /\ r.message.first = (Top.i = 0)
       /\ r.message.last = (Top.i = c - 1)
       /\ Len(r.message.payload) = Top.written
       /\ \A j \in 1 .. Top.written :
            /\ r.message.payload[j].id = Top.id
            /\ r.message.payload[j].at = Top.bytes_sent + j - 1
  <2>1. /\ r.left = p - Top.written
        /\ r.message \in Message
        /\ r.message.id = Top.id /\ r.message.index = Top.i /\ r.message.first = (Top.i = 0)
        /\ r.message.last = (Top.i = c - 1)
        /\ Len(r.message.payload) = Top.written
        /\ \A j \in 1 .. Top.written :
             /\ r.message.payload[j].id = Top.id
             /\ r.message.payload[j].at = Top.bytes_sent + j - 1
    BY <1>11 DEF Arriving
  <2> HIDE DEF r, p
  <2>2. r.left # 0
    BY <1>2, <1>4, <2>1
  <2>3. r.message.payload \in Seq(Byte)
    BY <2>1 DEF Message
  <2> QED BY <2>1, <2>2, <2>3
<1>13. q.message = m /\ q.left = p - w
       /\ q.messages = IF p - w = 0 THEN Append(r.messages, m) ELSE r.messages
  <2>1. r.left - 1 = p - w
    <3> HIDE DEF r, p
    <3> QED BY <1>2, <1>4, <1>12
  <2>2. Read(r, u) = [messages |-> IF r.left - 1 = 0 THEN Append(r.messages, m) ELSE r.messages,
                      message |-> m, left |-> r.left - 1]
    <3> HIDE DEF r, w, p
    <3> QED BY <1>12 DEF Read
  <2> DEFINE left == p - w
  <2> HIDE DEF r, q, w, p, m
  <2>3. Read(r, u) = [messages |-> IF left = 0 THEN Append(r.messages, m) ELSE r.messages,
                      message |-> m, left |-> left]
    BY <2>1, <2>2
  <2> HIDE DEF left
  <2>4. /\ q.message = m /\ q.left = left
        /\ q.messages = IF left = 0 THEN Append(r.messages, m) ELSE r.messages
    BY <1>7, <2>3
  <2> QED BY <2>4 DEF left
<1> HIDE DEF r
<1>14. /\ payload \in Seq(Byte) /\ Len(payload) = w
       /\ \A j \in 1 .. Top.written : payload[j] = r.message.payload[j]
       /\ payload[w] = byte
  <2> DEFINE s == r.message.payload
             t == Append(s, byte)
  <2>1. s \in Seq(Byte) /\ byte \in Byte /\ t = Append(s, byte) /\ Len(s) = Top.written
    BY <1>6, <1>12
  <2> HIDE DEF byte, s, t
  <2>2. /\ t \in Seq(Byte) /\ Len(t) = Len(s) + 1
        /\ \A i \in 1 .. Len(s) : t[i] = s[i]
        /\ t[Len(s) + 1] = byte
    BY <2>1, Appended
  <2>3. /\ t \in Seq(Byte) /\ Len(t) = w
        /\ \A i \in 1 .. Top.written : t[i] = s[i]
        /\ t[w] = byte
    BY <2>1, <2>2
  <2> QED BY <2>3 DEF s, t
<1> HIDE DEF payload
<1>15. /\ m \in Message /\ m.id = Top.id /\ m.index = Top.i /\ m.first = (Top.i = 0)
       /\ m.last = (Top.i = c - 1) /\ m.payload = payload
  BY <1>12, <1>14 DEF Message
<1>16. ASSUME NEW j \in 1 .. w
       PROVE  payload[j].id = Top.id /\ payload[j].at = Top.bytes_sent + j - 1
  <2>1. j \in 1 .. Top.written \/ j = w
    BY <1>2
  <2>2. CASE j \in 1 .. Top.written
    BY <1>12, <1>14, <2>2
  <2>3. CASE j = w
    <3>1. payload[j].id = Top.id /\ payload[j].at = Top.bytes_sent + Top.written
      BY <1>6, <1>14, <2>3
    <3>2. Top.bytes_sent + Top.written = Top.bytes_sent + j - 1
      BY <1>2, <2>3
    <3> QED BY <3>1, <3>2
  <2> QED BY <2>1, <2>2, <2>3
<1>17. w \in Nat /\ (w < p \/ w = p)
  <2> HIDE DEF p
  <2> QED BY <1>2, <1>4
<1>18. next \in Pcs
  BY DEF Pcs
<1>19. f \in Frame
  <2> HIDE DEF next, w
  <2> QED BY <1>2, <1>17, <1>18 DEF Frame
<1>20. /\ f.id = Top.id /\ f.size = Top.size /\ f.bytes_sent = Top.bytes_sent
       /\ f.i = Top.i /\ f.pc = next /\ f.written = w
  <2> HIDE DEF next, w
  <2> QED BY <1>2, <1>17 DEF Frame
<1>21. message_payload_size(f) = p
  BY <1>20 DEF message_payload_size
<1>22. Received = r.messages /\ Received' = q.messages
  BY DEF Received, r
<1> HIDE DEF f, m, p, c, q, w
<1>23. CASE w < p
  <2>1. f.pc = "payload" /\ q.messages = r.messages
    <3>1. p - w # 0
      BY <1>4, <1>17, <1>23
    <3> QED BY <1>13, <1>20, <1>23, <3>1
  <2>2. Arriving(q, f)
    <3>1. q.left = message_payload_size(f) - f.written
      BY <1>13, <1>20, <1>21
    <3>2. /\ q.message \in Message /\ q.message.id = f.id /\ q.message.index = f.i
          /\ q.message.first = (f.i = 0) /\ q.message.last = (f.i = c - 1)
          /\ q.message.payload = payload
      BY <1>13, <1>15, <1>20
    <3>3. Len(q.message.payload) = f.written
      BY <1>14, <1>20, <3>2
    <3>4. \A j \in 1 .. f.written :
            /\ q.message.payload[j].id = f.id
            /\ q.message.payload[j].at = f.bytes_sent + j - 1
      BY <1>16, <1>20, <3>2
    <3>5. c = message_count(f.size)
      BY <1>20 DEF c
    <3> QED BY <3>1, <3>2, <3>3, <3>4, <3>5, Zenon DEF Arriving
  <2>3. Got(q.messages, f.id, f.size, BytesGot(f), MessagesGot(f))
    BY <1>11, <1>20, <2>1 DEF BytesGot, MessagesGot
  <2>4. ClientInv'
    BY <1>1, <1>8, <1>11, <1>19, <2>1, <2>2, <2>3, ReadsOn DEF n, q
  <2>5. Received' = Received
    BY <1>22, <2>1
  <2> QED BY <2>4, <2>5
<1>24. CASE w = p
  <2>1. f.pc = "clear" /\ q.messages = Append(r.messages, m) /\ q.left = 0
    <3>1. p - w = 0 /\ ~(w < p)
      BY <1>4, <1>17, <1>24
    <3> QED BY <1>13, <1>20, <3>1
  <2>2. /\ q.messages \in Seq(Message) /\ \A i \in DOMAIN q.messages : q.messages[i].id \in DOMAIN result
        /\ \A k \in 1 .. n - 1 :
             Got(q.messages, stack[k].id, stack[k].size, BytesGot(stack[k]), MessagesGot(stack[k]))
    BY <1>1, <1>15, <2>1, OthersKept DEF n, r
  <2> DEFINE a == Top.bytes_sent
             b == Top.i
             size == Top.size
             ms == r.messages
  <2>3. /\ a \in Nat /\ b \in Nat /\ w \in Nat /\ ms \in Seq(Message) /\ Got(ms, m.id, size, a, b)
        /\ m.index = b /\ m.last = (b = message_count(size) - 1) /\ m.first = (b = 0)
        /\ Len(m.payload) = w
        /\ message_count(size) \in Nat /\ b < message_count(size)
    BY <1>2, <1>3, <1>11, <1>14, <1>15, <1>17 DEF c
  <2>4. \A j \in 1 .. w : m.payload[j].id = m.id /\ m.payload[j].at = a + j - 1
    BY <1>15, <1>16
  <2>5. DOMAIN m.payload = 1 .. w
    BY <1>14, <1>15, LenProperties
  <2>6. f.id = m.id /\ f.size = size /\ BytesGot(f) = a + w /\ MessagesGot(f) = b + 1
    BY <1>15, <1>20, <2>1 DEF BytesGot, MessagesGot
  <2>7. q.messages = Append(ms, m)
    BY <2>1
  <2> HIDE DEF a, b, size, ms
  <2>8. Got(q.messages, m.id, size, a + w, b + 1)
    <3>1. m \in Message /\ ms \in Seq(Message) /\ a \in Nat /\ b \in Nat /\ Got(ms, m.id, size, a, b)
      BY <1>15, <2>3
    <3>2. \A l \in Nat :
            /\ m.id = m.id /\ m.index = b /\ m.last = (b = message_count(size) - 1)
            /\ Len(m.payload) = l /\ \A j \in 1 .. l : m.payload[j].at = a + j - 1
            => Got(q.messages, m.id, size, a + l, b + 1)
      BY <2>7, <3>1, MessageComes
    <3> QED BY <2>3, <2>4, <3>2
  <2>9. Got(q.messages, f.id, f.size, BytesGot(f), MessagesGot(f))
    BY <2>6, <2>8
  <2>10. ClientInv'
    BY <1>1, <1>8, <1>19, <2>1, <2>2, <2>9, ReadsOn DEF n, q
  <2>11. Received = ms /\ Received' = Append(ms, m)
    BY <1>22, <2>7 DEF ms
  <2>12. \A j \in DOMAIN m.payload : m.payload[j].id = m.id /\ m.payload[j].at = a + j - 1
    BY <2>4, <2>5
  <2>13. Link!Next
    BY <1>15, <2>3, <2>11, <2>12, MessageDelivered
  <2> QED BY <2>10, <2>13
<1> QED BY <1>17, <1>23, <1>24

\* Before the first unit the client has nothing.
LEMMA InitClientInv == Init => ClientInv /\ Link!Init
<1> SUFFICES ASSUME Init PROVE ClientInv /\ Link!Init
  OBVIOUS
<1>1. stack = <<>> /\ result = <<>> /\ wire = <<>>
  BY DEF Init
<1> DEFINE r == Reading(wire)
<1>2. r = NothingRead
  BY <1>1, ReadingNothing
<1>3. r.messages = <<>> /\ r.left = 0
  BY <1>2 DEF NothingRead
<1>4. Received = <<>>
  BY <1>3 DEF Received
<1> HIDE DEF r
<1>5. r.messages \in Seq(Message) /\ DOMAIN r.messages = {} /\ DOMAIN stack = {}
  BY <1>1, <1>3
<1>6. ClientInv
  BY <1>3, <1>5 DEF ClientInv, Follows, r
<1>7. Link!Init
  BY <1>4 DEF Link!Init
<1> QED BY <1>6, <1>7

\* Every step is a step of the abstract link or leaves it as it is.
LEMMA NextClientInv ==
  ASSUME IInv, SendInv, ClientInv, [Next]_vars
  PROVE  ClientInv' /\ [Link!Next]_Received
<1>1. ASSUME wire' = wire
      PROVE  Received' = Received
  BY <1>1 DEF Received
<1>2. CASE \E kind \in Kinds, size \in Sizes : Call(kind, size)
  <2>1. PICK kind \in Kinds, size \in Sizes : Call(kind, size)
    BY <1>2
  <2>2. wire' = wire
    BY <2>1 DEF Call
  <2> QED BY <1>1, <2>1, <2>2, CallClientInv
<1>3. CASE Check
  <2>1. wire' = wire
    BY <1>3 DEF Check
  <2> QED BY <1>1, <1>3, <2>1, CheckClientInv
<1>4. CASE BeginMessage
  <2>1. wire' = wire
    BY <1>4 DEF BeginMessage
  <2> QED BY <1>1, <1>4, <2>1, BeginMessageClientInv
<1>5. CASE WriteHeader
  BY <1>5, HeaderRead
<1>6. CASE WriteByte
  BY <1>6, ByteRead
<1>7. CASE EndMessage
  <2>1. wire' = wire
    BY <1>7 DEF EndMessage
  <2> QED BY <1>1, <1>7, <2>1, EndMessageClientInv
<1>8. CASE UNCHANGED vars
  <2>1. wire' = wire /\ stack' = stack /\ result' = result
    BY <1>8 DEF vars
  <2>2. ClientInv'
    BY <2>1 DEF ClientInv, Follows
  <2> QED BY <1>1, <2>1, <2>2
<1> QED BY <1>2, <1>3, <1>4, <1>5, <1>6, <1>7, <1>8 DEF Next, Step

-----------------------------------------------------------------------------
\* The strengthened invariant: every active call belongs to an event that
\* began, and responses are only at the bottom of the stack.
THEOREM InductiveInvariant == Spec => []IInv
BY InitIInv, NextIInv, PTL DEF Spec

\* The state of protocol_transmit is well formed for every nesting of calls;
\* in particular the message counter and bytes_sent stay within the event.
THEOREM TypeCorrect == Spec => []TypeOK
<1>1. IInv => TypeOK
  BY DEF IInv
<1> QED BY <1>1, InductiveInvariant, PTL

\* kenning_protocol.c:35-39: protocol_busy is set exactly while a message is
\* being sent, and one call at most is sending one.
THEOREM BusyFlagCorrect == Spec => []OneWriter
<1>1. IInv => OneWriter
  BY DEF IInv
<1> QED BY <1>1, InductiveInvariant, PTL

\* A response of the main loop is never refused.
THEOREM ResponsesAccepted == Spec => []ResponseNeverBusy
<1>1. IInv => ResponseNeverBusy
  BY DEF IInv
<1> QED BY <1>1, InductiveInvariant, PTL

\* What is on the line is what the calls made of their series, at every step
\* of every call.
THEOREM SendInvariant == Spec => [](IInv /\ SendInv)
<1>1. Init => IInv /\ SendInv
  BY InitIInv, InitSendInv
<1>2. IInv /\ SendInv /\ [Next]_vars => (IInv /\ SendInv)'
  BY NextIInv, NextSendInv
<1> QED BY <1>1, <1>2, PTL DEF Spec

\* A call of protocol_transmit that returned STATUS_OK put every byte of its
\* event on the line, once and in order, under headers that announce just it,
\* whatever calls were nested in it or it in others; a refused call put
\* nothing there.
THEOREM SeriesCorrect == Spec => []SeriesComplete
<1>1. IInv /\ SendInv => SeriesComplete
  BY SeriesFromLine
<1> QED BY <1>1, SendInvariant, PTL

\* The client's view of the line is the abstract link: whatever is nested in
\* whatever, it reads whole messages, each with the payload of its own event,
\* and the messages of an event in order (the comment at
\* kenning_protocol.c:35-39 on what protocol_busy is for).
THEOREM SeenAtomically == Spec => LinkIsAtomic
<1>1. Init => IInv /\ SendInv /\ ClientInv /\ Link!Init
  BY InitIInv, InitSendInv, InitClientInv
<1>2. IInv /\ SendInv /\ ClientInv /\ [Next]_vars
        => (IInv /\ SendInv /\ ClientInv)' /\ [Link!Next]_Received
  BY NextIInv, NextSendInv, NextClientInv
<1> QED BY <1>1, <1>2, PTL DEF Spec, LinkIsAtomic, Link!Spec

=============================================================================
