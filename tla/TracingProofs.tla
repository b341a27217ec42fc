---------------------------- MODULE TracingProofs ---------------------------
(***************************************************************************)
(* The log buffer of core/logger.c for every buffer size, every limit on a *)
(* record (up to what a size byte can tell) and every set of line lengths; *)
(* then the tracing backend, for every buffer and every set of events no   *)
(* longer than half of it, with the logger it shares the protocol with.    *)
(***************************************************************************)
EXTENDS Tracing, SequenceTheorems, TLAPS

-----------------------------------------------------------------------------
(* The logger on its own.                                                  *)

\* A record lies below msg_buffer_len: what the next line overwrites is not
\* part of any record.
RecordsBelow == \A i \in DOMAIN pending : RecordEnd(pending[i]) <= msg_buffer_len

\* While a transmission is in progress the buffer is what was handed over.
InflightIsPending == sending_logs => inflight = pending

IInv ==
  /\ TypeOK
  /\ SizeFieldInBounds
  /\ RecordsBelow
  /\ Framing
  /\ InflightIsPending
  /\ DeliveredOnceInOrder

-----------------------------------------------------------------------------
\* How many characters of a line are stored (render_character): never more
\* than the line has, nor than the record or the buffer takes, and the next
\* size field still has its cell.
LEMMA RenderedBounds ==
  ASSUME NEW length \in Nat \ {0},
         msg_buffer_len \in Nat, SizeFieldInBounds
  PROVE  /\ render_character(length) \in Nat
         /\ render_character(length) <= length
         /\ render_character(length) <= 255
         /\ msg_buffer_len + render_character(length)
              < CONFIG_KENNING_LOG_BUFFER_SIZE
BY LoggerAssumption DEF render_character, Lesser, SizeFieldInBounds

LEMMA InitIInv == Init => IInv
BY LoggerAssumption, SMTT(30)
DEF Init, IInv, TypeOK, SizeFieldInBounds, RecordsBelow, Framing, InflightIsPending,
    DeliveredOnceInOrder, Index, Cell, Unused, Record

\* Processing a line: the record is appended behind the others.
LEMMA ProcessIInv ==
  ASSUME IInv, NEW length \in LineLengths, Process(length)
  PROVE  IInv'
<1> DEFINE n    == render_character(length)
           line == Len(accepted) + 1
           rec  == [start |-> msg_buffer_len, line |-> line,
                    size |-> n - 1]
<1>1. length \in Nat \ {0}
  BY LoggerAssumption
<1>2. /\ n \in Nat /\ n <= 255
      /\ msg_buffer_len + n < CONFIG_KENNING_LOG_BUFFER_SIZE
  BY <1>1, RenderedBounds DEF IInv, TypeOK
<1>3. /\ msg_buffer' = BufferWith(line, n)
      /\ msg_buffer_len' = msg_buffer_len + n
      /\ pending' = IF n = 0 THEN pending ELSE Append(pending, rec)
      /\ accepted' = IF n = 0 THEN accepted ELSE Append(accepted, rec)
      /\ sending_logs' = TRUE
      /\ inflight' = pending'
      /\ enabled' = enabled /\ sent' = sent
  BY DEF Process, Advance
<1>4. /\ msg_buffer \in [Index -> Cell] /\ msg_buffer_len \in Nat
      /\ pending \in Seq(Record) /\ sent \in Seq(Record)
      /\ accepted \in Seq(Record) /\ enabled \in BOOLEAN
  BY DEF IInv, TypeOK
<1> HIDE DEF n, line, rec
<1>5. line \in Nat
  BY <1>4 DEF line
<1>6. (n - 1) % 256 \in Nat /\ (n > 0 => (n - 1) % 256 = n - 1)
  BY <1>2
<1>7. ASSUME n > 0
      PROVE  /\ rec \in Record
             /\ rec.start = msg_buffer_len /\ rec.line = line /\ rec.size = n - 1
  BY <1>1, <1>2, <1>4, <1>5, <1>7 DEF rec, Record
<1>8. TypeOK'
  <2>1. msg_buffer' \in [Index -> Cell]
    <3>1. SizeCell((n - 1) % 256) \in Cell
      BY <1>6 DEF SizeCell, Cell
    <3>2. \A i \in msg_buffer_len + 1 .. msg_buffer_len + n :
            CharCell(line, i - msg_buffer_len) \in Cell
      BY <1>2, <1>4, <1>5 DEF CharCell, Cell
    <3>3. \A i \in Index : msg_buffer[i] \in Cell
      BY <1>4
    <3> QED BY <1>3, <3>1, <3>2, <3>3 DEF BufferWith
  <2>2. pending' \in Seq(Record) /\ accepted' \in Seq(Record)
    BY <1>2, <1>3, <1>4, <1>7
  <2>3. msg_buffer_len' \in Nat
    BY <1>2, <1>3, <1>4
  <2> QED BY <1>3, <1>4, <2>1, <2>2, <2>3 DEF TypeOK
<1>9. SizeFieldInBounds'
  BY <1>2, <1>3 DEF SizeFieldInBounds
<1>10. ASSUME n > 0
       PROVE  /\ Len(pending') = Len(pending) + 1
              /\ pending'[Len(pending')] = rec
              /\ \A i \in DOMAIN pending : pending'[i] = pending[i]
              /\ DOMAIN pending' = 1 .. Len(pending) + 1
              /\ DOMAIN pending = 1 .. Len(pending)
  BY <1>3, <1>4, <1>7, <1>10
<1>11. \A i \in DOMAIN pending : pending[i] \in Record /\ RecordEnd(pending[i]) <= msg_buffer_len
  BY <1>4 DEF IInv, RecordsBelow
<1>12. RecordsBelow'
  <2>1. CASE n = 0
    BY <2>1, <1>3, <1>4, <1>11 DEF RecordsBelow
  <2>2. CASE n > 0
    <3>1. RecordEnd(rec) = msg_buffer_len'
      BY <1>2, <1>3, <1>4, <1>7, <2>2 DEF RecordEnd
    <3>2. ASSUME NEW i \in DOMAIN pending'
          PROVE  RecordEnd(pending'[i]) <= msg_buffer_len'
      <4>1. CASE i = Len(pending')
        BY <1>10, <2>2, <3>1, <4>1, <1>2, <1>3, <1>4
      <4>2. CASE i \in DOMAIN pending
        <5>1. RecordEnd(pending[i]) \in Int
          BY <1>11, <4>2 DEF RecordEnd, Record
        <5> QED BY <1>10, <1>11, <1>2, <1>3, <1>4, <2>2, <4>2, <5>1
      <4> QED BY <1>4, <1>10, <2>2, <4>1, <4>2
    <3> QED BY <3>2 DEF RecordsBelow
  <2> QED BY <1>2, <2>1, <2>2
<1>13. Framing'
  \* the records that were there keep their cells
  <2>1. ASSUME NEW i \in DOMAIN pending
        PROVE  /\ msg_buffer'[pending[i].start] = SizeCell(pending[i].size)
               /\ \A k \in 1 .. pending[i].size :
                    msg_buffer'[pending[i].start + k] = CharCell(pending[i].line, k)
    <3>1. /\ pending[i].start \in Nat /\ pending[i].size \in Nat
          /\ pending[i].start + 1 + pending[i].size <= msg_buffer_len
      BY <1>11 DEF Record, RecordEnd
    <3>2. \A j \in 0 .. msg_buffer_len - 1 : j \in Index /\ msg_buffer'[j] = msg_buffer[j]
      BY <1>2, <1>3, <1>4, LoggerAssumption DEF BufferWith, Index
    <3>3. /\ msg_buffer[pending[i].start] = SizeCell(pending[i].size)
          /\ \A k \in 1 .. pending[i].size :
               msg_buffer[pending[i].start + k] = CharCell(pending[i].line, k)
      BY DEF IInv, Framing
    <3>4. pending[i].start \in 0 .. msg_buffer_len - 1
      BY <3>1, <1>4
    <3>5. \A k \in 1 .. pending[i].size : pending[i].start + k \in 0 .. msg_buffer_len - 1
      BY <3>1, <1>4
    <3> QED BY <3>2, <3>3, <3>4, <3>5
  <2>2. CASE n = 0
    <3>1. pending' = pending /\ msg_buffer_len' = msg_buffer_len
      BY <1>3, <1>4, <2>2
    <3> QED BY <2>1, <3>1 DEF IInv, Framing
  <2>3. CASE n > 0
    <3>1. /\ msg_buffer'[rec.start] = SizeCell(rec.size)
          /\ \A k \in 1 .. rec.size : msg_buffer'[rec.start + k] = CharCell(rec.line, k)
      <4>1. msg_buffer_len \in Index
        BY <1>2, <1>4, LoggerAssumption DEF Index
      <4>2. msg_buffer'[msg_buffer_len] = SizeCell(n - 1)
        BY <1>3, <1>6, <2>3, <4>1 DEF BufferWith
      <4>3. ASSUME NEW k \in 1 .. n - 1
            PROVE  msg_buffer'[msg_buffer_len + k] = CharCell(line, k)
        <5>1. /\ msg_buffer_len + k \in Index
              /\ msg_buffer_len + k # msg_buffer_len
              /\ msg_buffer_len + k \in msg_buffer_len + 1 .. msg_buffer_len + n
              /\ (msg_buffer_len + k) - msg_buffer_len = k
          BY <1>2, <1>4, LoggerAssumption DEF Index
        <5> QED BY <1>3, <5>1 DEF BufferWith
      <4> QED BY <1>7, <2>3, <4>2, <4>3
    <3>2. RecordEnd(rec) = msg_buffer_len'
      BY <1>2, <1>3, <1>4, <1>7, <2>3 DEF RecordEnd
    <3>3. ASSUME NEW i \in DOMAIN pending'
          PROVE  /\ pending'[i].start = IF i = 1 THEN 0 ELSE RecordEnd(pending'[i - 1])
                 /\ i = Len(pending') => RecordEnd(pending'[i]) = msg_buffer_len'
                 /\ msg_buffer'[pending'[i].start] = SizeCell(pending'[i].size)
                 /\ \A k \in 1 .. pending'[i].size :
                      msg_buffer'[pending'[i].start + k] = CharCell(pending'[i].line, k)
      <4>1. CASE i = Len(pending')
        <5>1. pending'[i] = rec
          BY <1>10, <2>3, <4>1
        <5>2. CASE Len(pending) = 0
          <6>1. i = 1 /\ msg_buffer_len = 0
            BY <1>4, <1>10, <2>3, <4>1, <5>2 DEF IInv, Framing
          <6> QED BY <1>7, <2>3, <3>1, <3>2, <5>1, <6>1
        <5>3. CASE Len(pending) > 0
          <6>1. /\ i # 1 /\ i - 1 = Len(pending) /\ i - 1 \in DOMAIN pending
                /\ pending'[i - 1] = pending[Len(pending)]
            BY <1>4, <1>10, <2>3, <4>1, <5>3
          <6>2. RecordEnd(pending[Len(pending)]) = msg_buffer_len
            BY <6>1 DEF IInv, Framing
          <6> QED BY <1>7, <2>3, <3>1, <3>2, <5>1, <6>1, <6>2
        <5> QED BY <1>4, <5>2, <5>3
      <4>2. CASE i \in DOMAIN pending
        <5>1. /\ pending'[i] = pending[i] /\ i # Len(pending')
              /\ i # 1 => i - 1 \in DOMAIN pending /\ pending'[i - 1] = pending[i - 1]
          BY <1>4, <1>10, <2>3, <4>2
        <5>2. pending[i].start = IF i = 1 THEN 0 ELSE RecordEnd(pending[i - 1])
          BY <4>2 DEF IInv, Framing
        <5> QED BY <2>1, <4>2, <5>1, <5>2
      <4> QED BY <1>4, <1>10, <2>3, <4>1, <4>2
    <3>4. pending' # <<>>
      BY <1>3, <1>4, <1>7, <2>3, AppendProperties, SMTT(30)
    <3> QED BY <3>3, <3>4 DEF Framing
  <2> QED BY <1>2, <2>2, <2>3
<1>14. InflightIsPending'
  BY <1>3 DEF InflightIsPending
<1>15. DeliveredOnceInOrder'
  <2>1. accepted = sent \o pending
    BY DEF IInv, DeliveredOnceInOrder
  <2>2. ASSUME n > 0 PROVE Append(sent \o pending, rec) = sent \o Append(pending, rec)
    <3>1. rec \in Record
      BY <1>7, <2>2
    <3>2. /\ Append(pending, rec) = pending \o <<rec>>
          /\ Append(sent \o pending, rec) = (sent \o pending) \o <<rec>>
      BY <1>4, <3>1, AppendIsConcat, ConcatProperties
    <3>3. <<rec>> \in Seq(Record)
      BY <3>1
    <3>4. (sent \o pending) \o <<rec>> = sent \o (pending \o <<rec>>)
      BY <1>4, <3>3, ConcatAssociative
    <3> QED BY <3>2, <3>4
  <2>3. CASE n = 0
    <3>1. accepted' = accepted /\ pending' = pending /\ sent' = sent
      BY <1>3, <2>3
    <3> QED BY <2>1, <3>1 DEF DeliveredOnceInOrder
  <2>4. CASE n > 0
    <3>1. /\ accepted' = Append(accepted, rec) /\ pending' = Append(pending, rec)
          /\ sent' = sent
      BY <1>2, <1>3, <2>4
    <3>2. accepted' = sent' \o pending'
      BY <2>1, <2>2, <2>4, <3>1
    <3> QED BY <3>2 DEF DeliveredOnceInOrder
  <2> QED BY <1>2, <2>3, <2>4
<1> QED BY <1>8, <1>9, <1>12, <1>13, <1>14, <1>15 DEF IInv

\* Sending the buffer: it is erased, or kept for the next line.
LEMMA SendIInv ==
  ASSUME IInv, NEW status \in {"OK", "BUSY"}, SendAllMessages(status)
  PROVE  IInv'
<1>1. CASE status = "OK"
  <2>1. /\ msg_buffer_len' = 0 /\ pending' = <<>> /\ inflight' = <<>>
        /\ sent' = sent \o inflight /\ accepted' = accepted
        /\ msg_buffer' = msg_buffer /\ enabled' = enabled
        /\ sending_logs' = FALSE /\ sending_logs
    BY <1>1 DEF SendAllMessages, Erase
  <2>2. TypeOK'
    <3>1. sent \o inflight \in Seq(Record)
      BY ConcatProperties DEF IInv, TypeOK
    <3>2. <<>> \in Seq(Record) /\ 0 \in Nat /\ FALSE \in BOOLEAN
      OBVIOUS
    <3>3. /\ msg_buffer \in [Index -> Cell] /\ enabled \in BOOLEAN
          /\ accepted \in Seq(Record)
      BY DEF IInv, TypeOK
    <3> QED BY <2>1, <3>1, <3>2, <3>3, Zenon DEF TypeOK
  <2>3. inflight = pending /\ accepted = sent \o pending
    BY <2>1 DEF IInv, InflightIsPending, DeliveredOnceInOrder
  <2>4. DeliveredOnceInOrder'
    BY <2>1, <2>2, <2>3, ConcatEmptySeq DEF DeliveredOnceInOrder, TypeOK
  <2>5. SizeFieldInBounds'
    BY <2>1, LoggerAssumption DEF SizeFieldInBounds
  <2>6. DOMAIN <<>> = {}
    OBVIOUS
  <2>7. RecordsBelow' /\ Framing' /\ InflightIsPending'
    BY <2>1, <2>6 DEF RecordsBelow, Framing, InflightIsPending
  <2> QED BY <2>2, <2>4, <2>5, <2>7 DEF IInv
<1>2. CASE status = "BUSY"
  <2>1. /\ UNCHANGED <<msg_buffer, msg_buffer_len, pending, sent, accepted, enabled>>
        /\ inflight' = <<>> /\ sending_logs' = FALSE
    BY <1>2 DEF SendAllMessages, Erase
  <2>2. TypeOK'
    <3>1. <<>> \in Seq(Record) /\ FALSE \in BOOLEAN
      OBVIOUS
    <3> QED BY <2>1, <3>1, Zenon DEF IInv, TypeOK
  <2>3. SizeFieldInBounds' /\ RecordsBelow' /\ Framing'
    BY <2>1 DEF IInv, SizeFieldInBounds, RecordsBelow, Framing, RecordEnd
  <2>4. InflightIsPending' /\ DeliveredOnceInOrder'
    BY <2>1 DEF IInv, InflightIsPending, DeliveredOnceInOrder
  <2> QED BY <2>2, <2>3, <2>4 DEF IInv
<1> QED BY <1>1, <1>2

LEMMA NextIInv == IInv /\ [Next]_vars => IInv'
<1> SUFFICES ASSUME IInv, [Next]_vars PROVE IInv'
  OBVIOUS
<1> USE DEF TypeOK, SizeFieldInBounds, RecordsBelow, Framing, RecordEnd, InflightIsPending,
            DeliveredOnceInOrder
<1>1. ASSUME NEW length \in LineLengths, Process(length) PROVE IInv'
  BY <1>1, ProcessIInv
<1>2. CASE Panic
  BY <1>2 DEF Panic, IInv
<1>3. ASSUME NEW status \in {"OK", "BUSY"}, SendAllMessages(status) PROVE IInv'
  BY <1>3, SendIInv
<1>4. CASE LoggerStart
  <2>1. /\ msg_buffer_len' = 0 /\ pending' = <<>> /\ sent' = <<>> /\ accepted' = <<>>
        /\ enabled' = TRUE /\ ~sending_logs
        /\ UNCHANGED <<msg_buffer, sending_logs, inflight>>
    BY <1>4 DEF LoggerStart
  <2>2. <<>> \o <<>> = <<>>
    OBVIOUS
  <2> QED BY <2>1, <2>2, LoggerAssumption DEF IInv
<1>5. CASE LoggerStop
  BY <1>5 DEF LoggerStop, IInv
<1>6. CASE UNCHANGED vars
  BY <1>6 DEF vars, IInv
<1> QED BY <1>1, <1>2, <1>3, <1>4, <1>5, <1>6 DEF Next

-----------------------------------------------------------------------------
\* The inductive invariant holds in every reachable state.
THEOREM InductiveInvariant == Spec => []IInv
BY InitIInv, NextIInv, PTL DEF Spec

\* Type correctness of the logger.
THEOREM TypeCorrect == Spec => []TypeOK
<1>1. IInv => TypeOK
  BY DEF IInv
<1> QED BY <1>1, InductiveInvariant, PTL

\* logger.c:100 never writes a size field outside msg_buffer.
THEOREM SizeFieldSafe == Spec => []SizeFieldInBounds
<1>1. IInv => SizeFieldInBounds
  BY DEF IInv
<1> QED BY <1>1, InductiveInvariant, PTL

\* What is sent always parses as the lines that were logged.
THEOREM FramingCorrect == Spec => []Framing
<1>1. IInv => Framing
  BY DEF IInv
<1> QED BY <1>1, InductiveInvariant, PTL

\* No accepted line is lost, duplicated or reordered.
THEOREM DeliveryCorrect == Spec => []DeliveredOnceInOrder
<1>1. IInv => DeliveredOnceInOrder
  BY DEF IInv
<1> QED BY <1>1, InductiveInvariant, PTL

-----------------------------------------------------------------------------
(* The tracing backend.                                                    *)

\* An output waits while a response, or its own message, is being sent to a
\* client; a logs message is sent by the logger.
WaitsForMessage ==
  /\ waiting # NoEvent => protocol_busy \in {"response"} \cup TraceData /\ g_client_connected
  /\ protocol_busy \in TraceData => waiting # NoEvent
  /\ protocol_busy = "logs" => sending_logs

\* What was raised against a busy protocol and is not in the buffer yet.
Refused == IF protocol_busy = "response" THEN waiting.length ELSE 0

\* What the buffer holds beyond its half was raised against a busy protocol.
BeyondHalf ==
  /\ g_trace_buffer_size + Refused <= HALF + refused
  /\ g_trace_buffer_size > 0 => g_trace_buffer # <<>>

\* Behind the events of a message that is being sent there are only those
\* raised inside of its output.
NestedBehind ==
  protocol_busy \in TraceData =>
    \A i \in DOMAIN g_trace_buffer :
      Holds(announced, g_trace_buffer[i]) \/ g_trace_buffer[i].inside = waiting.id

TraceInv ==
  /\ g_trace_buffer \in Seq(Event)
  /\ g_trace_buffer_size \in 0 .. TRACE_BUFFER_SIZE
  /\ g_client_connected \in BOOLEAN
  /\ protocol_busy \in Busy
  /\ waiting \in Event \cup {NoEvent} /\ announced \in Seq(Event)
  /\ raised \in Nat /\ received \in Seq(Event) /\ refused \in Nat
  /\ WaitsForMessage
  /\ BeyondHalf
  /\ SentAsAnnounced
  /\ NestedBehind

LossIsExplainedStep ==
  g_client_connected =>
    \A i \in DOMAIN g_trace_buffer :
      LeavesUnsent(g_trace_buffer[i]) =>
        \/ refused' > TRACE_BUFFER_SIZE - HALF
        \/ protocol_busy \in TraceData /\ g_trace_buffer[i].inside = waiting.id

-----------------------------------------------------------------------------
(* The logger is left to itself, or takes a step of its own.               *)

LEMMA LoggerSteps == [TracingNext]_tracing_vars => [Next]_vars
<1> SUFFICES ASSUME [TracingNext]_tracing_vars PROVE [Next]_vars
  OBVIOUS
<1>1. ASSUME NEW length \in EventLengths, Output(length) PROVE [Next]_vars
  BY <1>1 DEF Output, OutputUnsent, OutputSent, OutputRefused, OutputLogged, OutputAnnounced, Next
<1>2. CASE OutputResumes \/ OutputDelivers \/ \E line \in LineLengths : PayloadLogged(line)
  BY <1>2 DEF OutputResumes, OutputDelivers, PayloadLogged, Next
<1>3. ASSUME NEW length \in LineLengths, Line(length) PROVE [Next]_vars
  BY <1>3 DEF Line, Next
<1>4. CASE Flush \/ LogsReturn
  BY <1>4 DEF Flush, LogsReturn, Next
<1>5. CASE MessageEnds \/ \E whose \in Busy : MessageBegins(whose)
  BY <1>5 DEF MessageBegins, MessageEnds
<1>6. CASE ClientDisconnects \/ LogsStop \/ ClientConnects \/ LogsStart
  BY <1>6 DEF ClientDisconnects, LogsStop, ClientConnects, LogsStart, Next
<1>7. CASE UNCHANGED tracing_vars
  BY <1>7 DEF tracing_vars
<1> QED BY <1>1, <1>2, <1>3, <1>4, <1>5, <1>6, <1>7 DEF TracingNext

\* Sharing the protocol with the tracing backend the logger is the one of
\* Logger, so that its theorems hold.
THEOREM LoggerInPlace == TracingSpec => Spec
<1>1. TracingInit => Init
  BY DEF TracingInit
<1> QED BY <1>1, LoggerSteps, PTL DEF TracingSpec, Spec

-----------------------------------------------------------------------------
LEMMA Sizes ==
  /\ TRACE_BUFFER_SIZE \in Nat /\ HALF \in Nat /\ HALF <= TRACE_BUFFER_SIZE
  /\ \A l \in EventLengths : l \in Nat /\ l >= 1 /\ l <= HALF
<1>1. TRACE_BUFFER_SIZE \in Nat /\ EventLengths \subseteq 1 .. HALF
  BY TracingAssumption
<1> HIDE DEF TRACE_BUFFER_SIZE
<1>2. HALF \in Nat /\ HALF <= TRACE_BUFFER_SIZE
  BY <1>1 DEF HALF
<1> QED BY <1>1, <1>2

LEMMA InitTraceInv == TracingInit => TraceInv
<1>1. TRACE_BUFFER_SIZE \in Nat /\ HALF \in Nat
  BY Sizes
<1> HIDE DEF TRACE_BUFFER_SIZE, HALF
<1>2. <<>> \in Seq(Event) /\ DOMAIN <<>> = {}
  OBVIOUS
<1>3. TracingInit => protocol_busy \notin TraceData /\ Refused = 0
  BY DEF TracingInit, TraceData, Refused
<1>4. TracingInit => WaitsForMessage /\ BeyondHalf /\ SentAsAnnounced /\ NestedBehind
  BY <1>1, <1>3 DEF TracingInit, WaitsForMessage, BeyondHalf, SentAsAnnounced, NestedBehind
<1>5. TracingInit => waiting \in Event \cup {NoEvent}
  BY DEF TracingInit
<1>6. TracingInit => /\ g_trace_buffer_size \in 0 .. TRACE_BUFFER_SIZE
                     /\ raised \in Nat /\ refused \in Nat
  BY <1>1 DEF TracingInit
<1>7. TracingInit => /\ g_trace_buffer \in Seq(Event) /\ received \in Seq(Event)
                     /\ announced \in Seq(Event)
  BY <1>2 DEF TracingInit
<1>8. TracingInit => protocol_busy \in Busy /\ g_client_connected \in BOOLEAN
  BY Zenon DEF TracingInit, Busy
<1> QED BY <1>4, <1>5, <1>6, <1>7, <1>8 DEF TraceInv

\* A sequence and what is put behind it hold what they held.
LEMMA StillHeld ==
  ASSUME NEW s \in Seq(Event), NEW t \in Seq(Event), NEW event \in Event
  PROVE  /\ \A i \in DOMAIN s : Holds(Append(s, event), s[i])
         /\ \A i \in DOMAIN t : Holds(s \o t, t[i])
         /\ \A i \in DOMAIN Append(s, event) :
              (\E k \in DOMAIN s : Append(s, event)[i] = s[k]) \/ Append(s, event)[i] = event
<1>1. /\ Len(s) \in Nat /\ Len(t) \in Nat /\ DOMAIN s = 1 .. Len(s) /\ DOMAIN t = 1 .. Len(t)
  BY LenProperties
<1>2. /\ DOMAIN Append(s, event) = 1 .. Len(s) + 1
      /\ \A i \in 1 .. Len(s) : Append(s, event)[i] = s[i]
      /\ Append(s, event)[Len(s) + 1] = event
  BY <1>1, AppendProperties
<1>3. /\ DOMAIN (s \o t) = 1 .. Len(s) + Len(t)
      /\ \A i \in 1 .. Len(t) : (s \o t)[Len(s) + i] = t[i]
  <2>1. /\ s \o t \in Seq(Event) /\ Len(s \o t) = Len(s) + Len(t)
        /\ \A i \in 1 .. Len(s) + Len(t) :
             (s \o t)[i] = IF i <= Len(s) THEN s[i] ELSE t[i - Len(s)]
    BY ConcatProperties
  <2>2. \A i \in 1 .. Len(t) : /\ Len(s) + i \in 1 .. Len(s) + Len(t)
                               /\ ~(Len(s) + i <= Len(s)) /\ (Len(s) + i) - Len(s) = i
    BY <1>1
  <2> QED BY <1>1, <2>1, <2>2, LenProperties
<1>4. \A i \in DOMAIN s : Holds(Append(s, event), s[i])
  BY <1>1, <1>2 DEF Holds
<1>5. \A i \in DOMAIN t : Holds(s \o t, t[i])
  <2> SUFFICES ASSUME NEW i \in DOMAIN t PROVE Holds(s \o t, t[i])
    OBVIOUS
  <2>1. Len(s) + i \in 1 .. Len(s) + Len(t)
    BY <1>1
  <2> QED BY <1>1, <1>3, <2>1 DEF Holds
<1>6. \A i \in DOMAIN Append(s, event) :
        (\E k \in DOMAIN s : Append(s, event)[i] = s[k]) \/ Append(s, event)[i] = event
  <2> SUFFICES ASSUME NEW i \in DOMAIN Append(s, event), Append(s, event)[i] # event
               PROVE  \E k \in DOMAIN s : Append(s, event)[i] = s[k]
    OBVIOUS
  <2>1. i \in 1 .. Len(s)
    BY <1>1, <1>2
  <2> QED BY <1>1, <1>2, <2>1
<1> QED BY <1>4, <1>5, <1>6

\* An event is put behind the others, or behind none: the buffer is not
\* overrun, and is discarded only after a success or if the two together are
\* too much for it.
LEMMA BufferedEvent ==
  ASSUME TraceInv, NEW event \in Event, NEW status \in {"OK", "BUSY"},
         \/ AfterAttempt(event, status)
         \/ /\ ~Attempts(event.length)
            /\ Buffered(g_trace_buffer, g_trace_buffer_size, event) /\ UNCHANGED announced
  PROVE  /\ g_trace_buffer' \in Seq(Event) /\ g_trace_buffer' # <<>> /\ announced' \in Seq(Event)
         /\ g_trace_buffer_size' \in 0 .. TRACE_BUFFER_SIZE
         /\ \/ /\ g_trace_buffer_size' = event.length
               /\ g_trace_buffer' = Append(<<>>, event) /\ announced' = <<>>
               /\ status = "OK" \/ g_trace_buffer_size + event.length > TRACE_BUFFER_SIZE
            \/ /\ g_trace_buffer_size' = g_trace_buffer_size + event.length
               /\ g_trace_buffer' = Append(g_trace_buffer, event) /\ announced' = announced
<1>1. /\ g_trace_buffer \in Seq(Event) /\ <<>> \in Seq(Event) /\ announced \in Seq(Event)
      /\ g_trace_buffer_size \in Nat
      /\ event.length \in EventLengths
  BY DEF TraceInv, Event
<1>2. event.length \in Nat /\ event.length <= HALF /\ HALF <= TRACE_BUFFER_SIZE /\ HALF \in Nat
      /\ TRACE_BUFFER_SIZE \in Nat
  BY <1>1, Sizes
<1>3. \A s \in Seq(Event) : Append(s, event) \in Seq(Event) /\ Append(s, event) # <<>>
  BY AppendProperties
<1> HIDE DEF TRACE_BUFFER_SIZE, HALF
<1>4. CASE Buffered(<<>>, 0, event) /\ announced' = <<>> /\ Resets(status, event.length)
  BY <1>1, <1>2, <1>3, <1>4 DEF Buffered, Resets
<1>5. CASE /\ Buffered(g_trace_buffer, g_trace_buffer_size, event) /\ UNCHANGED announced
           /\ ~Resets(status, event.length) \/ ~Attempts(event.length)
  BY <1>1, <1>2, <1>3, <1>5 DEF Buffered, Resets, Attempts
<1> QED BY <1>4, <1>5 DEF AfterAttempt

LEMMA RaisedEvent ==
  ASSUME TraceInv, NEW length \in EventLengths
  PROVE  /\ Raised(length) \in Event
         /\ Raised(length).length = length /\ Raised(length).inside = waiting.id
BY DEF TraceInv, Event, Raised, NoEvent

\* The events behind a message stay of that kind, and none is lost, when one
\* more is put behind them.
LEMMA OneMoreBehind ==
  ASSUME TraceInv, NEW event \in Event,
         g_trace_buffer' = Append(g_trace_buffer, event), announced' = announced
  PROVE  /\ LossIsExplainedStep
         /\ waiting' = waiting /\ protocol_busy' = protocol_busy
              /\ (protocol_busy \in TraceData => event.inside = waiting.id)
            => NestedBehind'
<1>1. g_trace_buffer \in Seq(Event)
  BY DEF TraceInv
<1>2. LossIsExplainedStep
  <2>1. \A i \in DOMAIN g_trace_buffer : Holds(g_trace_buffer', g_trace_buffer[i])
    BY <1>1, StillHeld
  <2> QED BY <2>1 DEF LossIsExplainedStep, LeavesUnsent
<1>3. ASSUME waiting' = waiting, protocol_busy' = protocol_busy, protocol_busy \in TraceData,
             event.inside = waiting.id
      PROVE  NestedBehind'
  <2>1. \A i \in DOMAIN g_trace_buffer' :
          (\E k \in DOMAIN g_trace_buffer : g_trace_buffer'[i] = g_trace_buffer[k])
            \/ g_trace_buffer'[i] = event
    BY <1>1, StillHeld
  <2>2. \A k \in DOMAIN g_trace_buffer :
          Holds(announced, g_trace_buffer[k]) \/ g_trace_buffer[k].inside = waiting.id
    BY <1>3 DEF TraceInv, NestedBehind
  <2>3. \A i \in DOMAIN g_trace_buffer' :
          Holds(announced', g_trace_buffer'[i]) \/ g_trace_buffer'[i].inside = waiting'.id
    BY <1>3, <2>1, <2>2
  <2> QED BY <2>3 DEF NestedBehind
<1> QED BY <1>2, <1>3 DEF NestedBehind

LEMMA UnsentTraceInv ==
  ASSUME TraceInv, NEW length \in EventLengths, Output(length), OutputUnsent(length)
  PROVE  TraceInv' /\ LossIsExplainedStep
<1> DEFINE e == Raised(length)
<1>1. e \in Event /\ e.length = length /\ e.inside = waiting.id
  BY RaisedEvent
<1>2. /\ length \in Nat /\ length >= 1 /\ length <= HALF /\ HALF <= TRACE_BUFFER_SIZE
      /\ HALF \in Nat /\ TRACE_BUFFER_SIZE \in Nat
  BY Sizes
<1>3. /\ raised' = raised + 1 /\ g_client_connected' = g_client_connected
      /\ protocol_busy' = protocol_busy /\ waiting' = waiting /\ received' = received
      /\ refused' = IF waiting = NoEvent THEN 0 ELSE refused + length
      /\ sending_logs' = sending_logs
      /\ ~(Attempts(length) /\ g_client_connected)
  BY DEF Output, OutputUnsent, vars
<1>4. /\ g_trace_buffer_size \in Nat /\ refused \in Nat /\ raised \in Nat
      /\ g_trace_buffer_size + Refused <= HALF + refused
      /\ protocol_busy \in TraceData => waiting # NoEvent /\ g_client_connected
      /\ waiting # NoEvent => g_client_connected
  BY DEF TraceInv, BeyondHalf, WaitsForMessage
<1>5. Refused \in Nat /\ (waiting = NoEvent => Refused = 0) /\ Refused' = Refused
  <2>1. waiting.length \in Nat /\ (waiting = NoEvent => waiting.length = 0)
    BY Sizes DEF TraceInv, Event, NoEvent
  <2> QED BY <1>3, <2>1 DEF Refused
<1>6. /\ AfterAttempt(e, "OK") /\ Attempts(length)
      \/ /\ ~Attempts(e.length)
         /\ Buffered(g_trace_buffer, g_trace_buffer_size, e) /\ UNCHANGED announced
  BY <1>1 DEF OutputUnsent, SentOrDropped, e
<1> HIDE DEF TRACE_BUFFER_SIZE, HALF, e
<1>7. /\ g_trace_buffer' \in Seq(Event) /\ g_trace_buffer' # <<>> /\ announced' \in Seq(Event)
      /\ g_trace_buffer_size' \in 0 .. TRACE_BUFFER_SIZE
  BY <1>1, <1>6, BufferedEvent
<1>8. CASE Attempts(length)
  <2>1. AfterAttempt(e, "OK")
    BY <1>1, <1>6, <1>8
  <2>2. /\ g_trace_buffer_size' = length /\ ~g_client_connected
        /\ waiting = NoEvent /\ protocol_busy \notin TraceData
    BY <1>1, <1>2, <1>3, <1>4, <1>8, <2>1 DEF AfterAttempt, Resets, Buffered
  <2>3. BeyondHalf'
    <3>1. g_trace_buffer_size' + Refused' <= HALF + refused'
      BY <1>2, <1>3, <1>5, <2>2
    <3> QED BY <1>7, <3>1 DEF BeyondHalf
  <2>4. WaitsForMessage' /\ SentAsAnnounced' /\ NestedBehind'
    BY <1>3, <2>2 DEF TraceInv, WaitsForMessage, SentAsAnnounced, NestedBehind
  <2>5. raised' \in Nat /\ refused' \in Nat
    BY <1>2, <1>3, <1>4
  <2>6. TraceInv'
    BY <1>3, <1>7, <2>3, <2>4, <2>5 DEF TraceInv
  <2>7. LossIsExplainedStep
    BY <2>2 DEF LossIsExplainedStep
  <2> QED BY <2>6, <2>7
<1>9. CASE ~Attempts(length)
  <2>1. /\ g_trace_buffer' = Append(g_trace_buffer, e) /\ announced' = announced
        /\ g_trace_buffer_size' = g_trace_buffer_size + length
        /\ g_trace_buffer_size + length <= HALF
    BY <1>1, <1>2, <1>4, <1>6, <1>9 DEF Attempts, Buffered
  <2>2. LossIsExplainedStep /\ NestedBehind'
    BY <1>1, <1>3, <2>1, OneMoreBehind
  <2>3. g_trace_buffer_size' + Refused' <= HALF + refused'
    BY <1>2, <1>3, <1>4, <1>5, <2>1
  <2>4. raised' \in Nat /\ refused' \in Nat /\ (waiting # NoEvent => refused' >= refused)
    BY <1>2, <1>3, <1>4
  <2>5. SentAsAnnounced'
    BY <1>2, <1>3, <1>4, <2>1, <2>4 DEF TraceInv, SentAsAnnounced
  <2>6. WaitsForMessage'
    BY <1>3 DEF TraceInv, WaitsForMessage
  <2>7. TraceInv'
    BY <1>3, <1>7, <2>2, <2>3, <2>4, <2>5, <2>6 DEF TraceInv, BeyondHalf
  <2> QED BY <2>2, <2>7
<1> QED BY <1>8, <1>9

\* Behind a transmission that got through: the events of the message are
\* with the client, and the buffer holds the one that was waiting.
LEMMA SentTraceInv ==
  ASSUME TraceInv, NEW event \in Event, NEW message \in Seq(Event),
         AfterAttempt(event, "OK"), received' = received \o message,
         refused' = 0, waiting' = NoEvent, protocol_busy' = "nobody",
         raised' \in Nat, g_client_connected' = g_client_connected,
         \A i \in DOMAIN g_trace_buffer :
           \/ Holds(message, g_trace_buffer[i])
           \/ protocol_busy \in TraceData /\ g_trace_buffer[i].inside = waiting.id
  PROVE  TraceInv' /\ LossIsExplainedStep
<1>1. /\ event.length \in Nat /\ event.length <= HALF /\ HALF <= TRACE_BUFFER_SIZE
      /\ HALF \in Nat /\ TRACE_BUFFER_SIZE \in Nat
  <2>1. event.length \in EventLengths
    BY DEF Event
  <2> QED BY <2>1, Sizes
<1>2. g_trace_buffer_size' = event.length
  BY <1>1 DEF AfterAttempt, Resets, Buffered
<1>3. /\ g_trace_buffer' \in Seq(Event) /\ g_trace_buffer' # <<>> /\ announced' \in Seq(Event)
      /\ g_trace_buffer_size' \in 0 .. TRACE_BUFFER_SIZE
  BY BufferedEvent
<1>4. received \in Seq(Event) /\ received' \in Seq(Event)
  BY ConcatProperties DEF TraceInv
<1>5. /\ protocol_busy' \in Busy /\ protocol_busy' \notin TraceData
      /\ protocol_busy' # "logs" /\ protocol_busy' # "response"
  BY DEF Busy, TraceData
<1> HIDE DEF TRACE_BUFFER_SIZE, HALF
<1>6. BeyondHalf'
  <2>1. Refused' = 0
    BY <1>5 DEF Refused
  <2>2. g_trace_buffer_size' + Refused' <= HALF + refused'
    BY <1>1, <1>2, <2>1
  <2> QED BY <1>3, <2>2 DEF BeyondHalf
<1>7. WaitsForMessage' /\ SentAsAnnounced' /\ NestedBehind'
  BY <1>5 DEF WaitsForMessage, SentAsAnnounced, NestedBehind
<1>8. TraceInv'
  BY <1>3, <1>4, <1>5, <1>6, <1>7 DEF TraceInv
<1>9. LossIsExplainedStep
  <2>1. \A i \in DOMAIN message : Holds(received', message[i])
    <3>1. event \in Event
      OBVIOUS
    <3> QED BY <1>4, <3>1, StillHeld
  <2>2. ASSUME NEW i \in DOMAIN g_trace_buffer, LeavesUnsent(g_trace_buffer[i])
        PROVE  protocol_busy \in TraceData /\ g_trace_buffer[i].inside = waiting.id
    <3>1. ~Holds(received', g_trace_buffer[i])
      BY <2>2 DEF LeavesUnsent
    <3>2. ~Holds(message, g_trace_buffer[i])
      <4>1. SUFFICES ASSUME Holds(message, g_trace_buffer[i]) PROVE FALSE
        OBVIOUS
      <4>2. PICK k \in DOMAIN message : message[k] = g_trace_buffer[i]
        BY <4>1 DEF Holds
      <4> QED BY <2>1, <3>1, <4>2
    <3> QED BY <3>2
  <2> QED BY <2>2 DEF LossIsExplainedStep
<1> QED BY <1>8, <1>9

\* Behind a refused transmission, of an event that was raised now or waited:
\* the buffer is full, or holds one event more.
LEMMA RefusedTraceInv ==
  ASSUME TraceInv, NEW event \in Event, NEW added \in Nat,
         AfterAttempt(event, "BUSY"), refused' = refused + added, received' = received,
         raised' \in Nat, g_client_connected' = g_client_connected,
         protocol_busy' = protocol_busy, sending_logs' = sending_logs,
         \/ waiting' = waiting /\ added = event.length /\ event.inside = waiting.id
         \/ /\ waiting' = NoEvent /\ added = 0 /\ waiting = event
            /\ protocol_busy = "response"
  PROVE  TraceInv' /\ LossIsExplainedStep
<1>1. /\ event.length \in Nat /\ event.length <= HALF /\ HALF <= TRACE_BUFFER_SIZE
      /\ HALF \in Nat /\ TRACE_BUFFER_SIZE \in Nat
  <2>1. event.length \in EventLengths
    BY DEF Event
  <2> QED BY <2>1, Sizes
<1>2. /\ g_trace_buffer_size \in Nat /\ refused \in Nat
      /\ g_trace_buffer_size + Refused <= HALF + refused
  BY DEF TraceInv, BeyondHalf
<1>3. Refused \in Nat /\ Refused <= HALF
  <2>1. waiting.length \in Nat /\ waiting.length <= HALF
    <3>1. waiting.length \in EventLengths \/ waiting.length = 0
      BY DEF TraceInv, Event, NoEvent
    <3> QED BY <1>1, <3>1, Sizes
  <2> QED BY <1>1, <2>1 DEF Refused
<1> HIDE DEF TRACE_BUFFER_SIZE, HALF
<1>4. Refused' + event.length = Refused + added
  <2>1. CASE waiting' = waiting /\ added = event.length
    <3>1. Refused' = Refused
      BY <2>1 DEF Refused
    <3> QED BY <1>1, <1>3, <2>1, <3>1
  <2>2. CASE waiting' = NoEvent /\ added = 0 /\ waiting = event /\ protocol_busy = "response"
    <3>1. Refused' = 0 /\ Refused = event.length
      BY <2>2 DEF Refused, NoEvent
    <3> QED BY <1>1, <2>2, <3>1
  <2> QED BY <2>1, <2>2
<1>5. Refused' \in Nat
  <2>1. waiting'.length \in Nat
    <3>1. waiting'.length \in EventLengths \/ waiting'.length = 0
      BY DEF TraceInv, Event, NoEvent
    <3> QED BY <3>1, Sizes
  <2> QED BY <2>1 DEF Refused
<1>6. /\ g_trace_buffer' \in Seq(Event) /\ g_trace_buffer' # <<>> /\ announced' \in Seq(Event)
      /\ g_trace_buffer_size' \in 0 .. TRACE_BUFFER_SIZE
      /\ \/ /\ g_trace_buffer_size' = event.length
            /\ g_trace_buffer' = Append(<<>>, event) /\ announced' = <<>>
            /\ g_trace_buffer_size + event.length > TRACE_BUFFER_SIZE
         \/ /\ g_trace_buffer_size' = g_trace_buffer_size + event.length
            /\ g_trace_buffer' = Append(g_trace_buffer, event) /\ announced' = announced
  BY BufferedEvent
<1>7. g_trace_buffer_size' + Refused' <= HALF + refused'
  <2>1. refused' = refused + added
    OBVIOUS
  <2>2. CASE g_trace_buffer_size' = event.length
    <3>1. Refused <= HALF /\ event.length + Refused' = Refused + added
      BY <1>1, <1>3, <1>4, <1>5
    <3> QED BY <1>1, <1>2, <1>3, <1>5, <2>1, <2>2, <3>1
  <2>3. CASE g_trace_buffer_size' = g_trace_buffer_size + event.length
    <3>1. g_trace_buffer_size' + Refused' = g_trace_buffer_size + (Refused + added)
      BY <1>1, <1>2, <1>3, <1>4, <1>5, <2>3
    <3> QED BY <1>1, <1>2, <1>3, <2>1, <3>1
  <2> QED BY <1>6, <2>2, <2>3
<1>8. refused' \in Nat
  BY <1>2
<1>9. waiting' \in Event \cup {NoEvent} /\ WaitsForMessage'
  BY DEF TraceInv, WaitsForMessage, TraceData
<1>10. CASE g_trace_buffer' = Append(g_trace_buffer, event) /\ announced' = announced
  <2>1. LossIsExplainedStep
    BY <1>10, OneMoreBehind
  <2>2. NestedBehind'
    <3>1. CASE waiting' = waiting /\ event.inside = waiting.id
      BY <1>10, <3>1, OneMoreBehind
    <3>2. CASE protocol_busy = "response"
      BY <3>2 DEF NestedBehind, TraceData
    <3> QED BY <3>1, <3>2
  <2>3. SentAsAnnounced'
    <3>1. SentAsAnnounced
      BY DEF TraceInv
    <3> QED BY <1>1, <1>2, <1>10, <3>1 DEF SentAsAnnounced
  <2>4. TraceInv'
    BY <1>6, <1>7, <1>8, <1>9, <2>2, <2>3 DEF TraceInv, BeyondHalf
  <2> QED BY <2>1, <2>4
<1>11. CASE /\ g_trace_buffer' = Append(<<>>, event) /\ announced' = <<>>
            /\ g_trace_buffer_size + event.length > TRACE_BUFFER_SIZE
  <2>1. refused' > TRACE_BUFFER_SIZE - HALF
    <3>1. g_trace_buffer_size + event.length <= HALF + refused + added
      BY <1>1, <1>2, <1>3, <1>4, <1>5
    <3> QED BY <1>1, <1>2, <1>11, <3>1
  <2>2. LossIsExplainedStep /\ SentAsAnnounced'
    BY <2>1 DEF LossIsExplainedStep, SentAsAnnounced
  <2>3. NestedBehind'
    <3>1. CASE waiting' = waiting /\ event.inside = waiting.id
      <4>1. \A i \in DOMAIN g_trace_buffer' : g_trace_buffer'[i] = event
        BY <1>11
      <4> QED BY <3>1, <4>1 DEF NestedBehind
    <3>2. CASE protocol_busy = "response"
      BY <3>2 DEF NestedBehind, TraceData
    <3> QED BY <3>1, <3>2
  <2>4. TraceInv'
    BY <1>6, <1>7, <1>8, <1>9, <2>2, <2>3 DEF TraceInv, BeyondHalf
  <2> QED BY <2>2, <2>4
<1> QED BY <1>6, <1>10, <1>11

LEMMA OutputTraceInv ==
  ASSUME TraceInv, NEW length \in EventLengths, Output(length)
  PROVE  TraceInv' /\ LossIsExplainedStep
<1> DEFINE e == Raised(length)
<1>1. e \in Event /\ e.length = length /\ e.inside = waiting.id
  BY RaisedEvent
<1>2. /\ length \in Nat /\ length >= 1 /\ length <= HALF /\ HALF <= TRACE_BUFFER_SIZE
      /\ HALF \in Nat /\ TRACE_BUFFER_SIZE \in Nat
  BY Sizes
<1>3. /\ raised' = raised + 1 /\ g_client_connected' = g_client_connected
      /\ waiting = NoEvent \/ sending_logs
  BY DEF Output
<1>4. /\ g_trace_buffer_size \in Nat /\ refused \in Nat /\ raised \in Nat /\ raised' \in Nat
      /\ g_trace_buffer_size + Refused <= HALF + refused
      /\ received \in Seq(Event) /\ g_trace_buffer \in Seq(Event)
      /\ g_trace_buffer_size > 0 => g_trace_buffer # <<>>
  BY <1>3 DEF TraceInv, BeyondHalf
<1> HIDE DEF TRACE_BUFFER_SIZE, HALF, e
<1>5. CASE OutputUnsent(length)
  BY <1>5, UnsentTraceInv
<1>6. CASE OutputSent(length)
  <2>1. /\ refused' = 0 /\ waiting' = waiting /\ received' = received \o g_trace_buffer
        /\ protocol_busy = "nobody" /\ protocol_busy' = "nobody" /\ AfterAttempt(e, "OK")
    BY <1>6 DEF OutputSent, SentOrDropped, e
  <2>2. waiting' = NoEvent
    BY <2>1 DEF TraceInv, WaitsForMessage, TraceData
  <2>3. \A i \in DOMAIN g_trace_buffer : Holds(g_trace_buffer, g_trace_buffer[i])
    BY DEF Holds
  <2> QED BY <1>1, <1>3, <1>4, <2>1, <2>2, <2>3, SentTraceInv
<1>7. CASE OutputRefused(length)
  <2>1. /\ refused' = refused + length /\ waiting' = waiting /\ sending_logs' = sending_logs
        /\ received' = received /\ AfterAttempt(e, "BUSY") /\ protocol_busy' = protocol_busy
    BY <1>7 DEF OutputRefused, vars, e
  <2> QED BY <1>1, <1>2, <1>3, <1>4, <2>1, RefusedTraceInv
<1>8. ASSUME NEW line \in LineLengths, OutputLogged(length, line)
      PROVE  TraceInv' /\ LossIsExplainedStep
  <2>1. /\ refused' = refused + length /\ waiting' = e /\ received' = received
        /\ UNCHANGED <<g_trace_buffer, g_trace_buffer_size, announced, protocol_busy>>
        /\ g_client_connected /\ protocol_busy # "nobody"
        /\ ~sending_logs /\ sending_logs'
    BY <1>8 DEF OutputLogged, Process, TakesLine, e
  <2>2. waiting = NoEvent
    BY <1>3, <2>1
  <2>3. protocol_busy = "response" /\ protocol_busy \notin TraceData
    BY <2>1, <2>2 DEF TraceInv, WaitsForMessage, Busy, TraceData
  <2>4. WaitsForMessage' /\ SentAsAnnounced' /\ NestedBehind'
    BY <1>3, <2>1, <2>3 DEF WaitsForMessage, SentAsAnnounced, NestedBehind
  <2>5. g_trace_buffer_size' + Refused' <= HALF + refused'
    <3>1. Refused = 0 /\ Refused' = length
      BY <1>1, <2>1, <2>2, <2>3 DEF Refused, NoEvent
    <3> QED BY <1>2, <1>4, <2>1, <3>1
  <2>6. refused' \in Nat
    BY <1>2, <1>4, <2>1
  <2>7. TraceInv'
    BY <1>1, <1>3, <1>4, <2>1, <2>4, <2>5, <2>6 DEF TraceInv, BeyondHalf
  <2>8. LossIsExplainedStep
    BY <2>1 DEF LossIsExplainedStep, LeavesUnsent
  <2> QED BY <2>7, <2>8
<1>9. ASSUME NEW line \in LineLengths, OutputAnnounced(length, line)
      PROVE  TraceInv' /\ LossIsExplainedStep
  <2>1. /\ refused' = refused /\ waiting' = e /\ received' = received
        /\ UNCHANGED <<g_trace_buffer, g_trace_buffer_size>>
        /\ announced' = g_trace_buffer
        /\ g_client_connected /\ protocol_busy = "nobody" /\ protocol_busy' = "header"
    BY <1>9 DEF OutputAnnounced, e
  <2>2. e # NoEvent
    BY <1>1, <1>2 DEF NoEvent
  <2>3. announced' # <<>>
    <3>1. Attempts(length)
      BY <1>9 DEF OutputAnnounced
    <3>2. g_trace_buffer_size > 0
      BY <1>2, <1>4, <3>1 DEF Attempts
    <3> QED BY <1>4, <2>1, <3>2
  <2>4. WaitsForMessage' /\ SentAsAnnounced'
    BY <1>3, <2>1, <2>2, <2>3 DEF WaitsForMessage, SentAsAnnounced, TraceData
  <2>5. NestedBehind'
    BY <2>1 DEF NestedBehind, Holds
  <2>6. g_trace_buffer_size' + Refused' <= HALF + refused'
    <3>1. Refused = 0 /\ Refused' = 0
      BY <2>1 DEF Refused
    <3> QED BY <1>4, <2>1, <3>1
  <2>7. protocol_busy' \in Busy
    BY <2>1 DEF Busy, TraceData
  <2>8. TraceInv'
    BY <1>1, <1>3, <1>4, <2>1, <2>4, <2>5, <2>6, <2>7 DEF TraceInv, BeyondHalf
  <2>9. LossIsExplainedStep
    BY <2>1 DEF LossIsExplainedStep, LeavesUnsent
  <2> QED BY <2>8, <2>9
<1> QED BY <1>5, <1>6, <1>7, <1>8, <1>9 DEF Output

LEMMA DeliverTraceInv ==
  ASSUME TraceInv, OutputDelivers
  PROVE  TraceInv' /\ LossIsExplainedStep
<1>1. /\ protocol_busy \in TraceData /\ received' = received \o announced
      /\ AfterAttempt(waiting, "OK") /\ waiting' = NoEvent /\ refused' = 0
      /\ protocol_busy' = "nobody" /\ raised' = raised
      /\ g_client_connected' = g_client_connected
  BY DEF OutputDelivers, SentOrDropped
<1>2. waiting \in Event /\ announced \in Seq(Event) /\ raised' \in Nat
  BY <1>1 DEF TraceInv, WaitsForMessage
<1>3. \A i \in DOMAIN g_trace_buffer :
        \/ Holds(announced, g_trace_buffer[i])
        \/ protocol_busy \in TraceData /\ g_trace_buffer[i].inside = waiting.id
  BY <1>1 DEF TraceInv, NestedBehind
<1> QED BY <1>1, <1>2, <1>3, SentTraceInv

LEMMA ResumeTraceInv ==
  ASSUME TraceInv, OutputResumes
  PROVE  TraceInv' /\ LossIsExplainedStep
<1>1. /\ waiting # NoEvent /\ waiting' = NoEvent /\ AfterAttempt(waiting, "BUSY")
      /\ UNCHANGED <<raised, received, refused, g_client_connected, protocol_busy, sending_logs>>
      /\ protocol_busy \notin TraceData
  BY DEF OutputResumes, vars
<1>2. waiting \in Event /\ protocol_busy = "response" /\ raised' \in Nat
  BY <1>1 DEF TraceInv, WaitsForMessage
<1>3. refused' = refused + 0 /\ 0 \in Nat
  BY <1>1 DEF TraceInv
<1> QED BY <1>1, <1>2, <1>3, RefusedTraceInv

LEMMA NextTraceInv ==
  ASSUME TraceInv, [TracingNext]_tracing_vars
  PROVE  TraceInv' /\ LossIsExplainedStep
<1>1. ASSUME UNCHANGED <<trace_vars, protocol_busy>>, g_client_connected' \in BOOLEAN,
             WaitsForMessage'
      PROVE  TraceInv' /\ LossIsExplainedStep
  BY <1>1 DEF LossIsExplainedStep, LeavesUnsent, TraceInv, BeyondHalf, SentAsAnnounced,
              NestedBehind, Refused, trace_vars
<1>2. ASSUME UNCHANGED <<trace_vars, g_client_connected>>, waiting = NoEvent,
             protocol_busy' \in Busy, protocol_busy' \notin TraceData, WaitsForMessage'
      PROVE  TraceInv' /\ LossIsExplainedStep
  <2>1. Refused = 0 /\ Refused' = 0
    BY <1>2 DEF Refused, NoEvent, trace_vars
  <2> QED BY <1>2, <2>1 DEF LossIsExplainedStep, LeavesUnsent, TraceInv, BeyondHalf,
             SentAsAnnounced, NestedBehind, trace_vars
<1> USE DEF TraceInv, WaitsForMessage
<1>3. ASSUME NEW length \in LineLengths, Line(length) PROVE TraceInv' /\ LossIsExplainedStep
  BY <1>1, <1>3 DEF Line, Process, trace_vars
<1>4. CASE Flush
  BY <1>1, <1>4 DEF Flush, Panic, trace_vars
<1>5. CASE LogsReturn
  BY <1>1, <1>5 DEF LogsReturn, trace_vars
<1>6. ASSUME NEW whose \in Busy, MessageBegins(whose) PROVE TraceInv' /\ LossIsExplainedStep
  <2>1. /\ UNCHANGED <<trace_vars, g_client_connected, sending_logs>>
        /\ waiting = NoEvent /\ whose \in {"response", "logs"} /\ protocol_busy' = whose
        /\ whose = "logs" => sending_logs
    BY <1>6 DEF MessageBegins, MainLoop, vars, TraceData
  <2>2. WaitsForMessage' /\ protocol_busy' \notin TraceData
    BY <2>1 DEF TraceData, trace_vars
  <2> QED BY <1>2, <2>1, <2>2
<1>7. CASE MessageEnds
  <2>1. /\ UNCHANGED <<trace_vars, g_client_connected, sending_logs>>
        /\ waiting = NoEvent /\ protocol_busy' = "nobody"
    BY <1>7 DEF MessageEnds, vars, TraceData
  <2>2. WaitsForMessage' /\ protocol_busy' \notin TraceData /\ protocol_busy' \in Busy
    BY <2>1 DEF TraceData, trace_vars, Busy
  <2> QED BY <1>2, <2>1, <2>2
<1>8. CASE ClientDisconnects \/ ClientConnects
  BY <1>1, <1>8 DEF ClientDisconnects, ClientConnects, MainLoop, vars, trace_vars, TraceData
<1>9. CASE LogsStop \/ LogsStart
  BY <1>1, <1>9 DEF LogsStop, LogsStart, MainLoop, LoggerStop, LoggerStart, trace_vars
<1>10. ASSUME NEW line \in LineLengths, PayloadLogged(line)
       PROVE  TraceInv' /\ LossIsExplainedStep
  <2>1. /\ protocol_busy \in TraceData /\ protocol_busy' \in TraceData /\ protocol_busy' # "logs"
        /\ protocol_busy # "response" /\ protocol_busy' # "response" /\ protocol_busy' \in Busy
        /\ UNCHANGED <<trace_vars, g_client_connected>>
    BY <1>10 DEF PayloadLogged, TraceData, Busy
  <2>2. WaitsForMessage'
    BY <2>1 DEF trace_vars
  <2>3. Refused' = 0 /\ Refused = 0
    BY <2>1 DEF Refused
  <2>4. TraceInv'
    BY <2>1, <2>2, <2>3 DEF BeyondHalf, SentAsAnnounced, NestedBehind, trace_vars
  <2>5. LossIsExplainedStep
    BY <2>1 DEF LossIsExplainedStep, LeavesUnsent, trace_vars
  <2> QED BY <2>4, <2>5
<1>11. CASE UNCHANGED tracing_vars
  BY <1>1, <1>11 DEF tracing_vars, vars, trace_vars
<1> QED BY <1>3, <1>4, <1>5, <1>6, <1>7, <1>8, <1>9, <1>10, <1>11, OutputTraceInv,
           DeliverTraceInv, ResumeTraceInv
        DEF TracingNext

\* What the trace buffer holds beyond its half came against a busy protocol,
\* and behind a message that is being sent only what its own output raised.
THEOREM TraceInvariant == TracingSpec => []TraceInv
BY InitTraceInv, NextTraceInv, PTL DEF TracingSpec

\* The copy loop of the backend stays inside g_trace_buffer, and every
\* variable keeps its type.
THEOREM TraceTypeCorrect == TracingSpec => []TraceTypeOK
<1>1. TraceInv /\ TypeOK => TraceTypeOK
  BY DEF TraceInv, TraceTypeOK
<1> QED BY <1>1, TraceInvariant, LoggerInPlace, TypeCorrect, PTL

\* With a client connected, events are given up only when more than half of
\* the buffer was raised against a busy protocol, or as those raised inside of
\* the output that gets through.
THEOREM LossIsJustified == TracingSpec => LossIsExplained
<1>1. TraceInv /\ [TracingNext]_tracing_vars => [LossIsExplainedStep]_tracing_vars
  BY NextTraceInv
<1> QED BY <1>1, TraceInvariant, PTL DEF TracingSpec, LossIsExplained, LossIsExplainedStep

\* The payload of a message is the one its header announces, unless more than
\* half of the buffer was raised against a busy protocol.
THEOREM MessagesIntact == TracingSpec => []SentAsAnnounced
<1>1. TraceInv => SentAsAnnounced
  BY DEF TraceInv
<1> QED BY <1>1, TraceInvariant, PTL

\* Every accepted line is sent once and in order, or still waits, whatever
\* the tracing backend does to the protocol.
THEOREM DeliveryInPlace == TracingSpec => []DeliveredOnceInOrder
BY LoggerInPlace, DeliveryCorrect, PTL

-----------------------------------------------------------------------------
(* The order of events.                                                    *)

\* An event may be put behind others: they are older, or were raised inside
\* its output.
Follows(event, events) ==
  \A i \in DOMAIN events :
    /\ events[i].id # event.id
    /\ events[i].id > event.id => events[i].inside = event.id

OlderThan(n, events) == \A i \in DOMAIN events : events[i].id \in 1 .. n

All == received \o g_trace_buffer

\* What the client has when the message that is being sent has arrived.
Arriving == received \o announced

OrderInv ==
  /\ InOrder(All) /\ OlderThan(raised, All)
  /\ InOrder(Arriving) /\ OlderThan(raised, Arriving)
  /\ waiting # NoEvent =>
       waiting.id \in 1 .. raised /\ Follows(waiting, All) /\ Follows(waiting, Arriving)

LEMMA OneMore ==
  ASSUME NEW events \in Seq(Event), NEW event \in Event, NEW n \in Nat,
         InOrder(events), Follows(event, events), OlderThan(n, events), event.id \in 1 .. n
  PROVE  /\ InOrder(Append(events, event)) /\ OlderThan(n, Append(events, event))
         /\ \A w \in Event : /\ Follows(w, events) /\ event.id > w.id /\ event.inside = w.id
                           => Follows(w, Append(events, event))
<1> DEFINE more == Append(events, event)
<1>1. /\ DOMAIN more = 1 .. Len(events) + 1 /\ DOMAIN events = 1 .. Len(events)
      /\ Len(events) \in Nat /\ more[Len(events) + 1] = event
      /\ \A i \in 1 .. Len(events) : more[i] = events[i]
  BY AppendProperties, LenProperties
<1> HIDE DEF more
<1>2. InOrder(more)
  <2> SUFFICES ASSUME NEW j \in DOMAIN more, NEW i \in 1 .. j - 1
               PROVE  /\ more[i].id # more[j].id
                      /\ more[i].id > more[j].id => more[i].inside = more[j].id
    BY DEF InOrder
  <2>1. i \in DOMAIN events /\ more[i] = events[i]
    BY <1>1
  <2>2. CASE j = Len(events) + 1
    BY <1>1, <2>1, <2>2 DEF Follows
  <2>3. CASE j # Len(events) + 1
    <3>1. j \in DOMAIN events /\ more[j] = events[j]
      BY <1>1, <2>3
    <3> QED BY <2>1, <3>1 DEF InOrder
  <2> QED BY <2>2, <2>3
<1>3. OlderThan(n, more)
  <2> SUFFICES ASSUME NEW i \in DOMAIN more PROVE more[i].id \in 1 .. n
    BY DEF OlderThan
  <2>1. CASE i = Len(events) + 1
    BY <1>1, <2>1
  <2>2. CASE i # Len(events) + 1
    BY <1>1, <2>2 DEF OlderThan
  <2> QED BY <2>1, <2>2
<1>4. ASSUME NEW w \in Event, Follows(w, events), event.id > w.id, event.inside = w.id
      PROVE  Follows(w, more)
  <2> SUFFICES ASSUME NEW i \in DOMAIN more
               PROVE  /\ more[i].id # w.id
                      /\ more[i].id > w.id => more[i].inside = w.id
    BY DEF Follows
  <2>1. CASE i = Len(events) + 1
    <3>1. w.id \in Nat /\ event.id \in Nat
      BY DEF Event
    <3> QED BY <1>1, <1>4, <2>1, <3>1
  <2>2. CASE i # Len(events) + 1
    BY <1>1, <1>4, <2>2 DEF Follows
  <2> QED BY <2>1, <2>2
<1> QED BY <1>2, <1>3, <1>4 DEF more

\* What is left when the buffer is discarded.
LEMMA Beginning ==
  ASSUME NEW events \in Seq(Event), NEW rest \in Seq(Event), NEW n \in Nat
  PROVE  /\ InOrder(events \o rest) => InOrder(events)
         /\ OlderThan(n, events \o rest) => OlderThan(n, events)
         /\ \A w : Follows(w, events \o rest) => Follows(w, events)
<1>1. /\ DOMAIN events = 1 .. Len(events) /\ DOMAIN (events \o rest) = 1 .. Len(events) + Len(rest)
      /\ Len(events) \in Nat /\ Len(rest) \in Nat
      /\ \A i \in 1 .. Len(events) : (events \o rest)[i] = events[i]
  BY ConcatProperties, LenProperties
<1>2. /\ \A i \in DOMAIN events : i \in DOMAIN (events \o rest)
      /\ \A j \in DOMAIN events : \A i \in 1 .. j - 1 : i \in DOMAIN events
  BY <1>1
<1>3. InOrder(events \o rest) => InOrder(events)
  BY <1>1, <1>2 DEF InOrder
<1>4. OlderThan(n, events \o rest) => OlderThan(n, events)
  BY <1>1, <1>2 DEF OlderThan
<1>5. \A w : Follows(w, events \o rest) => Follows(w, events)
  BY <1>1, <1>2 DEF Follows
<1> QED BY <1>3, <1>4, <1>5

\* What a step of an output makes of the events: it puts one behind all of
\* them, or behind those the client has; and the message that is being sent
\* is what it was, or there is none.
LEMMA AllAfter ==
  ASSUME TraceInv, NEW event \in Event, NEW status,
         \/ /\ received' = received
            /\ \/ AfterAttempt(event, status)
               \/ /\ Buffered(g_trace_buffer, g_trace_buffer_size, event)
                  /\ announced' = announced
         \/ received' \in {All, Arriving} /\ AfterAttempt(event, "OK")
  PROVE  /\ \E p \in {All, received, Arriving} : All' = Append(p, event)
         /\ Arriving' \in {All, received, Arriving}
<1>1. /\ received \in Seq(Event) /\ g_trace_buffer \in Seq(Event) /\ <<>> \in Seq(Event)
      /\ announced \in Seq(Event)
  BY DEF TraceInv
<1>2. /\ All \in Seq(Event) /\ Arriving \in Seq(Event)
  BY <1>1, ConcatProperties DEF All, Arriving
<1>3. \A s, t \in Seq(Event) : s \o Append(t, event) = Append(s \o t, event)
  <2> SUFFICES ASSUME NEW s \in Seq(Event), NEW t \in Seq(Event)
               PROVE  s \o Append(t, event) = Append(s \o t, event)
    OBVIOUS
  <2>1. <<event>> \in Seq(Event) /\ s \o t \in Seq(Event)
    BY ConcatProperties
  <2>2. Append(t, event) = t \o <<event>> /\ Append(s \o t, event) = (s \o t) \o <<event>>
    BY <2>1, AppendIsConcat
  <2> QED BY <2>1, <2>2, ConcatAssociative
<1>4. \A s \in Seq(Event) : s \o <<>> = s
  BY ConcatEmptySeq
<1>5. CASE /\ Buffered(g_trace_buffer, g_trace_buffer_size, event)
           /\ announced' = announced /\ received' = received
  <2>1. All' = received \o Append(g_trace_buffer, event) /\ Arriving' = Arriving
    BY <1>5 DEF Buffered, All, Arriving
  <2>2. All' = Append(All, event)
    BY <1>1, <1>3, <2>1 DEF All
  <2> QED BY <2>1, <2>2
<1>6. CASE /\ Buffered(<<>>, 0, event) /\ announced' = <<>>
           /\ received' \in {received, All, Arriving}
  <2>1. All' = received' \o Append(<<>>, event) /\ Arriving' = received' \o <<>>
    BY <1>6 DEF Buffered, All, Arriving
  <2>2. received' \in Seq(Event)
    BY <1>1, <1>2, <1>6
  <2>3. All' = Append(received', event) /\ Arriving' = received'
    BY <1>1, <1>3, <1>4, <2>1, <2>2
  <2> QED BY <1>6, <2>3
<1>7. Resets("OK", event.length)
  BY DEF Resets
<1> QED BY <1>5, <1>6, <1>7 DEF AfterAttempt

LEMMA NextOrderInv ==
  ASSUME TraceInv, OrderInv, [TracingNext]_tracing_vars
  PROVE  OrderInv'
<1>1. /\ received \in Seq(Event) /\ g_trace_buffer \in Seq(Event) /\ announced \in Seq(Event)
      /\ raised \in Nat /\ waiting \in Event \cup {NoEvent}
  BY DEF TraceInv
<1>2. \A p \in {All, received, Arriving} :
        /\ p \in Seq(Event) /\ InOrder(p) /\ OlderThan(raised, p)
        /\ waiting # NoEvent => Follows(waiting, p)
  <2>1. All \in Seq(Event) /\ Arriving \in Seq(Event)
    BY <1>1, ConcatProperties DEF All, Arriving
  <2>2. /\ InOrder(received) /\ OlderThan(raised, received)
        /\ waiting # NoEvent => Follows(waiting, received)
    BY <1>1, Beginning DEF OrderInv, All
  <2> QED BY <1>1, <2>1, <2>2 DEF OrderInv
<1>3. ASSUME UNCHANGED trace_vars
      PROVE  OrderInv'
  <2>1. All' = All /\ Arriving' = Arriving /\ waiting' = waiting /\ raised' = raised
    BY <1>3 DEF trace_vars, All, Arriving
  <2> HIDE DEF All, Arriving
  <2> QED BY <2>1 DEF OrderInv, InOrder, OlderThan, Follows
\* One event is put behind the others, and is older than none of them but
\* those raised inside of its output.
<1>4. ASSUME NEW e \in Event, NEW n \in Nat, raised' = n, e.id \in 1 .. n, n >= raised,
             \A p \in {All, received, Arriving} : Follows(e, p),
             \E p \in {All, received, Arriving} : All' = Append(p, e),
             Arriving' \in {All, received, Arriving},
             \/ waiting' = NoEvent
             \/ /\ waiting' = waiting
                /\ waiting # NoEvent => e.id > waiting.id /\ e.inside = waiting.id
      PROVE  OrderInv'
  <2>1. \A p \in {All, received, Arriving} : OlderThan(n, p)
    <3> SUFFICES ASSUME NEW p \in {All, received, Arriving}, NEW i \in DOMAIN p
                 PROVE  p[i].id \in 1 .. n
      BY DEF OlderThan
    <3>1. p[i].id \in 1 .. raised
      BY <1>2 DEF OlderThan
    <3> QED BY <1>1, <1>4, <3>1
  <2>2. PICK p \in {All, received, Arriving} : All' = Append(p, e)
    BY <1>4
  <2>3. p \in Seq(Event) /\ InOrder(p) /\ Follows(e, p) /\ OlderThan(n, p)
    BY <1>2, <1>4, <2>1
  <2>4. InOrder(Append(p, e)) /\ OlderThan(n, Append(p, e))
    BY <1>4, <2>3, OneMore
  <2>5. PICK q \in {All, received, Arriving} : Arriving' = q
    BY <1>4
  <2>6. InOrder(q) /\ OlderThan(n, q)
    BY <1>2, <2>1
  <2>7. ASSUME waiting' # NoEvent
        PROVE  /\ waiting'.id \in 1 .. n
               /\ Follows(waiting', Append(p, e)) /\ Follows(waiting', q)
    <3>1. waiting' = waiting /\ waiting \in Event /\ e.id > waiting.id /\ e.inside = waiting.id
      BY <1>1, <1>4, <2>7
    <3>2. waiting.id \in 1 .. raised
      BY <2>7, <3>1 DEF OrderInv
    <3>3. waiting.id \in 1 .. n
      BY <1>1, <1>4, <3>2
    <3>4. Follows(waiting, p) /\ Follows(waiting, q)
      BY <1>2, <2>7, <3>1
    <3>5. Follows(waiting, Append(p, e))
      BY <1>4, <2>3, <3>1, <3>4, OneMore
    <3> QED BY <3>1, <3>3, <3>4, <3>5
  <2>8. InOrder(All') /\ OlderThan(raised', All') /\ InOrder(Arriving') /\ OlderThan(raised', Arriving')
    BY <1>4, <2>2, <2>4, <2>5, <2>6
  <2>9. waiting' # NoEvent => /\ waiting'.id \in 1 .. raised'
                              /\ Follows(waiting', All') /\ Follows(waiting', Arriving')
    BY <1>4, <2>2, <2>5, <2>7
  <2> QED BY <2>8, <2>9 DEF OrderInv, InOrder, OlderThan, Follows
<1>5. ASSUME NEW length \in EventLengths, Output(length)
      PROVE  OrderInv'
  <2> DEFINE e == Raised(length)
             n == raised + 1
  <2>1. e \in Event /\ e.id = n /\ e.inside = waiting.id
    BY RaisedEvent DEF Raised
  <2>2. raised' = n /\ n \in Nat /\ n > raised
    BY <1>1, <1>5 DEF Output
  <2>3. \A p \in {All, received, Arriving} : Follows(e, p)
    <3> SUFFICES ASSUME NEW p \in {All, received, Arriving}, NEW i \in DOMAIN p
                 PROVE  p[i].id # e.id /\ ~(p[i].id > e.id)
      BY DEF Follows
    <3>1. p[i].id \in 1 .. raised
      BY <1>2 DEF OlderThan
    <3> QED BY <1>1, <2>1, <3>1
  <2>4. waiting # NoEvent => waiting \in Event /\ waiting.id \in 1 .. raised /\ e.id > waiting.id
    BY <1>1, <2>1 DEF OrderInv
  <2>5. e.id \in 1 .. n
    BY <1>1, <2>1
  <2> HIDE DEF e, n
  <2>6. ASSUME \E p \in {All, received, Arriving} : All' = Append(p, e),
               Arriving' \in {All, received, Arriving},
               waiting' = waiting \/ waiting' = NoEvent
        PROVE  OrderInv'
    <3>1. n >= raised
      BY <1>1, <2>2
    <3>2. \/ waiting' = NoEvent
          \/ /\ waiting' = waiting
             /\ waiting # NoEvent => e.id > waiting.id /\ e.inside = waiting.id
      BY <2>1, <2>4, <2>6
    <3> QED BY <1>4, <2>1, <2>2, <2>3, <2>5, <2>6, <3>1, <3>2, Zenon
  <2>7. CASE OutputUnsent(length)
    <3>1. /\ waiting' = waiting /\ received' = received
          /\ \/ AfterAttempt(e, "OK")
             \/ /\ Buffered(g_trace_buffer, g_trace_buffer_size, e)
                /\ announced' = announced
      BY <2>7 DEF OutputUnsent, SentOrDropped, e
    <3> QED BY <2>1, <2>6, <3>1, AllAfter
  <2>8. CASE OutputSent(length)
    <3>1. waiting' = waiting /\ received' = All /\ AfterAttempt(e, "OK")
      BY <2>8 DEF OutputSent, SentOrDropped, All, e
    <3> QED BY <2>1, <2>6, <3>1, AllAfter
  <2>9. CASE OutputRefused(length)
    <3>1. waiting' = waiting /\ received' = received /\ AfterAttempt(e, "BUSY")
      BY <2>9 DEF OutputRefused, e
    <3> QED BY <2>1, <2>6, <3>1, AllAfter
  \* the event waits, behind the others
  <2>10. ASSUME waiting' = e, All' = All, Arriving' = Arriving \/ Arriving' = All
         PROVE  OrderInv'
    <3>1. \A p \in {All, received, Arriving} : InOrder(p) /\ OlderThan(n, p) /\ Follows(e, p)
      <4> SUFFICES ASSUME NEW p \in {All, received, Arriving}, NEW i \in DOMAIN p
                   PROVE  p[i].id \in 1 .. n
        BY <1>2, <2>3 DEF OlderThan
      <4>1. p[i].id \in 1 .. raised
        BY <1>2 DEF OlderThan
      <4> QED BY <1>1, <2>2, <4>1
    <3>2. /\ InOrder(All') /\ OlderThan(raised', All')
          /\ InOrder(Arriving') /\ OlderThan(raised', Arriving')
          /\ waiting'.id \in 1 .. raised' /\ Follows(waiting', All') /\ Follows(waiting', Arriving')
      BY <2>2, <2>5, <2>10, <3>1
    <3> QED BY <3>2 DEF OrderInv, InOrder, OlderThan, Follows
  <2>11. ASSUME NEW line \in LineLengths, OutputLogged(length, line)
         PROVE  OrderInv'
    <3>1. waiting' = e /\ All' = All /\ Arriving' = Arriving
      BY <2>11 DEF OutputLogged, All, Arriving, e
    <3> QED BY <2>10, <3>1
  <2>12. ASSUME NEW line \in LineLengths, OutputAnnounced(length, line)
         PROVE  OrderInv'
    <3>1. waiting' = e /\ All' = All /\ Arriving' = All
      BY <2>12 DEF OutputAnnounced, All, Arriving, e
    <3> QED BY <2>10, <3>1
  <2> QED BY <1>5, <2>7, <2>8, <2>9, <2>11, <2>12 DEF Output
<1>6. ASSUME waiting # NoEvent, waiting' = NoEvent, raised' = raised,
             \E p \in {All, received, Arriving} : All' = Append(p, waiting),
             Arriving' \in {All, received, Arriving}
      PROVE  OrderInv'
  <2>1. waiting \in Event /\ waiting.id \in 1 .. raised
    BY <1>1, <1>6 DEF OrderInv
  <2>2. \A p \in {All, received, Arriving} : Follows(waiting, p)
    BY <1>2, <1>6
  <2>3. raised >= raised /\ raised' = raised /\ raised \in Nat
    BY <1>1, <1>6
  <2> QED BY <1>4, <1>6, <2>1, <2>2, <2>3, Zenon
<1>7. CASE OutputResumes
  <2>1. /\ waiting # NoEvent /\ waiting' = NoEvent /\ AfterAttempt(waiting, "BUSY")
        /\ raised' = raised /\ received' = received
    BY <1>7 DEF OutputResumes
  <2>2. waiting \in Event
    BY <1>1, <2>1
  <2> QED BY <1>6, <2>1, <2>2, AllAfter
<1>8. CASE OutputDelivers
  <2>1. /\ waiting' = NoEvent /\ AfterAttempt(waiting, "OK")
        /\ raised' = raised /\ received' = Arriving
    BY <1>8 DEF OutputDelivers, SentOrDropped, Arriving
  <2>2. waiting # NoEvent /\ waiting \in Event
    BY <1>1, <1>8 DEF OutputDelivers, TraceInv, WaitsForMessage
  <2> QED BY <1>6, <2>1, <2>2, AllAfter
<1>9. ASSUME NEW length \in LineLengths, Line(length) \/ PayloadLogged(length) PROVE OrderInv'
  BY <1>3, <1>9 DEF Line, PayloadLogged
<1>10. CASE Flush \/ LogsReturn
  BY <1>3, <1>10 DEF Flush, LogsReturn
<1>11. CASE MessageEnds \/ \E whose \in Busy : MessageBegins(whose)
  BY <1>3, <1>11 DEF MessageBegins, MessageEnds
<1>12. CASE ClientDisconnects \/ LogsStop \/ ClientConnects \/ LogsStart
  BY <1>3, <1>12 DEF ClientDisconnects, LogsStop, ClientConnects, LogsStart
<1>13. CASE UNCHANGED tracing_vars
  BY <1>3, <1>13 DEF tracing_vars
<1> QED BY <1>5, <1>7, <1>8, <1>9, <1>10, <1>11, <1>12, <1>13 DEF TracingNext

\* Of the messages that are not overwritten on their way, no event reaches the
\* client twice, and none before an older one that was not waiting for it; they
\* are overwritten only after more than half of the buffer was refused.
THEOREM EventsInOrder == TracingSpec => []TraceInOrder
<1>1. TracingInit => OrderInv
  <2> SUFFICES ASSUME TracingInit PROVE OrderInv
    OBVIOUS
  <2>1. All = <<>> /\ Arriving = <<>> /\ waiting = NoEvent
    BY DEF TracingInit, All, Arriving
  <2>2. DOMAIN All = {} /\ DOMAIN Arriving = {}
    BY <2>1
  <2> QED BY <2>1, <2>2 DEF OrderInv, InOrder, OlderThan
<1>2. TraceInv /\ OrderInv /\ [TracingNext]_tracing_vars => OrderInv'
  BY NextOrderInv
<1>3. OrderInv /\ SentAsAnnounced => TraceInOrder
  BY DEF OrderInv, TraceInOrder, All
<1> QED BY <1>1, <1>2, <1>3, TraceInvariant, MessagesIntact, PTL DEF TracingSpec
=============================================================================
