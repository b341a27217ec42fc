--------------------------- MODULE ProtocolListen ---------------------------
(***************************************************************************)
(* The receiving side of core/kenning_protocol.c: protocol_listen with     *)
(* receive_messages, receive_message_header and receive_message_payload,   *)
(* the buffer loaders of core/loaders.c they fill, and protocol_read_data  *)
(* of protocols/uart.c as far as it decides what is read and when a read   *)
(* times out.                                                              *)
(*                                                                         *)
(* The client is external.  It sends a series: one message, or several     *)
(* that carry one payload between them.  The serial line is a sequence of  *)
(* units: a header is one unit, a payload of size n is n units.  A read    *)
(* that gives up in the middle of a message leaves the rest of the message *)
(* to be taken for a header: what such a header says is arbitrary.         *)
(***************************************************************************)
EXTENDS Integers, SequencesExt

CONSTANTS
  LoaderTypes,     \* message types that have a loader
  PlainTypes,      \* message types without one: loader_picker gives NULL
  InvalidTypes,    \* values of message_type beyond NUM_MESSAGE_TYPES
  ResetMayFail,    \* loader types whose reset can fail (RUNTIME, whose own
                   \* loader is in inference_server.c: here it only counts)
  MaxSize,         \* max_size of the loaders
  CONFIG_KENNING_MESSAGE_RECV_BUFFER_SIZE,
  Scripts,         \* the series the client sends: sequences of headers
  GarbageHeaders,  \* what payload bytes can look like, read as a header
  NullLoaderSizes, \* what reading `written` through a NULL loader gives
  MaxSeries,       \* bound: series sent
  MaxStalls        \* bound: reads the client interrupts for over 500 ms

ASSUME ListenAssumption ==
  /\ CONFIG_KENNING_MESSAGE_RECV_BUFFER_SIZE \in Nat \ {0}
  /\ MaxSize \in Nat /\ MaxSeries \in Nat /\ MaxStalls \in Nat
  /\ ResetMayFail \subseteq LoaderTypes
  /\ NullLoaderSizes \subseteq Nat /\ NullLoaderSizes # {}

Types == LoaderTypes \cup PlainTypes \cup InvalidTypes
Flows == {"REQUEST", "ACKNOWLEDGE", "TRANSMISSION"}
Header == [type : Types, flow : Flows, first : BOOLEAN, last : BOOLEAN,
           has_payload : BOOLEAN, payload_size : Nat]

\* A unit of the line.  at = <<m, k>>: the k-th payload unit of the m-th
\* message of the series, or the message's header for k = 0.
HeaderUnit(h, s, m)  == [is_header |-> TRUE,  header |-> h, series |-> s, at |-> <<m, 0>>]
DataUnit(h, s, m, k) == [is_header |-> FALSE, header |-> h, series |-> s, at |-> <<m, k>>]

MessagePayload(h, s, m) == [k \in 1 .. h.payload_size |-> DataUnit(h, s, m, k)]
MessageUnits(h, s, m)   == <<HeaderUnit(h, s, m)>> \o MessagePayload(h, s, m)

\* All units of a script sent as series s, and those of its payload alone.
SeriesUnits(scr, s)  == FlattenSeq([m \in DOMAIN scr |-> MessageUnits(scr[m], s, m)])
PayloadUnits(scr, s) == FlattenSeq([m \in DOMAIN scr |-> MessagePayload(scr[m], s, m)])

\* A series the client sends: only its first message can have the `first`
\* flag and only its last one the `last` flag, and a message that is not
\* marked as having a payload has none.  All the rest is as it may be.
Series(scr) ==
  /\ scr \in Seq(Header) /\ scr # <<>>
  /\ \A m \in DOMAIN scr :
       /\ scr[m].first => m = 1
       /\ scr[m].last => m = Len(scr)
       /\ scr[m].has_payload \/ scr[m].payload_size = 0

ASSUME ScriptAssumption ==
  /\ \A scr \in Scripts : Series(scr)
  /\ GarbageHeaders \subseteq Header
  /\ LoaderTypes \cap PlainTypes = {} /\ (LoaderTypes \cup PlainTypes) \cap InvalidTypes = {}

VARIABLES
  wire,       \* units sent and not read yet
  pc,         \* where protocol_listen is: the read it is about to do
  header,     \* the header of the message being received
  n,          \* units of the current payload still to read or to drain
  status,     \* the status receive_message_payload or a drain will return
  loaders,    \* per loader type, the units saved since its last reset
  outcome,    \* what the last protocol_listen returned, and its event
  script,     \* ghost: the scripts sent so far
  garbled,    \* ghost: this call took payload bytes for a header
  delivered,  \* ghost: the series reported with STATUS_OK, in order
  stalls      \* ghost: reads the client interrupted

vars == <<wire, pc, header, n, status, loaders, outcome, script,
          garbled, delivered, stalls>>

NoHeader == [type |-> "none", flow |-> "none", first |-> FALSE, last |-> FALSE,
             has_payload |-> FALSE, payload_size |-> 0]
NoOutcome == [status |-> "none", type |-> "none", size |-> 0,
              has_payload |-> FALSE, is_request |-> FALSE, series |-> 0,
              garbled |-> FALSE]

Init ==
  /\ wire = <<>>
  /\ pc = "first_header"
  /\ header = NoHeader
  /\ n = 0
  /\ status = "OK"
  /\ loaders = [t \in LoaderTypes |-> <<>>]
  /\ outcome = NoOutcome
  /\ script = <<>>
  /\ garbled = FALSE
  /\ delivered = <<>>
  /\ stalls = 0

Lesser(a, b) == IF a <= b THEN a ELSE b

\* The loaders: `written` is the number of units saved since the reset.
written(type) == Len(loaders[type])

\* Mutant: buf_save compares the sizes before adding the new bytes.
buf_save_too_late(type, units) ==
  written(type) <= MaxSize

\* buf_save refuses bytes that do not all fit and leaves the loader as it is.
buf_save_fits(type, units) ==
  written(type) + Len(units) <= MaxSize

-----------------------------------------------------------------------------
(* The client.  It sends the next series while the server listens and has  *)
(* read everything: it waits for the answer, or for its own timeout.       *)

Send(s) ==
  /\ Len(script) < MaxSeries
  /\ pc = "first_header" /\ wire = <<>>
  /\ script' = Append(script, s)
  /\ wire' = SeriesUnits(s, Len(script) + 1)
  /\ UNCHANGED <<pc, header, n, status, loaders, outcome, garbled,
                 delivered, stalls>>

-----------------------------------------------------------------------------
(* protocol_read_data: k units are taken from the line, or the read times  *)
(* out after j < k of them, because the line is empty or because the       *)
(* client paused for longer than UART_TIMEOUT_S.                           *)

Take(k) == k <= Len(wire) /\ wire' = SubSeq(wire, k + 1, Len(wire))

TimesOut(k) ==
  \/ /\ Len(wire) < k
     /\ wire' = <<>>
     /\ UNCHANGED stalls
  \/ /\ stalls < MaxStalls
     /\ \E j \in 0 .. Lesser(k - 1, Len(wire)) :
          wire' = SubSeq(wire, j + 1, Len(wire))
     /\ stalls' = stalls + 1

\* How a unit reads as a header.
ReadsAs(u, h) == IF u.is_header THEN h = u.header ELSE h \in GarbageHeaders

-----------------------------------------------------------------------------
(* protocol_listen.  Steps below have `garbled'` and, for ldrs, the        *)
(* loaders after the step.                                                 *)

\* It returns st.  Only for STATUS_OK does the main loop look at the event:
\* its type and flags are those of the first header, and its size is read
\* from the loader, or through NULL when the type has none.
Return(st, h, ldrs) ==
  /\ pc' = "first_header"
  /\ status' = "OK" /\ n' = 0 /\ header' = NoHeader
  /\ IF st # "OK"
       THEN outcome' = [NoOutcome EXCEPT !.status = st]
       ELSE \E size \in IF h.type \in LoaderTypes THEN {Len(ldrs[h.type])}
                                                 ELSE NullLoaderSizes :
              outcome' = [status |-> "OK", type |-> h.type, size |-> size,
                          has_payload |-> h.has_payload,
                          is_request |-> h.flow = "REQUEST",
                          series |-> Len(script), garbled |-> garbled']
  /\ delivered' = IF st = "OK" /\ ~garbled' THEN Append(delivered, Len(script))
                                            ELSE delivered

\* Mutant: the payload of a refused message is left on the line.
NoDrain(st, h) ==
  Return(st, h, loaders)

\* A refused message: its payload is read and thrown away, then st returned.
Drain(st, h) ==
  /\ pc' = "drain"
  /\ n' = h.payload_size /\ status' = st /\ header' = h
  /\ UNCHANGED <<outcome, delivered>>

\* Mutant: the series ends with its first message.
EndsAtOnce(h) == TRUE

\* receive_messages returns after the message with the `last` flag.
EndsSeries(h) == h.last

\* After a message of a series was received with status st: an error or the
\* last message ends the call, else the next header is read.
AfterMessage(st, h, ldrs) ==
  \/ /\ st # "OK" \/ EndsSeries(h)
     /\ Return(st, [h EXCEPT !.has_payload = TRUE], ldrs)
  \/ /\ st = "OK" /\ ~EndsSeries(h)
     /\ pc' = "next_header"
     /\ n' = 0 /\ status' = "OK" /\ header' = h
     /\ UNCHANGED <<outcome, delivered>>

\* The loop body of receive_messages for a message whose header was read.
\* ReceiveMessage enters receive_message_payload when there is a payload.
ReceiveMessage(h, ldrs) ==
  /\ loaders' = ldrs
  /\ \/ /\ h.has_payload /\ h.payload_size > 0
        /\ pc' = "payload" /\ n' = h.payload_size /\ status' = "OK"
        /\ header' = h
        /\ UNCHANGED <<outcome, delivered>>
     \/ /\ ~(h.has_payload /\ h.payload_size > 0)
        /\ AfterMessage("OK", h, ldrs)

\* protocol_listen refuses a first message for its flow control or flags.
FirstRefused(h) == h.flow \notin {"TRANSMISSION", "REQUEST"} \/ ~h.first

\* Mutant: a loader keeps what an earlier series left in it.
NoReset(type) == loaders

\* buf_reset.
Reset(type) == [loaders EXCEPT ![type] = <<>>]

\* The first header is read and checked.  A message with a payload resets
\* its type's loader; a message without one is an event at once.
FirstHeader ==
  /\ pc = "first_header"
  /\ Take(1)
  /\ garbled' = ~Head(wire).is_header
  /\ \E h \in GarbageHeaders \cup {Head(wire).header} :
       /\ ReadsAs(Head(wire), h)
       /\ \/ /\ FirstRefused(h)
             /\ Drain("FLOW_CONTROL_ERROR", h) /\ UNCHANGED loaders
          \/ /\ ~FirstRefused(h) /\ h.type \in InvalidTypes
             /\ Drain("INVALID_MESSAGE_TYPE", h) /\ UNCHANGED loaders
          \/ /\ ~FirstRefused(h) /\ h.type \in ResetMayFail /\ h.has_payload
             /\ Drain("LOADER_RESET_ERROR", h) /\ loaders' = [loaders EXCEPT ![h.type] = <<>>]
          \/ /\ ~FirstRefused(h) /\ h.type \in LoaderTypes /\ h.has_payload
             /\ ReceiveMessage(h, Reset(h.type))
          \/ /\ ~FirstRefused(h) /\ h.type \notin InvalidTypes /\ ~h.has_payload
             /\ Return("OK", h, loaders) /\ UNCHANGED loaders
  /\ UNCHANGED <<script, stalls>>

\* The type of a further message is compared with the one before it.
SameType(h) == h.type = header.type

\* receive_messages: the header of a further message.  Its type and flow
\* control are those of the message before it, hence of the first one.
NextHeader ==
  /\ pc = "next_header"
  /\ Take(1)
  /\ garbled' = (garbled \/ ~Head(wire).is_header)
  /\ \E h \in GarbageHeaders \cup {Head(wire).header} :
       /\ ReadsAs(Head(wire), h)
       /\ \/ /\ ~SameType(h)
             /\ Drain("INVALID_MESSAGE_TYPE", h) /\ UNCHANGED loaders
          \/ /\ SameType(h) /\ h.flow # header.flow
             /\ Drain("FLOW_CONTROL_ERROR", h) /\ UNCHANGED loaders
          \/ /\ SameType(h) /\ h.flow = header.flow
             /\ ReceiveMessage(h, loaders)
  /\ UNCHANGED <<script, stalls>>

\* receive_message_payload reads what is left, at most a receive buffer.
ToRead == Lesser(n, CONFIG_KENNING_MESSAGE_RECV_BUFFER_SIZE)

\* One round of receive_message_payload.  Bytes the loader refuses set the
\* status, and so does the next round: its bytes may fit.
PayloadChunk ==
  /\ pc = "payload"
  /\ LET units == SubSeq(wire, 1, ToRead)
         fits  == buf_save_fits(header.type, units)
         ldrs  == IF fits THEN [loaders EXCEPT ![header.type] = @ \o units] ELSE loaders
         st    == IF fits THEN "OK" ELSE "MSG_TOO_BIG"
     IN  /\ Take(ToRead)
         /\ loaders' = ldrs
         /\ garbled' = garbled
         /\ \/ /\ n > ToRead
               /\ n' = n - ToRead /\ status' = st
               /\ UNCHANGED <<pc, header, outcome, delivered>>
            \/ /\ n <= ToRead
               /\ AfterMessage(st, header, ldrs)
  /\ UNCHANGED <<script, stalls>>

\* The payload of a refused message is read (protocol_read_data(NULL, n)),
\* whether or not all of it comes in time.
Drained ==
  /\ pc = "drain"
  /\ \/ Take(n) /\ UNCHANGED stalls
     \/ n > 0 /\ TimesOut(n)
  /\ garbled' = garbled
  /\ Return(status, header, loaders)
  /\ UNCHANGED <<loaders, script>>

\* Mutant: a header that does not come is waited for again.
WaitsAgain(k) == pc = "payload"

\* A timed out read makes protocol_listen return.
Abandons(k) == pc \in {"first_header", "next_header", "payload"}

\* A header or a part of a payload does not come in time.
Timeout ==
  LET k == IF pc = "payload" THEN ToRead ELSE 1
  IN  /\ Abandons(k)
      /\ TimesOut(k)
      /\ garbled' = FALSE
      /\ Return("TIMEOUT", header, loaders)
      /\ UNCHANGED <<loaders, script>>

Listen == FirstHeader \/ NextHeader \/ PayloadChunk \/ Drained \/ Timeout

Next == (\E s \in Scripts : Send(s)) \/ Listen

Spec == Init /\ [][Next]_vars

\* The main loop calls protocol_listen again and again, and a read ends with
\* its data or with its timeout: the server never stops taking steps.
FairSpec == Spec /\ WF_vars(Listen)

-----------------------------------------------------------------------------
\* Type invariant.  The bytes a loader holds never exceed its buffer, for
\* every division of a payload into messages and of a message into reads.
TypeOK ==
  /\ pc \in {"first_header", "next_header", "payload", "drain"}
  /\ n \in Nat
  /\ pc \in {"first_header", "next_header"} => n = 0
  /\ pc = "payload" => n > 0 /\ header.type \in LoaderTypes
  /\ pc = "drain" => status # "OK"
  /\ DOMAIN loaders = LoaderTypes /\ \A t \in LoaderTypes : written(t) <= MaxSize
  /\ status \in {"OK", "MSG_TOO_BIG", "FLOW_CONTROL_ERROR", "INVALID_MESSAGE_TYPE",
                 "LOADER_RESET_ERROR"}
  /\ \A i \in DOMAIN wire : wire[i].is_header \in BOOLEAN
  /\ script \in Seq(Scripts)
  /\ stalls \in 0 .. MaxStalls

Aligned == wire = <<>> \/ Head(wire).is_header

\* Whatever protocol_listen refuses, it leaves the line at the start of a
\* message ("We still want to read the whole message in case of an error",
\* test_kenning_protocol.c:291), so that one bad message costs no other: over
\* every error path, in the first or in a later message of a series.  Only a
\* client that pauses inside a message can misalign it.
RefusalKeepsAlignment == pc = "first_header" /\ stalls = 0 => Aligned

\* A series reported with STATUS_OK was received whole and unchanged: all its
\* messages, in order, and nothing of an earlier, interrupted or refused
\* series.  (Of a series larger than the loader see OversizeRefused.)
WholeSeriesOrNothing ==
  (/\ pc = "first_header"
   /\ outcome.status = "OK" /\ ~outcome.garbled /\ outcome.has_payload) =>
     LET s   == outcome.series
         all == PayloadUnits(script[s], s)
     IN  Len(all) <= MaxSize =>
           /\ outcome.type = script[s][1].type
           /\ outcome.size = Len(all)
           /\ loaders[outcome.type] = all

\* A series Kenning is meant to send: one type and flow, `first` on the
\* first message and `last` on the last one only.
WellFormed(scr) ==
  /\ scr[1].flow \in {"TRANSMISSION", "REQUEST"}
  /\ scr[1].type \notin InvalidTypes \cup ResetMayFail
  /\ \A m \in DOMAIN scr :
       /\ scr[m].type = scr[1].type /\ scr[m].flow = scr[1].flow
       /\ scr[m].first = (m = 1) /\ scr[m].last = (m = Len(scr))
  /\ Len(PayloadUnits(scr, 1)) <= MaxSize

\* A well formed series that reached the server without a pause is reported,
\* whatever was refused or given up before it.
WellFormedReported ==
  pc = "first_header" /\ wire = <<>> /\ stalls = 0 =>
    \A s \in DOMAIN script :
      WellFormed(script[s]) => \E i \in DOMAIN delivered : delivered[i] = s

\* The server always comes back to listening with nothing left to read, also
\* after it lost its place in the stream.
AlwaysListensAgain == []<>(pc = "first_header" /\ wire = <<>>)

\* test_kenning_protocol.c:223 ("Tests if the correct error is returned on a
\* loader failure"), :243: a payload the loader refuses makes protocol_listen
\* return MSG_TOO_BIG.
OversizeRefused ==
  (/\ pc = "first_header"
   /\ outcome.status = "OK" /\ ~outcome.garbled /\ outcome.has_payload) =>
     Len(PayloadUnits(script[outcome.series], outcome.series)) <= MaxSize
=============================================================================
