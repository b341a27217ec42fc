-------------------------- MODULE ProtocolTransmit --------------------------
(***************************************************************************)
(* The sending side of core/kenning_protocol.c: protocol_transmit and      *)
(* send_message, with the flag protocol_busy that keeps two transmissions  *)
(* from mixing their bytes on the line.                                    *)
(*                                                                         *)
(* There is one thread.  What interleaves are nested calls: wherever a     *)
(* transmission is, an interrupt, a log line or a trace event may call     *)
(* protocol_transmit again, and that call runs to its end before the outer *)
(* one goes on.  So the state is a stack of calls and only the topmost one *)
(* takes steps.  Responses come from the main loop, where no other call is *)
(* active; log lines come anywhere but inside the sending of logs          *)
(* (sending_logs, logger.c); trace events come anywhere.                   *)
(***************************************************************************)
EXTENDS Integers, Sequences

CONSTANTS
  CONFIG_KENNING_PROTOCOL_MAX_OUTGOING_MESSAGE_SIZE,
  Sizes,       \* payload sizes of events, in bytes
  MaxEvents,   \* bound: calls of protocol_transmit
  MaxDepth     \* bound: calls active at a time

ASSUME TransmitAssumption ==
  /\ CONFIG_KENNING_PROTOCOL_MAX_OUTGOING_MESSAGE_SIZE \in Nat \ {0}
  /\ Sizes \subseteq Nat
  /\ MaxEvents \in Nat /\ MaxDepth \in Nat

Kinds == {"RESPONSE", "LOGS", "TRACE_DATA"}
Ids == 1 .. MaxEvents

\* Where a call is: before the check of protocol_busy, at the head of the
\* loop over the messages, with a message to send (header, then payload), or
\* about to clear protocol_busy.
Pcs == {"check", "loop", "header", "payload", "clear"}

\* A call: its event, the loop's i and bytes_sent, and the bytes of the
\* current message written so far.
Frame == [id : Ids, kind : Kinds, size : Nat, pc : Pcs,
          i : Nat, bytes_sent : Nat, written : Nat]

VARIABLES
  stack,          \* the active calls, the innermost one last
  protocol_busy,
  wire,           \* what was written to the line: headers and payload bytes
  result          \* per event begun: what its call returned, or "active"

vars == <<stack, protocol_busy, wire, result>>

Lesser(a, b) == IF a <= b THEN a ELSE b
MAX_SIZE == CONFIG_KENNING_PROTOCOL_MAX_OUTGOING_MESSAGE_SIZE

Init ==
  /\ stack = <<>>
  /\ protocol_busy = FALSE
  /\ wire = <<>>
  /\ result = <<>>

Top == stack[Len(stack)]
SetTop(frame) == stack' = [stack EXCEPT ![Len(stack)] = frame]
Pop(status) ==
  /\ stack' = SubSeq(stack, 1, Len(stack) - 1)
  /\ result' = [result EXCEPT ![Top.id].status = status]

-----------------------------------------------------------------------------
\* Mutant: the payload size is divided without rounding up.
message_count_rounded_down(size) ==
  IF size > 0 THEN size \div MAX_SIZE ELSE 1

\* Rounded up; an event without payload is one message.
message_count(size) ==
  IF size > 0 THEN ((size - 1) \div MAX_SIZE) + 1 ELSE 1

message_payload_size(f) == Lesser(f.size - f.bytes_sent, MAX_SIZE)

HeaderUnit(f) ==
  [is_header |-> TRUE, id |-> f.id, index |-> f.i, at |-> 0,
   payload_size |-> message_payload_size(f),
   first |-> f.i = 0, last |-> f.i = message_count(f.size) - 1,
   has_payload |-> f.size > 0]

\* Byte number `at` of the event's payload.
DataUnit(f) ==
  [is_header |-> FALSE, id |-> f.id, index |-> f.i,
   at |-> f.bytes_sent + f.written, payload_size |-> 0,
   first |-> FALSE, last |-> FALSE, has_payload |-> FALSE]

-----------------------------------------------------------------------------
\* Someone calls protocol_transmit.
Call(kind, size) ==
  /\ Len(result) < MaxEvents /\ Len(stack) < MaxDepth
  /\ kind = "RESPONSE" => stack = <<>>
  /\ kind = "LOGS" => \A k \in DOMAIN stack : stack[k].kind # "LOGS"
  /\ stack' = Append(stack,
                [id |-> Len(result) + 1, kind |-> kind, size |-> size,
                 pc |-> "check", i |-> 0, bytes_sent |-> 0, written |-> 0])
  /\ result' = Append(result, [kind |-> kind, size |-> size, status |-> "active"])
  /\ UNCHANGED <<protocol_busy, wire>>

At(pc) == stack # <<>> /\ Top.pc = pc

\* Mutant: the flag is not looked at.
NeverRefuses == FALSE

Refuses == protocol_busy

\* The check of protocol_busy at the entry.
Check ==
  /\ At("check")
  /\ \/ Refuses /\ Pop("BUSY")
     \/ ~Refuses /\ SetTop([Top EXCEPT !.pc = "loop"]) /\ UNCHANGED result
  /\ UNCHANGED <<protocol_busy, wire>>

\* A round of the loop: the message is built and protocol_busy is set.
BeginMessage ==
  /\ At("loop")
  /\ protocol_busy' = TRUE
  /\ SetTop([Top EXCEPT !.pc = "header"])
  /\ UNCHANGED <<wire, result>>

\* send_message: the header.
WriteHeader ==
  /\ At("header")
  /\ wire' = Append(wire, HeaderUnit(Top))
  /\ SetTop([Top EXCEPT !.pc = IF Top.size > 0 THEN "payload" ELSE "clear"])
  /\ UNCHANGED <<protocol_busy, result>>

\* send_message: a byte of the payload (uart_poll_out).
WriteByte ==
  /\ At("payload")
  /\ wire' = Append(wire, DataUnit(Top))
  /\ LET more == Top.written + 1 < message_payload_size(Top)
     IN  SetTop([Top EXCEPT !.written = @ + 1,
                            !.pc = IF more THEN "payload" ELSE "clear"])
  /\ UNCHANGED <<protocol_busy, result>>

\* Mutant: the flag stays set.
StaysBusy == TRUE

BusyAfterMessage == FALSE
NextIndex(f) == f.i + 1

\* The message is out: protocol_busy is cleared, and the call goes on with
\* the next message or returns.
EndMessage ==
  /\ At("clear")
  /\ protocol_busy' = BusyAfterMessage
  /\ \/ /\ NextIndex(Top) < message_count(Top.size)
        /\ SetTop([Top EXCEPT !.pc = "loop", !.i = NextIndex(Top), !.written = 0,
                              !.bytes_sent = @ + message_payload_size(Top)])
        /\ UNCHANGED result
     \/ /\ NextIndex(Top) >= message_count(Top.size)
        /\ Pop("OK")
  /\ UNCHANGED wire

Step == Check \/ BeginMessage \/ WriteHeader \/ WriteByte \/ EndMessage

Next == (\E kind \in Kinds, size \in Sizes : Call(kind, size)) \/ Step

Spec == Init /\ [][Next]_vars

\* The processor executes the innermost call; there are finitely many calls.
FairSpec == Spec /\ WF_vars(Step)

-----------------------------------------------------------------------------
\* Type invariant.
TypeOK ==
  /\ stack \in Seq(Frame)
  /\ protocol_busy \in BOOLEAN
  /\ result \in Seq([kind : Kinds, size : Nat, status : {"active", "OK", "BUSY"}])
  /\ Len(result) <= MaxEvents
  /\ \A k \in DOMAIN stack :
       /\ stack[k].id \in DOMAIN result
       /\ stack[k].size = result[stack[k].id].size
       /\ stack[k].bytes_sent <= stack[k].size
       /\ stack[k].i < message_count(stack[k].size)

Writing == {"header", "payload", "clear"}
Writers == {k \in DOMAIN stack : stack[k].pc \in Writing}

\* The comment at kenning_protocol.c:35-39: protocol_busy tells whether a
\* message is being sent, for every nesting of calls.  At most one call is
\* inside a message, and whatever was called since has not passed the check.
OneWriter ==
  /\ protocol_busy <=> Writers # {}
  /\ \A k \in Writers : \A l \in DOMAIN stack : l > k => stack[l].pc = "check"

\* A response is never refused, so a client that waits for one gets it: no
\* transmission is left unfinished, with protocol_busy set, when the main
\* loop sends.
ResponseNeverBusy ==
  \A id \in DOMAIN result :
    result[id].kind = "RESPONSE" => result[id].status # "BUSY"

\* Where the bytes and the headers of an event are on the line.
Bytes(id) == {k \in DOMAIN wire : wire[k].id = id /\ ~wire[k].is_header}
Headers(id) == {k \in DOMAIN wire : wire[k].id = id /\ wire[k].is_header}

\* The n headers of an event of that size, in order: the first and the last
\* one are marked so, and their sizes add up to the event's.
HeadersAnnounce(id, size, n) ==
  /\ {wire[k].index : k \in Headers(id)} = 0 .. n - 1
  /\ \A k \in Headers(id) :
       /\ \A l \in Headers(id) : k < l => wire[k].index < wire[l].index
       /\ wire[k].first = (wire[k].index = 0) /\ wire[k].last = (wire[k].index = n - 1)
       /\ wire[k].has_payload = (size > 0)
       /\ wire[k].payload_size =
            IF wire[k].last THEN size - wire[k].index * MAX_SIZE ELSE MAX_SIZE

\* A call that returned STATUS_OK put its whole event on the line: every byte
\* of the payload once and in order, under headers that announce just it,
\* whatever was sent in between.  A refused call put nothing there.
SeriesComplete ==
  \A id \in DOMAIN result :
    /\ result[id].status = "OK" =>
         /\ {wire[k].at : k \in Bytes(id)} = 0 .. result[id].size - 1
         /\ \A k, l \in Bytes(id) : k < l => wire[k].at < wire[l].at
         /\ \E n \in 1 .. result[id].size + 1 : HeadersAnnounce(id, result[id].size, n)
    /\ result[id].status = "BUSY" => Bytes(id) = {} /\ Headers(id) = {}

-----------------------------------------------------------------------------
(* The client's view: the refinement of AtomicLink.  The line is read from *)
(* the front, a header and then as many units as it says.                  *)

\* What the client has: whole messages, the one that is arriving, and how many
\* units of its payload are still to come (none is arriving if that is 0).
NothingRead == [messages |-> <<>>, message |-> <<>>, left |-> 0]

MessageOf(u) == [id |-> u.id, index |-> u.index, first |-> u.first, last |-> u.last,
                 payload |-> <<>>]

\* The client reads a unit.  Where none is to come it is taken for a header.
Read(r, u) ==
  LET message == IF r.left = 0 THEN MessageOf(u)
                 ELSE [r.message EXCEPT !.payload = Append(@, [id |-> u.id, at |-> u.at])]
      left    == IF r.left = 0 THEN u.payload_size ELSE r.left - 1
  IN  [messages |-> IF left = 0 THEN Append(r.messages, message) ELSE r.messages,
       message  |-> message,
       left     |-> left]

\* What it has after all units: after[k] is the one state k units lead to (in a
\* set, so that TLC evaluates it once).
Reading(units) ==
  LET after[k \in 0 .. Len(units)] ==
        IF k = 0 THEN {NothingRead} ELSE {Read(r, units[k]) : r \in after[k - 1]}
  IN  CHOOSE r \in after[Len(units)] : TRUE

Received == Reading(wire).messages

Link == INSTANCE AtomicLink WITH link <- Received, Events <- Ids

\* Whatever is nested in whatever, the client reads whole messages, each
\* with the payload of its own event, and the messages of an event in order.
LinkIsAtomic == Link!Spec

\* Every call returns, also when it is interrupted again and again, and the
\* line becomes free for the next response.
EveryCallReturns == []<>(stack = <<>> /\ ~protocol_busy)
=============================================================================
