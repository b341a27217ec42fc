------------------------------- MODULE Tracing -------------------------------
(***************************************************************************)
(* zephelin/tracing_backend.c: trace events are gathered in a buffer that  *)
(* is sent as one TRACE_DATA transmission once it is half full, and how it *)
(* shares the protocol with core/logger.c and with the responses.          *)
(*                                                                         *)
(* The backend is called with interrupts locked (CONFIG_TRACING_SYNC), and *)
(* protocol_transmit raises no events (TRACE_PROTOCOL and TRACE_MESSAGES   *)
(* need another backend).  What it does is log: a line about a refused     *)
(* transmission (kenning_protocol.c:170), and one about the header and one *)
(* about the payload of a message (uart.c:62), while protocol_busy is set. *)
(* The logger processes the line before it returns, and its scopes raise   *)
(* events inside the output that waits for it.  An output during which no  *)
(* line is taken is one step.                                              *)
(*                                                                         *)
(* The payload is read from g_trace_buffer when it is written, behind both *)
(* lines.  A TRACE_DATA transmission is one message: the default limit of  *)
(* a payload is a megabyte, the default buffer has 1024 bytes.             *)
(*                                                                         *)
(* The logger is Logger's.  The events its scopes raise all come between   *)
(* its Process and its SendAllMessages here: the two buffers do not see    *)
(* each other, and nothing that matters to the events changes in between.  *)
(***************************************************************************)
EXTENDS Logger

CONSTANTS
  CONFIG_ZPL_TRACE_BACKEND_KENNING_PROTOCOL_BUFFER_SIZE,
  EventLengths,    \* lengths of events
  MaxTraceEvents   \* bound: events raised

TRACE_BUFFER_SIZE == CONFIG_ZPL_TRACE_BACKEND_KENNING_PROTOCOL_BUFFER_SIZE
HALF == TRACE_BUFFER_SIZE \div 2

\* An event is a packet of at most 32 bytes, the buffer has 1024.
ASSUME TracingAssumption ==
  /\ TRACE_BUFFER_SIZE \in Nat
  /\ EventLengths \subseteq 1 .. HALF
  /\ MaxTraceEvents \in Nat

VARIABLES
  g_trace_buffer,       \* the events in the buffer
  g_trace_buffer_size,  \* and the bytes they take
  g_client_connected,
  protocol_busy,        \* whose message is being sent, or "nobody"
  waiting,              \* the event whose output waits for the logger
  announced,            \* the events of the message that output is sending;
                        \* none if it sends none, or if they are overwritten
  raised,               \* ghost: how many events were raised
  received,             \* ghost: the events the client got
  refused               \* ghost: bytes of the events raised against a busy
                        \* protocol since an output last was done without

trace_vars == <<g_trace_buffer, g_trace_buffer_size, waiting, announced, raised,
                received, refused>>
tracing_vars == <<vars, trace_vars, g_client_connected, protocol_busy>>

\* `inside`: the event in whose output this one was raised, or 0.
Event == [id : Nat, length : EventLengths, inside : Nat]
NoEvent == [id |-> 0, length |-> 0, inside |-> 0]

\* A TRACE_DATA message: the line about its header was taken, or that about
\* its payload.
TraceData == {"header", "payload"}
Busy == {"nobody", "response", "logs"} \cup TraceData

TracingInit ==
  /\ Init
  /\ g_trace_buffer = <<>> /\ g_trace_buffer_size = 0
  /\ g_client_connected = FALSE
  /\ protocol_busy = "nobody"
  /\ waiting = NoEvent /\ announced = <<>>
  /\ raised = 0 /\ received = <<>> /\ refused = 0

-----------------------------------------------------------------------------
(* tracing_backend_kenning_protocol_output.                                *)

Attempts(length) == g_trace_buffer_size + length > HALF

\* Mutants: the buffer is reset whatever came of the transmission, or only
\* if there was none that failed.
ResetsAlways(status, length) == TRUE
ResetsOnSuccess(status, length) == status = "OK"

Resets(status, length) ==
  status = "OK" \/ g_trace_buffer_size + length > TRACE_BUFFER_SIZE

Buffered(buffer, size, event) ==
  /\ g_trace_buffer' = Append(buffer, event)
  /\ g_trace_buffer_size' = size + event.length

\* Behind the attempt, with its status.  A buffer that is reset is filled
\* again from its beginning, over the events of a message that is being sent.
AfterAttempt(event, status) ==
  IF Resets(status, event.length) THEN Buffered(<<>>, 0, event) /\ announced' = <<>>
  ELSE Buffered(g_trace_buffer, g_trace_buffer_size, event) /\ UNCHANGED announced

\* Mutant: what was sent stays in the buffer.
SentKept(event) ==
  Buffered(g_trace_buffer, g_trace_buffer_size, event) /\ announced' = <<>>

SentOrDropped(event) == AfterAttempt(event, "OK")

Raised(length) == [id |-> raised + 1, length |-> length, inside |-> waiting.id]

\* No transmission is tried: there is room, or nobody to send to.
OutputUnsent(length) ==
  /\ ~(Attempts(length) /\ g_client_connected)
  /\ IF Attempts(length) THEN SentOrDropped(Raised(length))
     ELSE /\ Buffered(g_trace_buffer, g_trace_buffer_size, Raised(length))
          /\ UNCHANGED announced
  /\ refused' = IF waiting = NoEvent THEN 0 ELSE refused + length
  /\ UNCHANGED <<vars, waiting, received, protocol_busy>>

\* The buffer is sent, and nothing is logged about it: the logger ignores
\* lines while it processes one, and may be off, as may the lines' level.
OutputSent(length) ==
  /\ Attempts(length) /\ g_client_connected
  /\ protocol_busy = "nobody"
  /\ SentOrDropped(Raised(length))
  /\ received' = received \o g_trace_buffer
  /\ refused' = 0
  /\ UNCHANGED <<vars, waiting, protocol_busy>>

\* The buffer is being sent, and the logger takes a line about the header,
\* which has the size the buffer has now.
OutputAnnounced(length, line) ==
  /\ Attempts(length) /\ g_client_connected
  /\ protocol_busy = "nobody"
  /\ Process(line)
  /\ protocol_busy' = "header"
  /\ announced' = g_trace_buffer
  /\ waiting' = Raised(length)
  /\ UNCHANGED <<g_trace_buffer, g_trace_buffer_size, received, refused>>

\* The protocol is busy, and nothing is logged about it.
OutputRefused(length) ==
  /\ Attempts(length) /\ g_client_connected
  /\ protocol_busy # "nobody"
  /\ AfterAttempt(Raised(length), "BUSY")
  /\ refused' = refused + length
  /\ UNCHANGED <<vars, waiting, received, protocol_busy>>

\* The protocol is busy, and the logger takes a line about it.
OutputLogged(length, line) ==
  /\ Attempts(length) /\ g_client_connected
  /\ protocol_busy # "nobody"
  /\ Process(line)
  /\ waiting' = Raised(length)
  /\ refused' = refused + length
  /\ UNCHANGED <<g_trace_buffer, g_trace_buffer_size, announced, received, protocol_busy>>

\* An output waits only for the logger: where the next event comes from.
Output(length) ==
  /\ raised < MaxTraceEvents
  /\ waiting = NoEvent \/ sending_logs
  /\ raised' = raised + 1
  /\ \/ OutputUnsent(length) \/ OutputSent(length) \/ OutputRefused(length)
     \/ \E line \in LineLengths : OutputLogged(length, line) \/ OutputAnnounced(length, line)
  /\ UNCHANGED g_client_connected

\* The header is out, and the logger takes the line about the payload.
PayloadLogged(line) ==
  /\ protocol_busy = "header"
  /\ Process(line)
  /\ protocol_busy' = "payload"
  /\ UNCHANGED <<trace_vars, g_client_connected>>

\* The payload is written, from the buffer as the logger left it.  If its
\* beginning was overwritten, the client gets younger events, cut off at the
\* announced size or followed by the old bytes behind them, mostly from the
\* middle of an event on: nothing of such a message counts as received.
OutputDelivers ==
  /\ protocol_busy \in TraceData /\ ~sending_logs
  /\ received' = received \o announced
  /\ SentOrDropped(waiting)
  /\ waiting' = NoEvent
  /\ refused' = 0
  /\ protocol_busy' = "nobody"
  /\ UNCHANGED <<vars, raised, g_client_connected>>

\* The logger is done: protocol_transmit returns BUSY.
OutputResumes ==
  /\ waiting # NoEvent /\ ~sending_logs /\ protocol_busy \notin TraceData
  /\ AfterAttempt(waiting, "BUSY")
  /\ waiting' = NoEvent
  /\ UNCHANGED <<vars, raised, received, refused, g_client_connected, protocol_busy>>

-----------------------------------------------------------------------------
(* The logger, called from anywhere but inside an output.                  *)

Line(length) ==
  /\ waiting = NoEvent
  /\ Process(length)
  /\ UNCHANGED <<trace_vars, g_client_connected, protocol_busy>>

Flush ==
  /\ waiting = NoEvent
  /\ Panic
  /\ UNCHANGED <<trace_vars, g_client_connected, protocol_busy>>

LogsReturn ==
  /\ protocol_busy # "logs"
  /\ SendAllMessages(IF protocol_busy = "nobody" THEN "OK" ELSE "BUSY")
  /\ UNCHANGED <<trace_vars, g_client_connected, protocol_busy>>

-----------------------------------------------------------------------------
(* Messages, each of which keeps protocol_busy set; and the main loop,     *)
(* which waits for what interrupts it.                                     *)

MainLoop == waiting = NoEvent /\ ~sending_logs /\ protocol_busy = "nobody"

\* Responses are sent outside of ping_callback, which keeps the logger and
\* the connection together.
MessageBegins(whose) ==
  /\ \/ whose = "response" /\ MainLoop /\ enabled = g_client_connected
     \/ whose = "logs" /\ protocol_busy = "nobody" /\ sending_logs
  /\ protocol_busy' = whose
  /\ UNCHANGED <<vars, trace_vars, g_client_connected>>

MessageEnds ==
  /\ \/ protocol_busy = "response" /\ waiting = NoEvent /\ ~sending_logs
     \/ protocol_busy = "logs"
  /\ protocol_busy' = "nobody"
  /\ UNCHANGED <<vars, trace_vars, g_client_connected>>

\* ping_callback: the connection first, then the logger, and events and
\* lines in between.
ClientDisconnects ==
  /\ MainLoop /\ g_client_connected /\ enabled
  /\ g_client_connected' = FALSE
  /\ UNCHANGED <<vars, trace_vars, protocol_busy>>

LogsStop ==
  /\ MainLoop /\ ~g_client_connected /\ enabled
  /\ LoggerStop
  /\ UNCHANGED <<trace_vars, g_client_connected, protocol_busy>>

ClientConnects ==
  /\ MainLoop /\ ~g_client_connected /\ ~enabled
  /\ g_client_connected' = TRUE
  /\ UNCHANGED <<vars, trace_vars, protocol_busy>>

LogsStart ==
  /\ MainLoop /\ g_client_connected /\ ~enabled
  /\ LoggerStart
  /\ UNCHANGED <<trace_vars, g_client_connected, protocol_busy>>

TracingNext ==
  \/ \E length \in EventLengths : Output(length)
  \/ \E line \in LineLengths : PayloadLogged(line)
  \/ OutputDelivers \/ OutputResumes
  \/ \E length \in LineLengths : Line(length)
  \/ Flush \/ LogsReturn
  \/ \E whose \in Busy : MessageBegins(whose)
  \/ MessageEnds
  \/ ClientDisconnects \/ LogsStop \/ ClientConnects \/ LogsStart

TracingSpec == TracingInit /\ [][TracingNext]_tracing_vars

-----------------------------------------------------------------------------
\* Type invariant.  Of the trace buffer it says that the loop at line 50,
\* which has no check of its own, stays inside the array.
TraceTypeOK ==
  /\ TypeOK
  /\ g_trace_buffer \in Seq(Event)
  /\ g_trace_buffer_size \in 0 .. TRACE_BUFFER_SIZE
  /\ g_client_connected \in BOOLEAN
  /\ protocol_busy \in Busy
  /\ waiting \in Event \cup {NoEvent} /\ announced \in Seq(Event)
  /\ raised \in Nat /\ received \in Seq(Event) /\ refused \in Nat

\* No event twice, and younger ones before an older one only if they were
\* raised inside the older one's output.
InOrder(events) ==
  \A j \in DOMAIN events : \A i \in 1 .. j - 1 :
    /\ events[i].id # events[j].id
    /\ events[i].id > events[j].id => events[i].inside = events[j].id

\* A message is sent from the live buffer, and the events raised about it may
\* go over it (tracing_backend.c:46-54 against 36-40).  They do so only when
\* more than half of the buffer was raised against a busy protocol; a few
\* events stay behind what is being sent.
SentAsAnnounced ==
  protocol_busy \in TraceData /\ announced = <<>> => refused > TRACE_BUFFER_SIZE - HALF

\* Over refused transmissions, discarded buffers, sessions, and whatever is
\* logged inside of an output: in the messages it can read (all but those
\* overwritten on their way, which takes a busy protocol) the client gets
\* every event at most once, and in the order they were raised but for those
\* the logger raised about a refused output: they overtake it.
TraceInOrder ==
  /\ InOrder(received \o g_trace_buffer)
  /\ SentAsAnnounced

Holds(events, event) == \E k \in DOMAIN events : events[k] = event
LeavesUnsent(event) ==
  /\ Holds(g_trace_buffer, event)
  /\ ~Holds(g_trace_buffer', event) /\ ~Holds(received', event)

\* What the backend gives up while a client is connected: everything, when more
\* than half of the buffer was raised against a busy protocol without an
\* output that got through; and the events that were raised inside of the
\* output that gets through, about its own transmission.  No other event
\* leaves the buffer unsent.
LossIsExplained ==
  [][g_client_connected =>
       \A i \in DOMAIN g_trace_buffer :
         LET event == g_trace_buffer[i]
         IN  LeavesUnsent(event) =>
               \/ refused' > TRACE_BUFFER_SIZE - HALF
               \/ protocol_busy \in TraceData /\ event.inside = waiting.id]_tracing_vars
=============================================================================
