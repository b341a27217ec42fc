--------------------------- MODULE InferenceServer ---------------------------
(***************************************************************************)
(* The server's loop (app/src/main.c, core/inference_server.c) and the     *)
(* callbacks it dispatches to (core/callbacks.c), over core/model.c.       *)
(*                                                                         *)
(* protocol_listen and protocol_transmit have modules of their own; here a *)
(* series either arrives or is lost, with what it leaves in the loaders,   *)
(* and an answer is sent.  The build is one without CONFIG_LLEXT and with  *)
(* CONFIG_KENNING_SEND_LOGS.  The client is external: it sends anything,   *)
(* and draws conclusions from the answers it gets.                         *)
(***************************************************************************)
EXTENDS Model

VARIABLES
  phase,               \* where main is
  event,               \* the event being served
  status,              \* what its callback returned
  resp_size,           \* resp.payload.size
  data_written,        \* `written` of the DATA loader
  g_client_connected,
  log_backend,         \* whether the Kenning log backend is enabled
  known,               \* ghost: what the client concludes from the answers
  session              \* ghost: how far a faultless inference has come

model_vars == vars
server_vars == <<model_vars, phase, event, status, resp_size, data_written,
                 g_client_connected, log_backend, known, session>>

\* Messages that unsupported_callback serves, those with a loader, and all.
Unsupported == {"STATUS"}
Types == Unsupported \cup {"PING", "IOSPEC", "MODEL", "DATA", "PROCESS", "OUTPUT", "STATS"}

\* success, fail: the flags of the header.  size: event->payload.size of DATA.
\* bytes, sent: ghosts, what the client sent as IOSPEC, and how much as DATA.
Events == [type : Types, is_request : BOOLEAN, success : BOOLEAN, fail : BOOLEAN,
           size : Nat, bytes : Payloads \cup {TooLarge}, sent : Nat]
NoEvent == [type |-> "STATUS", is_request |-> FALSE, success |-> FALSE,
            fail |-> FALSE, size |-> 0, bytes |-> <<>>, sent |-> 0]
Plain(type, is_request) == [NoEvent EXCEPT !.type = type, !.is_request = is_request]

NoSession == [steps |-> 0, spec |-> [input |-> NoTensors, output |-> NoTensors]]

ServerInit ==
  /\ Init
  /\ phase = "start"
  /\ event = NoEvent /\ status = "OK" /\ resp_size = 0
  /\ data_written = 0
  /\ g_client_connected = FALSE /\ log_backend = FALSE
  /\ known = [states |-> {INITIALIZED}, connected |-> FALSE]
  /\ session = NoSession

-----------------------------------------------------------------------------
(* The ghosts.                                                             *)

\* The steps of an inference and the state each of them leads to.
SessionTypes == <<"IOSPEC", "MODEL", "DATA", "PROCESS", "OUTPUT">>
StateAfter == [IOSPEC |-> STRUCT_LOADED, MODEL |-> WEIGHTS_LOADED,
               DATA |-> INPUT_LOADED, PROCESS |-> INFERENCE_DONE]

\* The place of a step in a session, 0 for the other messages.
Place(type) == IF \E k \in 1 .. 5 : SessionTypes[k] = type
               THEN CHOOSE k \in 1 .. 5 : SessionTypes[k] = type ELSE 0

\* Event e can be the next step of the session, or one of its steps again,
\* with valid metadata, input of the size the metadata says, if that is not
\* nothing, an output that fits an answer, and a runtime that does its part.
GoodStep(e, runtime) ==
  /\ runtime = "OK"
  /\ Place(e.type) <= session.steps + 1
  /\ e.type = "IOSPEC" => Len(e.bytes) = 2 /\ e.bytes[1] \in ValidHalves /\ e.bytes[2] \in ValidHalves
  /\ e.type = "DATA" => e.sent = HalfBytes[session.spec.input] /\ e.sent \in 1 .. MaxLoaderSize
  /\ e.type = "OUTPUT" => HalfBytes[session.spec.output] <= CONFIG_KENNING_RESPONSE_PAYLOAD_SIZE

\* A step that goes wrong takes the session back to the step before.
SessionBefore(type) ==
  IF type = "IOSPEC" THEN NoSession
  ELSE [session EXCEPT !.steps = IF @ < Place(type) THEN @ ELSE Place(type) - 1]

SessionAfter(e, runtime) ==
  IF Place(e.type) = 0 THEN session
  ELSE IF ~GoodStep(e, runtime) THEN SessionBefore(e.type)
  ELSE [steps |-> Place(e.type),
        spec  |-> IF e.type = "IOSPEC" THEN [input |-> e.bytes[1], output |-> e.bytes[2]]
                  ELSE session.spec]

\* What the client concludes: the states the model can be in, and whether it
\* is connected.  A transmission is not answered and may have worked or not.
KnownAfter(e, success) ==
  [states    |-> IF e.type \notin DOMAIN StateAfter THEN known.states
                 ELSE IF ~e.is_request THEN known.states \cup {StateAfter[e.type]}
                 ELSE IF success THEN {StateAfter[e.type]} ELSE known.states,
   connected |-> IF e.type = "PING" /\ (e.success \/ e.fail) THEN e.success
                 ELSE known.connected]

-----------------------------------------------------------------------------
(* init_server.  If it fails main returns.                                 *)

InitServer(protocol_ok, runtime) ==
  /\ phase = "start"
  /\ \/ /\ ~protocol_ok
        /\ phase' = "returned"
        /\ UNCHANGED model_vars
     \/ /\ protocol_ok
        /\ model_init(runtime)
        /\ phase' = IF runtime = "OK" THEN "listen" ELSE "returned"
  /\ UNCHANGED <<event, status, resp_size, data_written, g_client_connected,
                 log_backend, known, session>>

-----------------------------------------------------------------------------
(* wait_for_protocol_event.                                                *)

Receive(e) ==
  /\ phase = "listen"
  /\ phase' = "handle"
  /\ event' = e
  /\ UNCHANGED <<status, resp_size, g_client_connected, log_backend, known, session>>

\* Messages without a loader, MODEL, and a PING with its flags.
ReceivePlain(type, is_request) ==
  /\ Receive(Plain(type, is_request))
  /\ UNCHANGED <<model_vars, data_written>>

ReceivePing(is_request, success, fail) ==
  /\ Receive([Plain("PING", is_request) EXCEPT !.success = success, !.fail = fail])
  /\ UNCHANGED <<model_vars, data_written>>

\* IOSPEC fills g_model_spec.  A series that is too large leaves any part of
\* it there: chunks that do not fit are left out.  One without payload does
\* not touch the loader.
ReceiveIospecEvent(bytes, is_request) ==
  /\ Receive([Plain("IOSPEC", is_request) EXCEPT !.bytes = bytes])
  /\ \/ bytes # TooLarge /\ ReceiveIospec(bytes)
     \/ bytes = TooLarge /\ \E part \in Payloads : ReceiveIospec(part)
     \/ bytes = <<>> /\ UNCHANGED model_vars
  /\ UNCHANGED data_written

\* DATA, likewise.
ReceiveData(size, is_request) ==
  /\ \/ size <= MaxLoaderSize /\ data_written' = size
     \/ size > MaxLoaderSize /\ data_written' \in 0 .. MaxLoaderSize
     \/ size = 0 /\ UNCHANGED data_written
  /\ Receive([Plain("DATA", is_request) EXCEPT !.size = data_written', !.sent = size])
  /\ UNCHANGED model_vars

\* A series is lost on the way: protocol_listen times out or refuses it, the
\* loader keeps what it took, and nothing is answered.
Lose(type) ==
  /\ phase = "listen"
  /\ \/ /\ type = "IOSPEC"
        /\ \E part \in Payloads : ReceiveIospec(part)
        /\ UNCHANGED data_written
     \/ /\ type = "DATA"
        /\ data_written' \in 0 .. MaxLoaderSize
        /\ UNCHANGED model_vars
     \/ /\ type = "MODEL"
        /\ UNCHANGED <<model_vars, data_written>>
  /\ session' = SessionBefore(type)
  /\ UNCHANGED <<phase, event, status, resp_size, g_client_connected, log_backend, known>>

-----------------------------------------------------------------------------
(* The callbacks: each gives the status and the payload's size.            *)

NoPayload == resp_size' = 0
SessionFlags == <<g_client_connected, log_backend>>

unsupported_callback ==
  /\ event.type \in Unsupported
  /\ status' = "OK" /\ NoPayload
  /\ UNCHANGED <<model_vars, SessionFlags>>

\* Mutants: the fail flag does not end the session, or not its logging.
StillConnected == g_client_connected
LoggerKeptOn == log_backend

\* The old session is over if the fail flag says so ...
StaysConnected == g_client_connected /\ ~event.fail
LoggerAfterFail == log_backend /\ ~event.fail

\* ... and the success flag begins one unless there is one still.
ping_callback ==
  /\ event.type = "PING"
  /\ status' = IF event.success /\ StaysConnected THEN "CALLBACKS_ERROR" ELSE "OK"
  /\ g_client_connected' = (StaysConnected \/ event.success)
  /\ log_backend' = (LoggerAfterFail \/ (event.success /\ ~StaysConnected))
  /\ NoPayload
  /\ UNCHANGED model_vars

iospec_callback ==
  /\ event.type = "IOSPEC"
  /\ model_load_struct_from_loader
  /\ status' = result'.status /\ NoPayload
  /\ UNCHANGED SessionFlags

\* Mutant: the status of the model is logged and dropped, as it is for OUTPUT.
model_callback_drops_status(runtime) ==
  /\ event.type = "MODEL"
  /\ model_load_weights_from_loader(runtime)
  /\ status' = "OK" /\ NoPayload
  /\ UNCHANGED SessionFlags

model_callback(runtime) ==
  /\ event.type = "MODEL"
  /\ model_load_weights_from_loader(runtime)
  /\ status' = result'.status /\ NoPayload
  /\ UNCHANGED SessionFlags

data_callback(runtime) ==
  /\ event.type = "DATA"
  /\ model_load_input_from_loader(event.size, runtime)
  /\ status' = result'.status /\ NoPayload
  /\ UNCHANGED SessionFlags

process_callback(runtime) ==
  /\ event.type = "PROCESS"
  /\ model_run(runtime)
  /\ status' = result'.status /\ NoPayload
  /\ UNCHANGED SessionFlags

\* Mutant: the answer's size is the output's, whether or not it was written.
WholeSize == model_get_output_size

\* The size the model gave, 0 where it refused to give anything.
GivenSize == result'.size

\* The status of model_get_output is logged and not returned.
output_callback(runtime) ==
  /\ event.type = "OUTPUT"
  /\ model_get_output(CONFIG_KENNING_RESPONSE_PAYLOAD_SIZE, runtime)
  /\ status' = "OK"
  /\ resp_size' = GivenSize
  /\ UNCHANGED SessionFlags

stats_callback(runtime) ==
  /\ event.type = "STATS"
  /\ model_get_statistics(runtime)
  /\ status' = "OK"
  /\ resp_size' = GivenSize
  /\ UNCHANGED SessionFlags

-----------------------------------------------------------------------------
(* handle_protocol_event: the callback, then the answer to a request.      *)

Handle(runtime) ==
  /\ phase = "handle"
  /\ phase' = "respond"
  /\ \/ unsupported_callback \/ ping_callback \/ iospec_callback
     \/ model_callback(runtime) \/ data_callback(runtime) \/ process_callback(runtime)
     \/ output_callback(runtime) \/ stats_callback(runtime)
  /\ session' = SessionAfter(event, runtime)
  /\ UNCHANGED <<event, data_written, known>>

\* The flag of the answer that says success; otherwise it says fail.
Success == status = "OK"

Respond ==
  /\ phase = "respond"
  /\ phase' = "listen"
  /\ known' = KnownAfter(event, Success)
  /\ event' = NoEvent /\ status' = "OK" /\ resp_size' = 0  \* locals of main's loop
  /\ UNCHANGED <<model_vars, data_written, g_client_connected, log_backend, session>>

ServerNext ==
  \/ \E ok \in BOOLEAN, st \in RuntimeStatus : InitServer(ok, st)
  \/ \E r \in BOOLEAN :
       \/ \E type \in Types \ {"PING", "IOSPEC", "DATA"} : ReceivePlain(type, r)
       \/ \E s, f \in BOOLEAN : ReceivePing(r, s, f)
       \/ \E bytes \in Payloads \cup {TooLarge} : ReceiveIospecEvent(bytes, r)
       \/ \E size \in LoaderSizes : ReceiveData(size, r)
  \/ \E type \in {"IOSPEC", "DATA", "MODEL"} : Lose(type)
  \/ \E st \in RuntimeStatus : Handle(st)
  \/ Respond

ServerSpec == ServerInit /\ [][ServerNext]_server_vars

-----------------------------------------------------------------------------
\* Type invariant: that of the model and the server's own variables.
ServerTypeOK ==
  /\ TypeOK
  /\ phase \in {"start", "listen", "handle", "respond", "returned"}
  /\ event \in Events
  /\ status \in {"OK", "RUNTIME_ERROR", "INV_STATE", "INV_ARG", "CALLBACKS_ERROR"}
  /\ resp_size \in 0 .. CONFIG_KENNING_RESPONSE_PAYLOAD_SIZE
  /\ data_written \in 0 .. MaxLoaderSize
  /\ g_client_connected \in BOOLEAN /\ log_backend \in BOOLEAN
  /\ known \in [states : SUBSET (INITIALIZED .. INFERENCE_DONE), connected : BOOLEAN]
  /\ session \in [steps : 0 .. 5, spec : ModelSpec]

\* The answers are enough to follow the server: what the client concludes
\* from them, the state of the model and whether it is connected, is so,
\* whatever requests failed, were lost or came out of order in between.
ClientKnowsState ==
  phase = "listen" =>
    g_model_state \in known.states /\ known.connected = g_client_connected

\* Logs go to the client exactly during a session (the log messages would
\* otherwise reach a client that does not expect them).
LogsFollowSession == log_backend = g_client_connected

\* Whatever happened before, the steps of an inference taken in order, with
\* PING, STATUS and STATS in between, are each answered with success, and
\* OUTPUT with the whole output.  A step that failed, was lost or was sent
\* wrongly costs no more than that step and those after it: the client can
\* go on by sending it again.
SessionSucceeds ==
  phase = "respond" /\ session.steps > 0 /\ event.type = SessionTypes[session.steps] =>
    /\ Success /\ result.status = "OK"
    /\ event.type = "OUTPUT" => resp_size = HalfBytes[session.spec.output]
=============================================================================
