----------------------------- MODULE ServerProofs ----------------------------
(***************************************************************************)
(* What serves the requests of a client, on top of the model.              *)
(*                                                                         *)
(* The server and its client: the answers tell the client all it needs,    *)
(* logging follows the session, and an inference whose steps come in order *)
(* succeeds.  The proofs are for every set of tensor sizes, payload sizes  *)
(* and buffer sizes, and every behaviour of the runtime and of the client. *)
(*                                                                         *)
(* The server whose runtime is uploaded: the properties of LlextRuntime,   *)
(* for every heap, every set of payload sizes, graphs and tensors, and     *)
(* every failure of the calls outside.                                     *)
(***************************************************************************)
EXTENDS InferenceServer, LlextRuntime, ModelProofs

\* What the client knows holds of the server before an event is served; while
\* the answer is on its way, what it is about to conclude does.
KnowledgeRight ==
  /\ phase = "start" => /\ known = [states |-> {INITIALIZED}, connected |-> FALSE]
                        /\ g_client_connected = FALSE
  /\ phase \in {"listen", "handle"} =>
       g_model_state \in known.states /\ known.connected = g_client_connected
  /\ phase = "respond" =>
       LET next == KnownAfter(event, Success)
       IN  g_model_state \in next.states /\ next.connected = g_client_connected

\* A session of k steps has brought the model at least where they lead, and
\* its metadata is the model's, until the next IOSPEC overwrites it.
SessionStands ==
  /\ phase = "start" => session.steps = 0
  /\ session.steps > 0 =>
       /\ g_model_state > session.steps \/ g_model_state = INFERENCE_DONE
       /\ Valid(session.spec)
       /\ ~(phase = "handle" /\ event.type = "IOSPEC") => g_model_spec = session.spec

\* The event to be served says what the loaders hold, unless its payload was
\* too large or it had none.
EventMatchesLoaders ==
  phase = "handle" =>
    /\ event.type = "IOSPEC" /\ Len(event.bytes) = 2 =>
         /\ iospec_written = 2
         /\ g_model_spec = [input |-> event.bytes[1], output |-> event.bytes[2]]
    /\ event.type = "DATA" /\ event.sent \in 1 .. MaxLoaderSize =>
         event.size = event.sent

ServerInv ==
  /\ ServerTypeOK
  /\ KnowledgeRight
  /\ LogsFollowSession
  /\ SessionStands
  /\ EventMatchesLoaders
  /\ SessionSucceeds

-----------------------------------------------------------------------------
(* The operators of the ghosts.                                            *)

LEMMA PlaceOf ==
  /\ Place("IOSPEC") = 1 /\ Place("MODEL") = 2 /\ Place("DATA") = 3
  /\ Place("PROCESS") = 4 /\ Place("OUTPUT") = 5
  /\ \A t \in {"STATUS", "PING", "STATS"} : Place(t) = 0
<1>1. \A j \in 1 .. 5 : Place(SessionTypes[j]) = j
  <2> SUFFICES ASSUME NEW j \in 1 .. 5 PROVE Place(SessionTypes[j]) = j
    OBVIOUS
  <2>1. \A k \in 1 .. 5 : SessionTypes[k] = SessionTypes[j] => k = j
    BY DEF SessionTypes
  <2> QED BY <2>1 DEF Place
<1>2. \A t \in {"STATUS", "PING", "STATS"}, k \in 1 .. 5 : SessionTypes[k] # t
  BY DEF SessionTypes
<1>3. \A t \in {"STATUS", "PING", "STATS"} : Place(t) = 0
  BY <1>2 DEF Place
<1>4. /\ SessionTypes[1] = "IOSPEC" /\ SessionTypes[2] = "MODEL" /\ SessionTypes[3] = "DATA"
      /\ SessionTypes[4] = "PROCESS" /\ SessionTypes[5] = "OUTPUT"
  BY DEF SessionTypes
<1>5. 1 \in 1 .. 5 /\ 2 \in 1 .. 5 /\ 3 \in 1 .. 5 /\ 4 \in 1 .. 5 /\ 5 \in 1 .. 5
  OBVIOUS
<1> QED BY <1>1, <1>3, <1>4, <1>5

LEMMA TypesAre ==
  Types = {"STATUS", "PING", "IOSPEC", "MODEL", "DATA", "PROCESS", "OUTPUT", "STATS"}
BY DEF Types, Unsupported

\* A payload of IOSPEC has halves of the metadata for elements.
LEMMA PayloadHalves ==
  ASSUME NEW bytes \in Payloads \cup {TooLarge}, Len(bytes) = 2
  PROVE  bytes \in Payloads /\ bytes[1] \in Half /\ bytes[2] \in Half
<1>1. bytes # TooLarge
  BY DEF TooLarge
<1>2. CASE bytes = <<>>
  BY <1>2
<1>3. ASSUME NEW i \in Half, bytes = <<i>> PROVE FALSE
  BY <1>3
<1>4. ASSUME NEW i \in Half, NEW o \in Half, bytes = <<i, o>>
      PROVE  bytes[1] \in Half /\ bytes[2] \in Half
  BY <1>4
<1> QED BY <1>1, <1>2, <1>3, <1>4 DEF Payloads

Sessions == [steps : 0 .. 5, spec : ModelSpec]

\* A failed step takes the session back before it, and changes no metadata.
LEMMA BeforeStep ==
  ASSUME ServerTypeOK, NEW t \in Types, Place(t) > 0
  PROVE  /\ SessionBefore(t) \in Sessions
         /\ SessionBefore(t).steps < Place(t)
         /\ SessionBefore(t).steps <= session.steps
         /\ SessionBefore(t).steps > 0 => SessionBefore(t).spec = session.spec
<1>1. session \in Sessions
  BY DEF ServerTypeOK, Sessions
<1>2. Place(t) \in 1 .. 5
  BY PlaceOf, TypesAre
<1>3. CASE t = "IOSPEC"
  <2>1. SessionBefore(t) = NoSession
    BY <1>3 DEF SessionBefore
  <2>2. NoSession.spec \in ModelSpec
    BY ModelAssumption DEF NoSession, ModelSpec, Half
  <2> QED BY <2>1, <2>2, <1>1, <1>2 DEF NoSession, Sessions
<1>4. CASE t # "IOSPEC"
  <2> DEFINE k == IF session.steps < Place(t) THEN session.steps ELSE Place(t) - 1
  <2>1. SessionBefore(t) = [session EXCEPT !.steps = k]
    BY <1>4 DEF SessionBefore
  <2>2. k \in 0 .. 5 /\ k < Place(t) /\ k <= session.steps
    BY <1>1, <1>2 DEF Sessions
  <2> HIDE DEF k
  <2> QED BY <1>1, <2>1, <2>2 DEF Sessions
<1> QED BY <1>3, <1>4

\* A good step takes it forward, or to the place of a step that is repeated.
LEMMA AfterGoodStep ==
  ASSUME ServerTypeOK, NEW runtime, GoodStep(event, runtime), Place(event.type) > 0
  PROVE  LET after == SessionAfter(event, runtime)
         IN  /\ after \in Sessions
             /\ after.steps = Place(event.type)
             /\ event.type # "IOSPEC" => after.spec = session.spec
             /\ event.type = "IOSPEC" =>
                  /\ after.spec = [input |-> event.bytes[1], output |-> event.bytes[2]]
                  /\ Valid(after.spec) /\ Len(event.bytes) = 2
<1> DEFINE spec == IF event.type = "IOSPEC" THEN [input |-> event.bytes[1], output |-> event.bytes[2]]
                   ELSE session.spec
<1>1. SessionAfter(event, runtime) = [steps |-> Place(event.type), spec |-> spec]
  BY DEF SessionAfter
<1>2. event.type \in Types /\ event.bytes \in Payloads \cup {TooLarge} /\ session \in Sessions
  BY DEF ServerTypeOK, Events, Sessions
<1>3. Place(event.type) \in 1 .. 5
  BY <1>2, PlaceOf, TypesAre
<1>4. event.type = "IOSPEC" =>
        /\ Len(event.bytes) = 2 /\ event.bytes[1] \in ValidHalves /\ event.bytes[2] \in ValidHalves
        /\ event.bytes[1] \in Half /\ event.bytes[2] \in Half
  BY <1>2, PayloadHalves DEF GoodStep
<1>5. spec \in ModelSpec
  BY <1>2, <1>4 DEF ModelSpec, Sessions
<1> QED BY <1>1, <1>2, <1>3, <1>4, <1>5 DEF Sessions, Valid

-----------------------------------------------------------------------------
(* The callbacks.                                                          *)

Statuses == {"OK", "RUNTIME_ERROR", "INV_STATE", "INV_ARG", "CALLBACKS_ERROR"}

LEMMA Levels ==
  /\ UNINITIALIZED = 0 /\ INITIALIZED = 1 /\ STRUCT_LOADED = 2
  /\ WEIGHTS_LOADED = 3 /\ INPUT_LOADED = 4 /\ INFERENCE_DONE = 5
BY DEF UNINITIALIZED, INITIALIZED, STRUCT_LOADED, WEIGHTS_LOADED, INPUT_LOADED, INFERENCE_DONE

\* The callback of the step at place k moves the model's state to k + 1 and
\* answers with the model's status, which is success for a good step.
StepServed(k, runtime) ==
  /\ g_model_state' = IF status' = "OK" THEN k + 1 ELSE g_model_state
  /\ status' = result'.status /\ status' \in Statuses
  /\ g_model_spec' = g_model_spec /\ iospec_written' = iospec_written
  /\ resp_size' = 0
  /\ g_client_connected' = g_client_connected /\ log_backend' = log_backend
  /\ result'.size = 0
  /\ GoodStep(event, runtime) => status' = "OK"

\* What a step finds: the state is one a session of its length leads to.
LEMMA BeforeHandling ==
  ASSUME ServerInv, phase = "handle"
  PROVE  /\ g_model_state \in 1 .. 5
         /\ session.steps \in 0 .. 5
         /\ session.steps > 0 => g_model_state > session.steps \/ g_model_state = 5
         /\ session.steps > 0 /\ event.type # "IOSPEC" =>
              g_model_spec = session.spec /\ Valid(g_model_spec)
BY Levels DEF ServerInv, ServerTypeOK, TypeOK, KnowledgeRight, SessionStands

LEMMA IospecServed ==
  ASSUME ServerInv, phase = "handle", event.type = "IOSPEC", iospec_callback, NEW runtime
  PROVE  StepServed(1, runtime)
<1>1. g_model_state \in 1 .. 5
  BY BeforeHandling
<1>2. GoodStep(event, runtime) => iospec_written = 2 /\ Valid(g_model_spec)
  BY DEF GoodStep, ServerInv, EventMatchesLoaders, Valid
<1> QED BY <1>1, <1>2, Levels
        DEF iospec_callback, model_load_struct_from_loader, LoadStruct, Enters, Returns,
            Reached, NoPayload, SessionFlags, StepServed, Statuses

LEMMA ModelServed ==
  ASSUME ServerInv, phase = "handle", NEW runtime \in RuntimeStatus, model_callback(runtime)
  PROVE  StepServed(2, runtime)
<1>1. GoodStep(event, runtime) => runtime = "OK" /\ g_model_state >= 2
  BY BeforeHandling, PlaceOf DEF GoodStep, model_callback
<1> QED BY <1>1, Levels
        DEF model_callback, model_load_weights_from_loader, Enters, Returns, Reached,
            NoPayload, SessionFlags, StepServed, Statuses, RuntimeStatus

LEMMA DataServed ==
  ASSUME ServerInv, phase = "handle", NEW runtime \in RuntimeStatus, data_callback(runtime)
  PROVE  StepServed(3, runtime)
<1>1. GoodStep(event, runtime) =>
        runtime = "OK" /\ g_model_state >= 3 /\ event.size = model_get_input_size
  <2> SUFFICES ASSUME GoodStep(event, runtime)
               PROVE  runtime = "OK" /\ g_model_state >= 3 /\ event.size = model_get_input_size
    OBVIOUS
  <2>1. event.type = "DATA" /\ runtime = "OK" /\ session.steps > 1
    BY BeforeHandling, PlaceOf DEF GoodStep, data_callback
  <2>2. g_model_state >= 3 /\ g_model_spec = session.spec
    BY <2>1, BeforeHandling
  <2>3. event.sent = HalfBytes[session.spec.input] /\ event.sent \in 1 .. MaxLoaderSize
    BY <2>1 DEF GoodStep
  <2>4. event.size = event.sent
    BY <2>1, <2>3 DEF ServerInv, EventMatchesLoaders
  <2> QED BY <2>1, <2>2, <2>3, <2>4 DEF model_get_input_size
<1> QED BY <1>1, Levels
        DEF data_callback, model_load_input_from_loader, Enters, Returns, Reached,
            NoPayload, SessionFlags, StepServed, Statuses, RuntimeStatus

LEMMA ProcessServed ==
  ASSUME ServerInv, phase = "handle", NEW runtime \in RuntimeStatus, process_callback(runtime)
  PROVE  StepServed(4, runtime)
<1>1. GoodStep(event, runtime) => runtime = "OK" /\ g_model_state >= 4
  BY BeforeHandling, PlaceOf DEF GoodStep, process_callback
<1> QED BY <1>1, Levels
        DEF process_callback, model_run, Enters, Returns, Reached,
            NoPayload, SessionFlags, StepServed, Statuses, RuntimeStatus

\* OUTPUT changes nothing, and a good one is answered with the whole output.
OutputServed(runtime) ==
  /\ UNCHANGED <<g_model_state, g_model_spec, iospec_written>>
  /\ status' = "OK"
  /\ resp_size' \in 0 .. CONFIG_KENNING_RESPONSE_PAYLOAD_SIZE
  /\ result'.size \in Nat
  /\ g_client_connected' = g_client_connected /\ log_backend' = log_backend
  /\ GoodStep(event, runtime) => result'.status = "OK" /\ resp_size' = HalfBytes[session.spec.output]

LEMMA OutputCallback ==
  ASSUME ServerInv, phase = "handle", NEW runtime \in RuntimeStatus, output_callback(runtime)
  PROVE  OutputServed(runtime)
<1> DEFINE size == HalfBytes[g_model_spec.output]
<1>1. size \in Nat /\ CONFIG_KENNING_RESPONSE_PAYLOAD_SIZE \in Nat
  BY SizesAreNat, ModelAssumption
     DEF ServerInv, ServerTypeOK, TypeOK, model_get_output_size
<1>2. GoodStep(event, runtime) =>
        /\ runtime = "OK" /\ g_model_state = 5 /\ size = HalfBytes[session.spec.output]
        /\ size <= CONFIG_KENNING_RESPONSE_PAYLOAD_SIZE
  BY BeforeHandling, PlaceOf DEF GoodStep, output_callback
<1> DEFINE st == IF ~Reached(INFERENCE_DONE) THEN "INV_STATE"
                 ELSE IF CONFIG_KENNING_RESPONSE_PAYLOAD_SIZE < size
                      THEN "INV_ARG" ELSE runtime
<1>3. /\ result' = [op |-> "OUTPUT", status |-> st,
                    size |-> IF st \in RuntimeStatus THEN size ELSE 0]
      /\ UNCHANGED <<g_model_state, g_model_spec, iospec_written>>
      /\ status' = "OK" /\ resp_size' = result'.size
      /\ g_client_connected' = g_client_connected /\ log_backend' = log_backend
  BY DEF output_callback, model_get_output, model_get_output_size, GivenSize, SessionFlags
<1>4. st \in RuntimeStatus => size <= CONFIG_KENNING_RESPONSE_PAYLOAD_SIZE
  BY <1>1 DEF RuntimeStatus
<1>5. GoodStep(event, runtime) => st = "OK" /\ st \in RuntimeStatus
  BY <1>1, <1>2, Levels DEF Reached, RuntimeStatus
<1> HIDE DEF st, size
<1> QED BY <1>1, <1>2, <1>3, <1>4, <1>5 DEF OutputServed

\* The other callbacks leave the model as it is.
LEMMA OtherCallbacks ==
  ASSUME ServerInv, phase = "handle", NEW runtime \in RuntimeStatus,
         unsupported_callback \/ ping_callback \/ stats_callback(runtime)
  PROVE  /\ Place(event.type) = 0
         /\ UNCHANGED <<g_model_state, g_model_spec, iospec_written>>
         /\ result'.size \in Nat
         /\ status' \in Statuses
         /\ resp_size' = 0
<1>1. result.size \in Nat
  BY DEF ServerInv, ServerTypeOK, TypeOK
<1>2. CASE unsupported_callback
  BY <1>1, <1>2, PlaceOf DEF unsupported_callback, Unsupported, model_vars, vars, NoPayload, Statuses
<1>3. CASE ping_callback
  BY <1>1, <1>3, PlaceOf DEF ping_callback, model_vars, vars, NoPayload, Statuses
<1>4. CASE stats_callback(runtime)
  BY <1>1, <1>4, PlaceOf DEF stats_callback, model_get_statistics, Returns, GivenSize, Statuses
<1> QED BY <1>2, <1>3, <1>4

-----------------------------------------------------------------------------
(* Serving an event.                                                       *)

\* What a callback does to the model keeps the session standing: a good step
\* succeeds, and one that fails takes the session back before it.
LEMMA SessionKept ==
  ASSUME ServerInv, phase = "handle", phase' = "respond", event' = event, NEW runtime,
         session' = SessionAfter(event, runtime), g_model_spec' = g_model_spec,
         NEW k, k = Place(event.type),
         g_model_state' = g_model_state \/ (k \in 1 .. 4 /\ g_model_state' = k + 1),
         k > 0 /\ GoodStep(event, runtime) =>
           /\ status' = "OK" /\ result'.status = "OK"
           /\ k < 5 => g_model_state' = k + 1
           /\ k = 5 => resp_size' = HalfBytes[session.spec.output]
  PROVE  session' \in Sessions /\ SessionStands' /\ SessionSucceeds'
<1>1. event.type \in Types /\ session \in Sessions /\ ServerTypeOK
  BY DEF ServerInv, ServerTypeOK, Events, Sessions
<1>2. k \in 0 .. 5 /\ (event.type = "IOSPEC" <=> k = 1) /\ (event.type = "OUTPUT" <=> k = 5)
  BY <1>1, PlaceOf, TypesAre
<1>3. \A j \in 1 .. 5 : event.type = SessionTypes[j] => j = k
  BY PlaceOf DEF SessionTypes
<1>4. /\ g_model_state \in 1 .. 5 /\ session.steps \in 0 .. 5
      /\ session.steps > 0 => g_model_state > session.steps \/ g_model_state = 5
      /\ session.steps > 0 /\ k # 1 => g_model_spec = session.spec /\ Valid(session.spec)
  BY <1>2, BeforeHandling
<1>5. CASE k = 0
  <2>1. session' = session
    BY <1>5 DEF SessionAfter
  <2>2. g_model_state' = g_model_state
    BY <1>5
  <2>3. SessionStands'
    BY <1>4, <1>5, <2>1, <2>2, Levels DEF SessionStands
  <2>4. SessionSucceeds'
    BY <1>1, <1>3, <1>5, <2>1 DEF SessionSucceeds, Sessions
  <2> QED BY <1>1, <2>1, <2>3, <2>4
<1>6. CASE k > 0 /\ GoodStep(event, runtime)
  <2>1. /\ session' \in Sessions /\ session'.steps = k
        /\ k # 1 => session'.spec = session.spec
        /\ k = 1 => /\ session'.spec = [input |-> event.bytes[1], output |-> event.bytes[2]]
                    /\ Valid(session'.spec) /\ Len(event.bytes) = 2
    BY <1>1, <1>2, <1>6, AfterGoodStep
  <2>2. k <= session.steps + 1
    BY <1>6 DEF GoodStep
  <2>3. g_model_spec' = session'.spec /\ Valid(session'.spec)
    <3>1. CASE k = 1
      BY <1>2, <2>1, <3>1 DEF ServerInv, EventMatchesLoaders
    <3>2. CASE k # 1
      BY <1>2, <1>4, <1>6, <2>1, <2>2, <3>2
    <3> QED BY <3>1, <3>2
  <2>4. g_model_state' > k \/ g_model_state' = 5
    BY <1>2, <1>4, <1>6, <2>2
  <2>5. SessionStands'
    BY <2>1, <2>3, <2>4, Levels DEF SessionStands
  <2>6. SessionSucceeds'
    BY <1>2, <1>4, <1>6, <2>1, <2>2 DEF SessionSucceeds, Success
  <2> QED BY <2>1, <2>5, <2>6
<1>7. CASE k > 0 /\ ~GoodStep(event, runtime)
  <2>1. session' = SessionBefore(event.type)
    BY <1>2, <1>7 DEF SessionAfter
  <2>2. /\ session' \in Sessions /\ session'.steps < k /\ session'.steps <= session.steps
        /\ session'.steps > 0 => session'.spec = session.spec
    BY <1>1, <1>7, <2>1, BeforeStep
  <2>3. session'.steps \in 0 .. 5
    BY <2>2 DEF Sessions
  <2>4. session'.steps > 0 => k # 1 /\ session.steps > 0
    BY <1>2, <1>4, <2>2, <2>3
  <2>5. session'.steps > 0 => g_model_state' > session'.steps \/ g_model_state' = 5
    BY <1>2, <1>4, <2>2, <2>3
  <2>6. SessionStands'
    BY <1>4, <2>2, <2>4, <2>5, Levels DEF SessionStands
  <2>7. SessionSucceeds'
    BY <1>2, <1>3, <2>2, <2>3 DEF SessionSucceeds
  <2> QED BY <2>2, <2>6, <2>7
<1> QED BY <1>2, <1>5, <1>6, <1>7

\* What the client will conclude from the answer is what the callback did.
LEMMA KnowledgeKept ==
  ASSUME ServerInv, phase = "handle", phase' = "respond", event' = event, known' = known,
         \/ event.type \in DOMAIN StateAfter /\ status' = "OK"
            /\ g_model_state' = StateAfter[event.type]
         \/ event.type \in DOMAIN StateAfter /\ status' # "OK" /\ g_model_state' = g_model_state
         \/ event.type \notin DOMAIN StateAfter /\ g_model_state' = g_model_state,
         g_client_connected' = IF event.type = "PING" /\ (event.success \/ event.fail)
                               THEN event.success ELSE g_client_connected
  PROVE  KnowledgeRight'
<1>1. g_model_state \in known.states /\ known.connected = g_client_connected
  BY DEF ServerInv, KnowledgeRight
<1>2. g_model_state' \in KnownAfter(event, Success)'.states
  BY <1>1 DEF KnownAfter, Success
<1>3. KnownAfter(event, Success)'.connected = g_client_connected'
  BY <1>1 DEF KnownAfter
<1> QED BY <1>2, <1>3 DEF KnowledgeRight

LEMMA StateAfterIs ==
  /\ DOMAIN StateAfter = {"IOSPEC", "MODEL", "DATA", "PROCESS"}
  /\ \A k \in 1 .. 4 : SessionTypes[k] \in DOMAIN StateAfter /\ StateAfter[SessionTypes[k]] = k + 1
BY Levels DEF StateAfter, SessionTypes

\* The flags of the session.
LEMMA FlagsKept ==
  ASSUME ServerInv, phase = "handle", NEW runtime \in RuntimeStatus, Handle(runtime)
  PROVE  /\ g_client_connected' = IF event.type = "PING" /\ (event.success \/ event.fail)
                                  THEN event.success ELSE g_client_connected
         /\ g_client_connected' \in BOOLEAN
         /\ log_backend' = g_client_connected'
<1>1. /\ g_client_connected \in BOOLEAN /\ log_backend = g_client_connected
      /\ event.success \in BOOLEAN /\ event.fail \in BOOLEAN
  BY DEF ServerInv, ServerTypeOK, LogsFollowSession, Events
<1>2. CASE ping_callback
  BY <1>1, <1>2 DEF ping_callback, StaysConnected, LoggerAfterFail
<1>3. CASE event.type # "PING" /\ UNCHANGED SessionFlags
  BY <1>1, <1>3 DEF SessionFlags
<1>4. ping_callback \/ (event.type # "PING" /\ UNCHANGED SessionFlags)
  BY DEF Handle, unsupported_callback, Unsupported, iospec_callback, model_callback,
         data_callback, process_callback, output_callback, stats_callback
<1> QED BY <1>2, <1>3, <1>4

LEMMA HandleStep ==
  ASSUME ServerInv, NEW runtime \in RuntimeStatus, Handle(runtime)
  PROVE  ServerInv'
<1> DEFINE k == Place(event.type)
<1>0. /\ phase = "handle" /\ phase' = "respond" /\ session' = SessionAfter(event, runtime)
      /\ event' = event /\ data_written' = data_written /\ known' = known
  BY DEF Handle
<1>a. ServerTypeOK /\ TypeOK /\ event.type \in Types /\ g_model_state \in 0 .. 5
  BY Levels DEF ServerInv, ServerTypeOK, TypeOK, Events
<1>b. 0 \in 0 .. CONFIG_KENNING_RESPONSE_PAYLOAD_SIZE
  BY ModelAssumption
<1>1. /\ g_model_spec' = g_model_spec /\ iospec_written' = iospec_written
      /\ status' \in Statuses /\ resp_size' \in 0 .. CONFIG_KENNING_RESPONSE_PAYLOAD_SIZE
      /\ result'.size \in Nat
      /\ \/ k \in 1 .. 4 /\ event.type = SessionTypes[k] /\ StepServed(k, runtime)
         \/ k = 5 /\ OutputServed(runtime) /\ event.type = "OUTPUT"
         \/ k = 0 /\ g_model_state' = g_model_state
  <2>1. CASE iospec_callback
    <3>1. k = 1 /\ event.type = SessionTypes[1]
      BY <2>1, PlaceOf DEF iospec_callback, SessionTypes
    <3>2. StepServed(1, runtime)
      BY <1>0, <2>1, IospecServed DEF iospec_callback
    <3> QED BY <1>b, <3>1, <3>2 DEF StepServed
  <2>2. CASE model_callback(runtime)
    <3>1. k = 2 /\ event.type = SessionTypes[2]
      BY <2>2, PlaceOf DEF model_callback, SessionTypes
    <3> QED BY <1>0, <1>b, <2>2, <3>1, ModelServed DEF StepServed
  <2>3. CASE data_callback(runtime)
    <3>1. k = 3 /\ event.type = SessionTypes[3]
      BY <2>3, PlaceOf DEF data_callback, SessionTypes
    <3> QED BY <1>0, <1>b, <2>3, <3>1, DataServed DEF StepServed
  <2>4. CASE process_callback(runtime)
    <3>1. k = 4 /\ event.type = SessionTypes[4]
      BY <2>4, PlaceOf DEF process_callback, SessionTypes
    <3> QED BY <1>0, <1>b, <2>4, <3>1, ProcessServed DEF StepServed
  <2>5. CASE output_callback(runtime)
    <3>1. k = 5 /\ event.type = "OUTPUT"
      BY <2>5, PlaceOf DEF output_callback
    <3> QED BY <1>0, <2>5, <3>1, OutputCallback DEF OutputServed, Statuses
  <2>6. CASE unsupported_callback \/ ping_callback \/ stats_callback(runtime)
    BY <1>0, <1>b, <2>6, OtherCallbacks
  <2> QED BY <2>1, <2>2, <2>3, <2>4, <2>5, <2>6 DEF Handle
<1>2. k \in 0 .. 5
  BY <1>a, PlaceOf, TypesAre
<1>3. session' \in Sessions /\ SessionStands' /\ SessionSucceeds'
  <2>1. g_model_state' = g_model_state \/ (k \in 1 .. 4 /\ g_model_state' = k + 1)
    BY <1>1 DEF StepServed, OutputServed
  <2>2. k > 0 /\ GoodStep(event, runtime) =>
          /\ status' = "OK" /\ result'.status = "OK"
          /\ k < 5 => g_model_state' = k + 1
          /\ k = 5 => resp_size' = HalfBytes[session.spec.output]
    BY <1>1 DEF StepServed, OutputServed
  <2> HIDE DEF k
  <2>3. k = Place(event.type)
    BY DEF k
  <2> QED BY <1>0, <1>1, <2>1, <2>2, <2>3, SessionKept
<1>4. KnowledgeRight'
  <2>1. CASE k \in 1 .. 4 /\ event.type = SessionTypes[k] /\ StepServed(k, runtime)
    <3>1. event.type \in DOMAIN StateAfter /\ StateAfter[event.type] = k + 1
      BY <2>1, StateAfterIs
    <3> QED BY <1>0, <2>1, <3>1, FlagsKept, KnowledgeKept DEF StepServed
  <2>2. CASE k \notin 1 .. 4 /\ g_model_state' = g_model_state
    <3>1. event.type \notin DOMAIN StateAfter
      BY <2>2, StateAfterIs, PlaceOf
    <3> QED BY <1>0, <2>2, <3>1, FlagsKept, KnowledgeKept
  <2> QED BY <1>1, <1>2, <2>1, <2>2 DEF OutputServed
<1>5. TypeOK'
  <2>1. g_model_state' \in 0 .. 5
    BY <1>1, <1>a DEF StepServed, OutputServed
  <2> QED BY <1>1, <1>a, <2>1, Levels DEF TypeOK
<1>6. ServerTypeOK'
  <2>1. g_client_connected' \in BOOLEAN /\ log_backend' \in BOOLEAN
    BY <1>0, FlagsKept
  <2> QED BY <1>0, <1>1, <1>3, <1>5, <1>a, <2>1 DEF ServerTypeOK, Statuses, Sessions
<1>7. LogsFollowSession' /\ EventMatchesLoaders'
  BY <1>0, FlagsKept DEF LogsFollowSession, EventMatchesLoaders
<1> QED BY <1>3, <1>4, <1>6, <1>7 DEF ServerInv

-----------------------------------------------------------------------------
(* The other steps: the server starts, an event arrives or is lost, an     *)
(* answer is sent.                                                         *)

LEMMA InitServerInv == ServerInit => ServerInv
<1> SUFFICES ASSUME ServerInit PROVE ServerInv
  OBVIOUS
<1>1. TypeOK
  BY InitType DEF ServerInit
<1>2. NoEvent \in Events /\ NoSession \in Sessions
  BY ModelAssumption
     DEF NoEvent, Events, Types, Unsupported, Payloads, NoSession, Sessions, ModelSpec, Half
<1>3. ServerTypeOK
  <2>1. known \in [states : SUBSET (INITIALIZED .. INFERENCE_DONE), connected : BOOLEAN]
    <3>1. {INITIALIZED} \in SUBSET (INITIALIZED .. INFERENCE_DONE)
      BY Levels
    <3> QED BY <3>1 DEF ServerInit
  <2>2. resp_size \in 0 .. CONFIG_KENNING_RESPONSE_PAYLOAD_SIZE /\ data_written \in 0 .. MaxLoaderSize
    BY ModelAssumption DEF ServerInit
  <2> QED BY <1>1, <1>2, <2>1, <2>2 DEF ServerInit, ServerTypeOK, Sessions
<1>4. phase = "start"
  BY DEF ServerInit
<1>5. KnowledgeRight /\ LogsFollowSession
  BY <1>4 DEF ServerInit, KnowledgeRight, LogsFollowSession
<1>6. SessionStands
  <2>1. session.steps = 0
    BY DEF ServerInit, NoSession
  <2> QED BY <1>4, <2>1 DEF SessionStands
<1>7. EventMatchesLoaders /\ SessionSucceeds
  BY <1>4 DEF EventMatchesLoaders, SessionSucceeds
<1> QED BY <1>3, <1>5, <1>6, <1>7 DEF ServerInv

LEMMA InitServerStep ==
  ASSUME ServerInv, NEW ok \in BOOLEAN, NEW st \in RuntimeStatus, InitServer(ok, st)
  PROVE  ServerInv'
<1>1. /\ phase = "start" /\ phase' \in {"listen", "returned"}
      /\ UNCHANGED <<event, status, resp_size, data_written, g_client_connected,
                     log_backend, known, session>>
  BY DEF InitServer
<1>2. TypeOK'
  <2>1. CASE UNCHANGED model_vars
    BY <2>1 DEF model_vars, vars, ServerInv, ServerTypeOK, TypeOK
  <2>2. CASE model_init(st)
    BY <2>2, InitAction DEF ServerInv, ServerTypeOK
  <2> QED BY <2>1, <2>2 DEF InitServer
<1>3. phase' = "listen" => g_model_state' = INITIALIZED
  BY DEF InitServer, model_init, Enters
<1>4. KnowledgeRight'
  <2>1. known' = [states |-> {INITIALIZED}, connected |-> FALSE] /\ g_client_connected' = FALSE
    BY <1>1 DEF ServerInv, KnowledgeRight
  <2>2. phase' # "start" /\ phase' # "respond" /\ phase' # "handle"
    BY <1>1
  <2> QED BY <1>3, <2>1, <2>2 DEF KnowledgeRight
<1>5. session'.steps = 0
  BY <1>1 DEF ServerInv, SessionStands
<1>6. ServerTypeOK'
  BY <1>1, <1>2 DEF ServerInv, ServerTypeOK
<1> QED BY <1>1, <1>4, <1>5, <1>6 DEF ServerInv, LogsFollowSession, SessionStands,
                                  EventMatchesLoaders, SessionSucceeds

\* An event that is received changes nothing but what its loader holds.
LEMMA ReceiveStep ==
  ASSUME ServerInv, NEW e \in Events, Receive(e), TypeOK',
         g_model_state' = g_model_state, data_written' \in 0 .. MaxLoaderSize,
         e.type = "IOSPEC" \/ UNCHANGED model_vars,
         EventMatchesLoaders'
  PROVE  ServerInv'
<1>1. /\ phase = "listen" /\ phase' = "handle" /\ event' = e
      /\ UNCHANGED <<status, resp_size, g_client_connected, log_backend, known, session>>
  BY DEF Receive
<1>2. ServerTypeOK'
  BY <1>1 DEF ServerInv, ServerTypeOK
<1>3. KnowledgeRight'
  BY <1>1 DEF ServerInv, KnowledgeRight
<1>4. SessionStands'
  BY <1>1 DEF ServerInv, SessionStands, model_vars, vars
<1> QED BY <1>1, <1>2, <1>3, <1>4 DEF ServerInv, LogsFollowSession, SessionSucceeds

LEMMA PlainEvents ==
  ASSUME NEW t \in Types, NEW r \in BOOLEAN
  PROVE  /\ Plain(t, r) \in Events
         /\ Plain(t, r).type = t /\ Plain(t, r).sent = 0 /\ Plain(t, r).bytes = <<>>
<1>1. NoEvent \in Events
  BY TypesAre DEF NoEvent, Events, Payloads
<1>2. Plain(t, r) \in Events
  BY <1>1 DEF Plain, Events
<1>3. Plain(t, r).type = t
  BY <1>1 DEF Plain, Events
<1>4. Plain(t, r).sent = 0
  BY DEF Plain, NoEvent
<1>5. Plain(t, r).bytes = <<>>
  BY DEF Plain, NoEvent
<1> QED BY <1>2, <1>3, <1>4, <1>5

\* Bytes of an IOSPEC series, whichever arrive.
LEMMA IospecBytes ==
  ASSUME ServerInv, NEW bytes \in Payloads, ReceiveIospec(bytes)
  PROVE  /\ TypeOK' /\ g_model_state' = g_model_state
         /\ Len(bytes) = 2 => /\ iospec_written' = 2
                              /\ g_model_spec' = [input |-> bytes[1], output |-> bytes[2]]
<1>1. TypeOK /\ g_model_spec \in ModelSpec
  BY DEF ServerInv, ServerTypeOK, TypeOK
<1>2. /\ g_model_spec' = Written(bytes) /\ iospec_written' = Len(bytes)
      /\ g_model_state' = g_model_state /\ result' = result
  BY DEF ReceiveIospec, iospec_loader
<1>3. Len(bytes) = 2 => Written(bytes) = [input |-> bytes[1], output |-> bytes[2]]
  <2> SUFFICES ASSUME Len(bytes) = 2
               PROVE  Written(bytes) = [input |-> bytes[1], output |-> bytes[2]]
    OBVIOUS
  <2> DEFINE spec == [g_model_spec EXCEPT !.input = bytes[1], !.output = bytes[2]]
  <2>1. Written(bytes) = spec
    BY DEF Written
  <2>2. spec \in ModelSpec
    BY <1>1, <2>1, WrittenType
  <2>3. spec.input = bytes[1]
    BY <1>1 DEF ModelSpec
  <2>4. spec.output = bytes[2]
    BY <1>1 DEF ModelSpec
  <2> HIDE DEF spec
  <2>5. spec = [input |-> spec.input, output |-> spec.output]
    BY <2>2 DEF ModelSpec
  <2> QED BY <2>1, <2>3, <2>4, <2>5
<1> QED BY <1>1, <1>2, <1>3, WrittenType DEF TypeOK

LEMMA ReceivePlainStep ==
  ASSUME ServerInv, NEW t \in Types \ {"PING", "IOSPEC", "DATA"}, NEW r \in BOOLEAN,
         ReceivePlain(t, r)
  PROVE  ServerInv'
<1>1. /\ Receive(Plain(t, r)) /\ UNCHANGED model_vars /\ data_written' = data_written
      /\ event' = Plain(t, r)
  BY DEF ReceivePlain, Receive
<1>2. TypeOK' /\ g_model_state' = g_model_state /\ data_written' \in 0 .. MaxLoaderSize
  BY <1>1 DEF ServerInv, ServerTypeOK, TypeOK, model_vars, vars
<1>3. EventMatchesLoaders'
  BY <1>1, PlainEvents DEF EventMatchesLoaders
<1> QED BY <1>1, <1>2, <1>3, PlainEvents, ReceiveStep

LEMMA ReceivePingStep ==
  ASSUME ServerInv, NEW r \in BOOLEAN, NEW s \in BOOLEAN, NEW f \in BOOLEAN,
         ReceivePing(r, s, f)
  PROVE  ServerInv'
<1> DEFINE e == [Plain("PING", r) EXCEPT !.success = s, !.fail = f]
<1>1. /\ Receive(e) /\ UNCHANGED model_vars /\ data_written' = data_written /\ event' = e
  BY DEF ReceivePing, Receive
<1>2. e \in Events /\ e.type = "PING"
  <2>1. Plain("PING", r) \in Events /\ Plain("PING", r).type = "PING"
    BY TypesAre, PlainEvents
  <2>2. e \in Events
    BY <2>1 DEF Events
  <2>3. e.type = "PING"
    BY <2>1 DEF Events
  <2> QED BY <2>2, <2>3
<1>3. TypeOK' /\ g_model_state' = g_model_state /\ data_written' \in 0 .. MaxLoaderSize
  BY <1>1 DEF ServerInv, ServerTypeOK, TypeOK, model_vars, vars
<1>4. EventMatchesLoaders'
  BY <1>1, <1>2 DEF EventMatchesLoaders
<1> HIDE DEF e
<1> QED BY <1>1, <1>2, <1>3, <1>4, ReceiveStep

LEMMA ReceiveIospecStep ==
  ASSUME ServerInv, NEW bytes \in Payloads \cup {TooLarge}, NEW r \in BOOLEAN,
         ReceiveIospecEvent(bytes, r)
  PROVE  ServerInv'
<1> DEFINE e == [Plain("IOSPEC", r) EXCEPT !.bytes = bytes]
<1>1. Receive(e) /\ data_written' = data_written /\ event' = e
  BY DEF ReceiveIospecEvent, Receive
<1>2. e \in Events /\ e.type = "IOSPEC" /\ e.bytes = bytes
  <2>1. Plain("IOSPEC", r) \in Events /\ Plain("IOSPEC", r).type = "IOSPEC"
    BY TypesAre, PlainEvents
  <2>2. e \in Events
    BY <2>1 DEF Events
  <2>3. e.type = "IOSPEC"
    BY <2>1 DEF Events
  <2>4. e.bytes = bytes
    BY <2>1 DEF Events
  <2> QED BY <2>2, <2>3, <2>4
<1>3. /\ TypeOK' /\ g_model_state' = g_model_state
      /\ Len(bytes) = 2 => /\ iospec_written' = 2
                           /\ g_model_spec' = [input |-> bytes[1], output |-> bytes[2]]
  <2>1. CASE bytes # TooLarge /\ ReceiveIospec(bytes)
    BY <2>1, IospecBytes
  <2>2. CASE bytes = TooLarge /\ \E part \in Payloads : ReceiveIospec(part)
    <3>1. Len(bytes) # 2
      BY <2>2 DEF TooLarge
    <3> QED BY <2>2, <3>1, IospecBytes
  <2>3. CASE bytes = <<>> /\ UNCHANGED model_vars
    <3>1. Len(bytes) # 2
      BY <2>3
    <3> QED BY <2>3, <3>1 DEF ServerInv, ServerTypeOK, TypeOK, model_vars, vars
  <2> QED BY <2>1, <2>2, <2>3 DEF ReceiveIospecEvent
<1>4. data_written' \in 0 .. MaxLoaderSize
  BY <1>1 DEF ServerInv, ServerTypeOK
<1>5. EventMatchesLoaders'
  BY <1>1, <1>2, <1>3 DEF EventMatchesLoaders
<1> HIDE DEF e
<1> QED BY <1>1, <1>2, <1>3, <1>4, <1>5, ReceiveStep

LEMMA ReceiveDataStep ==
  ASSUME ServerInv, NEW size \in LoaderSizes, NEW r \in BOOLEAN, ReceiveData(size, r)
  PROVE  ServerInv'
<1> DEFINE e == [Plain("DATA", r) EXCEPT !.size = data_written', !.sent = size]
<1>1. Receive(e) /\ UNCHANGED model_vars /\ event' = e
  BY DEF ReceiveData, Receive
<1>2. size \in Nat /\ MaxLoaderSize \in Nat
  BY ModelAssumption
<1>3. /\ data_written' \in 0 .. MaxLoaderSize
      /\ size # 0 /\ size <= MaxLoaderSize => data_written' = size
  <2>1. data_written \in 0 .. MaxLoaderSize
    BY DEF ServerInv, ServerTypeOK
  <2> QED BY <1>2, <2>1 DEF ReceiveData
<1>4. e \in Events /\ e.type = "DATA" /\ e.sent = size /\ e.size = data_written'
  <2>1. Plain("DATA", r) \in Events /\ Plain("DATA", r).type = "DATA" /\ data_written' \in Nat
    BY <1>2, <1>3, TypesAre, PlainEvents
  <2>2. e \in Events
    BY <1>2, <2>1 DEF Events
  <2>3. e.type = "DATA"
    BY <2>1 DEF Events
  <2>4. e.sent = size
    BY <2>1 DEF Events
  <2>5. e.size = data_written'
    BY <2>1 DEF Events
  <2> QED BY <2>2, <2>3, <2>4, <2>5
<1>5. TypeOK' /\ g_model_state' = g_model_state
  BY <1>1 DEF ServerInv, ServerTypeOK, TypeOK, model_vars, vars
<1>6. EventMatchesLoaders'
  BY <1>1, <1>3, <1>4 DEF EventMatchesLoaders
<1> HIDE DEF e
<1> QED BY <1>1, <1>3, <1>4, <1>5, <1>6, ReceiveStep

LEMMA LoseStep ==
  ASSUME ServerInv, NEW t \in {"IOSPEC", "DATA", "MODEL"}, Lose(t)
  PROVE  ServerInv'
<1>1. /\ phase = "listen" /\ session' = SessionBefore(t)
      /\ UNCHANGED <<phase, event, status, resp_size, g_client_connected, log_backend, known>>
  BY DEF Lose
<1>2. ServerTypeOK /\ TypeOK /\ t \in Types /\ Place(t) \in 1 .. 3 /\ (t = "IOSPEC" => Place(t) = 1)
  BY PlaceOf, TypesAre DEF ServerInv, ServerTypeOK
<1>3. /\ TypeOK' /\ g_model_state' = g_model_state
      /\ t # "IOSPEC" => g_model_spec' = g_model_spec
      /\ data_written' \in 0 .. MaxLoaderSize
  <2>1. CASE t = "IOSPEC" /\ (\E part \in Payloads : ReceiveIospec(part)) /\ UNCHANGED data_written
    BY <1>2, <2>1, IospecBytes DEF ServerTypeOK
  <2>2. CASE UNCHANGED model_vars /\ data_written' \in 0 .. MaxLoaderSize
    BY <1>2, <2>2 DEF TypeOK, model_vars, vars
  <2>3. CASE UNCHANGED <<model_vars, data_written>>
    BY <1>2, <2>3 DEF ServerTypeOK, TypeOK, model_vars, vars
  <2> QED BY <2>1, <2>2, <2>3 DEF Lose
<1>4. /\ session' \in Sessions /\ session'.steps < Place(t) /\ session'.steps <= session.steps
      /\ session'.steps > 0 => session'.spec = session.spec
  BY <1>1, <1>2, BeforeStep
<1>5. g_model_state \in 0 .. 5 /\ session.steps \in 0 .. 5 /\ session'.steps \in 0 .. 5
  BY <1>2, <1>4, Levels DEF ServerTypeOK, TypeOK, Sessions
<1>6. SessionStands'
  BY <1>1, <1>2, <1>3, <1>4, <1>5, Levels DEF ServerInv, SessionStands
<1>7. ServerTypeOK'
  BY <1>1, <1>2, <1>3, <1>4 DEF ServerTypeOK, Sessions
<1>8. KnowledgeRight'
  BY <1>1, <1>3 DEF ServerInv, KnowledgeRight
<1> QED BY <1>1, <1>6, <1>7, <1>8 DEF ServerInv, LogsFollowSession, EventMatchesLoaders, SessionSucceeds

LEMMA RespondStep ==
  ASSUME ServerInv, Respond
  PROVE  ServerInv'
<1>1. /\ phase = "respond" /\ phase' = "listen" /\ known' = KnownAfter(event, Success)
      /\ event' = NoEvent /\ status' = "OK" /\ resp_size' = 0
      /\ UNCHANGED <<model_vars, data_written, g_client_connected, log_backend, session>>
  BY DEF Respond
<1>2. known' \in [states : SUBSET (INITIALIZED .. INFERENCE_DONE), connected : BOOLEAN]
  <2>1. \A t \in DOMAIN StateAfter : StateAfter[t] \in INITIALIZED .. INFERENCE_DONE
    BY Levels DEF StateAfter
  <2>2. /\ known.states \in SUBSET (INITIALIZED .. INFERENCE_DONE) /\ known.connected \in BOOLEAN
        /\ event.success \in BOOLEAN
    BY DEF ServerInv, ServerTypeOK, Events
  <2>3. KnownAfter(event, Success).states \in SUBSET (INITIALIZED .. INFERENCE_DONE)
    BY <2>1, <2>2 DEF KnownAfter
  <2>4. KnownAfter(event, Success).connected \in BOOLEAN
    BY <2>2 DEF KnownAfter
  <2>5. KnownAfter(event, Success) = [states    |-> KnownAfter(event, Success).states,
                                     connected |-> KnownAfter(event, Success).connected]
    BY DEF KnownAfter
  <2> QED BY <1>1, <2>3, <2>4, <2>5
<1>3. TypeOK'
  BY <1>1 DEF ServerInv, ServerTypeOK, TypeOK, model_vars, vars
<1>4. NoEvent \in Events /\ 0 \in 0 .. CONFIG_KENNING_RESPONSE_PAYLOAD_SIZE
  BY ModelAssumption DEF NoEvent, Events, Types, Unsupported, Payloads
<1>5. ServerTypeOK'
  BY <1>1, <1>2, <1>3, <1>4 DEF ServerInv, ServerTypeOK
<1>6. KnowledgeRight'
  BY <1>1 DEF ServerInv, KnowledgeRight, model_vars, vars
<1>7. SessionStands'
  BY <1>1 DEF ServerInv, SessionStands, model_vars, vars
<1> QED BY <1>1, <1>5, <1>6, <1>7 DEF ServerInv, LogsFollowSession, EventMatchesLoaders, SessionSucceeds

LEMMA ServerStep ==
  ASSUME ServerInv, [ServerNext]_server_vars
  PROVE  ServerInv'
<1>1. ASSUME NEW ok \in BOOLEAN, NEW st \in RuntimeStatus, InitServer(ok, st)
      PROVE  ServerInv'
  BY <1>1, InitServerStep
<1>2. ASSUME NEW r \in BOOLEAN, NEW t \in Types \ {"PING", "IOSPEC", "DATA"}, ReceivePlain(t, r)
      PROVE  ServerInv'
  BY <1>2, ReceivePlainStep
<1>3. ASSUME NEW r \in BOOLEAN, NEW s \in BOOLEAN, NEW f \in BOOLEAN, ReceivePing(r, s, f)
      PROVE  ServerInv'
  BY <1>3, ReceivePingStep
<1>4. ASSUME NEW r \in BOOLEAN, NEW bytes \in Payloads \cup {TooLarge}, ReceiveIospecEvent(bytes, r)
      PROVE  ServerInv'
  BY <1>4, ReceiveIospecStep
<1>5. ASSUME NEW r \in BOOLEAN, NEW size \in LoaderSizes, ReceiveData(size, r)
      PROVE  ServerInv'
  BY <1>5, ReceiveDataStep
<1>6. ASSUME NEW t \in {"IOSPEC", "DATA", "MODEL"}, Lose(t)
      PROVE  ServerInv'
  BY <1>6, LoseStep
<1>7. ASSUME NEW st \in RuntimeStatus, Handle(st)
      PROVE  ServerInv'
  BY <1>7, HandleStep
<1>8. CASE Respond
  BY <1>8, RespondStep
<1>9. CASE UNCHANGED server_vars
  <2>1. UNCHANGED <<g_model_state, g_model_spec, iospec_written, result, phase, event, status,
                    resp_size, data_written, g_client_connected, log_backend, known, session>>
    BY <1>9 DEF server_vars, model_vars, vars
  <2>2. ServerTypeOK'
    BY <2>1 DEF ServerInv, ServerTypeOK, TypeOK
  <2>3. KnowledgeRight' /\ LogsFollowSession'
    BY <2>1 DEF ServerInv, KnowledgeRight, KnownAfter, Success, LogsFollowSession
  <2>4. SessionStands' /\ EventMatchesLoaders' /\ SessionSucceeds'
    BY <2>1 DEF ServerInv, SessionStands, EventMatchesLoaders, SessionSucceeds, Success
  <2> QED BY <2>2, <2>3, <2>4 DEF ServerInv
<1> QED BY <1>1, <1>2, <1>3, <1>4, <1>5, <1>6, <1>7, <1>8, <1>9 DEF ServerNext

\* What the server does to the model are steps of the model.
LEMMA ServerSimulates ==
  ASSUME ServerInv, [ServerNext]_server_vars
  PROVE  Simulates
<1>1. TypeOK
  BY DEF ServerInv, ServerTypeOK
<1>2. CASE UNCHANGED model_vars
  BY <1>2 DEF model_vars, vars, Simulates, DoneSteps
<1>3. CASE \E bytes \in Payloads : ReceiveIospec(bytes)
  BY <1>1, <1>3, NextAction DEF Next
<1>4. ASSUME NEW st \in RuntimeStatus, model_init(st)
      PROVE  Simulates
  BY <1>1, <1>4, InitAction
<1>5. ASSUME NEW st \in RuntimeStatus, Handle(st)
      PROVE  Simulates
  <2>1. CASE unsupported_callback \/ ping_callback
    BY <1>2, <2>1 DEF unsupported_callback, ping_callback
  <2>2. CASE iospec_callback
    BY <1>1, <2>2, NextAction DEF iospec_callback, Next
  <2>3. CASE model_callback(st)
    BY <1>1, <2>3, WeightsAction DEF model_callback
  <2>4. CASE data_callback(st)
    BY <1>1, <2>4, InputAction DEF data_callback
  <2>5. CASE process_callback(st)
    BY <1>1, <2>5, RunAction DEF process_callback
  <2>6. CASE output_callback(st)
    BY <1>1, <2>6, OutputAction DEF output_callback
  <2>7. CASE stats_callback(st)
    BY <1>1, <2>7, StatsAction DEF stats_callback
  <2> QED BY <1>5, <2>1, <2>2, <2>3, <2>4, <2>5, <2>6, <2>7 DEF Handle
<1>6. ASSUME NEW ok \in BOOLEAN, NEW st \in RuntimeStatus, InitServer(ok, st)
      PROVE  Simulates
  BY <1>2, <1>4, <1>6 DEF InitServer
<1>7. ASSUME NEW r \in BOOLEAN, NEW bytes \in Payloads \cup {TooLarge}, ReceiveIospecEvent(bytes, r)
      PROVE  Simulates
  <2>1. bytes # TooLarge => bytes \in Payloads
    OBVIOUS
  <2> QED BY <1>2, <1>3, <1>7, <2>1 DEF ReceiveIospecEvent
<1>8. ASSUME NEW t, Lose(t)
      PROVE  Simulates
  BY <1>2, <1>3, <1>8 DEF Lose
<1>9. CASE Respond \/ UNCHANGED server_vars
  BY <1>2, <1>9 DEF Respond, server_vars
<1>10. ASSUME NEW r \in BOOLEAN,
              \/ \E type \in Types \ {"PING", "IOSPEC", "DATA"} : ReceivePlain(type, r)
              \/ \E s, f \in BOOLEAN : ReceivePing(r, s, f)
              \/ \E size \in LoaderSizes : ReceiveData(size, r)
       PROVE  Simulates
  BY <1>2, <1>10 DEF ReceivePlain, ReceivePing, ReceiveData
<1> QED BY <1>5, <1>6, <1>7, <1>8, <1>9, <1>10 DEF ServerNext

\* The invariant of the server: its steps keep all its parts together.
THEOREM ServerInvariant == ServerSpec => []ServerInv
<1>1. ServerInit => ServerInv
  BY InitServerInv
<1>2. ServerInv /\ [ServerNext]_server_vars => ServerInv'
  BY ServerStep
<1> QED BY <1>1, <1>2, PTL DEF ServerSpec

\* The server's variables keep to their types: an answer never claims more
\* than the response buffer, the DATA loader never more than its own.
THEOREM ServerTypeCorrect == ServerSpec => []ServerTypeOK
<1>1. ServerInv => ServerTypeOK
  BY DEF ServerInv
<1> QED BY <1>1, ServerInvariant, PTL

\* The answers alone tell a client the model's state and whether it is
\* connected, although OUTPUT and STATS drop the model's status, whatever is
\* refused, lost or repeated.
THEOREM AnswersSuffice == ServerSpec => []ClientKnowsState
<1>1. ServerInv => ClientKnowsState
  BY DEF ServerInv, KnowledgeRight, ClientKnowsState
<1> QED BY <1>1, ServerInvariant, PTL

\* ping_callback turns the log backend on and off exactly with the session.
THEOREM LoggingFollows == ServerSpec => []LogsFollowSession
<1>1. ServerInv => LogsFollowSession
  BY DEF ServerInv
<1> QED BY <1>1, ServerInvariant, PTL

\* An inference whose steps are taken in order succeeds, whatever went before
\* it and whatever is sent between its steps.
THEOREM SessionsSucceed == ServerSpec => []SessionSucceeds
<1>1. ServerInv => SessionSucceeds
  BY DEF ServerInv
<1> QED BY <1>1, ServerInvariant, PTL

\* Behind the callbacks the model still keeps to the order of its steps: no
\* message, however formed or cut off, takes it where its own functions
\* could not, and bytes that only arrive in the metadata are no step.
THEOREM ServerKeepsOrder == ServerSpec => ImplementsSteps
<1> DEFINE answer == [op |-> result.op, served |-> result.status = "OK" /\ result.op # "none"]
<1>1. ServerInit => Abstract!Init
  BY InitSteps DEF ServerInit
<1>2. ServerInv /\ [ServerNext]_server_vars => [Abstract!Next]_<<DoneSteps, answer>>
  BY ServerSimulates DEF Simulates
<1> QED BY <1>1, <1>2, ServerInvariant, PTL DEF ServerSpec, ImplementsSteps, Abstract!Spec

-----------------------------------------------------------------------------
(* LlextRuntime.                                                           *)

\* An upload goes on, or is complete, only where there is no extension, and
\* a complete one is in a buffer.
Uploads ==
  /\ remaining > 0 \/ image = "whole" => ~ext
  /\ image = "whole" => ldr.addr

\* What MODEL accepted is a graph, or no model is loaded.
AcceptedIsGraph == loaded /\ model_ok /\ Reached(WEIGHTS_LOADED) => accepted # NULL

LInv ==
  /\ LlextTypeOK /\ HeapAccounted /\ Uploads
  /\ OneExtensionInUse /\ CrashesAfterFailuresOnly
  /\ RunsAcceptedModel /\ AcceptedIsGraph

Loaders == [addr : BOOLEAN, written : Nat, max_size : 0 .. HeapSize]
Remainders == {0} \cup UNION {1 .. size : size \in RuntimeSizes}

LEMMA RemainderIs ==
  /\ 0 \in Remainders
  /\ \A size \in RuntimeSizes : \A r \in 1 .. size : r \in Remainders
<1>1. 0 \in Remainders
  BY DEF Remainders
<1>2. ASSUME NEW size \in RuntimeSizes, NEW r \in 1 .. size
      PROVE  r \in Remainders
  <2>1. 1 .. size \in {1 .. sz : sz \in RuntimeSizes}
    OBVIOUS
  <2> QED BY <2>1 DEF Remainders
<1> QED BY <1>1, <1>2

\* What save_runtime does to the loader: it never writes past the buffer,
\* keeps one it has, has one after it took a chunk, and what it allocates is
\* all of it.
LEMMA SaveRuntime ==
  ASSUME LlextTypeOK, HeapAccounted, NEW n \in Nat, NEW field \in 0 .. HeapSize + 1
  PROVE  LET saved == save_runtime(n, field)
         IN  /\ saved.loader \in Loaders
             /\ saved.loader.written <= saved.loader.max_size
             /\ heap_used + saved.allocated
                  = IF saved.loader.addr THEN saved.loader.max_size ELSE 0
             /\ ldr.addr \/ ~saved.refused => saved.loader.addr
<1> DEFINE saved == save_runtime(n, field)
           free == HeapSize - heap_used
           new == [addr |-> TRUE, written |-> 0, max_size |-> field]
           rest == n - RUNTIME_SIZE_FIELD_SIZE
<1>1. /\ ldr \in Loaders /\ ldr.written <= ldr.max_size
      /\ HeapSize \in Nat /\ heap_used = IF ldr.addr THEN ldr.max_size ELSE 0
  BY LlextAssumption DEF LlextTypeOK, HeapAccounted, Loaders
\* Saving into a buffer.
<1>2. ASSUME NEW l \in Loaders, l.addr, l.written <= l.max_size, NEW k \in Nat
      PROVE  /\ Saved(l, k) \in Loaders /\ Saved(l, k).addr
             /\ Saved(l, k).max_size = l.max_size
             /\ Saved(l, k).written <= l.max_size
  BY <1>1, <1>2 DEF Saved, Fits, Loaders
<1>3. CASE ldr.addr
  <2>1. saved = [loader |-> Saved(ldr, n), allocated |-> 0, refused |-> ~Fits(ldr, n)]
    BY <1>3 DEF save_runtime
  <2> QED BY <1>1, <1>2, <1>3, <2>1 DEF Loaders
<1>4. CASE ~ldr.addr /\ n >= RUNTIME_SIZE_FIELD_SIZE /\ field \in 1 .. free
  <2>1. saved = [loader |-> Saved(new, rest), allocated |-> field, refused |-> ~Fits(new, rest)]
    BY <1>4 DEF save_runtime
  <2>2. heap_used = 0 /\ field \in 0 .. HeapSize /\ rest \in Nat
    BY <1>1, <1>4 DEF RUNTIME_SIZE_FIELD_SIZE
  <2>3. new \in Loaders /\ new.addr /\ new.written <= new.max_size /\ new.max_size = field
    BY <2>2 DEF Loaders
  <2> HIDE DEF new
  <2>4. /\ Saved(new, rest) \in Loaders /\ Saved(new, rest).addr
        /\ Saved(new, rest).max_size = field /\ Saved(new, rest).written <= field
    BY <1>2, <2>2, <2>3
  <2> QED BY <2>1, <2>2, <2>4
<1>5. CASE ~ldr.addr /\ ~(n >= RUNTIME_SIZE_FIELD_SIZE /\ field \in 1 .. free)
  <2>1. saved = [loader |-> NoBuffer, allocated |-> 0, refused |-> TRUE]
    BY <1>5 DEF save_runtime
  <2> QED BY <1>1, <1>5, <2>1 DEF NoBuffer, Loaders
<1> QED BY <1>3, <1>4, <1>5

LEMMA LlextInitLInv == LlextInit => LInv
<1> SUFFICES ASSUME LlextInit PROVE LInv
  OBVIOUS
<1>1. TypeOK
  BY InitType DEF LlextInit
<1>2. LlextTypeOK
  <2>1. ldr \in Loaders /\ ldr.written <= ldr.max_size /\ heap_used \in 0 .. HeapSize
    BY LlextAssumption DEF LlextInit, NoBuffer, Loaders
  <2>2. remaining \in Remainders
    BY RemainderIs DEF LlextInit
  <2>3. TvmTypeOK
    BY DEF LlextInit, TvmInit, TvmTypeOK
  <2> QED BY <1>1, <2>1, <2>2, <2>3
          DEF LlextInit, LlextTypeOK, Remainders, Loaders, Images, Pointers
<1> QED BY <1>2 DEF LlextInit, LInv, HeapAccounted, Uploads, OneExtensionInUse, TvmInit, NoBuffer,
              CrashesAfterFailuresOnly, RunsAcceptedModel, ModuleOutlivesExecutor, AcceptedIsGraph

-----------------------------------------------------------------------------
(* The upload.                                                             *)

LEMMA ResetLInv ==
  ASSUME LInv, NEW size \in RuntimeSizes, NEW failed, reset_runtime(size, failed)
  PROVE  LInv'
<1>1. heap_used' = 0 /\ ldr' = NoBuffer
  <2>1. heap_used = Freed /\ heap_used \in Int
    BY LlextAssumption DEF LInv, HeapAccounted, Freed, LlextTypeOK
  <2> QED BY <2>1 DEF reset_runtime
<1>2. LlextTypeOK'
  <2>1. remaining' \in Remainders
    <3>1. size \in 1 .. size
      BY LlextAssumption
    <3>2. remaining' = size \/ remaining' = 0
      BY DEF reset_runtime
    <3> QED BY <3>1, <3>2, RemainderIs
  <2>2. ext' \in BOOLEAN /\ gp_llext_runtime' \in Pointers /\ tables' \in Pointers
    BY DEF reset_runtime, LInv, LlextTypeOK, NoExtension, AfterUnload, Pointers, pointers
  <2>3. TypeOK' /\ TvmTypeOK'
    BY DEF reset_runtime, vars, tvm_vars, LInv, LlextTypeOK, TypeOK, TvmTypeOK
  <2>4. ldr' \in Loaders /\ ldr'.written <= ldr'.max_size /\ heap_used' \in 0 .. HeapSize
    BY <1>1, LlextAssumption DEF Loaders, NoBuffer
  <2>5. /\ crashed' \in BOOLEAN /\ loaded' \in BOOLEAN /\ model_ok' \in BOOLEAN
        /\ accepted' \in Graphs \cup {NULL} /\ image' \in Images
    BY DEF reset_runtime, LInv, LlextTypeOK, Images
  <2> QED BY <2>1, <2>2, <2>3, <2>4, <2>5 DEF LlextTypeOK, Remainders, Loaders
<1>3. ~loaded' /\ image' = "none" /\ (remaining' > 0 => ~ext')
  BY DEF reset_runtime, NoExtension
<1>4. /\ HeapAccounted' /\ Uploads' /\ OneExtensionInUse'
      /\ CrashesAfterFailuresOnly' /\ AcceptedIsGraph'
  BY <1>1, <1>3 DEF HeapAccounted, Uploads, OneExtensionInUse, NoBuffer,
                    CrashesAfterFailuresOnly, AcceptedIsGraph
<1>5. RunsAcceptedModel'
  BY <1>3 DEF reset_runtime, tvm_vars, LInv, RunsAcceptedModel, ModuleOutlivesExecutor
<1> QED BY <1>2, <1>4, <1>5 DEF LInv

\* What an upload that goes on leaves alone.
Same == UNCHANGED <<vars, tvm_vars, pointers, ghosts, crashed>>

LEMMA SameLInv ==
  ASSUME LInv, Same, remaining' \in Remainders, image' \in Images,
         ldr' \in Loaders, ldr'.written <= ldr'.max_size, heap_used' \in 0 .. HeapSize,
         HeapAccounted', Uploads', ldr.addr => ldr'.addr
  PROVE  LInv'
<1>1. LlextTypeOK'
  BY DEF Same, LInv, LlextTypeOK, vars, tvm_vars, pointers, ghosts, TypeOK, TvmTypeOK, Remainders, Loaders
<1>2. OneExtensionInUse' /\ CrashesAfterFailuresOnly' /\ AcceptedIsGraph'
  BY DEF Same, LInv, OneExtensionInUse, CrashesAfterFailuresOnly, AcceptedIsGraph, Reached,
         vars, tvm_vars, pointers, ghosts
<1>3. RunsAcceptedModel'
  BY DEF Same, LInv, RunsAcceptedModel, ModuleOutlivesExecutor, Reached, vars, tvm_vars, ghosts
<1> QED BY <1>1, <1>2, <1>3 DEF LInv

LEMMA ChunkLInv ==
  ASSUME LInv, NEW n \in 1 .. CONFIG_KENNING_MESSAGE_RECV_BUFFER_SIZE,
         NEW field \in 0 .. HeapSize + 1, ReceiveChunk(n, field)
  PROVE  LInv'
<1> DEFINE saved == save_runtime(n, field)
<1>0. n \in Nat /\ n >= 1
  BY LlextAssumption
<1>1. LlextTypeOK /\ HeapAccounted /\ Uploads
  BY DEF LInv
<1>2. /\ saved.loader \in Loaders
      /\ saved.loader.written <= saved.loader.max_size
      /\ heap_used + saved.allocated = IF saved.loader.addr THEN saved.loader.max_size ELSE 0
      /\ ldr.addr \/ ~saved.refused => saved.loader.addr
  BY <1>0, <1>1, SaveRuntime
<1>3. /\ n <= remaining /\ remaining' = remaining - n
      /\ ldr' = saved.loader /\ heap_used' = heap_used + saved.allocated
      /\ image' \in {"holed", "whole", "growing"}
      /\ image' = "whole" => ~saved.refused
      /\ Same
  <2>1. image' = CASE saved.refused \/ image = "holed" -> "holed"
                   [] ~saved.refused /\ image # "holed" /\ n = remaining -> "whole"
                   [] OTHER -> "growing"
    BY DEF ReceiveChunk
  <2>2. image' \in {"holed", "whole", "growing"} /\ (image' = "whole" => ~saved.refused)
    <3> HIDE DEF saved
    <3> QED BY <2>1
  <2> QED BY <2>2 DEF ReceiveChunk, Same
<1> HIDE DEF saved
<1>4. remaining' \in Remainders /\ ~ext'
  <2>1. PICK size \in RuntimeSizes : remaining \in 1 .. size
    BY <1>0, <1>1, <1>3 DEF LlextTypeOK
  <2>2. remaining' \in 0 .. size
    BY <1>0, <1>3, <2>1, LlextAssumption
  <2>3. remaining' = 0 \/ remaining' \in 1 .. size
    BY <2>2, <2>1, LlextAssumption
  <2>4. ~ext
    BY <1>0, <1>1, <1>3, <2>1, LlextAssumption DEF Uploads
  <2> QED BY <2>3, <2>4, <1>3, RemainderIs DEF Same, pointers
<1>5. heap_used' \in 0 .. HeapSize /\ HeapAccounted' /\ Uploads'
  BY <1>2, <1>3, <1>4, LlextAssumption DEF Loaders, HeapAccounted, Uploads
<1> QED BY <1>2, <1>3, <1>4, <1>5, SameLInv DEF Images

LEMMA LoseLInv ==
  ASSUME LInv, LoseRest
  PROVE  LInv'
<1>1. remaining' = 0 /\ image' = "holed" /\ UNCHANGED <<ldr, heap_used>> /\ Same
  BY DEF LoseRest, Same
<1>2. HeapAccounted' /\ Uploads'
  BY <1>1 DEF LInv, HeapAccounted, Uploads
<1> QED BY <1>1, <1>2, SameLInv DEF LInv, LlextTypeOK, Remainders, Loaders, Images

-----------------------------------------------------------------------------
(* Calls into nothing.                                                     *)

LEMMA CrashLInv ==
  ASSUME LInv, Crash, ~loaded \/ ~model_ok
  PROVE  LInv'
<1>1. /\ UNCHANGED <<vars, tvm_vars, loader_vars, pointers, ghosts>> /\ crashed' = TRUE
  BY DEF Crash
<1>2. LlextTypeOK'
  BY <1>1 DEF LInv, LlextTypeOK, vars, tvm_vars, loader_vars, pointers, ghosts, TypeOK, TvmTypeOK
<1>3. HeapAccounted' /\ Uploads' /\ OneExtensionInUse' /\ AcceptedIsGraph'
  BY <1>1 DEF LInv, HeapAccounted, Uploads, OneExtensionInUse, AcceptedIsGraph, Reached,
              vars, loader_vars, pointers, ghosts
<1>4. CrashesAfterFailuresOnly' /\ RunsAcceptedModel'
  BY <1>1 DEF LInv, CrashesAfterFailuresOnly, RunsAcceptedModel, ModuleOutlivesExecutor, Reached,
              vars, tvm_vars, ghosts
<1> QED BY <1>2, <1>3, <1>4 DEF LInv

\* A runtime that was loaded and has refused no MODEL has its functions and
\* loaders, and an executor whenever the state lets a request use one.
LEMMA NothingUnsafe ==
  ASSUME LInv, loaded, model_ok
  PROVE  /\ Reached(INITIALIZED) /\ tables = "current"
         /\ \A calls, uses_executor :
              uses_executor /\ (calls => Reached(WEIGHTS_LOADED)) => ~Unsafe(calls, uses_executor)
         /\ \A calls : ~Unsafe(calls, FALSE)
BY DEF LInv, OneExtensionInUse, RunsAcceptedModel, AcceptedIsGraph, Unsafe

-----------------------------------------------------------------------------
(* The callback of RUNTIME.                                                *)

LEMMA CallbackLInv ==
  ASSUME LInv, NEW failed \in LoadFailures, runtime_callback(failed)
  PROVE  LInv'
<1> DEFINE answer == CallbackStatus(failed)
<1>0. /\ remaining = 0 /\ ~crashed
      /\ loaded' = (loaded \/ answer = "OK")
      /\ UNCHANGED <<ldr, heap_used, remaining, crashed>>
  BY DEF runtime_callback, Listening
<1>1. LlextTypeOK /\ HeapAccounted /\ Uploads
  BY DEF LInv
<1>2. CASE ~Links(failed)
  <2>1. answer = "CALLBACKS_ERROR"
    BY <1>2 DEF CallbackStatus
  <2>2. UNCHANGED <<ext, image, tvm_vars, model_ok, accepted, vars, gp_llext_runtime, tables>>
    BY <1>2, <2>1 DEF runtime_callback
  <2>3. loaded' = loaded
    BY <1>0, <1>1, <2>1 DEF LlextTypeOK
  <2>4. Same
    BY <1>0, <2>2, <2>3 DEF Same, pointers, ghosts
  <2> QED BY <1>0, <1>1, <2>2, <2>4, SameLInv
          DEF LlextTypeOK, HeapAccounted, Uploads, Remainders, Loaders
<1>3. CASE Links(failed)
  <2>1. ~ext /\ image = "whole" /\ ldr.addr /\ ~loaded
    BY <1>1, <1>3 DEF Links, Uploads, LInv, OneExtensionInUse
  <2>2. /\ ext' = TRUE /\ image' = "linked" /\ TvmStarts
        /\ model_ok' = TRUE /\ accepted' = NULL
    BY <1>3 DEF runtime_callback
  <2>3. answer \in {"CALLBACKS_ERROR", "RUNTIME_ERROR", "OK"}
    BY DEF CallbackStatus
  <2>4. /\ TypeOK' /\ gp_llext_runtime' \in Pointers /\ tables' \in Pointers
        /\ answer = "OK" => /\ g_model_state' = INITIALIZED
                            /\ gp_llext_runtime' = "current" /\ tables' = "current"
    <3>1. CASE answer = "CALLBACKS_ERROR"
      <4>1. UNCHANGED <<vars, gp_llext_runtime, tables>>
        BY <3>1 DEF runtime_callback
      <4> QED BY <1>1, <3>1, <4>1 DEF LlextTypeOK, TypeOK, vars
    <3>2. CASE answer \in RuntimeStatus
      <4>1. model_init(answer) /\ gp_llext_runtime' = "current" /\ tables' = "current"
        BY <3>2 DEF runtime_callback, FoundExtension, RuntimeStatus
      <4>2. TypeOK'
        BY <1>1, <3>2, <4>1, InitAction DEF LlextTypeOK
      <4> QED BY <4>1, <4>2 DEF model_init, Enters, Pointers
    <3> QED BY <2>3, <3>1, <3>2 DEF RuntimeStatus
  <2> HIDE DEF answer
  <2>5. LlextTypeOK'
    <3>1. TvmTypeOK'
      BY <2>2 DEF TvmStarts, TvmTypeOK
    <3>2. loaded' \in BOOLEAN
      BY <1>0
    <3> QED BY <1>0, <1>1, <2>2, <2>4, <3>1, <3>2 DEF LlextTypeOK, Images
  <2>6. HeapAccounted' /\ Uploads'
    BY <1>0, <1>1, <2>2 DEF HeapAccounted, Uploads
  <2>7. loaded' => answer = "OK"
    BY <1>0, <2>1
  <2>8. OneExtensionInUse'
    BY <1>0, <2>1, <2>2, <2>4, <2>7 DEF OneExtensionInUse, Reached, INITIALIZED
  <2>9. AcceptedIsGraph' /\ RunsAcceptedModel' /\ CrashesAfterFailuresOnly'
    BY <1>0, <2>2, <2>4, <2>7 DEF AcceptedIsGraph, RunsAcceptedModel, ModuleOutlivesExecutor,
       TvmStarts, CrashesAfterFailuresOnly, Reached, INITIALIZED, WEIGHTS_LOADED
  <2> QED BY <2>5, <2>6, <2>8, <2>9 DEF LInv
<1> QED BY <1>2, <1>3

-----------------------------------------------------------------------------
(* The other requests.                                                     *)

\* A request that leaves runtime and upload alone, and the model with no step
\* from WEIGHTS_LOADED on that did not stand.
LEMMA ServedLInv ==
  ASSUME LInv, TypeOK', UNCHANGED <<loader_vars, pointers, ghosts, crashed>>,
         UNCHANGED <<gp_tvm_graph_executor, g_tvm_module_handle>>, TvmTypeOK',
         Reached(INITIALIZED) => Reached(INITIALIZED)',
         Reached(WEIGHTS_LOADED)' => Reached(WEIGHTS_LOADED)
  PROVE  LInv'
<1>1. LlextTypeOK'
  BY DEF LInv, LlextTypeOK, loader_vars, pointers, ghosts
<1>2. HeapAccounted' /\ Uploads' /\ OneExtensionInUse' /\ CrashesAfterFailuresOnly'
  BY DEF LInv, HeapAccounted, Uploads, OneExtensionInUse, CrashesAfterFailuresOnly,
         loader_vars, pointers, ghosts
<1>3. AcceptedIsGraph' /\ RunsAcceptedModel'
  BY DEF LInv, AcceptedIsGraph, RunsAcceptedModel, ModuleOutlivesExecutor, ghosts
<1> QED BY <1>1, <1>2, <1>3 DEF LInv

\* The same of a request that may call a function of the runtime, which
\* crashes if there is none.
LEMMA OtherLInv ==
  ASSUME LInv, NEW STATE calls, NEW uses_executor, NEW ACTION request,
         ServeOther(calls, uses_executor, request),
         uses_executor /\ calls => Reached(WEIGHTS_LOADED),
         request => /\ TypeOK'
                    /\ Reached(INITIALIZED) => Reached(INITIALIZED)'
                    /\ Reached(WEIGHTS_LOADED)' => Reached(WEIGHTS_LOADED)
  PROVE  LInv'
<1>1. CASE Unsafe(calls, uses_executor)
  <2>1. ~loaded \/ ~model_ok
    BY <1>1, NothingUnsafe DEF Unsafe
  <2>2. Crash
    BY <1>1 DEF ServeOther, Serve
  <2> QED BY <2>1, <2>2, CrashLInv
<1>2. CASE ~Unsafe(calls, uses_executor)
  <2>1. /\ request
        /\ UNCHANGED <<tvm_vars, model_ok, accepted, loader_vars, pointers, loaded, crashed>>
    BY <1>2 DEF ServeOther, Serve
  <2>2. TvmTypeOK' /\ UNCHANGED ghosts /\ UNCHANGED <<gp_tvm_graph_executor, g_tvm_module_handle>>
    BY <2>1 DEF LInv, LlextTypeOK, TvmTypeOK, tvm_vars, ghosts
  <2> QED BY <2>1, <2>2, ServedLInv
<1> QED BY <1>1, <1>2

LEMMA LevelsKept ==
  ASSUME TypeOK, g_model_state' = g_model_state
  PROVE  /\ Reached(INITIALIZED) => Reached(INITIALIZED)'
         /\ Reached(WEIGHTS_LOADED)' => Reached(WEIGHTS_LOADED)
BY DEF Reached

LEMMA SpecLInv ==
  ASSUME LInv, NEW bytes \in Payloads, ReceiveSpec(bytes)
  PROVE  LInv'
<1>1. CASE Reached(INITIALIZED)
  <2>1. /\ ReceiveIospec(bytes)
        /\ UNCHANGED <<tvm_vars, loader_vars, pointers, ghosts, crashed>>
    BY <1>1 DEF ReceiveSpec
  <2>2. TypeOK'
    BY <2>1, NextAction DEF LInv, LlextTypeOK, Next
  <2>3. g_model_state' = g_model_state
    BY <2>1 DEF ReceiveIospec
  <2>4. TvmTypeOK' /\ UNCHANGED <<gp_tvm_graph_executor, g_tvm_module_handle>>
    BY <2>1 DEF LInv, LlextTypeOK, TvmTypeOK, tvm_vars
  <2> QED BY <2>1, <2>2, <2>3, <2>4, LevelsKept, ServedLInv DEF LInv, LlextTypeOK
<1>2. CASE ~Reached(INITIALIZED)
  <2>1. Crash /\ (~loaded \/ ~model_ok)
    BY <1>2, NothingUnsafe DEF ReceiveSpec
  <2> QED BY <2>1, CrashLInv
<1> QED BY <1>1, <1>2

LEMMA GraphLInv ==
  ASSUME LInv, NEW graph \in Graphs \cup {Broken}, ReceiveGraph(graph)
  PROVE  LInv'
<1>1. CASE tables = "current"
  <2>1. /\ gp_tvm_graph_buffer' = graph
        /\ UNCHANGED <<vars, gp_tvm_graph_executor, g_tvm_module_handle,
                       loader_vars, pointers, ghosts, crashed>>
    BY <1>1 DEF ReceiveGraph
  <2>2. TypeOK' /\ g_model_state' = g_model_state
    BY <2>1 DEF LInv, LlextTypeOK, TypeOK, vars
  <2>3. TvmTypeOK'
    BY <2>1 DEF LInv, LlextTypeOK, TvmTypeOK
  <2> QED BY <2>1, <2>2, <2>3, LevelsKept, ServedLInv DEF LInv, LlextTypeOK
<1>2. CASE tables # "current"
  BY <1>2, NothingUnsafe, CrashLInv DEF ReceiveGraph
<1> QED BY <1>1, <1>2

\* runtime_init_weights keeps no executor without a module, and one that
\* succeeds has built one from the graph in the buffer.
LEMMA ReloadLeaves ==
  ASSUME TvmTypeOK, ModuleOutlivesExecutor, NEW failed \in ReloadFailures
  PROVE  /\ Reload(failed).executor \in Graphs \cup {NULL, NoParams}
         /\ Reload(failed).handle \in BOOLEAN
         /\ Reload(failed).executor # NULL => Reload(failed).handle
         /\ Reload(failed).status \in RuntimeStatus
         /\ Reload(failed).status = "OK" => /\ Reload(failed).executor = gp_tvm_graph_buffer
                                           /\ gp_tvm_graph_buffer \in Graphs
<1> DEFINE left == Reload(failed)
<1>1. \A e, m, s : /\ Left(e, m, s).executor = e
                   /\ Left(e, m, s).handle = m
                   /\ Left(e, m, s).status = s
  BY DEF Left
<1>2. \/ /\ left.executor = gp_tvm_graph_executor /\ left.handle = g_tvm_module_handle
         /\ left.status = "RUNTIME_ERROR"
      \/ left.executor = NULL /\ left.handle \in BOOLEAN /\ left.status = "RUNTIME_ERROR"
      \/ left.executor = NoParams /\ left.handle = TRUE /\ left.status = "RUNTIME_ERROR"
      \/ /\ left.executor = gp_tvm_graph_buffer /\ left.handle = TRUE
         /\ left.status = "OK" /\ gp_tvm_graph_buffer # Broken
  <2>1. \/ left = Left(gp_tvm_graph_executor, g_tvm_module_handle, "RUNTIME_ERROR")
        \/ \E m \in BOOLEAN : left = Left(NULL, m, "RUNTIME_ERROR")
        \/ left = Left(NoParams, TRUE, "RUNTIME_ERROR")
        \/ left = Left(gp_tvm_graph_buffer, TRUE, "OK") /\ gp_tvm_graph_buffer # Broken
    BY DEF Reload
  <2> HIDE DEF left
  <2>2. CASE left = Left(gp_tvm_graph_executor, g_tvm_module_handle, "RUNTIME_ERROR")
    BY <1>1, <2>2
  <2>3. ASSUME NEW m \in BOOLEAN, left = Left(NULL, m, "RUNTIME_ERROR")
        PROVE  left.executor = NULL /\ left.handle \in BOOLEAN /\ left.status = "RUNTIME_ERROR"
    BY <1>1, <2>3
  <2>4. CASE left = Left(NoParams, TRUE, "RUNTIME_ERROR")
    BY <2>4 DEF Left
  <2>5. CASE left = Left(gp_tvm_graph_buffer, TRUE, "OK") /\ gp_tvm_graph_buffer # Broken
    BY <2>5 DEF Left
  <2> QED BY <2>1, <2>2, <2>3, <2>4, <2>5
<1> HIDE DEF left
<1>3. left.executor \in Graphs \cup {NULL, NoParams} /\ left.handle \in BOOLEAN
  BY <1>2 DEF TvmTypeOK
<1>4. left.executor # NULL => left.handle = TRUE
  BY <1>2 DEF TvmTypeOK, ModuleOutlivesExecutor
<1>5. left.status \in RuntimeStatus
  BY <1>2 DEF RuntimeStatus
<1>6. left.status = "OK" => left.executor = gp_tvm_graph_buffer /\ gp_tvm_graph_buffer \in Graphs
  BY <1>2 DEF TvmTypeOK
<1> QED BY <1>3, <1>4, <1>5, <1>6 DEF left

LEMMA ModelLInv ==
  ASSUME LInv, NEW failed \in ReloadFailures, ServeModel(failed)
  PROVE  LInv'
<1> DEFINE calls == Reached(STRUCT_LOADED)
           answer == Reload(failed).status
<1>1. CASE Unsafe(calls, FALSE)
  <2>1. Crash /\ (~loaded \/ ~model_ok)
    BY <1>1, NothingUnsafe DEF ServeModel, Serve
  <2> QED BY <2>1, CrashLInv
<1>2. CASE ~Unsafe(calls, FALSE)
  <2>1. /\ model_load_weights_from_loader(answer)
        /\ IF calls
           THEN /\ tvm_init_weights(failed)
                /\ model_ok' = (answer = "OK")
                /\ accepted' = IF answer = "OK" THEN gp_tvm_graph_buffer ELSE NULL
           ELSE UNCHANGED <<tvm_vars, model_ok, accepted>>
        /\ UNCHANGED <<loader_vars, pointers, loaded, crashed>>
    BY <1>2 DEF ServeModel, Serve
  <2>2. TypeOK /\ TvmTypeOK /\ ModuleOutlivesExecutor
    BY DEF LInv, LlextTypeOK, RunsAcceptedModel
  <2>3. /\ Reload(failed).executor \in Graphs \cup {NULL, NoParams}
        /\ Reload(failed).handle \in BOOLEAN
        /\ Reload(failed).executor # NULL => Reload(failed).handle
        /\ answer \in RuntimeStatus
        /\ answer = "OK" => /\ Reload(failed).executor = gp_tvm_graph_buffer
                            /\ gp_tvm_graph_buffer \in Graphs
    BY <2>2, ReloadLeaves
  <2> HIDE DEF answer
  <2>4. /\ TypeOK'
        /\ g_model_state' = IF calls /\ answer = "OK" THEN WEIGHTS_LOADED ELSE g_model_state
    BY <2>1, <2>2, <2>3, WeightsAction DEF model_load_weights_from_loader, Enters
  <2>5. Reached(INITIALIZED) => Reached(INITIALIZED)'
    BY <2>2, <2>4 DEF Reached, INITIALIZED, WEIGHTS_LOADED
  <2>6. CASE ~calls
    <3>1. g_model_state' = g_model_state /\ UNCHANGED tvm_vars /\ UNCHANGED ghosts
      BY <2>1, <2>4, <2>6 DEF ghosts
    <3>2. TvmTypeOK' /\ UNCHANGED <<gp_tvm_graph_executor, g_tvm_module_handle>>
      BY <2>2, <3>1 DEF TvmTypeOK, tvm_vars
    <3> QED BY <2>1, <2>4, <2>5, <3>1, <3>2, ServedLInv DEF Reached
  <2>7. CASE calls
    <3>1. /\ gp_tvm_graph_executor' = Reload(failed).executor
          /\ g_tvm_module_handle' = Reload(failed).handle
          /\ UNCHANGED gp_tvm_graph_buffer
          /\ model_ok' = (answer = "OK")
          /\ accepted' = IF answer = "OK" THEN gp_tvm_graph_buffer ELSE NULL
      BY <2>1, <2>7 DEF tvm_init_weights
    <3>2. TvmTypeOK' /\ ModuleOutlivesExecutor'
      BY <2>2, <2>3, <3>1 DEF TvmTypeOK, ModuleOutlivesExecutor
    <3>3. model_ok' \in BOOLEAN /\ accepted' \in Graphs \cup {NULL}
      BY <2>3, <3>1
    <3>4. LlextTypeOK'
      BY <2>1, <2>4, <3>2, <3>3 DEF LInv, LlextTypeOK, loader_vars, pointers
    <3>5. HeapAccounted' /\ Uploads' /\ OneExtensionInUse' /\ CrashesAfterFailuresOnly'
      <4>1. ~crashed
        BY DEF ServeModel, Serve, Listening
      <4> QED BY <2>1, <2>5, <4>1 DEF LInv, HeapAccounted, Uploads, OneExtensionInUse,
                 CrashesAfterFailuresOnly, loader_vars, pointers
    <3>6. model_ok' => accepted' # NULL /\ gp_tvm_graph_executor' = accepted'
      BY <2>3, <3>1, TvmAssumption
    <3> QED BY <3>2, <3>4, <3>5, <3>6 DEF LInv, AcceptedIsGraph, RunsAcceptedModel
  <2> QED BY <2>6, <2>7
<1> QED BY <1>1, <1>2

LEMMA DataLInv ==
  ASSUME LInv, NEW size \in LoaderSizes, ServeData(size)
  PROVE  LInv'
<1> DEFINE calls == Reached(WEIGHTS_LOADED) /\ size = model_get_input_size
           request == model_load_input_from_loader(size, "OK")
<1>1. TypeOK
  BY DEF LInv, LlextTypeOK
<1>2. ASSUME request
      PROVE  /\ TypeOK'
             /\ Reached(INITIALIZED) => Reached(INITIALIZED)'
             /\ Reached(WEIGHTS_LOADED)' => Reached(WEIGHTS_LOADED)
  <2>1. TypeOK'
    BY <1>1, <1>2, InputAction DEF RuntimeStatus
  <2> QED BY <1>1, <1>2, <2>1 DEF model_load_input_from_loader, Enters, Reached, INITIALIZED,
             WEIGHTS_LOADED, INPUT_LOADED
<1>3. ServeOther(calls, TRUE, request) /\ (calls => Reached(WEIGHTS_LOADED))
  BY DEF ServeData
<1> HIDE DEF calls, request
<1> QED BY <1>2, <1>3, OtherLInv

LEMMA ProcessLInv ==
  ASSUME LInv, ServeProcess
  PROVE  LInv'
<1> DEFINE calls == Reached(INPUT_LOADED)
           request == model_run("OK")
<1>1. TypeOK
  BY DEF LInv, LlextTypeOK
<1>2. calls => Reached(WEIGHTS_LOADED)
  BY <1>1 DEF TypeOK, Reached, INPUT_LOADED, WEIGHTS_LOADED, UNINITIALIZED, INFERENCE_DONE
<1>3. ASSUME request
      PROVE  /\ TypeOK'
             /\ Reached(INITIALIZED) => Reached(INITIALIZED)'
             /\ Reached(WEIGHTS_LOADED)' => Reached(WEIGHTS_LOADED)
  <2>1. TypeOK'
    BY <1>1, <1>3, RunAction DEF RuntimeStatus
  <2> QED BY <1>1, <1>2, <1>3, <2>1 DEF model_run, Enters, Reached, INITIALIZED, INFERENCE_DONE
<1>4. ServeOther(calls, TRUE, request)
  BY DEF ServeProcess
<1> HIDE DEF calls, request
<1> QED BY <1>2, <1>3, <1>4, OtherLInv

LEMMA OutputLInv ==
  ASSUME LInv, NEW st \in RuntimeStatus, ServeOutput(st)
  PROVE  LInv'
<1> DEFINE calls == /\ Reached(INFERENCE_DONE)
                    /\ model_get_output_size <= CONFIG_KENNING_RESPONSE_PAYLOAD_SIZE
           request == model_get_output(CONFIG_KENNING_RESPONSE_PAYLOAD_SIZE, st)
<1>1. TypeOK
  BY DEF LInv, LlextTypeOK
<1>2. calls => Reached(WEIGHTS_LOADED)
  BY <1>1 DEF TypeOK, Reached, WEIGHTS_LOADED, UNINITIALIZED, INFERENCE_DONE
<1>3. ASSUME request
      PROVE  /\ TypeOK'
             /\ Reached(INITIALIZED) => Reached(INITIALIZED)'
             /\ Reached(WEIGHTS_LOADED)' => Reached(WEIGHTS_LOADED)
  <2>1. TypeOK'
    BY <1>1, <1>3, OutputAction
  <2>2. g_model_state' = g_model_state
    BY <1>3 DEF model_get_output
  <2> QED BY <1>1, <2>1, <2>2, LevelsKept
<1>4. ServeOther(calls, TRUE, request)
  BY DEF ServeOutput
<1> HIDE DEF calls, request
<1> QED BY <1>2, <1>3, <1>4, OtherLInv

LEMMA StatsLInv ==
  ASSUME LInv, NEW st \in RuntimeStatus, ServeStats(st)
  PROVE  LInv'
<1> DEFINE calls == Reached(WEIGHTS_LOADED)
           request == model_get_statistics(st)
<1>1. TypeOK
  BY DEF LInv, LlextTypeOK
<1>2. ASSUME request
      PROVE  /\ TypeOK'
             /\ Reached(INITIALIZED) => Reached(INITIALIZED)'
             /\ Reached(WEIGHTS_LOADED)' => Reached(WEIGHTS_LOADED)
  <2>1. TypeOK'
    BY <1>1, <1>2, StatsAction
  <2>2. g_model_state' = g_model_state
    BY <1>2 DEF model_get_statistics
  <2> QED BY <1>1, <2>1, <2>2, LevelsKept
<1>3. ServeOther(calls, FALSE, request)
  BY DEF ServeStats
<1> HIDE DEF calls, request
<1> QED BY <1>2, <1>3, OtherLInv

LEMMA StructLInv ==
  ASSUME LInv, ServeSpec
  PROVE  LInv'
<1> DEFINE request == model_load_struct_from_loader
<1>1. TypeOK
  BY DEF LInv, LlextTypeOK
<1>2. ASSUME request
      PROVE  /\ TypeOK'
             /\ Reached(INITIALIZED) => Reached(INITIALIZED)'
             /\ Reached(WEIGHTS_LOADED)' => Reached(WEIGHTS_LOADED)
  <2>1. TypeOK'
    BY <1>1, <1>2, NextAction DEF Next
  <2>2. g_model_state' \in {g_model_state, STRUCT_LOADED}
    BY <1>2 DEF model_load_struct_from_loader, LoadStruct, Enters
  <2> QED BY <1>1, <2>1, <2>2 DEF TypeOK, Reached, INITIALIZED, STRUCT_LOADED, WEIGHTS_LOADED,
             UNINITIALIZED, INFERENCE_DONE
<1>3. ServeOther(FALSE, FALSE, request)
  BY DEF ServeSpec
<1> HIDE DEF request
<1> QED BY <1>2, <1>3, OtherLInv

LEMMA NextLInv == LInv /\ [LlextNext]_llext_vars => LInv'
<1> SUFFICES ASSUME LInv, [LlextNext]_llext_vars PROVE LInv'
  OBVIOUS
<1>1. ASSUME NEW size \in RuntimeSizes, NEW failed, reset_runtime(size, failed) PROVE LInv'
  BY <1>1, ResetLInv
<1>2. ASSUME NEW n \in 1 .. CONFIG_KENNING_MESSAGE_RECV_BUFFER_SIZE,
             NEW field \in 0 .. HeapSize + 1, ReceiveChunk(n, field) PROVE LInv'
  BY <1>2, ChunkLInv
<1>3. CASE LoseRest
  BY <1>3, LoseLInv
<1>4. ASSUME NEW failed \in LoadFailures, runtime_callback(failed) PROVE LInv'
  BY <1>4, CallbackLInv
<1>5. ASSUME NEW bytes \in Payloads, ReceiveSpec(bytes) PROVE LInv'
  BY <1>5, SpecLInv
<1>6. ASSUME NEW graph \in Graphs \cup {Broken}, ReceiveGraph(graph) PROVE LInv'
  BY <1>6, GraphLInv
<1>7. CASE ReceiveInput
  BY <1>7, NothingUnsafe, CrashLInv DEF ReceiveInput
<1>8. ASSUME NEW failed \in ReloadFailures, ServeModel(failed) PROVE LInv'
  BY <1>8, ModelLInv
<1>9. ASSUME NEW size \in LoaderSizes, ServeData(size) PROVE LInv'
  BY <1>9, DataLInv
<1>10. ASSUME NEW st \in RuntimeStatus, ServeOutput(st) \/ ServeStats(st) PROVE LInv'
  BY <1>10, OutputLInv, StatsLInv
<1>11. CASE UNCHANGED llext_vars
  <2>1. Same /\ UNCHANGED loader_vars
    BY <1>11 DEF llext_vars, Same
  <2>2. HeapAccounted' /\ Uploads'
    BY <2>1 DEF Same, LInv, HeapAccounted, Uploads, loader_vars, pointers
  <2> QED BY <2>1, <2>2, SameLInv DEF LInv, LlextTypeOK, loader_vars, Remainders, Loaders
<1> QED BY <1>1, <1>2, <1>3, <1>4, <1>5, <1>6, <1>7, <1>8, <1>9, <1>10, <1>11,
           ProcessLInv, StructLInv DEF LlextNext

-----------------------------------------------------------------------------
\* The inductive invariant holds in every reachable state.
THEOREM LlextInvariant == LlextSpec => []LInv
BY LlextInitLInv, NextLInv, PTL DEF LlextSpec

\* Types, and the bounds of the RUNTIME loader: save_runtime never writes past
\* the buffer it allocated, whatever the payload says its size is.
THEOREM LlextTypeCorrect == LlextSpec => []LlextTypeOK
<1>1. LInv => LlextTypeOK
  BY DEF LInv
<1> QED BY <1>1, LlextInvariant, PTL

\* Functions and loaders are those of the extension loaded last.
THEOREM OneExtension == LlextSpec => []OneExtensionInUse
<1>1. LInv => OneExtensionInUse
  BY DEF LInv
<1> QED BY <1>1, LlextInvariant, PTL

\* The server calls into nothing only after a failure it has reported.
THEOREM NoSilentCrash == LlextSpec => []CrashesAfterFailuresOnly
<1>1. LInv => CrashesAfterFailuresOnly
  BY DEF LInv
<1> QED BY <1>1, LlextInvariant, PTL

\* What runs is the model that was accepted, on a module that was not freed.
THEOREM AcceptedModelRuns == LlextSpec => []RunsAcceptedModel
<1>1. LInv => RunsAcceptedModel
  BY DEF LInv
<1> QED BY <1>1, LlextInvariant, PTL

\* Uploads that failed, were lost or were replaced leave nothing allocated.
THEOREM NothingLeaks == LlextSpec => []HeapAccounted
<1>1. LInv => HeapAccounted
  BY DEF LInv
<1> QED BY <1>1, LlextInvariant, PTL

\* An upload that arrived whole can be loaded, whatever went before.
THEOREM UploadLoads == LlextSpec => []WholeRuntimeLoads
<1>1. LInv => WholeRuntimeLoads
  <2>1. ASSUME Uploads, image = "whole" PROVE CallbackStatus("none") = "OK"
    BY <2>1 DEF Uploads, CallbackStatus, Links
  <2> QED BY <2>1 DEF LInv, WholeRuntimeLoads
<1> QED BY <1>1, LlextInvariant, PTL

\* What a RUNTIME, or a request to one, does to the model is a step of the
\* model's own.
LEMMA LlextModelStep ==
  ASSUME [LlextNext]_llext_vars
  PROVE  [Next]_vars
<1>0. "OK" \in RuntimeStatus /\ "RUNTIME_ERROR" \in RuntimeStatus
  BY DEF RuntimeStatus
<1>1. CASE UNCHANGED llext_vars
  BY <1>1 DEF llext_vars
<1>2. CASE \E size \in RuntimeSizes, failed \in {"none", "teardown", "unload"} :
             reset_runtime(size, failed)
  BY <1>2 DEF reset_runtime
<1>3. CASE \E n \in 1 .. CONFIG_KENNING_MESSAGE_RECV_BUFFER_SIZE, field \in 0 .. HeapSize + 1 :
             ReceiveChunk(n, field)
  BY <1>3 DEF ReceiveChunk
<1>4. CASE LoseRest
  BY <1>4 DEF LoseRest
<1>5. ASSUME NEW failed \in LoadFailures, runtime_callback(failed)
      PROVE  [Next]_vars
  <2>1. CallbackStatus(failed) = "CALLBACKS_ERROR" => UNCHANGED vars
    BY <1>5 DEF runtime_callback
  <2>2. CallbackStatus(failed) # "CALLBACKS_ERROR" => model_init(CallbackStatus(failed))
    BY <1>5 DEF runtime_callback
  <2>3. CallbackStatus(failed) \in RuntimeStatus \cup {"CALLBACKS_ERROR"}
    BY <1>0 DEF CallbackStatus
  <2> QED BY <2>1, <2>2, <2>3 DEF Next
<1>6. CASE \E bytes \in Payloads : ReceiveSpec(bytes)
  BY <1>6 DEF ReceiveSpec, Crash, Next
<1>7. CASE \/ \E graph \in Graphs \cup {Broken} : ReceiveGraph(graph)
           \/ ReceiveInput
  BY <1>7 DEF ReceiveGraph, ReceiveInput, Crash
<1>8. ASSUME NEW failed \in ReloadFailures, ServeModel(failed)
      PROVE  [Next]_vars
  <2>1. Reload(failed).status \in RuntimeStatus
    BY <1>0 DEF Reload, Left
  <2>2. UNCHANGED vars \/ model_load_weights_from_loader(Reload(failed).status)
    BY <1>8 DEF ServeModel, Serve, Crash
  <2> QED BY <2>1, <2>2 DEF Next
<1>9. ASSUME NEW size \in LoaderSizes, ServeData(size)
      PROVE  [Next]_vars
  <2>1. UNCHANGED vars \/ model_load_input_from_loader(size, "OK")
    BY <1>9 DEF ServeData, ServeOther, Serve, Crash
  <2> QED BY <1>0, <2>1 DEF Next
<1>10. CASE ServeProcess
  <2>1. UNCHANGED vars \/ model_run("OK")
    BY <1>10 DEF ServeProcess, ServeOther, Serve, Crash
  <2> QED BY <1>0, <2>1 DEF Next
<1>11. ASSUME NEW st \in RuntimeStatus, ServeOutput(st) \/ ServeStats(st)
       PROVE  [Next]_vars
  <2>1. \/ UNCHANGED vars
        \/ model_get_output(CONFIG_KENNING_RESPONSE_PAYLOAD_SIZE, st)
        \/ model_get_statistics(st)
    BY <1>11 DEF ServeOutput, ServeStats, ServeOther, Serve, Crash
  <2> QED BY <2>1 DEF Next
<1>12. CASE ServeSpec
  BY <1>12 DEF ServeSpec, ServeOther, Serve, Crash, Next
<1> QED BY <1>1, <1>2, <1>3, <1>4, <1>5, <1>6, <1>7, <1>8, <1>9, <1>10, <1>11, <1>12
        DEF LlextNext

\* The model keeps to the order of its steps also where its runtime is
\* uploaded, replaced, and missing.
THEOREM LlextKeepsOrder == LlextSpec => ImplementsSteps
<1>1. LlextInit => Init
  BY DEF LlextInit
<1>2. [LlextNext]_llext_vars => [Next]_vars
  BY LlextModelStep
<1>3. LlextSpec => Spec
  BY <1>1, <1>2, PTL DEF LlextSpec, Spec
<1> QED BY <1>3, StepsImplemented
=============================================================================
