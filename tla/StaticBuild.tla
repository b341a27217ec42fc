----------------------------- MODULE StaticBuild ----------------------------
(***************************************************************************)
(* A program with a runtime built into it: core/model.c over one of the    *)
(* runtimes TFLite Micro, IREE, ExecuTorch, emlearn or stub, used by the   *)
(* inference server (app's main.c, callbacks.c) or by demo_app.            *)
(*                                                                         *)
(* A request is one step: its payload goes through the loader and, if it   *)
(* arrived whole, the callback follows, with nothing in between.  A        *)
(* payload that breaks off or is refused reaches the loader only, a        *)
(* request without payload the callback only.  The runtimes' state is one  *)
(* variable, `runtime`, of the type the build has.                         *)
(***************************************************************************)
EXTENDS Model, RuntimeData

CONSTANTS
  GraphSpec,      \* the metadata of a model file
  Tensor,         \* the tensor of a half of metadata that has one
  SentSpecs,      \* IOSPEC payloads
  BuiltIn,        \* the model compiled into demo_app, and for emlearn
  CONFIG_KENNING_EMLEARN_OUTPUT_BUFFER_SIZE,
  RESPONSE_STATISTICS,                \* entries of statistics a response holds
  INFERENCE_STATISTICS_BUFFER_LENGTH  \* and demo_app's array

T == INSTANCE TfliteRuntime
I == INSTANCE IreeRuntime
X == INSTANCE ExecutorchRuntime
E == INSTANCE EmlearnRuntime

ASSUME StaticAssumption ==
  /\ GraphSpec \in [Graphs -> [input : ValidHalves, output : ValidHalves]]
  /\ DOMAIN Tensor = Half \ {NoTensors}
  /\ \A h \in DOMAIN Tensor :
       /\ h \in ValidHalves <=> validate_tensor(Tensor[h])
       /\ HalfBytes[h] = ModelBytes(Tensor[h])
       /\ Tensor[h].bits \in Nat /\ model_spec_length(Tensor[h].shape) \in Nat
  /\ SentSpecs \subseteq Payloads
  /\ BuiltIn \in Graphs
  /\ HalfBytes[GraphSpec[BuiltIn].input] \in 1 .. MaxLoaderSize
  /\ CONFIG_KENNING_EMLEARN_OUTPUT_BUFFER_SIZE \in Nat
  /\ RESPONSE_STATISTICS \in Nat /\ INFERENCE_STATISTICS_BUFFER_LENGTH \in Nat

VARIABLES
  build,         \* which runtime
  demo,          \* demo_app: where it is, and which buffers it was given
  runtime,       \* the runtime's own data
  model_buffer,  \* what the MODEL loader's buffer holds
  input_buffer,  \* and the DATA loader's
  data_written,  \* written, of the DATA loader
  delivered,     \* what the last step copied for its caller, see Nothing
  crashed,       \* the request that was undefined, or why it was, or "no"
  accepted,      \* ghost: the model of the last MODEL, if it succeeded
  fed,           \* ghost: the input of the last DATA that succeeded since
  settled        \* ghost: the steps that last arrived whole and succeeded

memory == <<model_buffer, input_buffer, data_written>>
ghosts == <<accepted, fed, settled>>
app == <<build, demo>>
static_vars == <<vars, app, runtime, memory, delivered, crashed, ghosts>>

Builds == {"tflite", "iree", "executorch", "emlearn", "stub"}
Places == {"server", "init", "struct", "weights", "alloc", "input", "run", "output",
           "statistics", "end"}

\* What was copied, how much, how much of it there was, how much the caller is
\* told, and what it had room for.
Nothing == [data |-> Garbage, written |-> 0, available |-> 0, told |-> 0, room |-> 0]

Start(b) ==
  CASE b = "tflite" -> T!TfliteStart
    [] b = "iree" -> I!IreeStart
    [] b = "executorch" -> X!ExecutorchStart
    [] b \in {"emlearn", "stub"} -> E!EmlearnStart

StaticInit ==
  /\ Init
  /\ build \in Builds /\ runtime = Start(build)
  /\ demo \in [place : {"server", "init"}, model_input : {FALSE}, model_output : {FALSE}]
  /\ model_buffer = Torn /\ input_buffer = Torn /\ data_written = 0
  /\ delivered = Nothing
  /\ crashed = "no"
  /\ accepted = NULL /\ fed = NULL /\ settled = {}

-----------------------------------------------------------------------------
(* The functions of runtime_wrapper.h, in this build.                      *)

runtime_init(failed) ==
  IF build = "iree" THEN I!runtime_init(runtime, failed) ELSE Returned(runtime, "OK")

\* Which calls of the library a request makes that can fail.
LibraryCalls ==
  [tflite     |-> [INIT |-> {}, MODEL |-> T!InitWeightsFailures, DATA |-> {},
                   PROCESS |-> {"invoke"}, OUTPUT |-> {}],
   iree       |-> [INIT |-> I!InitFailures, MODEL |-> I!InitWeightsFailures,
                   DATA |-> I!InitInputFailures, PROCESS |-> I!RunFailures, OUTPUT |-> {"map"}],
   executorch |-> [INIT |-> {}, MODEL |-> X!InitWeightsFailures, DATA |-> {"input"},
                   PROCESS |-> {"execute"}, OUTPUT |-> {"tensor"}],
   emlearn    |-> [INIT |-> {}, MODEL |-> {}, DATA |-> {}, PROCESS |-> {}, OUTPUT |-> {}],
   stub       |-> [INIT |-> {}, MODEL |-> {}, DATA |-> {}, PROCESS |-> {}, OUTPUT |-> {}]]

\* The tensors of a half.
TensorsOf(half) == IF half = NoTensors THEN {} ELSE {Tensor[half]}

Failures(request) == {"none"} \cup LibraryCalls[build][request]

runtime_init_weights(s, model, failed) ==
  CASE build = "tflite" -> T!runtime_init_weights(s, model, failed)
    [] build = "iree" -> I!runtime_init_weights(s, model, failed)
    [] build = "executorch" -> X!runtime_init_weights(s, model, failed)
    [] build \in {"emlearn", "stub"} -> Returned(s, "OK")

runtime_init_input(s, input, failed) ==
  CASE build = "iree" -> I!runtime_init_input(s, input, TensorsOf(g_model_spec.input), failed)
    [] build = "executorch" -> X!runtime_init_input(s, input, TensorsOf(g_model_spec.input), failed)
    [] build \in {"tflite", "emlearn", "stub"} -> Returned(s, "OK")

runtime_run_model(copied, failed) ==
  CASE build = "tflite" -> T!runtime_run_model(runtime, model_buffer, input_buffer, failed)
    [] build = "iree" -> I!runtime_run_model(runtime, model_buffer, failed)
    [] build = "executorch" ->
         X!runtime_run_model(runtime, model_buffer, input_buffer, copied, failed)
    [] build = "emlearn" -> E!runtime_run_model(runtime, input_buffer)
    [] build = "stub" -> Returned(runtime, "OK")

runtime_get_model_output(failed) ==
  CASE build = "tflite" -> T!runtime_get_model_output(runtime)
    [] build = "iree" -> I!runtime_get_model_output(runtime, TensorsOf(g_model_spec.output), failed)
    [] build = "executorch" -> X!runtime_get_model_output(runtime, TensorsOf(g_model_spec.output), failed)
    [] build \in {"emlearn", "stub"} -> Returned(runtime, "OK")

\* Bytes of a half as the runtime counts them; those of real outputs; those
\* of TFLite's output tensor, whatever is in it.
Bytes(half) == IF half = NoTensors THEN 0 ELSE RuntimeBytes(Tensor[half])
OutputBytes(data) ==
  IF data[1] \in Graphs THEN HalfBytes[GraphSpec[data[1]].output] ELSE Bytes(g_model_spec.output)
OutputTensorBytes == HalfBytes[GraphSpec[runtime.gp_tflite_interpreter].output]

\* What runtime_get_model_output copies: what, how much, and how much of it
\* there is.  Only TFLite goes by the tensor, the others by the metadata.
Copied ==
  CASE build = "tflite" ->
         [data |-> runtime.output, written |-> OutputTensorBytes, available |-> OutputTensorBytes]
    [] build = "iree" ->
         [data |-> runtime.gp_model_outputs, written |-> Bytes(g_model_spec.output),
          available |-> OutputBytes(runtime.gp_model_outputs)]
    [] build = "executorch" ->
         [data |-> runtime.output, written |-> Bytes(g_model_spec.output),
          available |-> OutputBytes(runtime.output)]
    [] build = "emlearn" ->
         [data |-> runtime.gp_emlearn_output_buffer, written |-> model_get_output_size,
          available |-> CONFIG_KENNING_EMLEARN_OUTPUT_BUFFER_SIZE]
    [] build = "stub" -> [data |-> Garbage, written |-> 0, available |-> 0]

-----------------------------------------------------------------------------
(* What the ghosts keep.                                                   *)

\* The metadata is that of the model.
Matches(graph) == graph \in Graphs /\ g_model_spec = GraphSpec[graph]

\* What a payload that breaks off, or whose request fails, puts in question.
\* IREE copies its inputs and keeps its outputs apart; emlearn has no model
\* to lose; the others use payloads where the loader put them, and TFLite's
\* tensors share one arena.
Spoils(step) ==
  CASE step = "MODEL" /\ build = "iree" -> {"MODEL"}
    [] step = "MODEL" /\ build = "emlearn" -> {}
    [] step = "DATA" /\ build = "iree" -> {}
    [] step = "DATA" /\ build \in {"executorch", "emlearn"} -> {"DATA"}
    [] OTHER -> {"MODEL", "DATA", "PROCESS"} \ (IF step = "DATA" THEN {"MODEL"} ELSE {})

-----------------------------------------------------------------------------
(* Requests.  Those of the server come with a payload, without one, or are *)
(* lost; demo_app's are the same functions.                                *)

\* What only one library leaves open: whether TFLite's input tensor overlaps
\* with something else, whether ExecuTorch's method took a copy.
Open(library) == IF build = library THEN BOOLEAN ELSE {FALSE}

\* A request that is undefined ends the run.
Crash(request) ==
  /\ crashed' = request
  /\ delivered' = Nothing
  /\ UNCHANGED <<vars, runtime, memory, ghosts>>

\* init_server and demo_app, which both end if it fails.
StartModel(failed) ==
  /\ result.op = "none"
  /\ model_init(runtime_init(failed).status)
  /\ runtime' = runtime_init(failed).state
  /\ delivered' = Nothing
  /\ UNCHANGED <<memory, crashed, ghosts>>

\* IOSPEC goes to the model alone.
Iospec(load) ==
  /\ load
  /\ delivered' = Nothing
  /\ UNCHANGED <<runtime, memory, crashed, ghosts>>

HasLoaders == Reached(INITIALIZED) /\ build # "stub"

\* The MODEL loader is reset.
AfterModelReset == IF build = "tflite" THEN T!tflite_reset_buf(runtime) ELSE runtime

\* model_callback, where the runtime's function is asked for what is undefined ...
ModelCrash(s, model, failed) ==
  /\ Reached(STRUCT_LOADED) /\ runtime_init_weights(s, model, failed).status = "CRASH"
  /\ Crash(failed)

\* ... and otherwise.
ServeModel(s, model, failed) ==
  LET loaded == runtime_init_weights(s, model, failed)
  IN  /\ ~(Reached(STRUCT_LOADED) /\ loaded.status = "CRASH")
      /\ model_load_weights_from_loader(loaded.status)
      /\ runtime' = IF Reached(STRUCT_LOADED) THEN loaded.state ELSE s
      /\ delivered' = Nothing
      /\ fed' = NULL
      /\ UNCHANGED <<input_buffer, data_written, crashed>>

\* ExecuTorch does not notice buffers it was not given.
Noticed(failed) == build # "executorch" \/ failed # "buffer"

LoadModel(graph, failed) ==
  /\ ServeModel(AfterModelReset, graph, failed)
  /\ model_buffer' = graph
  /\ accepted' = CASE result'.status # "OK" -> NULL
                   [] result'.status = "OK" /\ build = "emlearn" -> BuiltIn
                   [] OTHER -> graph
  /\ settled' = IF result'.status = "OK" /\ Noticed(failed) /\ Matches(accepted')
                THEN {"MODEL"} ELSE {}

ModelRequest(graph, failed) ==
  /\ HasLoaders
  /\ ModelCrash(AfterModelReset, graph, failed) \/ LoadModel(graph, failed)

ReloadModel(failed) ==
  /\ ServeModel(runtime, model_buffer, failed)
  /\ accepted' = NULL /\ settled' = {}
  /\ UNCHANGED model_buffer

EmptyModel(failed) ==
  ModelCrash(runtime, model_buffer, failed) \/ ReloadModel(failed)

LostModel ==
  /\ HasLoaders
  /\ runtime' = AfterModelReset
  /\ model_buffer' = Torn
  /\ delivered' = Nothing
  /\ settled' = settled \ Spoils("MODEL")
  /\ UNCHANGED <<vars, input_buffer, data_written, crashed, accepted, fed>>

\* The DATA loader takes a payload: TFLite's goes into the input tensor, or
\* where that used to be.
DataLoaderSize ==
  IF build # "tflite" THEN MaxLoaderSize
  ELSE IF T!TakesInput(runtime) THEN HalfBytes[GraphSpec[runtime.msg_loader_input].input] ELSE 0

AfterData(overlaps) ==
  IF build = "tflite" /\ overlaps THEN T!AfterInput(runtime) ELSE runtime

ModelAfterData(overlaps) ==
  IF build = "tflite" /\ overlaps /\ ~T!SparesModel(runtime) THEN Torn ELSE model_buffer

\* data_callback.
ServeData(s, input, size, failed) ==
  LET asked  == Reached(WEIGHTS_LOADED) /\ size = model_get_input_size
      loaded == runtime_init_input(s, input, failed)
  IN  \/ asked /\ loaded.status = "CRASH" /\ Crash("DATA")
      \/ /\ ~(asked /\ loaded.status = "CRASH")
         /\ model_load_input_from_loader(size, loaded.status)
         /\ runtime' = IF asked THEN loaded.state ELSE s
         /\ delivered' = Nothing
         /\ input_buffer' = input /\ data_written' = size
         /\ settled' = IF result'.status = "OK" /\ input # Torn /\ "MODEL" \in settled /\ Matches(accepted)
                       THEN (settled \ Spoils("DATA")) \cup {"DATA"}
                       ELSE settled \ (Spoils("DATA") \cup {"DATA"})
         /\ fed' = IF result'.status = "OK" /\ input # Torn THEN input ELSE fed
         /\ UNCHANGED <<crashed, accepted>>

\* A payload is an input if it has the size of one by metadata that was
\* accepted.
AsInput(input, size) ==
  IF g_model_spec.input \in ValidHalves /\ size = model_get_input_size THEN input ELSE Torn

DataRequest(input, size, overlaps, failed) ==
  /\ HasLoaders /\ size \in 1 .. DataLoaderSize
  /\ ServeData(AfterData(overlaps), AsInput(input, size), size, failed)
  /\ model_buffer' = ModelAfterData(overlaps)

EmptyData(failed) ==
  /\ ServeData(runtime, input_buffer, data_written, failed)
  /\ UNCHANGED model_buffer

LostData(size, overlaps) ==
  /\ HasLoaders /\ size \in 0 .. DataLoaderSize
  /\ runtime' = AfterData(overlaps)
  /\ model_buffer' = ModelAfterData(overlaps)
  /\ input_buffer' = Torn /\ data_written' = size
  /\ delivered' = Nothing
  /\ settled' = settled \ Spoils("DATA")
  /\ UNCHANGED <<vars, crashed, accepted, fed>>

\* A run may use up its input.
Consumed == IF build \in {"tflite", "executorch"} THEN {"DATA"} ELSE {}

\* process_callback, which measures the run, and model_run of demo_app.
Process(measured, copied, overlaps, failed) ==
  LET asked == Reached(INPUT_LOADED)
      run   == runtime_run_model(copied, failed)
      shown == IF measured THEN Bench(run) ELSE run
      right == asked /\ run.status = "OK" /\ {"MODEL", "DATA"} \subseteq settled /\ Matches(accepted)
  IN  \/ asked /\ run.status = "CRASH" /\ Crash("PROCESS")
      \/ /\ ~(asked /\ run.status = "CRASH")
         /\ model_run(shown.status)
         /\ runtime' = IF asked THEN run.state ELSE runtime
         /\ input_buffer' = IF asked /\ build = "tflite" /\ overlaps THEN Torn ELSE input_buffer
         /\ delivered' = Nothing
         /\ settled' = (IF right THEN settled \cup {"PROCESS"} ELSE settled \ {"PROCESS"}) \ Consumed
         /\ UNCHANGED <<model_buffer, data_written, crashed, accepted, fed>>

\* output_callback.
Output(room, failed) ==
  LET asked == Reached(INFERENCE_DONE) /\ room >= model_get_output_size
      copy  == runtime_get_model_output(failed)
  IN  \/ asked /\ copy.status = "CRASH" /\ Crash("OUTPUT")
      \/ /\ ~(asked /\ copy.status = "CRASH")
         /\ model_get_output(room, copy.status)
         /\ delivered' = IF result'.status # "OK" THEN Nothing
                         ELSE [data |-> Copied.data, written |-> Copied.written,
                               available |-> Copied.available, told |-> result'.size,
                               room |-> room]
         /\ UNCHANGED <<runtime, memory, crashed, ghosts>>

\* stats_callback; sizes count entries.
Statistics ==
  CASE build = "tflite" -> T!Statistics
    [] build = "iree" -> I!Statistics
    [] build = "executorch" -> X!Statistics
    [] build = "emlearn" -> E!Statistics
    [] build = "stub" -> [size |-> 0, loaded |-> 0]

StatisticsStatus(room) == IF room < Statistics.size THEN "RUNTIME_ERROR" ELSE "OK"

Stats(room) ==
  /\ model_get_statistics(StatisticsStatus(room))
  /\ delivered' = IF result'.status # "OK" THEN Nothing
                  ELSE [data |-> Garbage, written |-> Statistics.loaded,
                        available |-> Statistics.loaded, told |-> Statistics.size,
                        room |-> room]
  /\ UNCHANGED <<runtime, memory, crashed, ghosts>>

\* A payload goes to a loader that the build does not have.
NoLoader(request) ==
  build = "stub" /\ Reached(INITIALIZED) /\ Crash(request)

-----------------------------------------------------------------------------
(* The inference server.                                                   *)

Request ==
  \/ \E failed \in Failures("MODEL") :
       EmptyModel(failed) \/ \E g \in Graphs : ModelRequest(g, failed)
  \/ \E failed \in Failures("DATA") :
       \/ EmptyData(failed)
       \/ \E x \in Inputs, size \in LoaderSizes, overlaps \in Open("tflite") :
            DataRequest(x, size, overlaps, failed)
  \/ \E failed \in Failures("PROCESS"), copied \in Open("executorch"), overlaps \in Open("tflite") :
       Process(TRUE, copied, overlaps, failed)
  \/ \E failed \in Failures("OUTPUT") : Output(CONFIG_KENNING_RESPONSE_PAYLOAD_SIZE, failed)

\* The server initializes the model, and takes requests once it did.
ServerNext ==
  /\ demo.place = "server" /\ crashed = "no"
  /\ \/ \E failed \in Failures("INIT") : StartModel(failed)
     \/ /\ Reached(INITIALIZED)
        /\ \/ Request
           \/ \E bytes \in SentSpecs :
                Iospec(model_load_struct(bytes)) \/ Iospec(ReceiveIospec(bytes))
           \/ Iospec(model_load_struct_from_loader)
           \/ LostModel
           \/ \E size \in LoaderSizes, overlaps \in Open("tflite") : LostData(size, overlaps)
           \/ Stats(RESPONSE_STATISTICS)
           \/ NoLoader("MODEL") \/ NoLoader("DATA")
  /\ UNCHANGED app

-----------------------------------------------------------------------------
(* demo_app: a fixed sequence that stops at the first status that is not   *)
(* STATUS_OK.                                                              *)

\* Mutant: on it goes.
GoesOn(place) == demo' = [demo EXCEPT !.place = IF crashed' = "no" THEN place ELSE "end"]

Then(place) ==
  demo' = [demo EXCEPT !.place =
             IF crashed' = "no" /\ result'.status = "OK" THEN place ELSE "end"]

\* model_load_weights finds no loader in a build without a runtime.
DemoWeights(failed) ==
  \/ ModelRequest(BuiltIn, failed)
  \/ /\ build = "stub" /\ Refused("MODEL")
     /\ delivered' = Nothing /\ UNCHANGED <<runtime, memory, crashed, ghosts>>

\* k_aligned_alloc, whose result is not looked at.
DemoAlloc ==
  /\ demo' \in [place : {"input"}, model_input : BOOLEAN, model_output : BOOLEAN]
  /\ delivered' = Nothing
  /\ UNCHANGED <<vars, runtime, memory, crashed, ghosts>>

\* The input is prepared in its buffer first.
DemoInput(input, overlaps, failed) ==
  \/ ~demo.model_input /\ Crash("DEMO")
  \/ demo.model_input /\ DataRequest(input, model_get_input_size, overlaps, failed)

\* model_get_output does notice that there is no buffer.
DemoOutput(failed) ==
  \/ demo.model_output /\ Output(model_get_output_size, failed)
  \/ /\ ~demo.model_output /\ Refused("OUTPUT")
     /\ delivered' = Nothing /\ UNCHANGED <<runtime, memory, crashed, ghosts>>

\* log_statistics, whatever comes of it.
LogStatistics ==
  /\ Stats(INFERENCE_STATISTICS_BUFFER_LENGTH)
  /\ demo' = [demo EXCEPT !.place = "end"]

DemoStep ==
  \/ \E failed \in Failures("INIT") :
       demo.place = "init" /\ StartModel(failed) /\ Then("struct")
  \/ /\ demo.place = "struct"
     /\ Iospec(model_load_struct(<<GraphSpec[BuiltIn].input, GraphSpec[BuiltIn].output>>))
     /\ Then("weights")
  \/ \E failed \in Failures("MODEL") :
       demo.place = "weights" /\ DemoWeights(failed) /\ Then("alloc")
  \/ demo.place = "alloc" /\ DemoAlloc
  \/ \E failed \in Failures("DATA"), x \in Inputs, overlaps \in Open("tflite") :
       demo.place = "input" /\ DemoInput(x, overlaps, failed) /\ Then("run")
  \/ \E failed \in Failures("PROCESS"), copied \in Open("executorch"), overlaps \in Open("tflite") :
       demo.place = "run" /\ Process(FALSE, copied, overlaps, failed) /\ Then("output")
  \/ \E failed \in Failures("OUTPUT"), next \in {"input", "statistics"} :
       demo.place = "output" /\ DemoOutput(failed) /\ Then(next)
  \/ demo.place = "statistics" /\ LogStatistics

DemoNext ==
  /\ demo.place # "server" /\ crashed = "no"
  /\ DemoStep
  /\ UNCHANGED build

StaticNext == ServerNext \/ DemoNext

StaticSpec == StaticInit /\ [][StaticNext]_static_vars

-----------------------------------------------------------------------------
RuntimeStates ==
  CASE build = "tflite" -> T!TfliteStates
    [] build = "iree" -> I!IreeStates
    [] build = "executorch" -> X!ExecutorchStates
    [] build \in {"emlearn", "stub"} -> E!EmlearnStates

\* Type invariant.
StaticTypeOK ==
  /\ TypeOK
  /\ build \in Builds /\ runtime \in RuntimeStates
  /\ demo \in [place : Places, model_input : BOOLEAN, model_output : BOOLEAN]
  /\ model_buffer \in Graphs \cup {Torn} /\ input_buffer \in Inputs \cup {Torn}
  /\ data_written \in Nat
  /\ crashed \in {"no", "MODEL", "DATA", "PROCESS", "OUTPUT", "DEMO", "overrun", "freed"}
  /\ accepted \in Graphs \cup {NULL} /\ fed \in Inputs \cup {NULL}
  /\ settled \subseteq {"MODEL", "DATA", "PROCESS"}

\* Output that follows a model, an input and a run which all arrived whole,
\* were answered with success and hid no failure is what that model makes of
\* that input, whatever was lost, refused, repeated or failed before, and
\* whatever a runtime allows to be lost since.  With IREE it is never what
\* was computed of an older input, even if the failure of the run was hidden.
\* (Where ExecuTorch writes past its array, or destroys a method late, and the
\* run goes on, it is taken to have hit nothing in use.)
OutputIsComputed ==
  result.op = "OUTPUT" /\ delivered # Nothing /\ Matches(accepted) =>
    /\ "PROCESS" \in settled => delivered.data = <<accepted, fed>>
    /\ build = "iree" /\ "MODEL" \in settled => delivered.data \in {<<accepted, fed>>, Garbage}

\* demo_app, which sees the status of each run, prints nothing else.
DemoPrintsComputed ==
  demo.place # "server" /\ build # "stub" /\ result.op = "OUTPUT" /\ delivered # Nothing =>
    delivered.data = <<BuiltIn, fed>>

\* DATA, PROCESS and OUTPUT use what is not there, or not the runtime's any
\* more, only after a payload was lost, a request failed, or a failure went
\* unnoticed; DATA also where metadata that was rejected is in use.  MODEL is
\* undefined without a runtime, and with ExecuTorch: whenever it allocates
\* planned buffers, and whenever there is a method to be replaced.
CrashHasCause ==
  CASE crashed = "no" -> TRUE
    [] crashed = "DATA" ->
         build = "stub" \/ "MODEL" \notin settled \/ g_model_spec.input \notin ValidHalves
    [] crashed = "PROCESS" -> "MODEL" \notin settled
    [] crashed = "OUTPUT" -> ~({"MODEL", "PROCESS"} \subseteq settled)
    [] crashed = "MODEL" -> build = "stub"
    [] crashed = "overrun" -> build = "executorch"
    [] crashed = "freed" -> build = "executorch" /\ runtime.gp_method # NULL
    [] crashed = "DEMO" -> ~demo.model_input
    [] OTHER -> FALSE

\* What the sizes of a program have to be: responses and demo_app's array
\* hold what the runtimes write of statistics, and emlearn's buffer the
\* outputs of the model built in.
SizesFit ==
  /\ RESPONSE_STATISTICS >= 12 /\ INFERENCE_STATISTICS_BUFFER_LENGTH >= 12
  /\ HalfBytes[GraphSpec[BuiltIn].output] <= CONFIG_KENNING_EMLEARN_OUTPUT_BUFFER_SIZE

\* IREE and ExecuTorch count bytes for themselves.  They count as model.c
\* does where the outputs' metadata in use is one that would be accepted,
\* with elements of at least a bit (validate_tensors accepts none, too), and
\* the size in bits fits a word.  Metadata in use need not be any of that.
CountsAgree ==
  build \in {"iree", "executorch"} =>
    g_model_spec.output \in ValidHalves /\ NoOverflow(Tensor[g_model_spec.output])

\* Where they do, what is copied fits where it goes, and by metadata that is
\* that of the model no more is copied than was computed, and the client is
\* told as much.  TFLite goes by its tensor: there the metadata has to be
\* that of the model.  Statistics always fit, although runtimes write more
\* of them than they ask room for.
CopyInBounds ==
  /\ result.op = "STATS" => delivered.written <= delivered.room
  /\ result.op = "OUTPUT" /\ CountsAgree =>
       /\ build # "tflite" \/ ("MODEL" \in settled /\ Matches(accepted)) =>
            delivered.written <= delivered.room
       /\ "PROCESS" \in settled /\ Matches(accepted) =>
            delivered.written <= delivered.available /\ delivered.told = delivered.written

\* What IREE holds needs a device, and the device is the last thing there is
\* to make.  Model and runtime agree on whether it was: no request, not even
\* one for statistics, finds none.
IreeDeviceNeedsInitialized ==
  build = "iree" =>
    /\ I!DeviceNeedsInitialized(runtime)
    /\ Reached(INITIALIZED) => runtime.gp_device


\* test_model.c:789: model execution "when inference fails" gives the status
\* of the runtime, and the state stays INPUT_LOADED.  A run that IREE was
\* asked for leaves it with outputs if it was answered with success.
FailedRunIsReported ==
  build = "iree" /\ result.op = "PROCESS" /\ result.status = "OK" =>
    runtime.gp_model_outputs \in Results
=============================================================================
