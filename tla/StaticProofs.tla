---------------------------- MODULE StaticProofs ----------------------------
(***************************************************************************)
(* Programs with a runtime built in: whatever the runtime does, and        *)
(* whichever of its calls fail, they go through the steps of               *)
(* InferenceSteps; what IREE holds needs the device it made last; and      *)
(* model.c and the runtimes agree on the sizes of tensors.  In the second  *)
(* half: what the runtime holds of a model, an input and a run that        *)
(* arrived whole and succeeded, and so what a client or demo_app gets.     *)
(***************************************************************************)
EXTENDS StaticBuild, ModelProofs

-----------------------------------------------------------------------------
(* Sizes.                                                                  *)

\* Whole bytes: the two ways to count them agree.
LEMMA WholeBytes ==
  ASSUME NEW k \in Nat \ {0}
  PROVE  (8 * k) \div 8 = k /\ (8 * k - 1) \div 8 + 1 = k
OBVIOUS

LEMMA TensorBytes ==
  ASSUME NEW length \in Nat, NEW bits \in Nat \ {0},
         bits % KENNING_BITS_PER_BYTE = 0, WordSize \in Nat \ {0}, length * bits < WordSize
  PROVE  /\ model_bytes(length, bits) = (length * bits) \div 8
         /\ compute_structure_size_bytes(length, bits) = (length * bits) \div 8
<1>1. PICK k \in Nat \ {0} : bits = 8 * k
  <2>1. bits = 8 * (bits \div 8) /\ bits \div 8 \in Nat \ {0}
    BY DEF KENNING_BITS_PER_BYTE
  <2> QED BY <2>1
<1>2. length * k \in Nat /\ length * bits = 8 * (length * k)
  BY <1>1
<1>3. (length * bits) \div 8 = length * k
  BY <1>2
<1>4. model_bytes(length, bits) = length * k
  <2>1. length * bits \in Nat
    BY <1>2
  <2>2. (length * bits) % WordSize = length * bits
    BY <2>1
  <2> QED BY <1>3, <2>2 DEF model_bytes, KENNING_BITS_PER_BYTE
<1>5. compute_structure_size_bytes(length, bits) = length * k
  <2>1. compute_size_bytes(bits) = k
    BY <1>1, WholeBytes DEF compute_size_bytes, KENNING_BITS_PER_BYTE
  <2>2. length * k < WordSize
    BY <1>2
  <2>3. (length * k) % WordSize = length * k
    BY <1>2, <2>2
  <2> QED BY <2>1, <2>3 DEF compute_structure_size_bytes
<1> QED BY <1>3, <1>4, <1>5

\* model.c, which multiplies elements by bits, and the runtimes, which
\* multiply elements by bytes, give a tensor that validate_tensors lets pass
\* the same size, if it is not of zero bits and its size in bits fits a word:
\* what model.c compared with a buffer is then what is copied.
THEOREM SizesAgree ==
  ASSUME NEW tensor, validate_tensor(tensor), NoOverflow(tensor),
         tensor.bits \in Nat, model_spec_length(tensor.shape) \in Nat
  PROVE  ModelBytes(tensor) = RuntimeBytes(tensor)
BY TensorsAssumption, TensorBytes
   DEF validate_tensor, NoOverflow, ModelBytes, RuntimeBytes

-----------------------------------------------------------------------------
(* The functions of the runtimes return a status, unless they crash.       *)

Statuses == RuntimeStatus \cup {"CRASH"}

LEMMA InitStatus ==
  ASSUME NEW failed
  PROVE  runtime_init(failed).status \in RuntimeStatus
BY DEF runtime_init, Returned, I!runtime_init, I!Returned, RuntimeStatus

LEMMA WeightsStatus ==
  ASSUME build \in Builds, NEW s, NEW model, NEW failed
  PROVE  runtime_init_weights(s, model, failed).status \in Statuses
<1>1. T!runtime_init_weights(s, model, failed).status \in Statuses
  BY DEF T!runtime_init_weights, T!Returned, RuntimeStatus, Statuses
<1>2. I!runtime_init_weights(s, model, failed).status \in Statuses
  BY DEF I!runtime_init_weights, I!create_context, I!Returned, RuntimeStatus, Statuses
<1>3. X!runtime_init_weights(s, model, failed).status \in Statuses
  BY DEF X!runtime_init_weights, X!LoadMethod, X!Returned, RuntimeStatus, Statuses
<1> QED BY <1>1, <1>2, <1>3 DEF runtime_init_weights, Returned, RuntimeStatus, Statuses, Builds

\* ExecuTorch alone may crash when it is given a model: where it overruns its
\* array of buffers, or has a method to replace.
LEMMA WeightsCrash ==
  ASSUME build \in Builds, NEW s, NEW model, NEW failed,
         runtime_init_weights(s, model, failed).status = "CRASH"
  PROVE  /\ build = "executorch"
         /\ \/ failed = "overrun"
            \/ failed = "freed" /\ X!deallocate_planned_buffers(s).gp_method # NULL
<1>1. T!runtime_init_weights(s, model, failed).status # "CRASH"
  BY DEF T!runtime_init_weights, T!Returned
<1>2. I!runtime_init_weights(s, model, failed).status # "CRASH"
  BY DEF I!runtime_init_weights, I!create_context, I!Returned
<1>3. Returned(s, "OK").status # "CRASH"
  BY DEF Returned
<1>4. build = "executorch"
  BY <1>1, <1>2, <1>3 DEF runtime_init_weights, Builds
<1> DEFINE r == X!deallocate_planned_buffers(s)
<1>5. X!LoadMethod(r, model, failed).status = "CRASH"
  BY <1>4 DEF runtime_init_weights, X!runtime_init_weights
<1> HIDE DEF r
<1>6. failed = "overrun" \/ (failed = "freed" /\ r.gp_method # X!NULL)
  BY <1>5 DEF X!LoadMethod, X!Returned
<1> QED BY <1>4, <1>6 DEF r, X!NULL, NULL

LEMMA InputStatus ==
  ASSUME build \in Builds, NEW s, NEW input, NEW failed
  PROVE  runtime_init_input(s, input, failed).status \in Statuses
<1> DEFINE tensors == TensorsOf(g_model_spec.input)
<1>1. I!runtime_init_input(s, input, tensors, failed).status \in Statuses
  BY DEF I!runtime_init_input, I!prepare_input_buffer, I!Returned, RuntimeStatus, Statuses
<1>2. X!runtime_init_input(s, input, tensors, failed).status \in Statuses
  BY DEF X!runtime_init_input, X!Returned, RuntimeStatus, Statuses
<1> QED BY <1>1, <1>2 DEF runtime_init_input, Returned, RuntimeStatus, Statuses, Builds

LEMMA RunStatus ==
  ASSUME build \in Builds, NEW copied, NEW failed
  PROVE  runtime_run_model(copied, failed).status \in Statuses
<1>1. T!runtime_run_model(runtime, model_buffer, input_buffer, failed).status \in Statuses
  BY DEF T!runtime_run_model, T!Returned, RuntimeStatus, Statuses
<1>2. I!runtime_run_model(runtime, model_buffer, failed).status \in Statuses
  BY DEF I!runtime_run_model, I!Returned, RuntimeStatus, Statuses
<1>3. X!runtime_run_model(runtime, model_buffer, input_buffer, copied, failed).status
        \in Statuses
  BY DEF X!runtime_run_model, X!Returned, RuntimeStatus, Statuses
<1>4. E!runtime_run_model(runtime, input_buffer).status \in Statuses
  BY DEF E!runtime_run_model, E!Returned, RuntimeStatus, Statuses
<1> QED BY <1>1, <1>2, <1>3, <1>4
        DEF runtime_run_model, Returned, RuntimeStatus, Statuses, Builds

LEMMA RunIsRecord ==
  ASSUME build \in Builds, NEW copied, NEW failed
  PROVE  "status" \in DOMAIN runtime_run_model(copied, failed)
<1>1. "status" \in DOMAIN T!runtime_run_model(runtime, model_buffer, input_buffer, failed)
  BY DEF T!runtime_run_model, T!Returned
<1>2. "status" \in DOMAIN I!runtime_run_model(runtime, model_buffer, failed)
  BY DEF I!runtime_run_model, I!Returned
<1>3. "status" \in DOMAIN X!runtime_run_model(runtime, model_buffer, input_buffer, copied, failed)
  BY DEF X!runtime_run_model, X!Returned
<1>4. "status" \in DOMAIN E!runtime_run_model(runtime, input_buffer)
  BY DEF E!runtime_run_model, E!Returned
<1> QED BY <1>1, <1>2, <1>3, <1>4 DEF runtime_run_model, Returned, Builds

LEMMA OutputStatus ==
  ASSUME build \in Builds, NEW failed
  PROVE  runtime_get_model_output(failed).status \in Statuses
<1> DEFINE tensors == TensorsOf(g_model_spec.output)
<1>1. T!runtime_get_model_output(runtime).status \in Statuses
  BY DEF T!runtime_get_model_output, T!Returned, RuntimeStatus, Statuses
<1>2. I!runtime_get_model_output(runtime, tensors, failed).status \in Statuses
  BY DEF I!runtime_get_model_output, I!Returned, RuntimeStatus, Statuses
<1>3. X!runtime_get_model_output(runtime, tensors, failed).status \in Statuses
  BY DEF X!runtime_get_model_output, X!Returned, RuntimeStatus, Statuses
<1> QED BY <1>1, <1>2, <1>3
        DEF runtime_get_model_output, Returned, RuntimeStatus, Statuses, Builds

-----------------------------------------------------------------------------
(* Each step of the program is one of model.c, or leaves model.c alone.    *)

LEMMA NoModelStep ==
  ASSUME TypeOK, UNCHANGED vars
  PROVE  TypeOK' /\ Simulates
BY NextAction

\* A status that is not looked at may be any.
LEMMA WeightsServed ==
  ASSUME TypeOK, NEW st \in Statuses, model_load_weights_from_loader(st),
         ~(Reached(STRUCT_LOADED) /\ st = "CRASH")
  PROVE  TypeOK' /\ Simulates
<1>1. CASE st \in RuntimeStatus
  BY <1>1, WeightsAction
<1>2. CASE st = "CRASH"
  <2>1. model_load_weights_from_loader("OK")
    BY <1>2 DEF model_load_weights_from_loader
  <2> QED BY <2>1, WeightsAction DEF RuntimeStatus
<1> QED BY <1>1, <1>2 DEF Statuses

LEMMA InputServed ==
  ASSUME TypeOK, NEW size, NEW st \in Statuses, model_load_input_from_loader(size, st),
         ~(Reached(WEIGHTS_LOADED) /\ size = model_get_input_size /\ st = "CRASH")
  PROVE  TypeOK' /\ Simulates
<1>1. CASE st \in RuntimeStatus
  BY <1>1, InputAction
<1>2. CASE st = "CRASH"
  <2>1. model_load_input_from_loader(size, "OK")
    BY <1>2 DEF model_load_input_from_loader
  <2> QED BY <2>1, InputAction DEF RuntimeStatus
<1> QED BY <1>1, <1>2 DEF Statuses

LEMMA RunServed ==
  ASSUME TypeOK, NEW st \in Statuses, model_run(st), ~(Reached(INPUT_LOADED) /\ st = "CRASH")
  PROVE  TypeOK' /\ Simulates
<1>1. CASE st \in RuntimeStatus
  BY <1>1, RunAction
<1>2. CASE st = "CRASH"
  <2>1. model_run("OK")
    BY <1>2 DEF model_run
  <2> QED BY <2>1, RunAction DEF RuntimeStatus
<1> QED BY <1>1, <1>2 DEF Statuses

LEMMA OutputServed ==
  ASSUME TypeOK, NEW room, NEW st \in Statuses, model_get_output(room, st),
         ~(Reached(INFERENCE_DONE) /\ room >= model_get_output_size /\ st = "CRASH"),
         room \in Nat
  PROVE  TypeOK' /\ Simulates
<1>1. CASE st \in RuntimeStatus
  BY <1>1, OutputAction
<1>2. CASE st = "CRASH"
  <2>1. CASE ~Reached(INFERENCE_DONE)
    <3>1. model_get_output(room, "OK")
      BY <1>2, <2>1 DEF model_get_output
    <3> QED BY <3>1, OutputAction DEF RuntimeStatus
  <2>2. CASE room < model_get_output_size
    <3>1. model_get_output(room, "OK")
      BY <1>2, <2>2 DEF model_get_output
    <3> QED BY <3>1, OutputAction DEF RuntimeStatus
  <2>3. Reached(INFERENCE_DONE) => room < model_get_output_size
    <3>1. model_get_output_size \in Nat
      BY SizesAreNat DEF TypeOK
    <3> QED BY <1>2, <3>1
  <2> QED BY <2>1, <2>2, <2>3
<1> QED BY <1>1, <1>2 DEF Statuses

LEMMA CrashAction ==
  ASSUME TypeOK, NEW request, Crash(request)
  PROVE  TypeOK' /\ Simulates
BY NoModelStep DEF Crash

LEMMA StartAction ==
  ASSUME TypeOK, NEW failed, StartModel(failed)
  PROVE  TypeOK' /\ Simulates
BY InitStatus, InitAction DEF StartModel

LEMMA ModelAction ==
  ASSUME TypeOK, build \in Builds, NEW s, NEW model, NEW failed, ServeModel(s, model, failed)
  PROVE  TypeOK' /\ Simulates
<1> DEFINE st == runtime_init_weights(s, model, failed).status
<1>1. st \in Statuses
  BY WeightsStatus
<1>2. model_load_weights_from_loader(st) /\ ~(Reached(STRUCT_LOADED) /\ st = "CRASH")
  BY DEF ServeModel
<1> HIDE DEF st
<1> QED BY <1>1, <1>2, WeightsServed

LEMMA ModelRequestAction ==
  ASSUME TypeOK, build \in Builds, NEW g, NEW failed, ModelRequest(g, failed)
  PROVE  TypeOK' /\ Simulates
BY ModelAction, CrashAction DEF ModelRequest, LoadModel, ModelCrash

LEMMA DataAction ==
  ASSUME TypeOK, build \in Builds, NEW s, NEW input, NEW size, NEW failed,
         ServeData(s, input, size, failed)
  PROVE  TypeOK' /\ Simulates
<1> DEFINE st == runtime_init_input(s, input, failed).status
<1>1. st \in Statuses
  BY InputStatus
<1>2. \/ Crash("DATA")
      \/ /\ ~(Reached(WEIGHTS_LOADED) /\ size = model_get_input_size /\ st = "CRASH")
         /\ model_load_input_from_loader(size, st)
  BY DEF ServeData
<1> HIDE DEF st
<1> QED BY <1>1, <1>2, CrashAction, InputServed

LEMMA ProcessAction ==
  ASSUME TypeOK, build \in Builds, NEW measured, NEW copied, NEW overlaps, NEW failed,
         Process(measured, copied, overlaps, failed)
  PROVE  TypeOK' /\ Simulates
<1> DEFINE run == runtime_run_model(copied, failed)
           st  == IF measured THEN Bench(run).status ELSE run.status
<1>1. run.status \in Statuses
  BY RunStatus
<1>2. \/ Crash("PROCESS")
      \/ ~(Reached(INPUT_LOADED) /\ run.status = "CRASH") /\ model_run(st)
  BY DEF Process
<1>3. st \in Statuses /\ (st = "CRASH" => run.status = "CRASH")
  <2>1. Bench(run).status = IF run.status = "CRASH" THEN "CRASH" ELSE "OK"
    <3>1. "status" \in DOMAIN run
      BY RunIsRecord
    <3> QED BY <3>1 DEF Bench
  <2> QED BY <1>1, <2>1 DEF Statuses, RuntimeStatus
<1> HIDE DEF st, run
<1> QED BY <1>2, <1>3, CrashAction, RunServed

LEMMA OutputStep ==
  ASSUME TypeOK, build \in Builds, NEW room \in Nat, NEW failed, Output(room, failed)
  PROVE  TypeOK' /\ Simulates
<1> DEFINE st == runtime_get_model_output(failed).status
<1>1. st \in Statuses
  BY OutputStatus
<1>2. \/ Crash("OUTPUT")
      \/ /\ ~(Reached(INFERENCE_DONE) /\ room >= model_get_output_size /\ st = "CRASH")
         /\ model_get_output(room, st)
  BY DEF Output
<1> HIDE DEF st
<1> QED BY <1>1, <1>2, CrashAction, OutputServed

LEMMA StatsStep ==
  ASSUME TypeOK, NEW room, Stats(room)
  PROVE  TypeOK' /\ Simulates
<1>1. StatisticsStatus(room) \in RuntimeStatus
  BY DEF StatisticsStatus, RuntimeStatus
<1>2. model_get_statistics(StatisticsStatus(room))
  BY DEF Stats
<1> QED BY <1>1, <1>2, StatsAction

LEMMA IospecAction ==
  ASSUME TypeOK, Next
  PROVE  TypeOK' /\ Simulates
BY NextAction

LEMMA StructCall ==
  ASSUME TypeOK, NEW bytes \in Payloads, model_load_struct(bytes)
  PROVE  TypeOK' /\ Simulates
BY IospecAction DEF Next

LEMMA RequestAction ==
  ASSUME TypeOK, build \in Builds, Request
  PROVE  TypeOK' /\ Simulates
<1>1. ASSUME NEW failed, EmptyModel(failed)
      PROVE  TypeOK' /\ Simulates
  BY <1>1, ModelAction, CrashAction DEF EmptyModel, ReloadModel, ModelCrash
<1>2. ASSUME NEW failed, NEW g, ModelRequest(g, failed)
      PROVE  TypeOK' /\ Simulates
  BY <1>2, ModelRequestAction
<1>3. ASSUME NEW failed, EmptyData(failed)
      PROVE  TypeOK' /\ Simulates
  BY <1>3, DataAction DEF EmptyData
<1>4. ASSUME NEW failed, NEW x, NEW size, NEW overlaps, DataRequest(x, size, overlaps, failed)
      PROVE  TypeOK' /\ Simulates
  BY <1>4, DataAction DEF DataRequest
<1>5. CONFIG_KENNING_RESPONSE_PAYLOAD_SIZE \in Nat
  BY ModelAssumption
<1> QED BY <1>1, <1>2, <1>3, <1>4, <1>5, ProcessAction, OutputStep DEF Request

LEMMA ServerAction ==
  ASSUME TypeOK, build \in Builds, ServerNext
  PROVE  TypeOK' /\ Simulates
<1>1. ASSUME NEW bytes \in SentSpecs, Iospec(model_load_struct(bytes))
      PROVE  TypeOK' /\ Simulates
  <2>1. bytes \in Payloads
    BY StaticAssumption
  <2>2. model_load_struct(bytes)
    BY <1>1 DEF Iospec
  <2> QED BY <2>1, <2>2, StructCall
<1>2. ASSUME NEW bytes \in SentSpecs, Iospec(ReceiveIospec(bytes))
      PROVE  TypeOK' /\ Simulates
  <2>1. bytes \in Payloads
    BY StaticAssumption
  <2>2. ReceiveIospec(bytes)
    BY <1>2 DEF Iospec
  <2> QED BY <2>1, <2>2, IospecAction DEF Next
<1>3. CASE Iospec(model_load_struct_from_loader)
  <2>1. model_load_struct_from_loader
    BY <1>3 DEF Iospec
  <2> QED BY <2>1, IospecAction DEF Next
<1>4. CASE LostModel
  BY <1>4, NoModelStep DEF LostModel
<1>5. ASSUME NEW size, NEW overlaps, LostData(size, overlaps)
      PROVE  TypeOK' /\ Simulates
  BY <1>5, NoModelStep DEF LostData
<1>6. ASSUME NEW request, NoLoader(request)
      PROVE  TypeOK' /\ Simulates
  BY <1>6, CrashAction DEF NoLoader
<1> QED BY <1>1, <1>2, <1>3, <1>4, <1>5, <1>6, RequestAction, StartAction, StatsStep
        DEF ServerNext

LEMMA DemoAction ==
  ASSUME TypeOK, build \in Builds, DemoNext
  PROVE  TypeOK' /\ Simulates
<1>1. StepNames[3] = "MODEL" /\ 3 \in 1 .. 5 /\ iospec_written \in 0 .. 2
  BY DEF StepNames, TypeOK
<1>2. ASSUME NEW failed, DemoWeights(failed)
      PROVE  TypeOK' /\ Simulates
  <2>1. CASE ModelRequest(BuiltIn, failed)
    BY <2>1, ModelRequestAction
  <2>2. CASE Refused("MODEL")
    BY <1>1, <2>2, RefusedAction DEF Refused
  <2> QED BY <1>2, <2>1, <2>2 DEF DemoWeights
<1>3. CASE DemoAlloc
  BY <1>3, NoModelStep DEF DemoAlloc
<1>4. ASSUME NEW x, NEW overlaps, NEW failed, DemoInput(x, overlaps, failed)
      PROVE  TypeOK' /\ Simulates
  <2>1. CASE Crash("DEMO")
    BY <2>1, CrashAction
  <2>2. CASE DataRequest(x, model_get_input_size, overlaps, failed)
    BY <2>2, DataAction DEF DataRequest
  <2> QED BY <1>4, <2>1, <2>2 DEF DemoInput
<1>5. ASSUME NEW failed, DemoOutput(failed)
      PROVE  TypeOK' /\ Simulates
  <2>1. CASE Output(model_get_output_size, failed)
    <3>1. model_get_output_size \in Nat
      BY SizesAreNat DEF TypeOK
    <3> QED BY <2>1, <3>1, OutputStep
  <2>2. CASE Refused("OUTPUT")
    <3>1. /\ result'.op = "OUTPUT" /\ result'.status = "NOT_LOADED" /\ result'.size = 0
          /\ UNCHANGED <<g_model_state, g_model_spec, iospec_written>>
      BY <2>2 DEF Refused, Returns
    <3>2. TypeOK'
      BY <3>1 DEF TypeOK
    <3>3. Abstract!Next
      BY <3>1, QueryImplements
    <3> QED BY <3>2, <3>3 DEF Simulates
  <2> QED BY <1>5, <2>1, <2>2 DEF DemoOutput
<1>6. CASE Iospec(model_load_struct(<<GraphSpec[BuiltIn].input, GraphSpec[BuiltIn].output>>))
  <2>1. GraphSpec[BuiltIn].input \in Half /\ GraphSpec[BuiltIn].output \in Half
    BY StaticAssumption DEF Half
  <2> DEFINE bytes == <<GraphSpec[BuiltIn].input, GraphSpec[BuiltIn].output>>
  <2>2. bytes \in Payloads
    BY <2>1 DEF Payloads
  <2>3. model_load_struct(bytes)
    BY <1>6 DEF Iospec
  <2> QED BY <2>2, <2>3, StructCall
<1>7. CASE LogStatistics
  BY <1>7, StatsStep DEF LogStatistics
<1> QED BY <1>2, <1>3, <1>4, <1>5, <1>6, <1>7, StartAction, ProcessAction DEF DemoNext, DemoStep

-----------------------------------------------------------------------------
SInv == TypeOK /\ build \in Builds

LEMMA StaticAction ==
  ASSUME SInv, [StaticNext]_static_vars
  PROVE  SInv' /\ Simulates
<1>1. build' = build
  BY DEF StaticNext, ServerNext, DemoNext, static_vars, app
<1>2. CASE UNCHANGED static_vars
  BY <1>1, <1>2, NoModelStep DEF SInv, static_vars
<1> QED BY <1>1, <1>2, ServerAction, DemoAction DEF SInv, StaticNext

\* The variables of model.c keep their types in every program with a runtime
\* built in.
THEOREM StaticModelType == StaticSpec => []SInv
<1>1. StaticInit => SInv
  BY InitType DEF StaticInit, SInv
<1>2. SInv /\ [StaticNext]_static_vars => SInv'
  BY StaticAction
<1> QED BY <1>1, <1>2, PTL DEF StaticSpec

\* A program with a runtime built in goes through the steps of InferenceSteps,
\* over the inference server or in demo_app's fixed sequence, whichever calls
\* of the runtime fail or have their failure hidden: a request is served only
\* on top of the steps it rests on.
THEOREM StaticImplementsSteps == StaticSpec => ImplementsSteps
<1> DEFINE answer == [op |-> result.op, served |-> result.status = "OK" /\ result.op # "none"]
<1>1. StaticInit => Abstract!Init
  BY InitSteps DEF StaticInit
<1>2. SInv /\ [StaticNext]_static_vars => [Abstract!Next]_<<DoneSteps, answer>>
  BY StaticAction DEF Simulates
<1> QED BY <1>1, <1>2, StaticModelType, PTL DEF StaticSpec, ImplementsSteps, Abstract!Spec

-----------------------------------------------------------------------------
(* What the functions of the runtimes make of their data.                  *)

Loaded == Graphs \cup {Torn}
Given == Inputs \cup {Torn}

LEMMA ComputedType ==
  ASSUME NEW graph, NEW input
  PROVE  /\ Computed(graph, input) \in Results /\ Garbage \in Results
         /\ T!Computed(graph, input) \in T!Results /\ T!Garbage \in T!Results
         /\ I!Computed(graph, input) \in I!Results /\ I!Garbage \in I!Results
         /\ X!Computed(graph, input) \in X!Results /\ X!Garbage \in X!Results
         /\ E!Computed(graph, input) \in E!Results /\ E!Garbage \in E!Results
BY DEF Computed, Results, Garbage, Torn, T!Computed, T!Results, T!Garbage, T!Torn,
       I!Computed, I!Results, I!Garbage, I!Torn, X!Computed, X!Results, X!Garbage, X!Torn,
       E!Computed, E!Results, E!Garbage, E!Torn

LEMMA TfliteTypes ==
  ASSUME NEW s \in T!TfliteStates, NEW model \in Loaded, NEW input, NEW failed
  PROVE  /\ T!tflite_reset_buf(s) \in T!TfliteStates
         /\ T!AfterInput(s) \in T!TfliteStates
         /\ T!runtime_init_weights(s, model, failed).state \in T!TfliteStates
         /\ T!runtime_run_model(s, model, input, failed).state \in T!TfliteStates
<1>1. T!Torn = Torn /\ T!Garbage \in T!Results
  BY ComputedType DEF T!Torn, Torn
<1>2. T!tflite_reset_buf(s) \in T!TfliteStates /\ T!AfterInput(s) \in T!TfliteStates
  BY <1>1 DEF T!tflite_reset_buf, T!AfterInput, T!TfliteStates
<1>3. T!runtime_init_weights(s, model, failed).state \in T!TfliteStates
  BY <1>1 DEF T!runtime_init_weights, T!TfliteStates, T!Returned, Loaded
<1>4. T!runtime_run_model(s, model, input, failed).state \in T!TfliteStates
  <2> DEFINE computed == T!Computed(IF model = s.gp_tflite_interpreter THEN model ELSE T!Torn, input)
  <2>1. computed \in T!Results
    BY ComputedType
  <2>2. T!runtime_run_model(s, model, input, failed).state
          \in {s, [s EXCEPT !.output = T!Garbage], [s EXCEPT !.output = computed]}
    BY DEF T!runtime_run_model, T!Returned
  <2> HIDE DEF computed
  <2> QED BY <1>1, <2>1, <2>2 DEF T!TfliteStates
<1> QED BY <1>2, <1>3, <1>4

LEMMA ExecutorchTypes ==
  ASSUME NEW s \in X!ExecutorchStates, NEW model \in Loaded, NEW input \in Given,
         NEW tensor, NEW copied, NEW failed
  PROVE  /\ X!runtime_init_weights(s, model, failed).state \in X!ExecutorchStates
         /\ X!runtime_init_input(s, input, tensor, failed).state \in X!ExecutorchStates
         /\ X!runtime_run_model(s, model, input, copied, failed).state \in X!ExecutorchStates
<1>1. X!Torn = Torn /\ X!Garbage \in X!Results
  BY ComputedType DEF X!Torn, Torn
<1>2. X!runtime_init_weights(s, model, failed).state \in X!ExecutorchStates
  <2> DEFINE r == X!deallocate_planned_buffers(s)
  <2>1. r \in X!ExecutorchStates
    BY DEF X!deallocate_planned_buffers, X!ExecutorchStates
  <2>2. X!Buffers(failed) \in {"own", "unbacked"}
    BY DEF X!Buffers
  <2> HIDE DEF r
  <2>3. X!LoadMethod(r, model, failed).state \in X!ExecutorchStates
    BY <1>1, <2>1, <2>2 DEF X!LoadMethod, X!ExecutorchStates, X!Returned, Loaded
  <2> QED BY <2>3 DEF X!runtime_init_weights, r
<1>3. X!runtime_init_input(s, input, tensor, failed).state \in X!ExecutorchStates
  <2>1. X!runtime_init_input(s, input, tensor, failed).state
          \in {s, [s EXCEPT !.method_input = input]}
    BY DEF X!runtime_init_input, X!Returned
  <2> QED BY <1>1, <2>1 DEF X!ExecutorchStates, Given
<1>4. X!runtime_run_model(s, model, input, copied, failed).state \in X!ExecutorchStates
  <2> DEFINE computed == X!Computed(IF model = s.gp_method THEN model ELSE X!Torn,
                                    IF copied THEN s.method_input ELSE input)
  <2>1. computed \in X!Results
    BY ComputedType
  <2>2. X!runtime_run_model(s, model, input, copied, failed).state
          \in {s, [s EXCEPT !.output = X!Garbage],
               [s EXCEPT !.output = computed, !.method_input = X!Torn]}
    BY DEF X!runtime_run_model, X!Returned
  <2> HIDE DEF computed
  <2> QED BY <1>1, <2>1, <2>2 DEF X!ExecutorchStates
<1> QED BY <1>2, <1>3, <1>4

\* Nothing but runtime_init makes a device or gives one up.
SameDevice(s, t) ==
  /\ t.gp_device = s.gp_device
  /\ t.gp_instance = s.gp_instance
  /\ t.runtime_initialized = s.runtime_initialized

LEMMA IreeInit ==
  ASSUME NEW s \in I!IreeStates, I!DeviceNeedsInitialized(s), NEW failed
  PROVE  /\ I!runtime_init(s, failed).state \in I!IreeStates
         /\ I!DeviceNeedsInitialized(I!runtime_init(s, failed).state)
         /\ I!runtime_init(s, failed).status = "OK" <=>
              I!runtime_init(s, failed).state.gp_device
         /\ s.gp_device => I!runtime_init(s, failed).state.gp_device
<1> DEFINE t == [s EXCEPT !.gp_instance = failed # "instance",
                          !.gp_device = @ \/ failed \notin {"instance", "types", "device"},
                          !.runtime_initialized = I!Initialized(failed)]
<1>1. CASE s.runtime_initialized = TRUE
  <2>1. I!runtime_init(s, failed) = [state |-> s, status |-> "OK"]
    BY <1>1 DEF I!runtime_init, I!Returned
  <2> QED BY <1>1, <2>1 DEF I!DeviceNeedsInitialized
<1>2. CASE s.runtime_initialized = FALSE
  <2>1. I!runtime_init(s, failed) =
          [state |-> t,
           status |-> IF failed \in {"instance", "types", "device"} THEN "RUNTIME_ERROR" ELSE "OK"]
    BY <1>2 DEF I!runtime_init, I!Returned
  <2>2. s.gp_device = FALSE
    BY <1>2 DEF I!DeviceNeedsInitialized, I!IreeStates
  <2>3. /\ t \in I!IreeStates
        /\ t.gp_instance = (failed # "instance")
        /\ t.gp_device = (failed \notin {"instance", "types", "device"})
        /\ t.runtime_initialized = (failed \notin {"instance", "types", "device"})
        /\ t.gp_context = s.gp_context /\ t.gp_model_inputs = s.gp_model_inputs
    BY <2>2 DEF I!IreeStates, I!Initialized
  <2>4. s.gp_context = I!NULL /\ s.gp_model_inputs = I!NULL
    BY <2>2 DEF I!DeviceNeedsInitialized
  <2> HIDE DEF t
  <2> DEFINE r == I!runtime_init(s, failed)
  <2>5. r.state = t
    BY <2>1
  <2>6. I!DeviceNeedsInitialized(t)
    BY <2>3, <2>4 DEF I!DeviceNeedsInitialized
  <2>7. r.status = "OK" <=> failed \notin {"instance", "types", "device"}
    <3>1. r.status = IF failed \in {"instance", "types", "device"} THEN "RUNTIME_ERROR" ELSE "OK"
      BY <2>1
    <3> QED BY <3>1
  <2>8. t.gp_device <=> failed \notin {"instance", "types", "device"}
    BY <2>3, Zenon
  <2> QED BY <2>3, <2>2, <2>5, <2>6, <2>7, <2>8
<1> QED BY <1>1, <1>2 DEF I!IreeStates

LEMMA IreeTypes ==
  ASSUME NEW s \in I!IreeStates, NEW model \in Loaded, NEW input \in Given,
         NEW tensor, NEW failed
  PROVE  /\ I!runtime_init_weights(s, model, failed).state \in I!IreeStates
         /\ SameDevice(s, I!runtime_init_weights(s, model, failed).state)
         /\ I!runtime_init_input(s, input, tensor, failed).state \in I!IreeStates
         /\ SameDevice(s, I!runtime_init_input(s, input, tensor, failed).state)
         /\ I!runtime_run_model(s, model, failed).state \in I!IreeStates
         /\ SameDevice(s, I!runtime_run_model(s, model, failed).state)
<1>1. I!Torn = Torn
  BY DEF I!Torn, Torn
<1>2. I!runtime_init_weights(s, model, failed).state \in I!IreeStates
      /\ SameDevice(s, I!runtime_init_weights(s, model, failed).state)
  <2> DEFINE r == I!release_input_buffer(I!release_output_buffer(s))
  <2>1. r \in I!IreeStates /\ SameDevice(s, r)
    BY DEF I!release_input_buffer, I!release_output_buffer, I!IreeStates, SameDevice
  <2> HIDE DEF r
  <2>2. I!create_context(r, model, failed).state \in I!IreeStates
        /\ SameDevice(r, I!create_context(r, model, failed).state)
    BY <1>1, <2>1 DEF I!create_context, I!release_context, I!IreeStates, I!Returned, Loaded,
                      SameDevice
  <2> QED BY <2>1, <2>2 DEF I!runtime_init_weights, r, SameDevice
<1>3. I!runtime_init_input(s, input, tensor, failed).state \in I!IreeStates
      /\ SameDevice(s, I!runtime_init_input(s, input, tensor, failed).state)
  <2> DEFINE r == I!release_input_buffer(s)
  <2>1. r \in I!IreeStates /\ SameDevice(s, r)
    BY DEF I!release_input_buffer, I!IreeStates, SameDevice
  <2> HIDE DEF r
  <2>2. I!prepare_input_buffer(r, input, tensor, failed).state
          \in {r, [r EXCEPT !.gp_model_inputs = I!Empty], [r EXCEPT !.gp_model_inputs = input]}
    BY DEF I!prepare_input_buffer, I!Returned
  <2>3. I!prepare_input_buffer(r, input, tensor, failed).state \in I!IreeStates
        /\ SameDevice(r, I!prepare_input_buffer(r, input, tensor, failed).state)
    BY <1>1, <2>1, <2>2 DEF I!IreeStates, SameDevice, Given
  <2> QED BY <2>1, <2>3 DEF I!runtime_init_input, r, SameDevice
<1>4. I!runtime_run_model(s, model, failed).state \in I!IreeStates
      /\ SameDevice(s, I!runtime_run_model(s, model, failed).state)
  <2> DEFINE r == I!prepare_output_buffer(I!release_output_buffer(s), failed)
             computed == I!Computed(IF model = s.gp_context THEN model ELSE I!Torn,
                                    s.gp_model_inputs)
  <2>1. r \in I!IreeStates /\ SameDevice(s, r)
    BY DEF I!release_output_buffer, I!prepare_output_buffer, I!IreeStates, SameDevice
  <2>2. computed \in I!Results
    BY ComputedType
  <2>3. I!runtime_run_model(s, model, failed).state
          \in {r, [r EXCEPT !.gp_model_outputs = computed]}
    BY DEF I!runtime_run_model, I!Returned
  <2> HIDE DEF r, computed
  <2> QED BY <2>1, <2>2, <2>3 DEF I!IreeStates, SameDevice
<1> QED BY <1>2, <1>3, <1>4

LEMMA EmlearnTypes ==
  ASSUME NEW s \in E!EmlearnStates, NEW input
  PROVE  E!runtime_run_model(s, input).state \in E!EmlearnStates
<1> DEFINE computed == E!Computed(BuiltIn, input)
<1>1. computed \in E!Results
  BY ComputedType
<1> HIDE DEF computed
<1>2. [s EXCEPT !.gp_emlearn_output_buffer = computed] \in E!EmlearnStates
  BY <1>1 DEF E!EmlearnStates
<1>3. E!runtime_run_model(s, input).state = [s EXCEPT !.gp_emlearn_output_buffer = computed]
  BY DEF E!runtime_run_model, E!Returned, computed
<1> QED BY <1>2, <1>3

-----------------------------------------------------------------------------
(* The same for the runtime of the build.                                  *)

\* A step from s to t that makes no device.
Keeps(s, t) == t \in RuntimeStates /\ (build = "iree" => SameDevice(s, t))

LEMMA KeepsSame ==
  ASSUME NEW s \in RuntimeStates
  PROVE  Keeps(s, s)
BY DEF Keeps, SameDevice

LEMMA ResetKeeps ==
  ASSUME build \in Builds, runtime \in RuntimeStates, NEW overlaps
  PROVE  Keeps(runtime, AfterModelReset) /\ Keeps(runtime, AfterData(overlaps))
<1>1. CASE build = "tflite"
  <2>1. runtime \in T!TfliteStates /\ RuntimeStates = T!TfliteStates
    BY <1>1 DEF RuntimeStates
  <2>2. T!tflite_reset_buf(runtime) \in RuntimeStates /\ T!AfterInput(runtime) \in RuntimeStates
    BY <2>1, TfliteTypes DEF Loaded
  <2> QED BY <1>1, <2>2 DEF AfterModelReset, AfterData, Keeps
<1>2. CASE build # "tflite"
  BY <1>2, KeepsSame DEF AfterModelReset, AfterData
<1> QED BY <1>1, <1>2

LEMMA WeightsKeep ==
  ASSUME build \in Builds, NEW s \in RuntimeStates, NEW model \in Loaded, NEW failed
  PROVE  Keeps(s, runtime_init_weights(s, model, failed).state)
<1>1. CASE build = "tflite"
  BY <1>1, TfliteTypes DEF RuntimeStates, runtime_init_weights, Keeps
<1>2. CASE build = "iree"
  BY <1>2, IreeTypes DEF RuntimeStates, runtime_init_weights, Keeps, Given
<1>3. CASE build = "executorch"
  BY <1>3, ExecutorchTypes DEF RuntimeStates, runtime_init_weights, Keeps, Given
<1>4. CASE build \in {"emlearn", "stub"}
  BY <1>4, KeepsSame DEF runtime_init_weights, Returned
<1> QED BY <1>1, <1>2, <1>3, <1>4 DEF Builds

LEMMA InputKeeps ==
  ASSUME build \in Builds, NEW s \in RuntimeStates, NEW input \in Given, NEW failed
  PROVE  Keeps(s, runtime_init_input(s, input, failed).state)
<1>1. CASE build = "iree"
  BY <1>1, IreeTypes DEF RuntimeStates, runtime_init_input, Keeps, Loaded
<1>2. CASE build = "executorch"
  BY <1>2, ExecutorchTypes DEF RuntimeStates, runtime_init_input, Keeps, Loaded
<1>3. CASE build \in {"tflite", "emlearn", "stub"}
  BY <1>3, KeepsSame DEF runtime_init_input, Returned
<1> QED BY <1>1, <1>2, <1>3 DEF Builds

LEMMA RunKeeps ==
  ASSUME build \in Builds, runtime \in RuntimeStates, model_buffer \in Loaded,
         input_buffer \in Given, NEW copied, NEW failed
  PROVE  Keeps(runtime, runtime_run_model(copied, failed).state)
<1>1. CASE build = "tflite"
  BY <1>1, TfliteTypes DEF RuntimeStates, runtime_run_model, Keeps
<1>2. CASE build = "iree"
  BY <1>2, IreeTypes DEF RuntimeStates, runtime_run_model, Keeps
<1>3. CASE build = "executorch"
  BY <1>3, ExecutorchTypes DEF RuntimeStates, runtime_run_model, Keeps
<1>4. CASE build = "emlearn"
  BY <1>4, EmlearnTypes DEF RuntimeStates, runtime_run_model, Keeps
<1>5. CASE build = "stub"
  BY <1>5, KeepsSame DEF runtime_run_model, Returned
<1> QED BY <1>1, <1>2, <1>3, <1>4, <1>5 DEF Builds

LEMMA InitKeeps ==
  ASSUME build \in Builds, runtime \in RuntimeStates, NEW failed
  PROVE  runtime_init(failed).state \in RuntimeStates
<1>1. CASE build = "iree"
  <2>1. runtime \in I!IreeStates /\ RuntimeStates = I!IreeStates
    BY <1>1 DEF RuntimeStates
  <2>2. I!runtime_init(runtime, failed).state \in I!IreeStates
    <3> DEFINE t == [runtime EXCEPT !.gp_instance = failed # "instance",
                          !.gp_device = @ \/ failed \notin {"instance", "types", "device"},
                          !.runtime_initialized = I!Initialized(failed)]
    <3>1. t \in I!IreeStates
      BY <2>1 DEF I!IreeStates, I!Initialized
    <3>2. I!runtime_init(runtime, failed).state \in {runtime, t}
      BY DEF I!runtime_init, I!Returned
    <3> HIDE DEF t
    <3> QED BY <2>1, <3>1, <3>2
  <2> QED BY <1>1, <2>1, <2>2 DEF runtime_init
<1>2. CASE build # "iree"
  BY <1>2 DEF runtime_init, Returned
<1> QED BY <1>1, <1>2

-----------------------------------------------------------------------------
(* The program's own variables, and the device of IREE.                    *)

Memory ==
  /\ runtime \in RuntimeStates
  /\ model_buffer \in Loaded /\ input_buffer \in Given /\ data_written \in Nat
  /\ crashed \in {"no", "MODEL", "DATA", "PROCESS", "OUTPUT", "DEMO", "overrun", "freed"}

Ghosts ==
  /\ accepted \in Graphs \cup {NULL} /\ fed \in Inputs \cup {NULL}
  /\ settled \subseteq {"MODEL", "DATA", "PROCESS"}

StaticInv == SInv /\ Memory /\ Ghosts /\ IreeDeviceNeedsInitialized

Kept == Memory' /\ Ghosts' /\ IreeDeviceNeedsInitialized'

\* The device stays, and what needs it is created only when it is there.
LEMMA DeviceKept ==
  ASSUME IreeDeviceNeedsInitialized, build \in Builds, runtime \in RuntimeStates,
         UNCHANGED build, Keeps(runtime, runtime'),
         Reached(INITIALIZED)' => Reached(INITIALIZED),
         \/ Reached(INITIALIZED)
         \/ build = "iree" => /\ runtime'.gp_context = runtime.gp_context
                              /\ runtime'.gp_model_inputs = runtime.gp_model_inputs
  PROVE  IreeDeviceNeedsInitialized'
<1> SUFFICES ASSUME build = "iree"
             PROVE  IreeDeviceNeedsInitialized'
  BY DEF IreeDeviceNeedsInitialized
<1>1. /\ I!DeviceNeedsInitialized(runtime)
      /\ Reached(INITIALIZED) => runtime.gp_device
      /\ SameDevice(runtime, runtime')
  BY DEF IreeDeviceNeedsInitialized, Keeps
<1>2. I!DeviceNeedsInitialized(runtime')
  BY <1>1 DEF I!DeviceNeedsInitialized, SameDevice
<1>3. Reached(INITIALIZED)' => runtime'.gp_device
  BY <1>1 DEF SameDevice
<1> QED BY <1>2, <1>3 DEF IreeDeviceNeedsInitialized

LEMMA SameStates ==
  ASSUME UNCHANGED build
  PROVE  RuntimeStates' = RuntimeStates
BY DEF RuntimeStates

\* Nothing of the runtime moves.
LEMMA DeviceSame ==
  ASSUME IreeDeviceNeedsInitialized, build \in Builds, runtime \in RuntimeStates,
         UNCHANGED <<build, runtime>>, Reached(INITIALIZED)' => Reached(INITIALIZED)
  PROVE  IreeDeviceNeedsInitialized'
BY DeviceKept, KeepsSame

LEMMA CrashKept ==
  ASSUME StaticInv, UNCHANGED build,
         NEW request \in {"MODEL", "DATA", "PROCESS", "OUTPUT", "DEMO", "overrun", "freed"},
         Crash(request)
  PROVE  Kept
<1>1. /\ UNCHANGED <<g_model_state, runtime, model_buffer, input_buffer, data_written,
                     accepted, fed, settled>>
      /\ crashed' = request
  BY DEF Crash, vars, memory, ghosts
<1>2. Memory' /\ Ghosts'
  BY <1>1, SameStates DEF StaticInv, Memory, Ghosts
<1>3. IreeDeviceNeedsInitialized'
  BY <1>1, DeviceSame DEF StaticInv, SInv, Memory, Reached
<1> QED BY <1>2, <1>3 DEF Kept

LEMMA StartKept ==
  ASSUME StaticInv, UNCHANGED build, NEW failed, StartModel(failed)
  PROVE  Kept
<1>1. /\ runtime' = runtime_init(failed).state
      /\ g_model_state' = IF runtime_init(failed).status = "OK" THEN INITIALIZED ELSE g_model_state
      /\ UNCHANGED <<model_buffer, input_buffer, data_written, crashed, accepted, fed, settled>>
  BY DEF StartModel, model_init, Enters, memory, ghosts
<1>2. Memory' /\ Ghosts'
  BY <1>1, SameStates, InitKeeps DEF StaticInv, SInv, Memory, Ghosts
<1>3. ASSUME build = "iree"
      PROVE  IreeDeviceNeedsInitialized'
  <2>1. /\ runtime \in I!IreeStates /\ I!DeviceNeedsInitialized(runtime)
        /\ Reached(INITIALIZED) => runtime.gp_device
    BY <1>3 DEF StaticInv, Memory, RuntimeStates, IreeDeviceNeedsInitialized
  <2>2. runtime_init(failed) = I!runtime_init(runtime, failed)
    BY <1>3 DEF runtime_init
  <2>3. /\ I!DeviceNeedsInitialized(runtime')
        /\ runtime_init(failed).status = "OK" <=> runtime'.gp_device
        /\ runtime.gp_device => runtime'.gp_device
    BY <1>1, <2>1, <2>2, IreeInit
  <2>4. Reached(INITIALIZED)' => runtime'.gp_device
    BY <1>1, <2>1, <2>3 DEF Reached
  <2> QED BY <2>3, <2>4 DEF IreeDeviceNeedsInitialized
<1> QED BY <1>2, <1>3 DEF Kept, IreeDeviceNeedsInitialized

LEMMA IospecKept ==
  ASSUME StaticInv, UNCHANGED <<build, runtime, memory, crashed, ghosts>>,
         Reached(INITIALIZED)' => Reached(INITIALIZED)
  PROVE  Kept
<1>1. Memory' /\ Ghosts'
  BY SameStates DEF StaticInv, Memory, Ghosts, memory, ghosts
<1>2. IreeDeviceNeedsInitialized'
  BY DeviceSame DEF StaticInv, SInv, Memory
<1> QED BY <1>1, <1>2 DEF Kept

LEMMA ModelCrashKept ==
  ASSUME StaticInv, UNCHANGED build, NEW s, NEW model, NEW failed, ModelCrash(s, model, failed)
  PROVE  Kept
<1>1. failed \in {"overrun", "freed"}
  BY WeightsCrash DEF ModelCrash, StaticInv, SInv
<1>2. Crash(failed)
  BY DEF ModelCrash
<1> QED BY <1>1, <1>2, CrashKept

\* model_callback, for the data s that the loader left.
LEMMA ModelKept ==
  ASSUME StaticInv, UNCHANGED build, NEW s, Keeps(runtime, s), NEW model \in Loaded, NEW failed,
         ServeModel(s, model, failed), Reached(INITIALIZED),
         model_buffer' \in Loaded, accepted' \in Graphs \cup {NULL}, settled' \subseteq {"MODEL"}
  PROVE  Kept
<1>1. /\ runtime' \in {s, runtime_init_weights(s, model, failed).state}
      /\ fed' = NULL /\ UNCHANGED <<input_buffer, data_written, crashed>>
  BY DEF ServeModel
<1>2. build \in Builds /\ runtime \in RuntimeStates /\ s \in RuntimeStates
  BY DEF StaticInv, SInv, Memory, Keeps
<1>3. Keeps(s, runtime')
  BY <1>1, <1>2, WeightsKeep, KeepsSame
<1>4. Keeps(runtime, runtime')
  BY <1>3 DEF Keeps, SameDevice
<1>5. Memory' /\ Ghosts'
  BY <1>1, <1>4, SameStates DEF StaticInv, Memory, Ghosts, Keeps
<1>6. IreeDeviceNeedsInitialized'
  BY <1>2, <1>4, DeviceKept DEF StaticInv
<1> QED BY <1>5, <1>6 DEF Kept

LEMMA ModelRequestKept ==
  ASSUME StaticInv, UNCHANGED build, NEW failed, NEW graph \in Graphs, ModelRequest(graph, failed)
  PROVE  Kept
<1> SUFFICES ASSUME LoadModel(graph, failed)
             PROVE  Kept
  BY ModelCrashKept DEF ModelRequest
<1>1. Reached(INITIALIZED) /\ ServeModel(AfterModelReset, graph, failed) /\ model_buffer' = graph
  BY DEF ModelRequest, LoadModel, HasLoaders
<1>2. Keeps(runtime, AfterModelReset)
  BY ResetKeeps DEF StaticInv, SInv, Memory
<1>3. accepted' \in {NULL, BuiltIn, graph} /\ settled' \subseteq {"MODEL"}
  BY DEF LoadModel
<1>4. BuiltIn \in Graphs /\ graph \in Loaded
  BY StaticAssumption DEF Loaded
<1> QED BY <1>1, <1>2, <1>3, <1>4, ModelKept

LEMMA EmptyModelKept ==
  ASSUME StaticInv, UNCHANGED build, NEW failed, EmptyModel(failed), Reached(INITIALIZED)
  PROVE  Kept
<1> SUFFICES ASSUME ReloadModel(failed)
             PROVE  Kept
  BY ModelCrashKept DEF EmptyModel
<1>1. ServeModel(runtime, model_buffer, failed) /\ accepted' = NULL /\ settled' = {}
      /\ model_buffer' = model_buffer
  BY DEF ReloadModel
<1>2. runtime \in RuntimeStates /\ model_buffer \in Loaded
  BY DEF StaticInv, Memory
<1> QED BY <1>1, <1>2, KeepsSame, ModelKept

LEMMA LostModelKept ==
  ASSUME StaticInv, UNCHANGED build, LostModel
  PROVE  Kept
<1>1. /\ Reached(INITIALIZED) /\ runtime' = AfterModelReset /\ model_buffer' = Torn
      /\ settled' \subseteq settled
      /\ UNCHANGED <<g_model_state, input_buffer, data_written, crashed, accepted, fed>>
  BY DEF LostModel, HasLoaders, vars
<1>2. Keeps(runtime, runtime')
  BY <1>1, ResetKeeps DEF StaticInv, SInv, Memory
<1>3. Memory' /\ Ghosts'
  BY <1>1, <1>2, SameStates DEF StaticInv, Memory, Ghosts, Keeps, Loaded
<1>4. IreeDeviceNeedsInitialized'
  BY <1>1, <1>2, DeviceKept DEF StaticInv, SInv, Memory
<1> QED BY <1>3, <1>4 DEF Kept

LEMMA LostDataKept ==
  ASSUME StaticInv, UNCHANGED build, NEW size \in Nat, NEW overlaps, LostData(size, overlaps)
  PROVE  Kept
<1>1. /\ Reached(INITIALIZED) /\ runtime' = AfterData(overlaps)
      /\ model_buffer' = ModelAfterData(overlaps)
      /\ input_buffer' = Torn /\ data_written' = size /\ settled' \subseteq settled
      /\ UNCHANGED <<g_model_state, crashed, accepted, fed>>
  BY DEF LostData, HasLoaders, vars
<1>2. Keeps(runtime, runtime')
  BY <1>1, ResetKeeps DEF StaticInv, SInv, Memory
<1>3. ModelAfterData(overlaps) \in Loaded
  BY DEF ModelAfterData, StaticInv, Memory, Loaded
<1>4. Memory' /\ Ghosts'
  BY <1>1, <1>2, <1>3, SameStates DEF StaticInv, Memory, Ghosts, Keeps, Given
<1>5. IreeDeviceNeedsInitialized'
  BY <1>1, <1>2, DeviceKept DEF StaticInv, SInv, Memory
<1> QED BY <1>4, <1>5 DEF Kept

\* data_callback, for the data s that the loader left.
LEMMA DataKept ==
  ASSUME StaticInv, UNCHANGED build, NEW s, Keeps(runtime, s), NEW input \in Given,
         NEW size \in Nat, NEW failed, ServeData(s, input, size, failed), Reached(INITIALIZED),
         model_buffer' \in Loaded
  PROVE  Kept
<1>1. CASE Crash("DATA")
  BY <1>1, CrashKept
<1>2. CASE ~Crash("DATA")
  <2>1. /\ runtime' \in {s, runtime_init_input(s, input, failed).state}
        /\ input_buffer' = input /\ data_written' = size
        /\ settled' \subseteq settled \cup {"DATA"}
        /\ fed' \in {input, fed} /\ (fed' = fed \/ input # Torn)
        /\ UNCHANGED <<crashed, accepted>>
    BY <1>2 DEF ServeData
  <2>2. build \in Builds /\ runtime \in RuntimeStates /\ s \in RuntimeStates
    BY DEF StaticInv, SInv, Memory, Keeps
  <2>3. Keeps(s, runtime')
    BY <2>1, <2>2, InputKeeps, KeepsSame
  <2>4. Keeps(runtime, runtime')
    BY <2>3 DEF Keeps, SameDevice
  <2>5. Memory' /\ Ghosts'
    BY <2>1, <2>4, SameStates DEF StaticInv, Memory, Ghosts, Keeps, Given
  <2>6. IreeDeviceNeedsInitialized'
    BY <2>2, <2>4, DeviceKept DEF StaticInv
  <2> QED BY <2>5, <2>6 DEF Kept
<1> QED BY <1>1, <1>2

LEMMA DataRequestKept ==
  ASSUME StaticInv, UNCHANGED build, NEW input \in Inputs, NEW size \in Nat, NEW overlaps,
         NEW failed, DataRequest(input, size, overlaps, failed)
  PROVE  Kept
<1> DEFINE arrived == AsInput(input, size)
<1>1. Reached(INITIALIZED) /\ ServeData(AfterData(overlaps), arrived, size, failed)
      /\ model_buffer' = ModelAfterData(overlaps)
  BY DEF DataRequest, HasLoaders
<1>2. arrived \in Given /\ model_buffer' \in Loaded
  BY <1>1 DEF AsInput, Given, Loaded, ModelAfterData, StaticInv, Memory
<1>3. Keeps(runtime, AfterData(overlaps))
  BY ResetKeeps DEF StaticInv, SInv, Memory
<1> HIDE DEF arrived
<1> QED BY <1>1, <1>2, <1>3, DataKept

LEMMA EmptyDataKept ==
  ASSUME StaticInv, UNCHANGED build, NEW failed, EmptyData(failed), Reached(INITIALIZED)
  PROVE  Kept
<1>1. ServeData(runtime, input_buffer, data_written, failed) /\ model_buffer' = model_buffer
  BY DEF EmptyData
<1>2. /\ runtime \in RuntimeStates /\ input_buffer \in Given /\ data_written \in Nat
      /\ model_buffer \in Loaded
  BY DEF StaticInv, Memory
<1> QED BY <1>1, <1>2, KeepsSame, DataKept

LEMMA ProcessKept ==
  ASSUME StaticInv, UNCHANGED build, NEW measured, NEW copied, NEW overlaps, NEW failed,
         Process(measured, copied, overlaps, failed)
  PROVE  Kept
<1>1. CASE Crash("PROCESS")
  BY <1>1, CrashKept
<1>2. CASE ~Crash("PROCESS")
  <2> DEFINE run == runtime_run_model(copied, failed)
  <2>1. /\ runtime' = IF Reached(INPUT_LOADED) THEN run.state ELSE runtime
        /\ input_buffer' \in {Torn, input_buffer}
        /\ settled' \subseteq settled \cup {"PROCESS"}
        /\ UNCHANGED <<model_buffer, data_written, crashed, accepted, fed>>
    BY <1>2 DEF Process
  <2>2. PICK st : model_run(st)
    BY <1>2 DEF Process
  <2>3. build \in Builds /\ runtime \in RuntimeStates
        /\ model_buffer \in Loaded /\ input_buffer \in Given
    BY DEF StaticInv, SInv, Memory
  <2>4. Keeps(runtime, run.state)
    BY <2>3, RunKeeps
  <2>5. Keeps(runtime, runtime')
    BY <2>1, <2>3, <2>4, KeepsSame
  <2> HIDE DEF run
  <2>6. Memory' /\ Ghosts'
    BY <2>1, <2>3, <2>5, SameStates DEF StaticInv, Memory, Ghosts, Keeps, Given
  <2>7. CASE Reached(INPUT_LOADED)
    <3>1. Reached(INITIALIZED)
      BY <2>7 DEF Reached, INPUT_LOADED, INITIALIZED, StaticInv, SInv, TypeOK, INFERENCE_DONE,
                  UNINITIALIZED
    <3> QED BY <2>3, <2>5, <2>6, <3>1, DeviceKept DEF StaticInv, Kept
  <2>8. CASE ~Reached(INPUT_LOADED)
    <3>1. UNCHANGED <<g_model_state, runtime>>
      BY <2>1, <2>2, <2>8 DEF model_run, Enters
    <3> QED BY <2>3, <2>6, <3>1, DeviceSame DEF StaticInv, Reached, Kept
  <2> QED BY <2>7, <2>8
<1> QED BY <1>1, <1>2

LEMMA OutputKept ==
  ASSUME StaticInv, UNCHANGED build, NEW room, NEW failed, Output(room, failed)
  PROVE  Kept
<1>1. CASE Crash("OUTPUT")
  BY <1>1, CrashKept
<1>2. CASE ~Crash("OUTPUT")
  <2>1. UNCHANGED <<g_model_state, runtime, memory, crashed, ghosts>>
    BY <1>2 DEF Output, model_get_output
  <2> QED BY <2>1, IospecKept DEF Reached
<1> QED BY <1>1, <1>2

LEMMA StatsKept ==
  ASSUME StaticInv, UNCHANGED build, NEW room, Stats(room)
  PROVE  Kept
<1>1. UNCHANGED <<g_model_state, runtime, memory, crashed, ghosts>>
  BY DEF Stats, model_get_statistics
<1> QED BY <1>1, IospecKept DEF Reached

\* A request refused before the model is asked, a buffer allocated.
LEMMA RefusedKept ==
  ASSUME StaticInv, UNCHANGED <<build, g_model_state, runtime, memory, crashed, ghosts>>
  PROVE  Kept
BY IospecKept DEF Reached

LEMMA StructKept ==
  ASSUME StaticInv, UNCHANGED build, NEW bytes, Iospec(model_load_struct(bytes))
  PROVE  Kept
<1>1. model_load_struct(bytes) /\ UNCHANGED <<runtime, memory, crashed, ghosts>>
  BY DEF Iospec
<1>2. Reached(INITIALIZED)' => Reached(INITIALIZED)
  BY <1>1 DEF model_load_struct, Reached
<1> QED BY <1>1, <1>2, IospecKept

LEMMA RequestKept ==
  ASSUME StaticInv, UNCHANGED build, Request, Reached(INITIALIZED)
  PROVE  Kept
<1>1. ASSUME NEW failed, NEW x \in Inputs, NEW size \in LoaderSizes, NEW overlaps,
             DataRequest(x, size, overlaps, failed)
      PROVE  Kept
  BY <1>1, ModelAssumption, DataRequestKept
<1> QED BY <1>1, ModelRequestKept, EmptyModelKept, EmptyDataKept, ProcessKept, OutputKept
        DEF Request

LEMMA ServerKept ==
  ASSUME StaticInv, ServerNext
  PROVE  Kept
<1>1. UNCHANGED build
  BY DEF ServerNext, app
<1>2. ASSUME NEW bytes, Iospec(ReceiveIospec(bytes))
      PROVE  Kept
  BY <1>1, <1>2, RefusedKept DEF Iospec, ReceiveIospec
<1>3. ASSUME Iospec(model_load_struct_from_loader), Reached(INITIALIZED)
      PROVE  Kept
  BY <1>1, <1>3, IospecKept DEF Iospec
<1>4. ASSUME NEW size \in LoaderSizes, NEW overlaps, LostData(size, overlaps)
      PROVE  Kept
  BY <1>1, <1>4, ModelAssumption, LostDataKept
<1>5. ASSUME NEW request \in {"MODEL", "DATA"}, NoLoader(request)
      PROVE  Kept
  BY <1>1, <1>5, CrashKept DEF NoLoader
<1> QED BY <1>1, <1>2, <1>3, <1>4, <1>5, StartKept, RequestKept, StructKept, LostModelKept,
           StatsKept
        DEF ServerNext

LEMMA DemoKept ==
  ASSUME StaticInv, DemoNext
  PROVE  Kept
<1>1. UNCHANGED build
  BY DEF DemoNext
<1>2. ASSUME NEW failed, DemoWeights(failed)
      PROVE  Kept
  BY <1>1, <1>2, StaticAssumption, ModelRequestKept, RefusedKept DEF DemoWeights, Refused
<1>3. CASE DemoAlloc
  BY <1>1, <1>3, RefusedKept DEF DemoAlloc, vars
<1>4. ASSUME NEW x \in Inputs, NEW overlaps, NEW failed, DemoInput(x, overlaps, failed)
      PROVE  Kept
  <2>1. model_get_input_size \in Nat
    BY SizesAreNat DEF StaticInv, SInv, TypeOK
  <2> QED BY <1>1, <1>4, <2>1, CrashKept, DataRequestKept DEF DemoInput
<1>5. ASSUME NEW failed, DemoOutput(failed)
      PROVE  Kept
  BY <1>1, <1>5, OutputKept, RefusedKept DEF DemoOutput, Refused
<1>6. CASE LogStatistics
  BY <1>1, <1>6, StatsKept DEF LogStatistics
<1> QED BY <1>1, <1>2, <1>3, <1>4, <1>5, <1>6, StartKept, StructKept, ProcessKept
        DEF DemoNext, DemoStep

LEMMA StaticInvInit == StaticInit => StaticInv
<1> SUFFICES ASSUME StaticInit PROVE StaticInv
  OBVIOUS
<1>1. SInv
  BY InitType DEF StaticInit, SInv
<1>2. runtime \in RuntimeStates
  <2>1. T!TfliteStart \in T!TfliteStates
    BY ComputedType DEF T!TfliteStart, T!TfliteStates
  <2>2. I!IreeStart \in I!IreeStates
    BY DEF I!IreeStart, I!IreeStates
  <2>3. X!ExecutorchStart \in X!ExecutorchStates
    BY ComputedType DEF X!ExecutorchStart, X!ExecutorchStates, X!Torn
  <2>4. E!EmlearnStart \in E!EmlearnStates
    BY ComputedType DEF E!EmlearnStart, E!EmlearnStates
  <2> QED BY <2>1, <2>2, <2>3, <2>4 DEF StaticInit, Start, RuntimeStates, Builds
<1>3. Memory /\ Ghosts
  BY <1>2 DEF StaticInit, Memory, Ghosts, Loaded, Given
<1>4. IreeDeviceNeedsInitialized
  <2>1. build = "iree" => runtime = I!IreeStart
    BY DEF StaticInit, Start
  <2>2. ~Reached(INITIALIZED)
    BY DEF StaticInit, Init, Reached, INITIALIZED, UNINITIALIZED
  <2>3. I!DeviceNeedsInitialized(I!IreeStart)
    BY DEF I!DeviceNeedsInitialized, I!IreeStart
  <2> QED BY <2>1, <2>2, <2>3 DEF IreeDeviceNeedsInitialized
<1> QED BY <1>1, <1>3, <1>4 DEF StaticInv

\* The inductive invariant of programs with a runtime built in: the types of
\* model.c, of the runtime the build has, of the loaders' buffers and of the
\* ghosts, and that what IREE holds has a device.
THEOREM StaticInvariant == StaticSpec => []StaticInv
<1>1. StaticInv /\ [StaticNext]_static_vars => StaticInv'
  <2> SUFFICES ASSUME StaticInv, [StaticNext]_static_vars PROVE StaticInv'
    OBVIOUS
  <2>1. SInv'
    BY StaticAction DEF StaticInv
  <2>2. CASE UNCHANGED static_vars
    BY <2>1, <2>2, RefusedKept DEF static_vars, vars, app, StaticInv, Kept
  <2> QED BY <2>1, <2>2, ServerKept, DemoKept DEF StaticNext, StaticInv, Kept
<1> QED BY <1>1, StaticInvInit, PTL DEF StaticSpec

\* What IREE holds needs the device that runtime_init makes last: model.c's
\* state and the runtime's agree on whether there is one, and no request that
\* model.c lets pass finds none.
THEOREM DeviceBeforeUse == StaticSpec => []IreeDeviceNeedsInitialized
<1>1. StaticInv => IreeDeviceNeedsInitialized
  BY DEF StaticInv
<1> QED BY <1>1, StaticInvariant, PTL

-----------------------------------------------------------------------------
(* Where demo_app is.                                                      *)

DemoType == demo \in [place : Places, model_input : BOOLEAN, model_output : BOOLEAN]

LEMMA DemoMoves ==
  ASSUME DemoType, NEW place \in Places,
         demo' = [demo EXCEPT !.place = place]
  PROVE  DemoType'
BY DEF DemoType

LEMMA ThenMoves ==
  ASSUME DemoType, NEW place \in Places, Then(place)
  PROVE  DemoType'
<1>1. "end" \in Places
  BY DEF Places
<1>2. \E p \in Places : demo' = [demo EXCEPT !.place = p]
  BY <1>1 DEF Then
<1> QED BY <1>2, DemoMoves

LEMMA DemoTypeKept ==
  ASSUME DemoType, [StaticNext]_static_vars
  PROVE  DemoType'
<1>1. CASE demo' = demo
  BY <1>1 DEF DemoType
<1>2. CASE DemoNext
  <2>1. {"struct", "weights", "alloc", "input", "run", "output", "statistics", "end"} \subseteq Places
    BY DEF Places
  <2>2. CASE DemoAlloc
    BY <2>1, <2>2 DEF DemoAlloc, DemoType
  <2>3. CASE LogStatistics
    BY <2>1, <2>3, DemoMoves DEF LogStatistics
  <2>4. ASSUME NEW place \in {"struct", "weights", "alloc", "input", "run", "output", "statistics"},
               Then(place)
        PROVE  DemoType'
    BY <2>1, <2>4, ThenMoves
  <2> QED BY <1>2, <2>2, <2>3, <2>4 DEF DemoNext, DemoStep
<1> QED BY <1>1, <1>2 DEF StaticNext, ServerNext, static_vars, app

\* The type invariant of programs with a runtime built in, for every set of
\* models, inputs and metadata, and every size.
THEOREM StaticTypeCorrect == StaticSpec => []StaticTypeOK
<1>1. StaticInit => DemoType
  BY DEF StaticInit, DemoType, Places
<1>2. DemoType /\ [StaticNext]_static_vars => DemoType'
  BY DemoTypeKept
<1>3. StaticInv /\ DemoType => StaticTypeOK
  BY DEF StaticInv, SInv, Memory, Ghosts, Loaded, Given, DemoType, StaticTypeOK
<1> QED BY <1>1, <1>2, <1>3, StaticInvariant, PTL DEF StaticSpec

-----------------------------------------------------------------------------
(* What it means for the runtime's data s to hold something.               *)

\* Output of a graph, if any.
Of(graph) == {Garbage} \cup ({graph} \X Inputs)

\* The graph is what a run will run: `model` is the MODEL loader's buffer.
HasModel(s, model, graph) ==
  CASE build = "tflite" ->
         s.gp_tflite_interpreter = graph /\ model = graph /\ s.output \in Of(graph)
    [] build = "iree" -> s.gp_context = graph /\ model = graph
    [] build = "executorch" -> s.gp_method = graph /\ s.buffers = "own" /\ model = graph
    [] build = "emlearn" -> graph = BuiltIn
    [] OTHER -> FALSE

\* x is what a run will run on: `input` is the DATA loader's buffer.
HasInput(s, input, x) ==
  CASE build = "iree" -> s.gp_model_inputs = x
    [] build = "executorch" -> s.method_input = x /\ input = x
    [] build \in {"tflite", "emlearn"} -> input = x
    [] OTHER -> FALSE

HasOutput(s, computed) ==
  CASE build = "iree" -> s.gp_model_outputs = computed
    [] build = "tflite" -> s.output = computed /\ s.gp_tflite_interpreter = computed[1]
    [] build = "executorch" -> s.output = computed
    [] build = "emlearn" -> s.gp_emlearn_output_buffer = computed
    [] OTHER -> FALSE

LEMMA NotGraphs ==
  /\ \A g \in Graphs : g # NULL /\ g # Torn /\ g # Empty
  /\ \A x \in Inputs : x # NULL /\ x # Torn /\ x # Empty
BY RuntimeDataAssumption

LEMMA SameNames ==
  /\ T!Torn = Torn /\ I!Torn = Torn /\ X!Torn = Torn
  /\ T!NULL = NULL /\ I!NULL = NULL /\ X!NULL = NULL /\ I!Empty = Empty
  /\ T!Garbage = Garbage /\ I!Garbage = Garbage /\ X!Garbage = Garbage
BY DEF Torn, T!Torn, I!Torn, X!Torn, NULL, T!NULL, I!NULL, X!NULL, Empty, I!Empty,
       Garbage, T!Garbage, I!Garbage, X!Garbage

LEMMA SameComputed ==
  ASSUME NEW graph, NEW input
  PROVE  /\ T!Computed(graph, input) = Computed(graph, input)
         /\ I!Computed(graph, input) = Computed(graph, input)
         /\ X!Computed(graph, input) = Computed(graph, input)
         /\ E!Computed(graph, input) = Computed(graph, input)
BY DEF Computed, T!Computed, I!Computed, X!Computed, E!Computed,
       Garbage, T!Garbage, I!Garbage, X!Garbage, E!Garbage,
       Torn, T!Torn, I!Torn, X!Torn, E!Torn

\* Metadata that was accepted is of a tensor that the runtimes have room for.
LEMMA ValidTensor ==
  ASSUME NEW half \in ValidHalves
  PROVE  /\ half # NoTensors /\ TensorsOf(half) = {Tensor[half]} /\ ~Overlong(TensorsOf(half))
         /\ validate_tensor(Tensor[half]) /\ HalfBytes[half] = ModelBytes(Tensor[half])
         /\ Tensor[half].bits \in Nat /\ model_spec_length(Tensor[half].shape) \in Nat
<1>1. half # NoTensors /\ half \in DOMAIN Tensor
  BY ModelAssumption, StaticAssumption DEF Half
<1>2. /\ validate_tensor(Tensor[half]) /\ HalfBytes[half] = ModelBytes(Tensor[half])
      /\ Tensor[half].bits \in Nat /\ model_spec_length(Tensor[half].shape) \in Nat
  BY <1>1, StaticAssumption
<1>3. TensorsOf(half) = {Tensor[half]}
  BY <1>1 DEF TensorsOf
<1>4. ~(Len(Tensor[half].shape) > MAX_MODEL_TENSOR_DIM)
  BY <1>2, TensorsAssumption DEF validate_tensor
<1> QED BY <1>1, <1>2, <1>3, <1>4 DEF Overlong

LEMMA MatchesValid ==
  ASSUME NEW graph, Matches(graph)
  PROVE  /\ graph \in Graphs /\ g_model_spec = GraphSpec[graph]
         /\ g_model_spec.input \in ValidHalves /\ g_model_spec.output \in ValidHalves
BY StaticAssumption DEF Matches

-----------------------------------------------------------------------------
(* The functions of the runtimes.                                          *)

\* A model that loads, and hides no failure, is what will be run.
LEMMA WeightsLoad ==
  ASSUME build \in Builds \ {"stub"}, NEW s \in RuntimeStates, NEW graph \in Graphs, NEW failed,
         runtime_init_weights(s, graph, failed).status = "OK", Noticed(failed)
  PROVE  HasModel(runtime_init_weights(s, graph, failed).state, graph,
                  IF build = "emlearn" THEN BuiltIn ELSE graph)
<1>1. CASE build = "tflite"
  <2>1. T!runtime_init_weights(s, graph, failed).status = "OK"
    BY <1>1 DEF runtime_init_weights
  <2>2. T!runtime_init_weights(s, graph, failed).state =
          [gp_tflite_interpreter |-> graph, msg_loader_input |-> graph, output |-> Garbage]
    BY <2>1, SameNames DEF T!runtime_init_weights, T!Returned
  <2> QED BY <1>1, <2>2 DEF runtime_init_weights, HasModel, Of
<1>2. CASE build = "iree"
  <2> DEFINE r == I!release_input_buffer(I!release_output_buffer(s))
  <2>1. r \in I!IreeStates
    BY <1>2 DEF RuntimeStates, I!release_input_buffer, I!release_output_buffer, I!IreeStates
  <2> HIDE DEF r
  <2>2. I!create_context(r, graph, failed).status = "OK"
    BY <1>2 DEF runtime_init_weights, I!runtime_init_weights, r
  <2>3. I!create_context(r, graph, failed).state = [r EXCEPT !.gp_context = graph]
    BY <2>2 DEF I!create_context, I!Returned
  <2>4. I!create_context(r, graph, failed).state.gp_context = graph
    BY <2>1, <2>3 DEF I!IreeStates
  <2> QED BY <1>2, <2>4 DEF runtime_init_weights, I!runtime_init_weights, r, HasModel
<1>3. CASE build = "executorch"
  <2> DEFINE r == X!deallocate_planned_buffers(s)
  <2>1. X!LoadMethod(r, graph, failed).status = "OK"
    BY <1>3 DEF runtime_init_weights, X!runtime_init_weights
  <2> HIDE DEF r
  <2>2. /\ X!LoadMethod(r, graph, failed).state.gp_method = graph
        /\ X!LoadMethod(r, graph, failed).state.buffers = "own"
    BY <1>3, <2>1 DEF X!LoadMethod, X!Returned, X!Buffers, Noticed
  <2> QED BY <1>3, <2>2 DEF runtime_init_weights, X!runtime_init_weights, r, HasModel
<1>4. CASE build = "emlearn"
  BY <1>4 DEF HasModel
<1> QED BY <1>1, <1>2, <1>3, <1>4 DEF Builds

\* A model releases the inputs IREE has.
LEMMA WeightsDropInputs ==
  ASSUME build = "iree", NEW s \in RuntimeStates, NEW model, NEW failed
  PROVE  runtime_init_weights(s, model, failed).state.gp_model_inputs = NULL
<1> DEFINE r == I!release_input_buffer(I!release_output_buffer(s))
<1>1. r.gp_model_inputs = NULL
      /\ r = [s EXCEPT !.gp_model_outputs = I!NoList, !.gp_model_inputs = I!NULL]
      /\ s \in I!IreeStates
  BY SameNames DEF RuntimeStates, I!release_input_buffer, I!release_output_buffer, I!IreeStates
<1>2. I!create_context(r, model, failed).state.gp_model_inputs = NULL
  BY <1>1 DEF I!create_context, I!release_context, I!Returned, I!IreeStates
<1> QED BY <1>2 DEF runtime_init_weights, I!runtime_init_weights

\* Bytes for the input spare a model in use.
LEMMA DataSparesModel ==
  ASSUME build \in Builds, runtime \in RuntimeStates, NEW graph \in Graphs,
         HasModel(runtime, model_buffer, graph), NEW overlaps
  PROVE  HasModel(AfterData(overlaps), ModelAfterData(overlaps), graph)
<1>1. CASE build = "tflite"
  <2>1. runtime \in T!TfliteStates
    BY <1>1 DEF RuntimeStates
  <2>2. T!SparesModel(runtime)
    BY <1>1 DEF HasModel, T!SparesModel
  <2>3. T!AfterInput(runtime).gp_tflite_interpreter = runtime.gp_tflite_interpreter
        /\ T!AfterInput(runtime).output = Garbage
    BY <2>1, SameNames DEF T!AfterInput, T!TfliteStates
  <2> QED BY <1>1, <2>2, <2>3 DEF HasModel, AfterData, ModelAfterData, Of
<1>2. CASE build # "tflite"
  BY <1>2 DEF AfterData, ModelAfterData
<1> QED BY <1>1, <1>2

\* An input is taken over a model that loaded, which stays, if the metadata
\* says that there is one.
LEMMA InputLoads ==
  ASSUME build \in Builds, NEW s \in RuntimeStates, NEW model, NEW graph \in Graphs,
         HasModel(s, model, graph), NEW input \in Given, NEW failed
  PROVE  /\ runtime_init_input(s, input, failed).status = "CRASH" =>
              Overlong(TensorsOf(g_model_spec.input))
         /\ HasModel(runtime_init_input(s, input, failed).state, model, graph)
         /\ runtime_init_input(s, input, failed).status = "OK" /\ g_model_spec.input # NoTensors =>
              HasInput(runtime_init_input(s, input, failed).state, input, input)
<1> DEFINE tensors == TensorsOf(g_model_spec.input)
<1>0. g_model_spec.input # NoTensors => tensors # {}
  BY DEF TensorsOf
<1>1. CASE build = "iree"
  <2> DEFINE r == I!release_input_buffer(s)
  <2>1. r \in I!IreeStates /\ r.gp_context = s.gp_context
    BY <1>1 DEF RuntimeStates, I!release_input_buffer, I!IreeStates
  <2>2. runtime_init_input(s, input, failed) = I!prepare_input_buffer(r, input, tensors, failed)
    BY <1>1 DEF runtime_init_input, I!runtime_init_input
  <2> HIDE DEF r, tensors
  <2> DEFINE p == I!prepare_input_buffer(r, input, tensors, failed)
  <2>3. \/ p \in {[state |-> r, status |-> "RUNTIME_ERROR"],
                  [state |-> [r EXCEPT !.gp_model_inputs = I!Empty], status |-> "RUNTIME_ERROR"]}
        \/ p = [state |-> r, status |-> "CRASH"] /\ Overlong(tensors)
        \/ p = [state |-> [r EXCEPT !.gp_model_inputs = I!Empty], status |-> "OK"] /\ tensors = {}
        \/ p = [state |-> [r EXCEPT !.gp_model_inputs = input], status |-> "OK"]
    BY DEF I!prepare_input_buffer, I!Returned, I!Overlong, Overlong
  <2> HIDE DEF p
  <2>4. /\ p.status = "CRASH" => Overlong(tensors)
        /\ p.state.gp_context = r.gp_context
        /\ p.status = "OK" /\ tensors # {} => p.state.gp_model_inputs = input
    BY <2>1, <2>3 DEF I!IreeStates
  <2>5. p.status = "CRASH" => Overlong(TensorsOf(g_model_spec.input))
    BY <2>4 DEF tensors
  <2> QED BY <1>0, <1>1, <2>1, <2>2, <2>4, <2>5 DEF HasModel, HasInput, p
<1>2. CASE build = "executorch"
  <2>1. s \in X!ExecutorchStates /\ s.gp_method = graph /\ s.buffers = "own" /\ model = graph
    BY <1>2 DEF RuntimeStates, HasModel
  <2>2. X!Usable(s)
    BY <2>1, NotGraphs, SameNames DEF X!Usable
  <2> DEFINE p == X!runtime_init_input(s, input, tensors, failed)
  <2>3. runtime_init_input(s, input, failed) = p
    BY <1>2 DEF runtime_init_input
  <2> HIDE DEF tensors
  <2>4. \/ p = [state |-> s, status |-> "RUNTIME_ERROR"]
        \/ p = [state |-> s, status |-> "CRASH"] /\ Overlong(tensors)
        \/ p = [state |-> s, status |-> "OK"] /\ tensors = {}
        \/ p = [state |-> [s EXCEPT !.method_input = input], status |-> "OK"]
    BY <2>2 DEF X!runtime_init_input, X!Returned, X!Overlong, Overlong
  <2> HIDE DEF p
  <2>5. /\ p.status = "CRASH" => Overlong(tensors)
        /\ p.state.gp_method = graph /\ p.state.buffers = "own"
        /\ p.status = "OK" /\ tensors # {} => p.state.method_input = input
    BY <2>1, <2>4 DEF X!ExecutorchStates
  <2>6. p.status = "CRASH" => Overlong(TensorsOf(g_model_spec.input))
    BY <2>5 DEF tensors
  <2> QED BY <1>0, <1>2, <2>1, <2>3, <2>5, <2>6 DEF HasModel, HasInput
<1>3. CASE build \in {"tflite", "emlearn", "stub"}
  <2>1. runtime_init_input(s, input, failed) = [state |-> s, status |-> "OK"]
    BY <1>3 DEF runtime_init_input, Returned
  <2>2. build # "stub"
    BY DEF HasModel
  <2> QED BY <1>3, <2>1, <2>2 DEF HasInput
<1> QED BY <1>1, <1>2, <1>3 DEF Builds

\* An input leaves the output alone, and TFLite's alone in this call.
LEMMA InputKeepsOutput ==
  ASSUME build \in Builds, NEW s \in RuntimeStates, NEW input, NEW failed
  PROVE  /\ \A computed : HasOutput(s, computed) =>
              HasOutput(runtime_init_input(s, input, failed).state, computed)
         /\ build = "iree" =>
              /\ runtime_init_input(s, input, failed).state.gp_model_outputs = s.gp_model_outputs
              /\ runtime_init_input(s, input, failed).state.gp_model_inputs
                   \in {NULL, Empty, input}
              /\ runtime_init_input(s, input, failed).state.gp_model_inputs = input =>
                   input \in {NULL, Empty}
                   \/ runtime_init_input(s, input, failed).status = "OK"
<1> DEFINE tensors == TensorsOf(g_model_spec.input)
<1>1. CASE build = "iree"
  <2> DEFINE r == I!release_input_buffer(s)
  <2>1. r \in I!IreeStates /\ r.gp_model_outputs = s.gp_model_outputs /\ r.gp_model_inputs = NULL
    BY <1>1, SameNames DEF RuntimeStates, I!release_input_buffer, I!IreeStates
  <2>2. runtime_init_input(s, input, failed) = I!prepare_input_buffer(r, input, tensors, failed)
    BY <1>1 DEF runtime_init_input, I!runtime_init_input
  <2> HIDE DEF r, tensors
  <2> DEFINE p == I!prepare_input_buffer(r, input, tensors, failed)
  <2>3. \/ p \in {[state |-> r, status |-> "RUNTIME_ERROR"], [state |-> r, status |-> "CRASH"],
                  [state |-> [r EXCEPT !.gp_model_inputs = I!Empty], status |-> "RUNTIME_ERROR"],
                  [state |-> [r EXCEPT !.gp_model_inputs = I!Empty], status |-> "OK"]}
        \/ p = [state |-> [r EXCEPT !.gp_model_inputs = input], status |-> "OK"]
    BY DEF I!prepare_input_buffer, I!Returned
  <2> HIDE DEF p
  <2>4. /\ p.state.gp_model_outputs = r.gp_model_outputs
        /\ p.state.gp_model_inputs \in {NULL, Empty, input}
        /\ p.status = "OK" \/ p.state.gp_model_inputs \in {NULL, Empty}
    BY <2>1, <2>3, SameNames DEF I!IreeStates
  <2> QED BY <1>1, <2>1, <2>2, <2>4 DEF HasOutput, p
<1>2. CASE build = "executorch"
  <2>1. s \in X!ExecutorchStates
    BY <1>2 DEF RuntimeStates
  <2> DEFINE p == X!runtime_init_input(s, input, tensors, failed)
  <2>2. runtime_init_input(s, input, failed) = p
    BY <1>2 DEF runtime_init_input
  <2> HIDE DEF tensors
  <2>3. p.state \in {s, [s EXCEPT !.method_input = input]}
    BY DEF X!runtime_init_input, X!Returned
  <2> HIDE DEF p
  <2>4. p.state.output = s.output
    BY <2>1, <2>3 DEF X!ExecutorchStates
  <2> QED BY <1>2, <2>2, <2>4 DEF HasOutput
<1>3. CASE build \in {"tflite", "emlearn", "stub"}
  BY <1>3 DEF runtime_init_input, Returned
<1> QED BY <1>1, <1>2, <1>3 DEF Builds

\* A run leaves the model, and IREE's inputs.
LEMMA RunKeepsModel ==
  ASSUME build \in Builds, runtime \in RuntimeStates, NEW graph \in Graphs,
         HasModel(runtime, model_buffer, graph), NEW copied, NEW failed
  PROVE  /\ runtime_run_model(copied, failed).status # "CRASH"
         /\ HasModel(runtime_run_model(copied, failed).state, model_buffer, graph)
<1> DEFINE run == runtime_run_model(copied, failed)
<1>1. CASE build = "tflite"
  <2>1. /\ runtime \in T!TfliteStates
        /\ runtime.gp_tflite_interpreter = graph /\ model_buffer = graph
    BY <1>1 DEF RuntimeStates, HasModel
  <2>2. graph # T!NULL
    BY NotGraphs, SameNames
  <2> DEFINE x == Computed(graph, input_buffer)
  <2>3. x \in Of(graph)
    BY DEF Computed, Of
  <2>4. T!Computed(graph, input_buffer) = x /\ T!Garbage = Garbage /\ Garbage \in Of(graph)
    BY SameComputed, SameNames DEF Of
  <2>5. run = T!runtime_run_model(runtime, model_buffer, input_buffer, failed)
    BY <1>1 DEF runtime_run_model
  <2>6. \/ run = [state |-> [runtime EXCEPT !.output = Garbage], status |-> "RUNTIME_ERROR"]
        \/ run = [state |-> [runtime EXCEPT !.output = x], status |-> "OK"]
    BY <2>1, <2>2, <2>4, <2>5 DEF T!runtime_run_model, T!Returned
  <2> HIDE DEF x, run
  <2>7. /\ run.status # "CRASH" /\ run.state.gp_tflite_interpreter = graph
        /\ run.state.output \in Of(graph)
    BY <2>1, <2>3, <2>4, <2>6 DEF T!TfliteStates
  <2> QED BY <1>1, <2>1, <2>7 DEF HasModel, run
<1>2. CASE build = "iree"
  <2>1. runtime \in I!IreeStates /\ runtime.gp_context = graph /\ model_buffer = graph
    BY <1>2 DEF RuntimeStates, HasModel
  <2>2. graph # I!NULL
    BY NotGraphs, SameNames
  <2> DEFINE r == I!prepare_output_buffer(I!release_output_buffer(runtime), failed)
  <2>3. r \in I!IreeStates /\ r.gp_context = graph
    BY <2>1 DEF I!release_output_buffer, I!prepare_output_buffer, I!IreeStates
  <2>4. run = I!runtime_run_model(runtime, model_buffer, failed)
    BY <1>2 DEF runtime_run_model
  <2> DEFINE x == I!Computed(graph, runtime.gp_model_inputs)
  <2>5. \/ run = [state |-> r, status |-> "RUNTIME_ERROR"]
        \/ run = [state |-> [r EXCEPT !.gp_model_outputs = x], status |-> "OK"]
    BY <2>1, <2>2, <2>4 DEF I!runtime_run_model, I!Returned
  <2> HIDE DEF x, run, r
  <2>6. run.status # "CRASH" /\ run.state.gp_context = graph
    BY <2>3, <2>5 DEF I!IreeStates
  <2> QED BY <1>2, <2>1, <2>6 DEF HasModel, run
<1>3. CASE build = "executorch"
  <2>1. /\ runtime \in X!ExecutorchStates /\ model_buffer = graph
        /\ runtime.gp_method = graph /\ runtime.buffers = "own"
    BY <1>3 DEF RuntimeStates, HasModel
  <2>2. X!Usable(runtime)
    BY <2>1, NotGraphs, SameNames DEF X!Usable
  <2>3. run = X!runtime_run_model(runtime, model_buffer, input_buffer, copied, failed)
    BY <1>3 DEF runtime_run_model
  <2> DEFINE x == X!Computed(graph, IF copied THEN runtime.method_input ELSE input_buffer)
  <2> DEFINE t == [runtime EXCEPT !.output = X!Garbage]
             u == [runtime EXCEPT !.output = x, !.method_input = X!Torn]
  <2>4. \/ run = [state |-> t, status |-> "RUNTIME_ERROR"]
        \/ run = [state |-> u, status |-> "OK"]
    BY <2>1, <2>2, <2>3 DEF X!runtime_run_model, X!Returned
  <2>5. t.gp_method = graph /\ t.buffers = "own" /\ u.gp_method = graph /\ u.buffers = "own"
    BY <2>1 DEF X!ExecutorchStates
  <2> HIDE DEF x, run, t, u
  <2>6. run.status # "CRASH" /\ run.state.gp_method = graph /\ run.state.buffers = "own"
    BY <2>4, <2>5
  <2> QED BY <1>3, <2>1, <2>6 DEF HasModel, run
<1>4. CASE build = "emlearn"
  BY <1>4 DEF HasModel, runtime_run_model, E!runtime_run_model, E!Returned
<1> QED BY <1>1, <1>2, <1>3, <1>4 DEF HasModel, Builds

\* A run of a model on an input gives what that model makes of it.
LEMMA RunComputes ==
  ASSUME build \in Builds, runtime \in RuntimeStates, NEW graph \in Graphs, NEW x \in Inputs,
         HasModel(runtime, model_buffer, graph), HasInput(runtime, input_buffer, x),
         NEW copied, NEW failed, runtime_run_model(copied, failed).status = "OK"
  PROVE  HasOutput(runtime_run_model(copied, failed).state, <<graph, x>>)
<1> DEFINE run == runtime_run_model(copied, failed)
<1>1. Computed(graph, x) = <<graph, x>>
  BY DEF Computed
<1>2. CASE build = "tflite"
  <2>1. /\ runtime \in T!TfliteStates /\ input_buffer = x
        /\ runtime.gp_tflite_interpreter = graph /\ model_buffer = graph
    BY <1>2 DEF RuntimeStates, HasModel, HasInput
  <2>2. graph # T!NULL
    BY NotGraphs, SameNames
  <2>3. run = T!runtime_run_model(runtime, model_buffer, input_buffer, failed)
    BY <1>2 DEF runtime_run_model
  <2>4. run.state = [runtime EXCEPT !.output = <<graph, x>>]
    BY <1>1, <2>1, <2>2, <2>3, SameComputed DEF T!runtime_run_model, T!Returned
  <2>5. run.state.output = <<graph, x>> /\ run.state.gp_tflite_interpreter = <<graph, x>>[1]
    BY <2>1, <2>4 DEF T!TfliteStates
  <2> QED BY <1>2, <2>5 DEF HasOutput
<1>3. CASE build = "iree"
  <2>1. /\ runtime \in I!IreeStates /\ runtime.gp_context = graph /\ model_buffer = graph
        /\ runtime.gp_model_inputs = x
    BY <1>3 DEF RuntimeStates, HasModel, HasInput
  <2>2. graph # I!NULL
    BY NotGraphs, SameNames
  <2> DEFINE r == I!prepare_output_buffer(I!release_output_buffer(runtime), failed)
  <2>3. r \in I!IreeStates
    BY <2>1 DEF I!release_output_buffer, I!prepare_output_buffer, I!IreeStates
  <2>4. run = I!runtime_run_model(runtime, model_buffer, failed)
    BY <1>3 DEF runtime_run_model
  <2>5. run.state = [r EXCEPT !.gp_model_outputs = <<graph, x>>]
    BY <1>1, <2>1, <2>2, <2>4, SameComputed DEF I!runtime_run_model, I!Returned
  <2> HIDE DEF r
  <2>6. run.state.gp_model_outputs = <<graph, x>>
    BY <2>3, <2>5 DEF I!IreeStates
  <2> QED BY <1>3, <2>6 DEF HasOutput
<1>4. CASE build = "executorch"
  <2>1. /\ runtime \in X!ExecutorchStates /\ model_buffer = graph
        /\ runtime.gp_method = graph /\ runtime.buffers = "own"
        /\ runtime.method_input = x /\ input_buffer = x
    BY <1>4 DEF RuntimeStates, HasModel, HasInput
  <2>2. X!Usable(runtime)
    BY <2>1, NotGraphs, SameNames DEF X!Usable
  <2>3. run = X!runtime_run_model(runtime, model_buffer, input_buffer, copied, failed)
    BY <1>4 DEF runtime_run_model
  <2> DEFINE computed == X!Computed(graph, IF copied THEN runtime.method_input ELSE input_buffer)
  <2>4. computed = <<graph, x>>
    BY <1>1, <2>1, SameComputed
  <2>5. \/ run = [state |-> [runtime EXCEPT !.output = X!Garbage], status |-> "RUNTIME_ERROR"]
        \/ run.state = [runtime EXCEPT !.output = computed, !.method_input = X!Torn]
    BY <2>1, <2>2, <2>3 DEF X!runtime_run_model, X!Returned
  <2> HIDE DEF computed
  <2>6. run.state = [runtime EXCEPT !.output = <<graph, x>>, !.method_input = X!Torn]
    BY <2>4, <2>5
  <2>7. run.state.output = <<graph, x>>
    BY <2>1, <2>6 DEF X!ExecutorchStates
  <2> QED BY <1>4, <2>7 DEF HasOutput
<1>5. CASE build = "emlearn"
  <2>1. runtime \in E!EmlearnStates /\ graph = BuiltIn /\ input_buffer = x
    BY <1>5 DEF RuntimeStates, HasModel, HasInput
  <2>2. run.state = [runtime EXCEPT !.gp_emlearn_output_buffer = <<graph, x>>]
    BY <1>1, <1>5, <2>1, SameComputed
       DEF runtime_run_model, E!runtime_run_model, E!Returned
  <2>3. run.state.gp_emlearn_output_buffer = <<graph, x>>
    BY <2>1, <2>2 DEF E!EmlearnStates
  <2> QED BY <1>5, <2>3 DEF HasOutput
<1> QED BY <1>2, <1>3, <1>4, <1>5 DEF HasModel, Builds

\* IREE's inputs stay as they are, and its outputs are those of this run or
\* none, whatever its status.
LEMMA IreeRun ==
  ASSUME build = "iree", runtime \in RuntimeStates, NEW copied, NEW failed
  PROVE  /\ runtime_run_model(copied, failed).state.gp_model_inputs = runtime.gp_model_inputs
         /\ \A graph \in Graphs : HasModel(runtime, model_buffer, graph) =>
              runtime_run_model(copied, failed).state.gp_model_outputs \in
                {I!NoList, I!EmptyList, Garbage}
                \cup (IF runtime.gp_model_inputs \in Inputs
                      THEN {<<graph, runtime.gp_model_inputs>>} ELSE {})
<1> DEFINE run == runtime_run_model(copied, failed)
           r == I!prepare_output_buffer(I!release_output_buffer(runtime), failed)
           x == I!Computed(IF model_buffer = runtime.gp_context THEN model_buffer ELSE I!Torn,
                           runtime.gp_model_inputs)
<1>1. /\ r \in I!IreeStates /\ r.gp_model_inputs = runtime.gp_model_inputs
      /\ r.gp_model_outputs \in {I!NoList, I!EmptyList}
  BY DEF RuntimeStates, I!release_output_buffer, I!prepare_output_buffer, I!IreeStates
<1>2. run = I!runtime_run_model(runtime, model_buffer, failed)
  BY DEF runtime_run_model
<1>3. run.state = r \/ run.state = [r EXCEPT !.gp_model_outputs = x]
  BY <1>2 DEF I!runtime_run_model, I!Returned
<1>4. ASSUME NEW graph \in Graphs, HasModel(runtime, model_buffer, graph)
      PROVE  x = IF runtime.gp_model_inputs \in Inputs THEN <<graph, runtime.gp_model_inputs>>
                 ELSE Garbage
  <2>1. runtime.gp_context = graph /\ model_buffer = graph
    BY <1>4 DEF HasModel
  <2>2. x = Computed(graph, runtime.gp_model_inputs)
    BY <2>1, SameComputed
  <2> QED BY <2>2 DEF Computed
<1> HIDE DEF r, x, run
<1>5. /\ run.state.gp_model_inputs = r.gp_model_inputs
      /\ run.state.gp_model_outputs \in {r.gp_model_outputs, x}
  BY <1>1, <1>3 DEF I!IreeStates
<1> QED BY <1>1, <1>4, <1>5 DEF run

\* With a model and an output there is something to copy, and it is that.
LEMMA OutputCopies ==
  ASSUME build \in Builds, NEW graph \in Graphs, NEW x \in Inputs,
         HasOutput(runtime, <<graph, x>>)
  PROVE  /\ Copied.data = <<graph, x>>
         /\ HasModel(runtime, model_buffer, graph) =>
              \A failed : runtime_get_model_output(failed).status # "CRASH"
<1>1. Copied.data = <<graph, x>>
  <2>1. build # "stub"
    BY DEF HasOutput
  <2> QED BY <2>1 DEF HasOutput, Copied, Builds
<1>2. ASSUME HasModel(runtime, model_buffer, graph), NEW failed
      PROVE  runtime_get_model_output(failed).status # "CRASH"
  <2>1. CASE build = "tflite"
    BY <1>2, <2>1 DEF HasModel, runtime_get_model_output, T!runtime_get_model_output, T!Returned
  <2>2. CASE build = "iree"
    <3>1. graph # NULL /\ I!NULL = NULL /\ runtime.gp_model_outputs = <<graph, x>>
      BY <2>2, NotGraphs, SameNames DEF HasOutput
    <3>2. runtime.gp_model_outputs # I!NoList
      BY <3>1 DEF I!NoList
    <3> QED BY <2>2, <3>2 DEF runtime_get_model_output, I!runtime_get_model_output, I!Returned
  <2>3. CASE build = "executorch"
    <3>1. X!Usable(runtime)
      BY <1>2, <2>3, NotGraphs, SameNames DEF HasModel, X!Usable
    <3> QED BY <2>3, <3>1 DEF runtime_get_model_output, X!runtime_get_model_output, X!Returned
  <2>4. CASE build \in {"emlearn", "stub"}
    BY <2>4 DEF runtime_get_model_output, Returned
  <2> QED BY <2>1, <2>2, <2>3, <2>4 DEF Builds
<1> QED BY <1>1, <1>2

-----------------------------------------------------------------------------
(* What the ghosts say is there.                                           *)

ModelHeld ==
  "MODEL" \in settled => accepted \in Graphs /\ HasModel(runtime, model_buffer, accepted)

InputHeld == "DATA" \in settled => fed \in Inputs /\ HasInput(runtime, input_buffer, fed)

OutputHeld ==
  "PROCESS" \in settled /\ Reached(INFERENCE_DONE) =>
    accepted \in Graphs /\ fed \in Inputs /\ HasOutput(runtime, <<accepted, fed>>)

\* IREE's lists go with what they were made from.
IreeInputsHeld ==
  build = "iree" /\ runtime.gp_model_inputs \in Inputs =>
    runtime.gp_model_inputs = fed /\ Reached(STRUCT_LOADED)

IreeOutputsHeld ==
  build = "iree" /\ "MODEL" \in settled /\ Reached(INFERENCE_DONE) =>
    runtime.gp_model_outputs \in {I!NoList, I!EmptyList, Garbage, <<accepted, fed>>}

EmlearnHeld == build = "emlearn" => accepted \in {NULL, BuiltIn}

\* Before the first request nothing is there.
Fresh ==
  result.op = "none" => g_model_state = UNINITIALIZED /\ settled = {} /\ runtime = Start(build)

Held ==
  /\ ModelHeld /\ InputHeld /\ OutputHeld
  /\ IreeInputsHeld /\ IreeOutputsHeld /\ EmlearnHeld /\ Fresh

DataInv == StaticInv /\ Held

LEMMA HeldNext ==
  ASSUME UNCHANGED build,
         "MODEL" \in settled' => accepted' \in Graphs /\ HasModel(runtime', model_buffer', accepted'),
         "DATA" \in settled' => fed' \in Inputs /\ HasInput(runtime', input_buffer', fed'),
         "PROCESS" \in settled' /\ Reached(INFERENCE_DONE)' =>
           accepted' \in Graphs /\ fed' \in Inputs /\ HasOutput(runtime', <<accepted', fed'>>),
         build = "iree" /\ runtime'.gp_model_inputs \in Inputs =>
           runtime'.gp_model_inputs = fed' /\ Reached(STRUCT_LOADED)',
         build = "iree" /\ "MODEL" \in settled' /\ Reached(INFERENCE_DONE)' =>
           runtime'.gp_model_outputs \in {I!NoList, I!EmptyList, Garbage, <<accepted', fed'>>},
         build = "emlearn" => accepted' \in {NULL, BuiltIn},
         result'.op = "none" => g_model_state' = UNINITIALIZED /\ settled' = {} /\ runtime' = Start(build)
  PROVE  Held'
<1>1. ModelHeld'
  BY DEF ModelHeld, HasModel
<1>2. InputHeld'
  BY DEF InputHeld, HasInput
<1>3. OutputHeld'
  BY DEF OutputHeld, HasOutput
<1>4. IreeInputsHeld' /\ IreeOutputsHeld' /\ EmlearnHeld'
  BY DEF IreeInputsHeld, IreeOutputsHeld, EmlearnHeld
<1>5. Fresh'
  BY DEF Fresh, Start
<1> QED BY <1>1, <1>2, <1>3, <1>4, <1>5 DEF Held

\* The runtime and what it is used with stay; what is settled may be fewer.
LEMMA StillHeld ==
  ASSUME Held, UNCHANGED <<build, runtime, model_buffer, input_buffer, accepted, fed>>,
         settled' \subseteq settled,
         Reached(INFERENCE_DONE)' => Reached(INFERENCE_DONE),
         Reached(STRUCT_LOADED) => Reached(STRUCT_LOADED)',
         result'.op = "none" => result.op = "none" /\ UNCHANGED <<g_model_state, settled>>
  PROVE  Held'
BY HeldNext
   DEF Held, ModelHeld, InputHeld, OutputHeld, IreeInputsHeld, IreeOutputsHeld, EmlearnHeld, Fresh

LEMMA Untouched ==
  ASSUME Held, UNCHANGED <<build, vars, runtime, memory, ghosts>>
  PROVE  Held'
BY StillHeld DEF vars, memory, ghosts, Reached

-----------------------------------------------------------------------------
(* One lemma per request.                                                  *)

LEMMA CrashHeld ==
  ASSUME DataInv, UNCHANGED build, NEW request, Crash(request)
  PROVE  Held'
BY Untouched DEF DataInv, Crash

\* Where IREE starts: without lists.
LEMMA StartHeld ==
  ASSUME DataInv, UNCHANGED build, NEW failed, StartModel(failed)
  PROVE  Held'
<1>1. /\ settled = {} /\ runtime = Start(build) /\ result'.op = "INIT"
      /\ runtime' = runtime_init(failed).state
      /\ UNCHANGED <<settled, accepted, fed>>
  BY DEF DataInv, Held, Fresh, StartModel, model_init, Returns, ghosts
<1>2. ASSUME build = "iree"
      PROVE  runtime'.gp_model_inputs = I!NULL
  <2>1. runtime' = I!runtime_init(I!IreeStart, failed).state
    BY <1>1, <1>2 DEF runtime_init, Start
  <2>2. I!IreeStart.gp_model_inputs = I!NULL
    BY DEF I!IreeStart
  <2>3. "gp_model_inputs" \in DOMAIN I!IreeStart
    BY DEF I!IreeStart
  <2> QED BY <2>1, <2>2, <2>3 DEF I!runtime_init, I!Returned
<1>3. NULL \notin Inputs /\ I!NULL = NULL
  BY NotGraphs, SameNames
<1> QED BY <1>1, <1>2, <1>3, HeldNext DEF DataInv, Held, EmlearnHeld

LEMMA IospecHeld ==
  ASSUME DataInv, UNCHANGED <<build, runtime, memory, ghosts>>,
         NEW status, Enters(STRUCT_LOADED, status), result'.op = "IOSPEC"
  PROVE  Held'
<1>1. g_model_state \in UNINITIALIZED .. INFERENCE_DONE
  BY DEF DataInv, StaticInv, SInv, TypeOK
<1>2. g_model_state' = g_model_state \/ g_model_state' = STRUCT_LOADED
  BY DEF Enters
<1>3. /\ Reached(INFERENCE_DONE)' => Reached(INFERENCE_DONE)
      /\ Reached(STRUCT_LOADED) => Reached(STRUCT_LOADED)'
  BY <1>1, <1>2 DEF Reached, INFERENCE_DONE, STRUCT_LOADED, UNINITIALIZED
<1> QED BY <1>3, StillHeld DEF DataInv, memory, ghosts

LEMMA StructHeld ==
  ASSUME DataInv, UNCHANGED build, NEW bytes, Iospec(model_load_struct(bytes))
  PROVE  Held'
<1>1. model_load_struct(bytes) /\ UNCHANGED <<runtime, memory, ghosts>>
  BY DEF Iospec
<1>2. CASE UNCHANGED g_model_state /\ result'.op = "IOSPEC"
  <2>1. Enters(STRUCT_LOADED, "NOT_LOADED")
    BY <1>2 DEF Enters
  <2> QED BY <1>1, <1>2, <2>1, IospecHeld
<1>3. CASE LoadStruct(Written(bytes), Len(bytes))
  <2>1. PICK status : Enters(STRUCT_LOADED, status) /\ Returns("IOSPEC", status)
    BY <1>3 DEF LoadStruct
  <2> QED BY <1>1, <2>1, IospecHeld DEF Returns
<1> QED BY <1>1, <1>2, <1>3 DEF model_load_struct, Returns

LEMMA LoaderHeld ==
  ASSUME DataInv, UNCHANGED build, Iospec(model_load_struct_from_loader)
  PROVE  Held'
<1>1. PICK status : Enters(STRUCT_LOADED, status) /\ Returns("IOSPEC", status)
  BY DEF Iospec, model_load_struct_from_loader, LoadStruct
<1> QED BY <1>1, IospecHeld DEF Iospec, Returns

LEMMA ReceiveHeld ==
  ASSUME DataInv, UNCHANGED build, NEW bytes, Iospec(ReceiveIospec(bytes))
  PROVE  Held'
BY StillHeld DEF DataInv, Iospec, ReceiveIospec, memory, ghosts, Reached

\* A request that only asks.
LEMMA QueryHeld ==
  ASSUME DataInv, UNCHANGED <<build, g_model_state, runtime, memory, ghosts>>,
         result'.op # "none"
  PROVE  Held'
BY StillHeld DEF DataInv, memory, ghosts, Reached

LEMMA StatsHeld ==
  ASSUME DataInv, UNCHANGED build, NEW room, Stats(room)
  PROVE  Held'
BY QueryHeld DEF Stats, model_get_statistics, Returns

LEMMA OutputHeldNext ==
  ASSUME DataInv, UNCHANGED build, NEW room, NEW failed, Output(room, failed)
  PROVE  Held'
BY QueryHeld, CrashHeld DEF Output, model_get_output

LEMMA RefusedHeld ==
  ASSUME DataInv, UNCHANGED <<build, runtime, memory, ghosts>>, NEW op, op # "none", Refused(op)
  PROVE  Held'
BY QueryHeld DEF Refused, Returns

\* What a MODEL request makes of model.c's state and of the runtime.
LEMMA ModelServed ==
  ASSUME DataInv, UNCHANGED build, NEW s \in RuntimeStates, build = "iree" => s = runtime,
         NEW model, NEW failed, ServeModel(s, model, failed)
  PROVE  /\ result'.op = "MODEL"
         /\ result'.status = "OK" =>
              /\ runtime_init_weights(s, model, failed).status = "OK"
              /\ runtime' = runtime_init_weights(s, model, failed).state
              /\ ~Reached(INFERENCE_DONE)'
         /\ build = "iree" => runtime'.gp_model_inputs \notin Inputs
<1> DEFINE loaded == runtime_init_weights(s, model, failed)
<1>1. /\ result'.op = "MODEL"
      /\ result'.status = IF Reached(STRUCT_LOADED) THEN loaded.status ELSE "INV_STATE"
      /\ g_model_state' = IF result'.status = "OK" THEN WEIGHTS_LOADED ELSE g_model_state
      /\ runtime' = IF Reached(STRUCT_LOADED) THEN loaded.state ELSE s
  BY DEF ServeModel, model_load_weights_from_loader, Enters, Returns
<1>2. ASSUME build = "iree"
      PROVE  runtime'.gp_model_inputs \notin Inputs
  <2>1. CASE Reached(STRUCT_LOADED)
    BY <1>1, <1>2, <2>1, WeightsDropInputs, NotGraphs
  <2>2. CASE ~Reached(STRUCT_LOADED)
    BY <1>1, <1>2, <2>2 DEF DataInv, Held, IreeInputsHeld
  <2> QED BY <2>1, <2>2
<1>3. result'.status = "OK" => ~Reached(INFERENCE_DONE)'
  BY <1>1 DEF Reached, INFERENCE_DONE, WEIGHTS_LOADED
<1> HIDE DEF loaded
<1> QED BY <1>1, <1>2, <1>3 DEF loaded

LEMMA ModelRequestHeld ==
  ASSUME DataInv, UNCHANGED build, NEW graph \in Graphs, NEW failed, ModelRequest(graph, failed)
  PROVE  Held'
<1> DEFINE s == AfterModelReset
<1>1. s \in RuntimeStates /\ (build = "iree" => s = runtime)
  BY ResetKeeps DEF DataInv, StaticInv, SInv, Memory, Keeps, AfterModelReset
<1> SUFFICES ASSUME LoadModel(graph, failed)
             PROVE  Held'
  BY CrashHeld DEF ModelRequest, ModelCrash
<1>2. ServeModel(s, graph, failed)
  BY DEF LoadModel
<1> HIDE DEF s
<1>3. /\ result'.op = "MODEL"
      /\ result'.status = "OK" =>
           /\ runtime_init_weights(s, graph, failed).status = "OK"
           /\ runtime' = runtime_init_weights(s, graph, failed).state
           /\ ~Reached(INFERENCE_DONE)'
      /\ build = "iree" => runtime'.gp_model_inputs \notin Inputs
  BY <1>1, <1>2, ModelServed
<1>4. /\ model_buffer' = graph /\ settled' \subseteq {"MODEL"}
      /\ "MODEL" \in settled' => result'.status = "OK" /\ Noticed(failed)
      /\ accepted' = CASE result'.status # "OK" -> NULL
                       [] result'.status = "OK" /\ build = "emlearn" -> BuiltIn
                       [] OTHER -> graph
  BY DEF LoadModel
<1>5. build \in Builds \ {"stub"} /\ BuiltIn \in Graphs
  BY StaticAssumption DEF ModelRequest, HasLoaders, DataInv, StaticInv, SInv
<1>6. ASSUME "MODEL" \in settled'
      PROVE  /\ accepted' \in Graphs /\ HasModel(runtime', model_buffer', accepted')
             /\ ~Reached(INFERENCE_DONE)'
  <2>1. accepted' = IF build = "emlearn" THEN BuiltIn ELSE graph
    BY <1>4, <1>6
  <2>2. HasModel(runtime', graph, IF build = "emlearn" THEN BuiltIn ELSE graph)
    BY <1>1, <1>3, <1>4, <1>5, <1>6, WeightsLoad
  <2> QED BY <1>3, <1>4, <1>5, <1>6, <2>1, <2>2
<1>7. build = "emlearn" => accepted' \in {NULL, BuiltIn}
  BY <1>4
<1> QED BY <1>3, <1>4, <1>6, <1>7, HeldNext

LEMMA EmptyModelHeld ==
  ASSUME DataInv, UNCHANGED build, NEW failed, EmptyModel(failed)
  PROVE  Held'
<1> SUFFICES ASSUME ReloadModel(failed)
             PROVE  Held'
  BY CrashHeld DEF EmptyModel, ModelCrash
<1>1. /\ ServeModel(runtime, model_buffer, failed)
      /\ accepted' = NULL /\ settled' = {}
      /\ runtime \in RuntimeStates
  BY DEF ReloadModel, DataInv, StaticInv, Memory
<1>2. result'.op = "MODEL" /\ (build = "iree" => runtime'.gp_model_inputs \notin Inputs)
  BY <1>1, ModelServed
<1> QED BY <1>1, <1>2, HeldNext

\* IREE and emlearn lose less than the others.
LEMMA LostModelHeld ==
  ASSUME DataInv, UNCHANGED build, LostModel
  PROVE  Held'
<1>1. /\ UNCHANGED <<g_model_state, result, input_buffer, accepted, fed>>
      /\ settled' = settled \ Spoils("MODEL") /\ runtime' = AfterModelReset
      /\ Reached(INITIALIZED) /\ build # "stub"
  BY DEF LostModel, HasLoaders, vars
<1>2. result.op # "none"
  BY <1>1 DEF DataInv, Held, Fresh, Reached, INITIALIZED, UNINITIALIZED
<1>3. CASE build \in {"iree", "emlearn"}
  <2>1. runtime' = runtime /\ (Reached(INFERENCE_DONE)' <=> Reached(INFERENCE_DONE))
        /\ (Reached(STRUCT_LOADED)' <=> Reached(STRUCT_LOADED))
    BY <1>1, <1>3 DEF AfterModelReset, Reached
  <2>2. CASE build = "iree"
    <3>1. settled' = settled \ {"MODEL"}
      BY <1>1, <2>2 DEF Spoils
    <3> QED BY <1>1, <1>2, <2>1, <2>2, <3>1, HeldNext
            DEF DataInv, Held, ModelHeld, InputHeld, OutputHeld, IreeInputsHeld, HasInput
  <2>3. CASE build = "emlearn"
    <3>1. settled' = settled
      BY <1>1, <2>3 DEF Spoils
    <3>2. "MODEL" \in settled' => accepted' \in Graphs /\ HasModel(runtime', model_buffer', accepted')
      BY <1>1, <2>1, <2>3, <3>1 DEF DataInv, Held, ModelHeld, HasModel
    <3> QED BY <1>1, <1>2, <2>1, <2>3, <3>1, <3>2, HeldNext
            DEF DataInv, Held, InputHeld, OutputHeld, EmlearnHeld
  <2> QED BY <1>3, <2>2, <2>3
<1>4. CASE build \notin {"iree", "emlearn"}
  <2>1. Spoils("MODEL") = {"MODEL", "DATA", "PROCESS"}
    BY <1>4 DEF Spoils
  <2>2. settled' = {}
    BY <1>1, <2>1 DEF DataInv, StaticInv, Ghosts
  <2> QED BY <1>1, <1>2, <1>4, <2>2, HeldNext
<1> QED BY <1>3, <1>4

\* What a DATA request makes of model.c's state and of the ghosts.
LEMMA DataServed ==
  ASSUME NEW s, NEW input, NEW size, NEW failed, ServeData(s, input, size, failed),
         ~Crash("DATA")
  PROVE  LET asked == Reached(WEIGHTS_LOADED) /\ size = model_get_input_size
             loaded == runtime_init_input(s, input, failed)
         IN  /\ result'.op = "DATA"
             /\ runtime' = IF asked THEN loaded.state ELSE s
             /\ result'.status = "OK" => asked /\ loaded.status = "OK" /\ g_model_state' = INPUT_LOADED
             /\ asked /\ loaded.status = "OK" => result'.status = "OK"
             /\ result'.status # "OK" => g_model_state' = g_model_state
             /\ input_buffer' = input /\ accepted' = accepted
             /\ settled' \subseteq settled \cup {"DATA"}
             /\ settled' \cap Spoils("DATA") \subseteq {"DATA"}
             /\ "DATA" \in settled' => result'.status = "OK" /\ input # Torn /\ "MODEL" \in settled
                                       /\ Matches(accepted)
             /\ fed' = IF result'.status = "OK" /\ input # Torn THEN input ELSE fed
<1> DEFINE asked == Reached(WEIGHTS_LOADED) /\ size = model_get_input_size
           loaded == runtime_init_input(s, input, failed)
<1>1. /\ model_load_input_from_loader(size, loaded.status)
      /\ runtime' = IF asked THEN loaded.state ELSE s
      /\ input_buffer' = input /\ accepted' = accepted
      /\ settled' = IF result'.status = "OK" /\ input # Torn /\ "MODEL" \in settled /\ Matches(accepted)
                    THEN (settled \ Spoils("DATA")) \cup {"DATA"}
                    ELSE settled \ (Spoils("DATA") \cup {"DATA"})
      /\ fed' = IF result'.status = "OK" /\ input # Torn THEN input ELSE fed
  BY DEF ServeData
<1>2. /\ result'.op = "DATA"
      /\ result'.status = IF asked THEN loaded.status
                          ELSE IF ~Reached(WEIGHTS_LOADED) THEN "INV_STATE" ELSE "INV_ARG"
      /\ g_model_state' = IF result'.status = "OK" THEN INPUT_LOADED ELSE g_model_state
  BY <1>1 DEF model_load_input_from_loader, Enters, Returns
<1> HIDE DEF asked, loaded
<1>3. /\ settled' \subseteq settled \cup {"DATA"}
      /\ settled' \cap Spoils("DATA") \subseteq {"DATA"}
      /\ "DATA" \in settled' => result'.status = "OK" /\ input # Torn /\ "MODEL" \in settled
                                /\ Matches(accepted)
  BY <1>1
<1>4. result'.status = "OK" => asked /\ loaded.status = "OK" /\ g_model_state' = INPUT_LOADED
  BY <1>2
<1>5. asked /\ loaded.status = "OK" => result'.status = "OK"
  BY <1>2
<1> QED BY <1>1, <1>2, <1>3, <1>4, <1>5 DEF asked, loaded

LEMMA ServeDataHeld ==
  ASSUME DataInv, UNCHANGED build, NEW s \in RuntimeStates, build # "tflite" => s = runtime,
         NEW input \in Given, NEW size, NEW failed, ServeData(s, input, size, failed),
         "MODEL" \in settled => HasModel(s, model_buffer', accepted)
  PROVE  Held'
<1>1. CASE Crash("DATA")
  BY <1>1, CrashHeld
<1>2. CASE ~Crash("DATA")
  <2> DEFINE asked == Reached(WEIGHTS_LOADED) /\ size = model_get_input_size
             loaded == runtime_init_input(s, input, failed)
  <2>1. /\ result'.op = "DATA"
        /\ runtime' = IF asked THEN loaded.state ELSE s
        /\ result'.status = "OK" => asked /\ loaded.status = "OK" /\ g_model_state' = INPUT_LOADED
        /\ asked /\ loaded.status = "OK" => result'.status = "OK"
        /\ result'.status # "OK" => g_model_state' = g_model_state
        /\ input_buffer' = input /\ accepted' = accepted
        /\ settled' \subseteq settled \cup {"DATA"}
        /\ settled' \cap Spoils("DATA") \subseteq {"DATA"}
        /\ "DATA" \in settled' => result'.status = "OK" /\ input # Torn /\ "MODEL" \in settled
                                  /\ Matches(accepted)
        /\ fed' = IF result'.status = "OK" /\ input # Torn THEN input ELSE fed
    BY <1>2, DataServed
  <2>2. build \in Builds /\ accepted \in Graphs \cup {NULL}
    BY DEF DataInv, StaticInv, SInv, Ghosts
  <2>3. ASSUME "MODEL" \in settled
        PROVE  /\ accepted \in Graphs /\ HasModel(loaded.state, model_buffer', accepted)
               /\ HasModel(s, model_buffer', accepted)
               /\ loaded.status = "OK" /\ Matches(accepted) =>
                    HasInput(loaded.state, input, input)
    <3>0. Matches(accepted) => g_model_spec.input # NoTensors
      BY MatchesValid, ValidTensor
    <3>1. accepted \in Graphs
      BY <2>3 DEF DataInv, Held, ModelHeld
    <3> QED BY <2>2, <2>3, <3>0, <3>1, InputLoads
  <2>4. INPUT_LOADED < INFERENCE_DONE /\ STRUCT_LOADED < INPUT_LOADED
    BY DEF INPUT_LOADED, INFERENCE_DONE, STRUCT_LOADED
  <2>5. /\ \A computed : HasOutput(s, computed) => HasOutput(loaded.state, computed)
        /\ build = "iree" =>
             /\ loaded.state.gp_model_outputs = s.gp_model_outputs
             /\ loaded.state.gp_model_inputs \in {NULL, Empty, input}
             /\ loaded.state.gp_model_inputs = input =>
                  input \in {NULL, Empty} \/ loaded.status = "OK"
    BY <2>2, InputKeepsOutput
  <2> HIDE DEF asked, loaded
  <2>6. "MODEL" \in settled' => accepted' \in Graphs /\ HasModel(runtime', model_buffer', accepted')
    BY <2>1, <2>3
  <2>7. "DATA" \in settled' => fed' \in Inputs /\ HasInput(runtime', input_buffer', fed')
    BY <2>1, <2>3 DEF Given
  <2>8. Reached(INFERENCE_DONE)' => /\ result'.status # "OK" /\ fed' = fed
                                    /\ Reached(INFERENCE_DONE)
    BY <2>1, <2>4 DEF Reached, INPUT_LOADED, INFERENCE_DONE
  <2>9. "PROCESS" \in settled' /\ Reached(INFERENCE_DONE)' =>
          accepted' \in Graphs /\ fed' \in Inputs /\ HasOutput(runtime', <<accepted', fed'>>)
    <3> SUFFICES ASSUME "PROCESS" \in settled', Reached(INFERENCE_DONE)'
                 PROVE  accepted' \in Graphs /\ fed' \in Inputs
                        /\ HasOutput(runtime', <<accepted', fed'>>)
      OBVIOUS
    <3>1. "PROCESS" \in settled /\ "PROCESS" \notin Spoils("DATA")
      BY <2>1
    <3>2. s = runtime
      BY <3>1 DEF Spoils
    <3>3. accepted \in Graphs /\ fed \in Inputs /\ HasOutput(runtime, <<accepted, fed>>)
      BY <2>8, <3>1 DEF DataInv, Held, OutputHeld
    <3> QED BY <2>1, <2>5, <2>8, <3>2, <3>3
  <2>10. ASSUME build = "iree", runtime'.gp_model_inputs \in Inputs
         PROVE  runtime'.gp_model_inputs = fed' /\ Reached(STRUCT_LOADED)'
    <3>1. CASE asked
      <4>1. runtime'.gp_model_inputs = input /\ input \in Inputs /\ loaded.status = "OK"
        BY <2>1, <2>5, <2>10, <3>1, NotGraphs
      <4>2. result'.status = "OK" /\ input # Torn
        BY <2>1, <3>1, <4>1, NotGraphs
      <4> QED BY <2>1, <2>4, <4>1, <4>2 DEF Reached, INPUT_LOADED, STRUCT_LOADED
    <3>2. CASE ~asked
      <4>1. runtime' = runtime /\ fed' = fed /\ g_model_state' = g_model_state
        BY <2>1, <2>10, <3>2
      <4> QED BY <2>10, <4>1 DEF DataInv, Held, IreeInputsHeld, Reached
    <3> QED BY <3>1, <3>2
  <2>11. ASSUME build = "iree", "MODEL" \in settled', Reached(INFERENCE_DONE)'
         PROVE  runtime'.gp_model_outputs \in {I!NoList, I!EmptyList, Garbage, <<accepted', fed'>>}
    <3>1. runtime'.gp_model_outputs = runtime.gp_model_outputs
      BY <2>1, <2>5, <2>11
    <3>2. "MODEL" \in settled
      BY <2>1, <2>11
    <3> QED BY <2>1, <2>8, <2>11, <3>1, <3>2 DEF DataInv, Held, IreeOutputsHeld
  <2>12. build = "emlearn" => accepted' \in {NULL, BuiltIn}
    BY <2>1 DEF DataInv, Held, EmlearnHeld
  <2> QED BY <2>1, <2>6, <2>7, <2>9, <2>10, <2>11, <2>12, HeldNext
<1> QED BY <1>1, <1>2

LEMMA DataRequestHeld ==
  ASSUME DataInv, UNCHANGED build, NEW input \in Inputs, NEW size, NEW overlaps, NEW failed,
         DataRequest(input, size, overlaps, failed)
  PROVE  Held'
<1> DEFINE s == AfterData(overlaps)
           given == AsInput(input, size)
<1>1. s \in RuntimeStates /\ (build # "tflite" => s = runtime) /\ given \in Given
  BY ResetKeeps DEF DataInv, StaticInv, SInv, Memory, Keeps, AfterData, AsInput, Given
<1>2. ServeData(s, given, size, failed) /\ model_buffer' = ModelAfterData(overlaps)
  BY DEF DataRequest
<1>3. "MODEL" \in settled => HasModel(s, model_buffer', accepted)
  BY <1>2, DataSparesModel DEF DataInv, StaticInv, SInv, Memory, Held, ModelHeld
<1> HIDE DEF s, given
<1> QED BY <1>1, <1>2, <1>3, ServeDataHeld

LEMMA EmptyDataHeld ==
  ASSUME DataInv, UNCHANGED build, NEW failed, EmptyData(failed)
  PROVE  Held'
<1>1. /\ ServeData(runtime, input_buffer, data_written, failed) /\ model_buffer' = model_buffer
      /\ runtime \in RuntimeStates /\ input_buffer \in Given
  BY DEF EmptyData, DataInv, StaticInv, Memory
<1>2. "MODEL" \in settled => HasModel(runtime, model_buffer', accepted)
  BY <1>1 DEF DataInv, Held, ModelHeld
<1> QED BY <1>1, <1>2, ServeDataHeld

LEMMA LostDataHeld ==
  ASSUME DataInv, UNCHANGED build, NEW size, NEW overlaps, LostData(size, overlaps)
  PROVE  Held'
<1>1. /\ UNCHANGED <<g_model_state, result, accepted, fed>>
      /\ settled' = settled \ Spoils("DATA")
      /\ runtime' = AfterData(overlaps) /\ model_buffer' = ModelAfterData(overlaps)
      /\ Reached(INITIALIZED) /\ build \in Builds \ {"stub"}
  BY DEF LostData, HasLoaders, vars, DataInv, StaticInv, SInv
<1>2. result'.op # "none"
  BY <1>1 DEF DataInv, Held, Fresh, Reached, INITIALIZED, UNINITIALIZED
<1>3. "MODEL" \in settled' => accepted' \in Graphs /\ HasModel(runtime', model_buffer', accepted')
  BY <1>1, DataSparesModel DEF DataInv, StaticInv, SInv, Memory, Held, ModelHeld
<1>4. (Reached(INFERENCE_DONE)' <=> Reached(INFERENCE_DONE))
      /\ (Reached(STRUCT_LOADED)' <=> Reached(STRUCT_LOADED))
  BY <1>1 DEF Reached
<1>5. CASE build = "tflite"
  <2>1. Spoils("DATA") = {"DATA", "PROCESS"}
    BY <1>5 DEF Spoils
  <2>2. "DATA" \notin settled' /\ "PROCESS" \notin settled'
    BY <1>1, <2>1
  <2> QED BY <1>2, <1>3, <1>5, <2>2, HeldNext
<1>6. CASE build \in {"executorch", "emlearn"}
  <2>1. Spoils("DATA") = {"DATA"} /\ runtime' = runtime
    BY <1>1, <1>6 DEF Spoils, AfterData
  <2>2. "DATA" \notin settled' /\ settled' \subseteq settled
    BY <1>1, <2>1
  <2>3. "PROCESS" \in settled' /\ Reached(INFERENCE_DONE)' =>
          accepted' \in Graphs /\ fed' \in Inputs /\ HasOutput(runtime', <<accepted', fed'>>)
    BY <1>1, <1>4, <2>1, <2>2 DEF DataInv, Held, OutputHeld
  <2> QED BY <1>1, <1>2, <1>3, <1>6, <2>2, <2>3, HeldNext DEF DataInv, Held, EmlearnHeld
<1>7. CASE build = "iree"
  <2>1. settled' = settled /\ runtime' = runtime
    BY <1>1, <1>7 DEF Spoils, AfterData
  <2>2. "DATA" \in settled' => fed' \in Inputs /\ HasInput(runtime', input_buffer', fed')
    BY <1>1, <1>7, <2>1 DEF DataInv, Held, InputHeld, HasInput
  <2>3. "PROCESS" \in settled' /\ Reached(INFERENCE_DONE)' =>
          accepted' \in Graphs /\ fed' \in Inputs /\ HasOutput(runtime', <<accepted', fed'>>)
    BY <1>1, <1>4, <2>1 DEF DataInv, Held, OutputHeld
  <2>4. runtime'.gp_model_inputs \in Inputs =>
          runtime'.gp_model_inputs = fed' /\ Reached(STRUCT_LOADED)'
    BY <1>1, <1>4, <1>7, <2>1 DEF DataInv, Held, IreeInputsHeld
  <2>5. "MODEL" \in settled' /\ Reached(INFERENCE_DONE)' =>
          runtime'.gp_model_outputs \in {I!NoList, I!EmptyList, Garbage, <<accepted', fed'>>}
    BY <1>1, <1>4, <1>7, <2>1 DEF DataInv, Held, IreeOutputsHeld
  <2> QED BY <1>2, <1>3, <1>7, <2>2, <2>3, <2>4, <2>5, HeldNext
<1> QED BY <1>1, <1>5, <1>6, <1>7 DEF Builds

\* What a PROCESS request makes of model.c's state and of the ghosts.
LEMMA ProcessServed ==
  ASSUME TypeOK, build \in Builds, NEW measured, NEW copied, NEW overlaps, NEW failed,
         Process(measured, copied, overlaps, failed), ~Crash("PROCESS")
  PROVE  LET asked == Reached(INPUT_LOADED)
             run   == runtime_run_model(copied, failed)
         IN  /\ result'.op = "PROCESS"
             /\ runtime' = IF asked THEN run.state ELSE runtime
             /\ UNCHANGED <<model_buffer, accepted, fed>>
             /\ settled' \subseteq settled \cup {"PROCESS"}
             /\ "PROCESS" \in settled' =>
                  asked /\ run.status = "OK" /\ {"MODEL", "DATA"} \subseteq settled
             /\ "DATA" \in settled' =>
                  build \notin {"tflite", "executorch"} /\ input_buffer' = input_buffer
             /\ Reached(INFERENCE_DONE)' => asked
             /\ Reached(STRUCT_LOADED) => Reached(STRUCT_LOADED)'
<1> DEFINE asked == Reached(INPUT_LOADED)
           run   == runtime_run_model(copied, failed)
           shown == IF measured THEN Bench(run) ELSE run
           right == asked /\ run.status = "OK" /\ {"MODEL", "DATA"} \subseteq settled
                    /\ Matches(accepted)
<1>1. /\ model_run(shown.status)
      /\ runtime' = IF asked THEN run.state ELSE runtime
      /\ input_buffer' = IF asked /\ build = "tflite" /\ overlaps THEN Torn ELSE input_buffer
      /\ UNCHANGED <<model_buffer, accepted, fed>>
      /\ settled' = (IF right THEN settled \cup {"PROCESS"} ELSE settled \ {"PROCESS"}) \ Consumed
  BY DEF Process
<1> HIDE DEF run, shown
<1>2. /\ result'.op = "PROCESS"
      /\ g_model_state' = g_model_state \/ (asked /\ g_model_state' = INFERENCE_DONE)
  BY <1>1 DEF model_run, Enters, Returns
<1>3. /\ Reached(INFERENCE_DONE)' => asked
      /\ Reached(STRUCT_LOADED) => Reached(STRUCT_LOADED)'
  <2>1. CASE g_model_state' = g_model_state
    <3>1. Reached(INFERENCE_DONE)' => Reached(INFERENCE_DONE)
      BY <2>1 DEF Reached
    <3>2. Reached(INFERENCE_DONE) => asked
      BY DEF TypeOK, Reached, UNINITIALIZED, INFERENCE_DONE, INPUT_LOADED
    <3> QED BY <2>1, <3>1, <3>2 DEF Reached
  <2>2. CASE asked /\ g_model_state' = INFERENCE_DONE
    BY <2>2 DEF Reached, INFERENCE_DONE, STRUCT_LOADED
  <2> QED BY <1>2, <2>1, <2>2
<1> HIDE DEF asked
<1>4. /\ settled' \subseteq settled \cup {"PROCESS"}
      /\ "PROCESS" \in settled' =>
           asked /\ run.status = "OK" /\ {"MODEL", "DATA"} \subseteq settled
  BY <1>1
<1>5. "DATA" \in settled' =>
        build \notin {"tflite", "executorch"} /\ input_buffer' = input_buffer
  BY <1>1 DEF Consumed
<1> QED BY <1>1, <1>2, <1>3, <1>4, <1>5 DEF run, asked

LEMMA ProcessHeld ==
  ASSUME DataInv, UNCHANGED build, NEW measured, NEW copied, NEW overlaps, NEW failed,
         Process(measured, copied, overlaps, failed)
  PROVE  Held'
<1>1. CASE Crash("PROCESS")
  BY <1>1, CrashHeld
<1>2. CASE ~Crash("PROCESS")
  <2> DEFINE asked == Reached(INPUT_LOADED)
             run   == runtime_run_model(copied, failed)
  <2>1. TypeOK /\ build \in Builds /\ runtime \in RuntimeStates
    BY DEF DataInv, StaticInv, SInv, Memory
  <2>2. /\ result'.op = "PROCESS"
        /\ runtime' = IF asked THEN run.state ELSE runtime
        /\ UNCHANGED <<model_buffer, accepted, fed>>
        /\ settled' \subseteq settled \cup {"PROCESS"}
        /\ "PROCESS" \in settled' =>
             asked /\ run.status = "OK" /\ {"MODEL", "DATA"} \subseteq settled
        /\ "DATA" \in settled' =>
             build \notin {"tflite", "executorch"} /\ input_buffer' = input_buffer
        /\ Reached(INFERENCE_DONE)' => asked
        /\ Reached(STRUCT_LOADED) => Reached(STRUCT_LOADED)'
    BY <1>2, <2>1, ProcessServed
  <2>3. "MODEL" \in settled =>
          /\ accepted \in Graphs /\ HasModel(runtime, model_buffer, accepted)
          /\ HasModel(run.state, model_buffer, accepted)
    BY <2>1, RunKeepsModel DEF DataInv, Held, ModelHeld
  <2>4. "DATA" \in settled => fed \in Inputs /\ HasInput(runtime, input_buffer, fed)
    BY DEF DataInv, Held, InputHeld
  <2>5. ASSUME "MODEL" \in settled, "DATA" \in settled, run.status = "OK"
        PROVE  HasOutput(run.state, <<accepted, fed>>)
    BY <2>1, <2>3, <2>4, <2>5, RunComputes
  <2>6. ASSUME build = "iree"
        PROVE  /\ run.state.gp_model_inputs = runtime.gp_model_inputs
               /\ \A graph \in Graphs : HasModel(runtime, model_buffer, graph) =>
                    run.state.gp_model_outputs \in
                      {I!NoList, I!EmptyList, Garbage}
                      \cup (IF runtime.gp_model_inputs \in Inputs
                            THEN {<<graph, runtime.gp_model_inputs>>} ELSE {})
    BY <2>1, <2>6, IreeRun
  <2> HIDE DEF asked, run
  <2>7. "MODEL" \in settled' => accepted' \in Graphs /\ HasModel(runtime', model_buffer', accepted')
    BY <2>2, <2>3
  <2>8. ASSUME "DATA" \in settled'
        PROVE  fed' \in Inputs /\ HasInput(runtime', input_buffer', fed')
    <3>1. /\ "DATA" \in settled /\ input_buffer' = input_buffer /\ fed' = fed
          /\ build \notin {"tflite", "executorch"}
      BY <2>2, <2>8
    <3>2. HasInput(runtime, input_buffer, fed) => HasInput(run.state, input_buffer, fed)
      BY <2>6, <3>1 DEF HasInput
    <3> QED BY <2>2, <2>4, <3>1, <3>2
  <2>9. "PROCESS" \in settled' /\ Reached(INFERENCE_DONE)' =>
           accepted' \in Graphs /\ fed' \in Inputs /\ HasOutput(runtime', <<accepted', fed'>>)
    BY <2>2, <2>3, <2>4, <2>5
  <2>10. build = "iree" /\ runtime'.gp_model_inputs \in Inputs =>
           runtime'.gp_model_inputs = fed' /\ Reached(STRUCT_LOADED)'
    BY <2>2, <2>6 DEF DataInv, Held, IreeInputsHeld
  <2>11. ASSUME build = "iree", "MODEL" \in settled', Reached(INFERENCE_DONE)'
         PROVE  runtime'.gp_model_outputs \in {I!NoList, I!EmptyList, Garbage, <<accepted', fed'>>}
    <3>1. "MODEL" \in settled /\ asked
      BY <2>2, <2>11
    <3>2. runtime.gp_model_inputs \in Inputs => runtime.gp_model_inputs = fed
      BY <2>11 DEF DataInv, Held, IreeInputsHeld
    <3> QED BY <2>2, <2>3, <2>6, <2>11, <3>1, <3>2
  <2>12. build = "emlearn" => accepted' \in {NULL, BuiltIn}
    BY <2>2 DEF DataInv, Held, EmlearnHeld
  <2> QED BY <2>2, <2>7, <2>8, <2>9, <2>10, <2>11, <2>12, HeldNext
<1> QED BY <1>1, <1>2

-----------------------------------------------------------------------------
(* The inductive invariant.                                                *)

LEMMA RequestHeld ==
  ASSUME DataInv, UNCHANGED build, Request
  PROVE  Held'
BY ModelRequestHeld, EmptyModelHeld, DataRequestHeld, EmptyDataHeld, ProcessHeld, OutputHeldNext
   DEF Request

LEMMA ServerHeld ==
  ASSUME DataInv, ServerNext
  PROVE  Held'
<1>1. UNCHANGED build
  BY DEF ServerNext, app
<1>2. ASSUME NEW request, NoLoader(request)
      PROVE  Held'
  BY <1>1, <1>2, CrashHeld DEF NoLoader
<1> QED BY <1>1, <1>2, StartHeld, RequestHeld, StructHeld, ReceiveHeld, LoaderHeld, LostModelHeld,
           LostDataHeld, StatsHeld
        DEF ServerNext

LEMMA DemoHeld ==
  ASSUME DataInv, DemoNext
  PROVE  Held'
<1>1. UNCHANGED build
  BY DEF DemoNext
<1>2. ASSUME NEW failed, DemoWeights(failed)
      PROVE  Held'
  BY <1>1, <1>2, StaticAssumption, ModelRequestHeld, RefusedHeld DEF DemoWeights
<1>3. CASE DemoAlloc
  BY <1>1, <1>3, Untouched DEF DemoAlloc, DataInv
<1>4. ASSUME NEW x \in Inputs, NEW overlaps, NEW failed, DemoInput(x, overlaps, failed)
      PROVE  Held'
  BY <1>1, <1>4, CrashHeld, DataRequestHeld DEF DemoInput
<1>5. ASSUME NEW failed, DemoOutput(failed)
      PROVE  Held'
  BY <1>1, <1>5, OutputHeldNext, RefusedHeld DEF DemoOutput
<1>6. CASE LogStatistics
  BY <1>1, <1>6, StatsHeld DEF LogStatistics
<1> QED BY <1>1, <1>2, <1>3, <1>4, <1>5, <1>6, StartHeld, StructHeld, ProcessHeld
        DEF DemoNext, DemoStep

LEMMA HeldInit == StaticInit => Held
<1> SUFFICES ASSUME StaticInit PROVE Held
  OBVIOUS
<1>1. settled = {} /\ g_model_state = UNINITIALIZED /\ runtime = Start(build) /\ accepted = NULL
  BY DEF StaticInit, Init
<1>2. build = "iree" => runtime.gp_model_inputs \notin Inputs
  BY <1>1, NotGraphs, SameNames DEF Start, I!IreeStart
<1> QED BY <1>1, <1>2
        DEF Held, ModelHeld, InputHeld, OutputHeld, IreeInputsHeld, IreeOutputsHeld,
            EmlearnHeld, Fresh

LEMMA HeldKept ==
  ASSUME DataInv, [StaticNext]_static_vars
  PROVE  Held'
<1>1. CASE UNCHANGED static_vars
  BY <1>1, Untouched DEF static_vars, app, DataInv
<1> QED BY <1>1, ServerHeld, DemoHeld DEF StaticNext

\* Whatever is lost, refused, repeated or fails, in whichever order: the model
\* that settled is the one the runtime runs and its buffer holds, the input
\* that settled is the one a run will take, and the output of a run that
\* settled is still there while model.c would hand it out.
THEOREM SettledIsHeld == StaticSpec => []Held
<1>1. Held /\ StaticInv /\ [StaticNext]_static_vars => Held'
  BY HeldKept DEF DataInv
<1> QED BY <1>1, HeldInit, StaticInvariant, PTL DEF StaticSpec

-----------------------------------------------------------------------------
(* What a step copies for its caller.                                      *)

StepCopies ==
  \/ delivered' = Nothing
  \/ \E room \in Nat : \E failed : Output(room, failed) /\ ~Crash("OUTPUT")
  \/ \E room \in {RESPONSE_STATISTICS, INFERENCE_STATISTICS_BUFFER_LENGTH} : Stats(room)

\* demo_app copies outputs at one place only, and statistics at another.
LEMMA StepsCopy ==
  ASSUME DataInv, StaticNext
  PROVE  /\ StepCopies
         /\ demo.place \notin {"server", "output"} =>
              delivered' = Nothing \/ result'.op = "STATS"
<1>1. \A request : Crash(request) => delivered' = Nothing
  BY DEF Crash
<1>2. \A s, model, failed : ServeModel(s, model, failed) => delivered' = Nothing
  BY DEF ServeModel
<1>3. \A s, input, size, failed : ServeData(s, input, size, failed) => delivered' = Nothing
  BY <1>1 DEF ServeData
<1>4. \A measured, copied, overlaps, failed :
         Process(measured, copied, overlaps, failed) => delivered' = Nothing
  BY <1>1 DEF Process
<1>5. ASSUME NEW room \in Nat, NEW failed, Output(room, failed)
      PROVE  StepCopies
  BY <1>1, <1>5 DEF StepCopies
<1>6. ASSUME NEW room, Stats(room)
      PROVE  result'.op = "STATS"
  BY <1>6 DEF Stats, model_get_statistics, Returns
<1>7. CASE ServerNext
  <2>1. demo.place = "server"
    BY <1>7 DEF ServerNext
  <2>2. CASE Request
    <3>1. CONFIG_KENNING_RESPONSE_PAYLOAD_SIZE \in Nat
      BY ModelAssumption
    <3> QED BY <1>1, <1>2, <1>3, <1>4, <1>5, <2>1, <2>2, <3>1
            DEF Request, EmptyModel, ModelRequest, ModelCrash, LoadModel, ReloadModel,
                EmptyData, DataRequest, StepCopies
  <2> QED BY <1>1, <1>7, <2>1, <2>2
          DEF ServerNext, StartModel, Iospec, LostModel, LostData, NoLoader, StepCopies
<1>8. CASE DemoNext
  <2>1. ASSUME NEW failed, DemoOutput(failed)
        PROVE  StepCopies
    <3>1. model_get_output_size \in Nat
      BY SizesAreNat DEF DataInv, StaticInv, SInv, TypeOK
    <3> QED BY <1>5, <2>1, <3>1 DEF DemoOutput, StepCopies
  <2>2. CASE LogStatistics
    BY <1>6, <2>2 DEF LogStatistics, StepCopies
  <2>3. ASSUME NEW failed, DemoWeights(failed)
        PROVE  delivered' = Nothing
    BY <1>1, <1>2, <2>3 DEF DemoWeights, ModelRequest, ModelCrash, LoadModel
  <2>4. ASSUME NEW x, NEW overlaps, NEW failed, DemoInput(x, overlaps, failed)
        PROVE  delivered' = Nothing
    BY <1>1, <1>3, <2>4 DEF DemoInput, DataRequest
  <2>5. CASE demo.place = "output"
    BY <1>8, <2>1, <2>5 DEF DemoNext, DemoStep
  <2>6. CASE demo.place = "statistics"
    BY <1>6, <1>8, <2>2, <2>6 DEF DemoNext, DemoStep, LogStatistics
  <2>7. CASE demo.place \notin {"output", "statistics"}
    <3>1. delivered' = Nothing
      BY <1>4, <1>8, <2>3, <2>4, <2>7 DEF DemoNext, DemoStep, StartModel, Iospec, DemoAlloc
    <3> QED BY <3>1 DEF StepCopies
  <2> QED BY <2>5, <2>6, <2>7
<1> QED BY <1>7, <1>8 DEF StaticNext

\* Where the output is from.
LEMMA OutputServedData ==
  ASSUME NEW room, NEW failed, Output(room, failed), ~Crash("OUTPUT"), delivered' # Nothing
  PROVE  /\ Reached(INFERENCE_DONE) /\ ~(room < model_get_output_size)
         /\ runtime_get_model_output(failed).status = "OK"
         /\ delivered' = [data |-> Copied.data, written |-> Copied.written,
                          available |-> Copied.available, told |-> model_get_output_size,
                          room |-> room]
         /\ UNCHANGED <<accepted, fed, settled, g_model_spec>>
<1> DEFINE status == IF ~Reached(INFERENCE_DONE) THEN "INV_STATE"
                     ELSE IF room < model_get_output_size THEN "INV_ARG"
                     ELSE runtime_get_model_output(failed).status
<1>1. /\ result' = [op |-> "OUTPUT", status |-> status,
                    size |-> IF status \in RuntimeStatus THEN model_get_output_size ELSE 0]
      /\ delivered' = IF result'.status # "OK" THEN Nothing
                      ELSE [data |-> Copied.data, written |-> Copied.written,
                            available |-> Copied.available, told |-> result'.size,
                            room |-> room]
      /\ UNCHANGED <<accepted, fed, settled, g_model_spec>>
  BY DEF Output, model_get_output, ghosts
<1>2. result'.status = "OK" /\ status = "OK"
  BY <1>1
<1>3. /\ Reached(INFERENCE_DONE) /\ ~(room < model_get_output_size)
      /\ runtime_get_model_output(failed).status = "OK"
  BY <1>2
<1>4. result'.size = model_get_output_size
  BY <1>1, <1>2 DEF RuntimeStatus
<1> QED BY <1>1, <1>2, <1>3, <1>4

-----------------------------------------------------------------------------
(* Outputs.                                                                *)

LEMMA OutputIsHeld ==
  ASSUME DataInv, NEW room, NEW failed, Output(room, failed), ~Crash("OUTPUT"),
         delivered' # Nothing
  PROVE  /\ "PROCESS" \in settled' => delivered'.data = <<accepted', fed'>>
         /\ build = "iree" /\ "MODEL" \in settled' /\ Matches(accepted) =>
              delivered'.data \in {<<accepted', fed'>>, Garbage}
<1>1. /\ Reached(INFERENCE_DONE)
      /\ runtime_get_model_output(failed).status = "OK"
      /\ delivered'.data = Copied.data
      /\ UNCHANGED <<accepted, fed, settled>>
  BY OutputServedData
<1>2. build \in Builds
  BY DEF DataInv, StaticInv, SInv
<1>3. "PROCESS" \in settled => Copied.data = <<accepted, fed>>
  BY <1>1, <1>2, OutputCopies DEF DataInv, Held, OutputHeld
<1>4. ASSUME build = "iree", "MODEL" \in settled, Matches(accepted)
      PROVE  Copied.data \in {<<accepted, fed>>, Garbage}
  <2> DEFINE tensors == TensorsOf(g_model_spec.output)
  <2>0. tensors # {}
    BY <1>4, MatchesValid, ValidTensor
  <2>1. runtime.gp_model_outputs \in {I!NoList, I!EmptyList, Garbage, <<accepted, fed>>}
    BY <1>1, <1>4 DEF DataInv, Held, IreeOutputsHeld
  <2>2. I!runtime_get_model_output(runtime, tensors, failed).status = "OK"
    BY <1>1, <1>4 DEF runtime_get_model_output
  <2> HIDE DEF tensors
  <2>3. runtime.gp_model_outputs # I!NoList /\ runtime.gp_model_outputs # I!EmptyList
    BY <2>0, <2>2 DEF I!runtime_get_model_output, I!Returned
  <2>4. Copied.data = runtime.gp_model_outputs
    BY <1>4 DEF Copied
  <2> QED BY <2>1, <2>3, <2>4
<1> QED BY <1>1, <1>3, <1>4

\* Output that follows a model, an input and a run which all arrived whole,
\* succeeded and hid no failure is what that model makes of that input; with
\* IREE it is never what was computed of an older one.
THEOREM OutputCorrect == StaticSpec => []OutputIsComputed
<1>1. StaticInit => OutputIsComputed
  BY DEF StaticInit, OutputIsComputed
<1>2. Held /\ StaticInv /\ OutputIsComputed /\ [StaticNext]_static_vars => OutputIsComputed'
  <2> SUFFICES ASSUME DataInv, OutputIsComputed, [StaticNext]_static_vars
               PROVE  OutputIsComputed'
    BY DEF DataInv
  <2>1. CASE UNCHANGED static_vars
    BY <2>1 DEF static_vars, OutputIsComputed, vars, app, ghosts, Matches
  <2>2. CASE delivered' = Nothing
    BY <2>2 DEF OutputIsComputed, Nothing
  <2>3. ASSUME NEW room, Stats(room)
        PROVE  OutputIsComputed'
    BY <2>3 DEF Stats, model_get_statistics, Returns, OutputIsComputed
  <2>4. ASSUME NEW room, NEW failed, Output(room, failed), ~Crash("OUTPUT"), delivered' # Nothing,
               UNCHANGED build
        PROVE  OutputIsComputed'
    <3>1. /\ "PROCESS" \in settled' => delivered'.data = <<accepted', fed'>>
          /\ build' = "iree" /\ "MODEL" \in settled' /\ Matches(accepted) =>
               delivered'.data \in {<<accepted', fed'>>, Garbage}
      BY <2>4, OutputIsHeld
    <3>2. UNCHANGED <<accepted, g_model_spec>>
      BY <2>4, OutputServedData
    <3> QED BY <3>1, <3>2 DEF OutputIsComputed, Matches
  <2>5. CASE StaticNext
    <3>1. StepCopies /\ UNCHANGED build
      BY <2>5, StepsCopy DEF StaticNext, ServerNext, DemoNext, app
    <3> QED BY <2>2, <2>3, <2>4, <3>1 DEF StepCopies
  <2> QED BY <2>1, <2>5
<1> QED BY <1>1, <1>2, SettledIsHeld, StaticInvariant, PTL DEF StaticSpec

-----------------------------------------------------------------------------
(* Crashes.                                                                *)

DataCause == "MODEL" \notin settled \/ g_model_spec.input \notin ValidHalves

LEMMA ModelCrashes ==
  ASSUME DataInv, UNCHANGED build, NEW s \in RuntimeStates, build # "tflite" => s = runtime,
         NEW model, NEW failed, ModelCrash(s, model, failed)
  PROVE  /\ build = "executorch"
         /\ crashed' = "overrun" \/ (crashed' = "freed" /\ runtime'.gp_method # NULL)
<1>1. /\ runtime_init_weights(s, model, failed).status = "CRASH"
      /\ crashed' = failed /\ UNCHANGED runtime
  BY DEF ModelCrash, Crash
<1>2. /\ build = "executorch"
      /\ failed = "overrun" \/ (failed = "freed" /\ X!deallocate_planned_buffers(s).gp_method # NULL)
  BY <1>1, WeightsCrash DEF DataInv, StaticInv, SInv
<1>3. s = runtime /\ s \in X!ExecutorchStates
  BY <1>2 DEF RuntimeStates
<1>4. X!deallocate_planned_buffers(s).gp_method = s.gp_method
  BY <1>3 DEF X!deallocate_planned_buffers, X!ExecutorchStates
<1> QED BY <1>1, <1>2, <1>3, <1>4

LEMMA ModelRequestCrash ==
  ASSUME DataInv, UNCHANGED build, NEW graph, NEW failed, ModelRequest(graph, failed)
  PROVE  \/ crashed' = crashed
         \/ /\ build = "executorch"
            /\ crashed' = "overrun" \/ (crashed' = "freed" /\ runtime'.gp_method # NULL)
<1>1. CASE LoadModel(graph, failed)
  BY <1>1 DEF LoadModel, ServeModel
<1>2. CASE ModelCrash(AfterModelReset, graph, failed)
  <2>1. AfterModelReset \in RuntimeStates /\ (build # "tflite" => AfterModelReset = runtime)
    BY ResetKeeps DEF DataInv, StaticInv, SInv, Memory, Keeps, AfterModelReset
  <2> QED BY <1>2, <2>1, ModelCrashes
<1> QED BY <1>1, <1>2 DEF ModelRequest

LEMMA EmptyModelCrash ==
  ASSUME DataInv, UNCHANGED build, NEW failed, EmptyModel(failed)
  PROVE  \/ crashed' = crashed
         \/ /\ build = "executorch"
            /\ crashed' = "overrun" \/ (crashed' = "freed" /\ runtime'.gp_method # NULL)
<1>1. CASE ReloadModel(failed)
  BY <1>1 DEF ReloadModel, ServeModel
<1>2. CASE ModelCrash(runtime, model_buffer, failed)
  BY <1>2, ModelCrashes DEF DataInv, StaticInv, Memory
<1> QED BY <1>1, <1>2 DEF EmptyModel

LEMMA DataCrash ==
  ASSUME DataInv, UNCHANGED build, NEW s \in RuntimeStates, NEW model, NEW input \in Given,
         NEW size, NEW failed, ServeData(s, input, size, failed),
         "MODEL" \in settled => HasModel(s, model, accepted)
  PROVE  crashed' = crashed \/ (crashed' = "DATA" /\ DataCause')
<1> DEFINE loaded == runtime_init_input(s, input, failed)
<1>1. \/ loaded.status = "CRASH" /\ Crash("DATA")
      \/ crashed' = crashed
  BY DEF ServeData
<1>2. loaded.status = "CRASH" => DataCause
  <2>1. "MODEL" \in settled /\ loaded.status = "CRASH" => Overlong(TensorsOf(g_model_spec.input))
    BY InputLoads DEF DataInv, StaticInv, SInv, Held, ModelHeld
  <2> QED BY <2>1, ValidTensor DEF DataCause
<1> HIDE DEF loaded
<1> QED BY <1>1, <1>2 DEF Crash, ghosts, vars, DataCause

LEMMA DataRequestCrash ==
  ASSUME DataInv, UNCHANGED build, NEW input \in Inputs, NEW size, NEW overlaps, NEW failed,
         DataRequest(input, size, overlaps, failed)
  PROVE  crashed' = crashed \/ (crashed' = "DATA" /\ DataCause')
<1> DEFINE s == AfterData(overlaps)
           given == AsInput(input, size)
<1>1. s \in RuntimeStates /\ given \in Given
  BY ResetKeeps DEF DataInv, StaticInv, SInv, Memory, Keeps, AsInput, Given
<1>2. ServeData(s, given, size, failed)
  BY DEF DataRequest
<1>3. "MODEL" \in settled => HasModel(s, ModelAfterData(overlaps), accepted)
  BY DataSparesModel DEF DataInv, StaticInv, SInv, Memory, Held, ModelHeld
<1> HIDE DEF s, given
<1> QED BY <1>1, <1>2, <1>3, DataCrash

LEMMA EmptyDataCrash ==
  ASSUME DataInv, UNCHANGED build, NEW failed, EmptyData(failed)
  PROVE  crashed' = crashed \/ (crashed' = "DATA" /\ DataCause')
BY DataCrash DEF EmptyData, DataInv, StaticInv, Memory, Held, ModelHeld

LEMMA ProcessCrash ==
  ASSUME DataInv, UNCHANGED build, NEW measured, NEW copied, NEW overlaps, NEW failed,
         Process(measured, copied, overlaps, failed)
  PROVE  crashed' = crashed \/ (crashed' = "PROCESS" /\ "MODEL" \notin settled')
<1>1. \/ runtime_run_model(copied, failed).status = "CRASH" /\ Crash("PROCESS")
      \/ crashed' = crashed
  BY DEF Process
<1>2. "MODEL" \in settled => runtime_run_model(copied, failed).status # "CRASH"
  BY RunKeepsModel DEF DataInv, StaticInv, SInv, Memory, Held, ModelHeld
<1> QED BY <1>1, <1>2 DEF Crash, ghosts

LEMMA OutputCrash ==
  ASSUME DataInv, UNCHANGED build, NEW room, NEW failed, Output(room, failed)
  PROVE  \/ crashed' = crashed
         \/ crashed' = "OUTPUT" /\ ~({"MODEL", "PROCESS"} \subseteq settled')
<1>1. \/ /\ Reached(INFERENCE_DONE)
         /\ runtime_get_model_output(failed).status = "CRASH" /\ Crash("OUTPUT")
      \/ crashed' = crashed
  BY DEF Output
<1>2. "MODEL" \in settled /\ "PROCESS" \in settled /\ Reached(INFERENCE_DONE) =>
        runtime_get_model_output(failed).status # "CRASH"
  BY OutputCopies DEF DataInv, StaticInv, SInv, Held, ModelHeld, OutputHeld
<1> QED BY <1>1, <1>2 DEF Crash, ghosts

\* Requests that cannot.
LEMMA OthersRun ==
  /\ \A failed : StartModel(failed) => crashed' = crashed
  /\ LostModel => crashed' = crashed
  /\ \A size, overlaps : LostData(size, overlaps) => crashed' = crashed
  /\ \A room : Stats(room) => crashed' = crashed
BY DEF StartModel, LostModel, LostData, Stats

CrashesNext ==
  \/ crashed' = crashed
  \/ crashed' = "DATA" /\ DataCause'
  \/ crashed' = "PROCESS" /\ "MODEL" \notin settled'
  \/ crashed' = "OUTPUT" /\ ~({"MODEL", "PROCESS"} \subseteq settled')
  \/ crashed' \in {"MODEL", "DATA"} /\ build' = "stub"
  \/ crashed' = "overrun" /\ build' = "executorch"
  \/ crashed' = "freed" /\ build' = "executorch" /\ runtime'.gp_method # NULL
  \/ crashed' = "DEMO" /\ ~demo'.model_input

LEMMA ServerCrash ==
  ASSUME DataInv, ServerNext
  PROVE  CrashesNext
<1>1. UNCHANGED build
  BY DEF ServerNext, app
<1>2. CASE Request
  BY <1>1, <1>2, ModelRequestCrash, EmptyModelCrash, DataRequestCrash, EmptyDataCrash,
     ProcessCrash, OutputCrash
     DEF Request, CrashesNext
<1>3. ASSUME NEW request \in {"MODEL", "DATA"}, NoLoader(request)
      PROVE  CrashesNext
  BY <1>1, <1>3 DEF NoLoader, Crash, CrashesNext
<1> QED BY <1>2, <1>3, OthersRun DEF ServerNext, Iospec, CrashesNext

LEMMA DemoCrash ==
  ASSUME DataInv, DemoType, DemoNext
  PROVE  CrashesNext
<1>1. UNCHANGED build
  BY DEF DemoNext
<1>2. ASSUME NEW failed, DemoWeights(failed)
      PROVE  CrashesNext
  BY <1>1, <1>2, ModelRequestCrash DEF DemoWeights, CrashesNext
<1>3. CASE DemoAlloc
  BY <1>3 DEF DemoAlloc, CrashesNext
<1>4. ASSUME NEW x \in Inputs, NEW overlaps, NEW failed, DemoInput(x, overlaps, failed),
             Then("run")
      PROVE  CrashesNext
  <2>1. demo'.model_input = demo.model_input
    BY <1>4 DEF Then, DemoType
  <2>2. CASE ~demo.model_input /\ Crash("DEMO")
    BY <2>1, <2>2 DEF Crash, CrashesNext
  <2>3. CASE DataRequest(x, model_get_input_size, overlaps, failed)
    BY <1>1, <2>3, DataRequestCrash DEF CrashesNext
  <2> QED BY <1>4, <2>2, <2>3 DEF DemoInput
<1>5. ASSUME NEW failed, DemoOutput(failed)
      PROVE  CrashesNext
  BY <1>1, <1>5, OutputCrash DEF DemoOutput, CrashesNext
<1> QED BY <1>1, <1>2, <1>3, <1>4, <1>5, OthersRun, ProcessCrash
        DEF DemoNext, DemoStep, Iospec, LogStatistics, CrashesNext

\* DATA, PROCESS and OUTPUT go through a pointer to nothing, or to memory that
\* is not the runtime's any more, only after a payload was lost, a request
\* failed, or a failure went unnoticed, DATA also by metadata that was rejected;
\* MODEL does with ExecuTorch, which overruns its array of buffers, and
\* destroys the method it replaces behind what that lives on.
THEOREM CrashesHaveCause == StaticSpec => []CrashHasCause
<1>1. StaticInit => CrashHasCause /\ DemoType
  BY DEF StaticInit, CrashHasCause, DemoType, Places
<1>2. Held /\ StaticInv /\ DemoType /\ CrashHasCause /\ [StaticNext]_static_vars =>
        CrashHasCause'
  <2> SUFFICES ASSUME DataInv, DemoType, CrashHasCause, [StaticNext]_static_vars
               PROVE  CrashHasCause'
    BY DEF DataInv
  <2>1. CASE UNCHANGED static_vars
    BY <2>1 DEF static_vars, CrashHasCause, app, ghosts, vars
  <2>2. CASE StaticNext
    <3>1. CrashesNext /\ crashed = "no"
      BY <2>2, ServerCrash, DemoCrash DEF StaticNext, ServerNext, DemoNext
    <3> QED BY <3>1 DEF CrashesNext, CrashHasCause, DataCause
  <2> QED BY <2>1, <2>2
<1>3. DemoType /\ [StaticNext]_static_vars => DemoType'
  BY DemoTypeKept
<1> QED BY <1>1, <1>2, <1>3, SettledIsHeld, StaticInvariant, PTL DEF StaticSpec

-----------------------------------------------------------------------------
(* demo_app.                                                               *)

DemoKnows(held) == Matches(BuiltIn) /\ accepted = BuiltIn /\ held \subseteq settled

\* ExecuTorch's method, if its buffers are not there: no request accepts it.
Unusable == build = "executorch" /\ ~X!Usable(runtime)

DemoInv ==
  build # "stub" =>
    /\ demo.place = "weights" => Matches(BuiltIn)
    /\ demo.place \in {"alloc", "input"} =>
         DemoKnows({"MODEL"}) \/ (DemoKnows({}) /\ Unusable)
    /\ demo.place = "run" => DemoKnows({"MODEL", "DATA"})
    /\ demo.place = "output" => DemoKnows({"MODEL", "PROCESS"})

LEMMA WentOn ==
  ASSUME DemoType, NEW place, Then(place)
  PROVE  /\ demo'.place \in {place, "end"}
         /\ demo'.place # "end" => crashed' = "no" /\ result'.status = "OK"
BY DEF Then, DemoType

\* The metadata is that of the model built in.
LEMMA DemoStruct ==
  ASSUME DataInv,
         Iospec(model_load_struct(<<GraphSpec[BuiltIn].input, GraphSpec[BuiltIn].output>>)),
         result'.status = "OK"
  PROVE  Matches(BuiltIn)'
<1> DEFINE bytes == <<GraphSpec[BuiltIn].input, GraphSpec[BuiltIn].output>>
<1>1. g_model_spec' = Written(bytes)
  BY DEF Iospec, model_load_struct, Returns, iospec_loader
<1>2. /\ BuiltIn \in Graphs
      /\ GraphSpec[BuiltIn] \in [input : ValidHalves, output : ValidHalves]
      /\ g_model_spec \in ModelSpec
  BY StaticAssumption DEF DataInv, StaticInv, SInv, TypeOK
<1>3. Written(bytes) = GraphSpec[BuiltIn]
  <2>1. Len(bytes) = 2 /\ bytes[1] = GraphSpec[BuiltIn].input
        /\ bytes[2] = GraphSpec[BuiltIn].output
    OBVIOUS
  <2> HIDE DEF bytes
  <2>2. Written(bytes) = [g_model_spec EXCEPT !.input = bytes[1], !.output = bytes[2]]
    BY <2>1 DEF Written
  <2>3. Written(bytes) = [input |-> bytes[1], output |-> bytes[2]]
    BY <1>2, <2>2 DEF ModelSpec
  <2> DEFINE spec == GraphSpec[BuiltIn]
  <2>4. \A t \in [input : ValidHalves, output : ValidHalves] :
          t = [input |-> t.input, output |-> t.output]
    OBVIOUS
  <2>5. spec = [input |-> spec.input, output |-> spec.output]
    BY <1>2, <2>4
  <2> QED BY <2>1, <2>3, <2>5
<1> QED BY <1>1, <1>2, <1>3 DEF Matches

\* The model is taken, or is one whose buffers are not there.
LEMMA DemoModel ==
  ASSUME DataInv, UNCHANGED build, NEW failed, ModelRequest(BuiltIn, failed),
         Matches(BuiltIn), crashed' = "no", result'.status = "OK"
  PROVE  DemoKnows({"MODEL"})' \/ (DemoKnows({})' /\ Unusable')
<1>0. LoadModel(BuiltIn, failed)
  <2>1. ModelCrash(AfterModelReset, BuiltIn, failed) => failed \in {"overrun", "freed"}
    BY WeightsCrash DEF ModelCrash, DataInv, StaticInv, SInv
  <2> QED BY <2>1 DEF ModelRequest, ModelCrash, Crash
<1>1. /\ accepted' = BuiltIn /\ UNCHANGED g_model_spec
      /\ settled' = IF Noticed(failed) THEN {"MODEL"} ELSE {}
  BY <1>0 DEF LoadModel, ServeModel, model_load_weights_from_loader, Matches
<1>2. Matches(BuiltIn)'
  BY <1>1 DEF Matches
<1>3. CASE Noticed(failed)
  BY <1>1, <1>2, <1>3 DEF DemoKnows
<1>4. CASE ~Noticed(failed)
  <2>1. build = "executorch" /\ failed = "buffer"
    BY <1>4 DEF Noticed
  <2> DEFINE s == AfterModelReset
  <2>2. s \in RuntimeStates /\ ServeModel(s, BuiltIn, failed)
    BY <1>0, ResetKeeps DEF LoadModel, DataInv, StaticInv, SInv, Memory, Keeps
  <2> HIDE DEF s
  <2>3. /\ runtime_init_weights(s, BuiltIn, failed).status = "OK"
        /\ runtime' = runtime_init_weights(s, BuiltIn, failed).state
    BY <2>1, <2>2, ModelServed
  <2> DEFINE r == X!deallocate_planned_buffers(s)
  <2>4. X!LoadMethod(r, BuiltIn, failed).status = "OK"
        /\ runtime' = X!LoadMethod(r, BuiltIn, failed).state
    BY <2>1, <2>3 DEF runtime_init_weights, X!runtime_init_weights
  <2> HIDE DEF r
  <2>5. runtime'.buffers = "unbacked"
    BY <2>1, <2>4 DEF X!LoadMethod, X!Returned, X!Buffers
  <2> QED BY <1>1, <1>2, <2>1, <2>5 DEF DemoKnows, Unusable, X!Usable
<1> QED BY <1>3, <1>4

\* An input is taken over a model that is there only.
LEMMA DemoData ==
  ASSUME DataInv, UNCHANGED build, NEW x \in Inputs, NEW overlaps, NEW failed,
         DataRequest(x, model_get_input_size, overlaps, failed),
         DemoKnows({"MODEL"}) \/ (DemoKnows({}) /\ Unusable),
         crashed' = "no", result'.status = "OK"
  PROVE  DemoKnows({"MODEL", "DATA"})'
<1> DEFINE s == AfterData(overlaps)
           size == model_get_input_size
           loaded == runtime_init_input(s, x, failed)
<1>0. g_model_spec.input \in ValidHalves
  BY MatchesValid DEF DemoKnows
<1>1. ServeData(s, x, size, failed)
  BY <1>0 DEF DataRequest, AsInput
<1>2. ~Crash("DATA")
  BY DEF Crash
<1> HIDE DEF s
<1>3. /\ Reached(WEIGHTS_LOADED) /\ loaded.status = "OK" /\ accepted' = accepted
  BY <1>1, <1>2, DataServed
<1>4. ~Unusable
  <2>1. Unusable => loaded = [state |-> s, status |-> "CRASH"]
    <3>1. TensorsOf(g_model_spec.input) # {}
      BY <1>0, ValidTensor
    <3> QED BY <3>1 DEF Unusable, s, AfterData, runtime_init_input, X!runtime_init_input,
                        X!Returned
  <2> QED BY <1>3, <2>1
<1>5. DemoKnows({"MODEL"})
  BY <1>4
<1>6. settled' = (settled \ Spoils("DATA")) \cup {"DATA"} /\ UNCHANGED g_model_spec
  <2>1. x # Torn
    BY NotGraphs
  <2>2. "MODEL" \in settled /\ Matches(accepted)
    BY <1>5 DEF DemoKnows
  <2> QED BY <1>1, <1>2, <2>1, <2>2 DEF ServeData, model_load_input_from_loader
<1>7. "MODEL" \notin Spoils("DATA")
  BY DEF Spoils
<1> QED BY <1>3, <1>5, <1>6, <1>7 DEF DemoKnows, Matches

\* The run's own status is looked at.
LEMMA DemoRun ==
  ASSUME DataInv, UNCHANGED build, NEW copied, NEW overlaps, NEW failed,
         Process(FALSE, copied, overlaps, failed), DemoKnows({"MODEL", "DATA"}),
         crashed' = "no", result'.status = "OK"
  PROVE  DemoKnows({"MODEL", "PROCESS"})'
<1> DEFINE run == runtime_run_model(copied, failed)
<1>1. ~Crash("PROCESS")
  BY DEF Crash
<1> HIDE DEF run
<1>2. /\ model_run(run.status)
      /\ settled' = (IF Reached(INPUT_LOADED) /\ run.status = "OK" /\ {"MODEL", "DATA"} \subseteq settled
                        /\ Matches(accepted)
                     THEN settled \cup {"PROCESS"} ELSE settled \ {"PROCESS"}) \ Consumed
      /\ UNCHANGED accepted
  BY <1>1 DEF Process, run
<1>3. Reached(INPUT_LOADED) /\ run.status = "OK" /\ UNCHANGED g_model_spec
  BY <1>2 DEF model_run, Returns
<1>4. settled' = (settled \cup {"PROCESS"}) \ Consumed
  BY <1>2, <1>3 DEF DemoKnows
<1>5. Consumed \subseteq {"DATA"}
  BY DEF Consumed
<1> QED BY <1>2, <1>3, <1>4, <1>5 DEF DemoKnows, Matches

LEMMA DemoAsks ==
  ASSUME NEW failed, DemoOutput(failed), DemoKnows({"MODEL", "PROCESS"})
  PROVE  DemoKnows({"MODEL"})'
BY DEF DemoOutput, Output, Crash, Refused, model_get_output, vars, ghosts, DemoKnows, Matches

LEMMA DemoInvKept ==
  ASSUME DataInv, DemoType, DemoInv, [StaticNext]_static_vars,
         demo.place # "server" \/ UNCHANGED demo
  PROVE  demo.place = "server" \/ DemoInv'
<1>1. CASE UNCHANGED static_vars
  BY <1>1 DEF static_vars, app, vars, ghosts, DemoInv, DemoKnows, Matches, Unusable
<1>2. CASE DemoNext
  <2> SUFFICES ASSUME build # "stub"
               PROVE  DemoInv'
    BY <1>2 DEF DemoNext, DemoInv
  <2>1. UNCHANGED build
    BY <1>2 DEF DemoNext
  <2>2. demo'.place \in {"end", "struct", "statistics"} => DemoInv'
    BY DEF DemoInv
  <2>3. ASSUME NEW failed, demo.place = "init", StartModel(failed), Then("struct")
        PROVE  DemoInv'
    BY <2>2, <2>3, WentOn
  <2>4. ASSUME demo.place = "struct", Then("weights"),
               Iospec(model_load_struct(<<GraphSpec[BuiltIn].input, GraphSpec[BuiltIn].output>>))
        PROVE  DemoInv'
    <3>1. demo'.place # "end" => demo'.place = "weights" /\ Matches(BuiltIn)'
      BY <2>4, WentOn, DemoStruct
    <3> QED BY <2>2, <3>1 DEF DemoInv
  <2>5. ASSUME NEW failed, demo.place = "weights", DemoWeights(failed), Then("alloc")
        PROVE  DemoInv'
    <3>1. ModelRequest(BuiltIn, failed) /\ Matches(BuiltIn)
      BY <2>5 DEF DemoWeights, DemoInv
    <3>2. demo'.place # "end" => /\ demo'.place = "alloc"
                                 /\ DemoKnows({"MODEL"})' \/ (DemoKnows({})' /\ Unusable')
      BY <2>1, <2>5, <3>1, WentOn, DemoModel
    <3> QED BY <2>2, <3>2 DEF DemoInv
  <2>6. CASE demo.place = "alloc" /\ DemoAlloc
    <3>1. DemoKnows({"MODEL"}) \/ (DemoKnows({}) /\ Unusable)
      BY <2>6 DEF DemoInv
    <3>2. demo'.place = "input" /\ UNCHANGED <<build, g_model_spec, runtime, accepted, settled>>
      BY <2>1, <2>6 DEF DemoAlloc, vars, ghosts
    <3> QED BY <3>1, <3>2 DEF DemoInv, DemoKnows, Matches, Unusable
  <2>7. ASSUME NEW failed, NEW x \in Inputs, NEW overlaps, demo.place = "input",
               DemoInput(x, overlaps, failed), Then("run")
        PROVE  DemoInv'
    <3>1. DemoKnows({"MODEL"}) \/ (DemoKnows({}) /\ Unusable)
      BY <2>7 DEF DemoInv
    <3>2. demo'.place # "end" => DataRequest(x, model_get_input_size, overlaps, failed)
      BY <2>7, WentOn DEF DemoInput, Crash
    <3>3. demo'.place # "end" => demo'.place = "run" /\ DemoKnows({"MODEL", "DATA"})'
      BY <2>1, <2>7, <3>1, <3>2, WentOn, DemoData
    <3> QED BY <2>2, <3>3 DEF DemoInv
  <2>8. ASSUME NEW failed, NEW copied, NEW overlaps, demo.place = "run",
               Process(FALSE, copied, overlaps, failed), Then("output")
        PROVE  DemoInv'
    <3>1. DemoKnows({"MODEL", "DATA"})
      BY <2>8 DEF DemoInv
    <3>2. demo'.place # "end" => demo'.place = "output" /\ DemoKnows({"MODEL", "PROCESS"})'
      BY <2>1, <2>8, <3>1, WentOn, DemoRun
    <3> QED BY <2>2, <3>2 DEF DemoInv
  <2>9. ASSUME NEW failed, NEW next \in {"input", "statistics"}, demo.place = "output",
               DemoOutput(failed), Then(next)
        PROVE  DemoInv'
    <3>1. DemoKnows({"MODEL", "PROCESS"})
      BY <2>9 DEF DemoInv
    <3>2. DemoKnows({"MODEL"})'
      BY <2>9, <3>1, DemoAsks
    <3>3. demo'.place \in {"input", "statistics", "end"}
      BY <2>9, WentOn
    <3> QED BY <3>2, <3>3 DEF DemoInv
  <2>10. CASE demo.place = "statistics" /\ LogStatistics
    <3>1. demo'.place = "end"
      BY <2>10 DEF LogStatistics, DemoType
    <3> QED BY <2>2, <3>1
  <2> QED BY <1>2, <2>3, <2>4, <2>5, <2>6, <2>7, <2>8, <2>9, <2>10 DEF DemoNext, DemoStep
<1>3. CASE ServerNext
  BY <1>3 DEF ServerNext
<1> QED BY <1>1, <1>2, <1>3 DEF StaticNext

\* demo_app prints nothing but what the model built in makes of the input it
\* fed last: any other status than STATUS_OK ends it, and so does the crash
\* over buffers that ExecuTorch was not given.
THEOREM DemoCorrect == StaticSpec => []DemoPrintsComputed
<1> DEFINE J == DemoType /\ (demo.place = "server" \/ DemoInv)
<1>1. StaticInit => J /\ DemoPrintsComputed
  BY DEF StaticInit, DemoPrintsComputed, DemoType, DemoInv, Places
<1>2. Held /\ StaticInv /\ J /\ [StaticNext]_static_vars => J'
  <2> SUFFICES ASSUME DataInv, J, [StaticNext]_static_vars
               PROVE  J'
    BY DEF DataInv
  <2>1. DemoType'
    BY DemoTypeKept
  <2>2. CASE demo.place = "server"
    <3>1. UNCHANGED demo
      BY <2>2 DEF StaticNext, ServerNext, DemoNext, static_vars, app
    <3> QED BY <2>1, <2>2, <3>1
  <2>3. CASE demo.place # "server"
    BY <2>1, <2>3, DemoInvKept
  <2> QED BY <2>2, <2>3
<1>3. Held /\ StaticInv /\ J /\ DemoPrintsComputed /\ [StaticNext]_static_vars =>
        DemoPrintsComputed'
  <2> SUFFICES ASSUME DataInv, J, DemoPrintsComputed, [StaticNext]_static_vars
               PROVE  DemoPrintsComputed'
    BY DEF DataInv
  <2>1. CASE UNCHANGED static_vars
    BY <2>1 DEF static_vars, app, vars, ghosts, DemoPrintsComputed
  <2>2. CASE ServerNext
    BY <2>2 DEF ServerNext, app, DemoPrintsComputed
  <2>3. CASE DemoNext
    <3> SUFFICES ASSUME build # "stub", result'.op = "OUTPUT", delivered' # Nothing
                 PROVE  delivered'.data = <<BuiltIn, fed'>>
      BY <2>3 DEF DemoNext, DemoPrintsComputed, Nothing
    <3>1. demo.place = "output"
      BY <2>3, StepsCopy DEF DemoNext, StaticNext
    <3>2. DemoKnows({"MODEL", "PROCESS"})
      BY <2>3, <3>1 DEF DemoNext, DemoInv
    <3>3. PICK failed : DemoOutput(failed)
      BY <2>3, <3>1 DEF DemoNext, DemoStep
    <3>4. Output(model_get_output_size, failed)
      BY <3>3 DEF DemoOutput
    <3>5. ~Crash("OUTPUT")
      BY DEF Crash
    <3>6. "PROCESS" \in settled' => delivered'.data = <<accepted', fed'>>
      BY <3>4, <3>5, OutputIsHeld
    <3>7. UNCHANGED <<accepted, settled>>
      BY <3>4, <3>5, OutputServedData
    <3> QED BY <3>2, <3>6, <3>7 DEF DemoKnows
  <2> QED BY <2>1, <2>2, <2>3 DEF StaticNext
<1> HIDE DEF J
<1> QED BY <1>1, <1>2, <1>3, SettledIsHeld, StaticInvariant, PTL DEF StaticSpec

-----------------------------------------------------------------------------
(* Sizes of what is copied.                                                *)

\* What the runtime counts of outputs is what model.c counts.
LEMMA BytesAgree ==
  ASSUME CountsAgree, build \in {"iree", "executorch"}
  PROVE  Bytes(g_model_spec.output) = model_get_output_size
<1> DEFINE half == g_model_spec.output
<1>1. half \in ValidHalves /\ NoOverflow(Tensor[half])
  BY DEF CountsAgree
<1> HIDE DEF half
<1>2. /\ half # NoTensors /\ validate_tensor(Tensor[half])
      /\ HalfBytes[half] = ModelBytes(Tensor[half])
      /\ Tensor[half].bits \in Nat /\ model_spec_length(Tensor[half].shape) \in Nat
  BY <1>1, ValidTensor
<1>3. ModelBytes(Tensor[half]) = RuntimeBytes(Tensor[half])
  BY <1>1, <1>2, SizesAgree
<1>4. Bytes(half) = HalfBytes[half]
  BY <1>2, <1>3 DEF Bytes
<1> QED BY <1>4 DEF half, model_get_output_size

\* What is written is as much as was asked for, and there is as much of it.
LEMMA CopiedSizes ==
  ASSUME DataInv, SizesFit, CountsAgree, Reached(INFERENCE_DONE), NEW failed,
         runtime_get_model_output(failed).status = "OK"
  PROVE  /\ Copied.written \in Nat
         /\ build = "tflite" \/ Copied.written <= model_get_output_size
         /\ "MODEL" \in settled /\ Matches(accepted) => Copied.written = model_get_output_size
         /\ "PROCESS" \in settled /\ Matches(accepted) =>
              Copied.written = model_get_output_size /\ Copied.written <= Copied.available
<1> DEFINE size == model_get_output_size
<1>1. size \in Nat /\ build \in Builds
  BY SizesAreNat DEF DataInv, StaticInv, SInv, TypeOK
<1>2. ASSUME NEW graph \in Graphs
      PROVE  HalfBytes[GraphSpec[graph].output] \in Nat
  BY <1>2, StaticAssumption, ModelAssumption DEF Half
<1>3. Matches(accepted) => accepted \in Graphs /\ HalfBytes[GraphSpec[accepted].output] = size
  BY DEF Matches, model_get_output_size
<1>4. "PROCESS" \in settled =>
        accepted \in Graphs /\ fed \in Inputs /\ HasOutput(runtime, <<accepted, fed>>)
  BY DEF DataInv, Held, OutputHeld
<1> HIDE DEF size
<1>5. CASE build = "tflite"
  <2> DEFINE interpreter == runtime.gp_tflite_interpreter
  <2>1. interpreter \in Graphs
    BY <1>5 DEF runtime_get_model_output, T!runtime_get_model_output, T!Returned
  <2>2. /\ Copied.written = HalfBytes[GraphSpec[interpreter].output]
        /\ Copied.available = HalfBytes[GraphSpec[interpreter].output]
    BY <1>5 DEF Copied, OutputTensorBytes
  <2>3. "MODEL" \in settled => interpreter = accepted
    BY <1>5 DEF DataInv, Held, ModelHeld, HasModel
  <2>4. "PROCESS" \in settled => interpreter = accepted
    BY <1>4, <1>5 DEF HasOutput
  <2> HIDE DEF interpreter
  <2>5. HalfBytes[GraphSpec[interpreter].output] \in Nat
    BY <1>2, <2>1
  <2>6. interpreter = accepted /\ Matches(accepted) => HalfBytes[GraphSpec[interpreter].output] = size
    BY <1>3
  <2> QED BY <1>5, <2>2, <2>3, <2>4, <2>5, <2>6 DEF size
<1>6. CASE build \in {"iree", "executorch"}
  <2>1. Copied.written = size
    BY <1>6, BytesAgree DEF Copied, size
  <2>2. "PROCESS" \in settled /\ Matches(accepted) => Copied.available = size
    <3> SUFFICES ASSUME "PROCESS" \in settled, Matches(accepted)
                 PROVE  Copied.available = size
      OBVIOUS
    <3>1. OutputBytes(<<accepted, fed>>) = size
      BY <1>3 DEF OutputBytes
    <3>2. Copied.available = OutputBytes(<<accepted, fed>>)
      BY <1>4, <1>6 DEF HasOutput, Copied
    <3> QED BY <3>1, <3>2
  <2> QED BY <1>1, <2>1, <2>2 DEF size
<1>7. CASE build = "emlearn"
  <2>1. Copied.written = size /\ Copied.available = CONFIG_KENNING_EMLEARN_OUTPUT_BUFFER_SIZE
    BY <1>7 DEF Copied, size
  <2>2. Matches(accepted) => accepted = BuiltIn
    BY <1>3, <1>7, NotGraphs DEF DataInv, Held, EmlearnHeld
  <2>3. Matches(accepted) => size <= CONFIG_KENNING_EMLEARN_OUTPUT_BUFFER_SIZE
    BY <1>3, <2>2 DEF SizesFit
  <2> QED BY <1>1, <2>1, <2>3 DEF size
<1>8. CASE build = "stub"
  <2>1. "MODEL" \notin settled /\ "PROCESS" \notin settled
    BY <1>4, <1>8 DEF DataInv, Held, ModelHeld, HasModel, HasOutput
  <2>2. Copied.written = 0
    BY <1>8 DEF Copied
  <2> QED BY <1>1, <2>1, <2>2 DEF size
<1> QED BY <1>1, <1>5, <1>6, <1>7, <1>8 DEF Builds

LEMMA StatisticsFit ==
  ASSUME build \in Builds
  PROVE  Statistics.loaded \in Nat /\ Statistics.loaded <= 12
BY DEF Statistics, T!Statistics, I!Statistics, X!Statistics, E!Statistics, Builds

LEMMA OutputFits ==
  ASSUME DataInv, UNCHANGED build, SizesFit, NEW room \in Nat, NEW failed, Output(room, failed),
         ~Crash("OUTPUT"), delivered' # Nothing
  PROVE  CopyInBounds'
<1>1. /\ Reached(INFERENCE_DONE) /\ ~(room < model_get_output_size)
      /\ runtime_get_model_output(failed).status = "OK"
      /\ delivered' = [data |-> Copied.data, written |-> Copied.written,
                       available |-> Copied.available, told |-> model_get_output_size,
                       room |-> room]
      /\ UNCHANGED <<accepted, fed, settled, g_model_spec>>
  BY OutputServedData
<1>0. result'.op = "OUTPUT" /\ (CountsAgree' => CountsAgree)
  BY <1>1 DEF Output, model_get_output, CountsAgree
<1> SUFFICES ASSUME CountsAgree
             PROVE  CopyInBounds'
  BY <1>0 DEF CopyInBounds
<1>2. /\ Copied.written \in Nat
      /\ build = "tflite" \/ Copied.written <= model_get_output_size
      /\ "MODEL" \in settled /\ Matches(accepted) => Copied.written = model_get_output_size
      /\ "PROCESS" \in settled /\ Matches(accepted) =>
           Copied.written = model_get_output_size /\ Copied.written <= Copied.available
  BY <1>1, CopiedSizes
<1>3. model_get_output_size \in Nat
  BY SizesAreNat DEF DataInv, StaticInv, SInv, TypeOK
<1>4. Matches(accepted)' <=> Matches(accepted)
  BY <1>1 DEF Matches
<1>5. /\ delivered'.written = Copied.written /\ delivered'.available = Copied.available
      /\ delivered'.told = model_get_output_size /\ delivered'.room = room
  BY <1>1
<1>6. build' # "tflite" \/ ("MODEL" \in settled' /\ Matches(accepted)') =>
        delivered'.written <= delivered'.room
  <2>1. Copied.written <= model_get_output_size => Copied.written <= room
    BY <1>1, <1>2, <1>3
  <2>2. Copied.written = model_get_output_size => Copied.written <= room
    BY <1>1, <1>3
  <2> QED BY <1>1, <1>2, <1>4, <1>5, <2>1, <2>2
<1>7. "PROCESS" \in settled' /\ Matches(accepted)' =>
        delivered'.written <= delivered'.available /\ delivered'.told = delivered'.written
  BY <1>1, <1>2, <1>4, <1>5
<1> QED BY <1>0, <1>6, <1>7 DEF CopyInBounds, Matches

LEMMA StatsFit ==
  ASSUME DataInv, UNCHANGED build, SizesFit,
         NEW room \in {RESPONSE_STATISTICS, INFERENCE_STATISTICS_BUFFER_LENGTH}, Stats(room)
  PROVE  CopyInBounds'
<1>1. result'.op = "STATS"
  BY DEF Stats, model_get_statistics, Returns
<1>2. Statistics.loaded \in Nat /\ Statistics.loaded <= 12 /\ room \in Nat /\ room >= 12
  BY StatisticsFit, StaticAssumption DEF DataInv, StaticInv, SInv, SizesFit
<1>3. CASE delivered' = Nothing
  BY <1>1, <1>3 DEF CopyInBounds, Nothing
<1>4. CASE delivered' # Nothing
  <2>1. /\ delivered'.written = Statistics.loaded /\ delivered'.available = Statistics.loaded
        /\ delivered'.room = room
    BY <1>4 DEF Stats
  <2> QED BY <1>1, <1>2, <2>1 DEF CopyInBounds
<1> QED BY <1>3, <1>4

\* In a program whose sizes fit, where the sizes the runtime counts by itself
\* agree with those model.c checked, which they do by accepted metadata whose
\* size in bits is not 0 and fits a word: what is copied fits where it goes,
\* but for TFLite under metadata that is not the model's; by the metadata of
\* the model no more is copied than was computed, and the client is told as
\* much.  Statistics fit whatever the metadata.
THEOREM CopiesInBounds ==
  ASSUME SizesFit
  PROVE  StaticSpec => []CopyInBounds
<1>1. StaticInit => CopyInBounds
  BY DEF StaticInit, Init, CopyInBounds, Nothing
<1>2. Held /\ StaticInv /\ CopyInBounds /\ [StaticNext]_static_vars => CopyInBounds'
  <2> SUFFICES ASSUME DataInv, CopyInBounds, [StaticNext]_static_vars
               PROVE  CopyInBounds'
    BY DEF DataInv
  <2>1. CASE UNCHANGED static_vars
    BY <2>1 DEF static_vars, app, vars, ghosts, CopyInBounds, CountsAgree, Matches
  <2>2. CASE delivered' = Nothing
    BY <2>2 DEF CopyInBounds, Nothing
  <2>3. CASE StaticNext
    <3>1. StepCopies /\ UNCHANGED build
      BY <2>3, StepsCopy DEF StaticNext, ServerNext, DemoNext, app
    <3> QED BY <2>2, <3>1, OutputFits, StatsFit DEF StepCopies
  <2> QED BY <2>1, <2>3
<1> QED BY <1>1, <1>2, SettledIsHeld, StaticInvariant, PTL DEF StaticSpec
=============================================================================
