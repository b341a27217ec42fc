------------------------------- MODULE Model --------------------------------
(***************************************************************************)
(* core/model.c: the state of the model, the metadata of its tensors and   *)
(* the order in which its functions may be called.                         *)
(*                                                                         *)
(* The runtime behind runtime_wrapper.h is external here: each of its      *)
(* functions returns STATUS_OK or an error.  The metadata g_model_spec is  *)
(* two halves, the inputs' and the outputs'.  Of a half it matters here    *)
(* whether validate_tensors accepts it, and how many bytes its tensors     *)
(* take: those of a half that was rejected are computed all the same, as   *)
(* it stays in g_model_spec and the state stays what it was.               *)
(*                                                                         *)
(* g_model_spec is also the buffer of the IOSPEC loader.  So bytes arrive  *)
(* in it (protocol_listen, model_load_struct) before anything looks at     *)
(* them, and a series that breaks off leaves it half written.              *)
(***************************************************************************)
EXTENDS Integers, Sequences

CONSTANTS
  ValidHalves,                          \* halves that validate_tensors accepts
  RejectedHalves,                       \* and those it rejects
  NoTensors,                            \* of the latter: num_input or num_output is 0
  HalfBytes,                            \* the bytes model.c counts for a half
  LoaderSizes,                          \* sizes of DATA and MODEL payloads
  MaxLoaderSize,                        \* max_size of the DATA and MODEL loaders
  CONFIG_KENNING_RESPONSE_PAYLOAD_SIZE

Half == ValidHalves \cup RejectedHalves
ModelSpec == [input : Half, output : Half]

ASSUME ModelAssumption ==
  /\ ValidHalves \cap RejectedHalves = {} /\ NoTensors \in RejectedHalves
  /\ HalfBytes \in [Half -> Nat] /\ HalfBytes[NoTensors] = 0
  /\ LoaderSizes \subseteq Nat /\ MaxLoaderSize \in Nat
  /\ CONFIG_KENNING_RESPONSE_PAYLOAD_SIZE \in Nat

\* MODEL_STATE
UNINITIALIZED  == 0
INITIALIZED    == 1
STRUCT_LOADED  == 2
WEIGHTS_LOADED == 3
INPUT_LOADED   == 4
INFERENCE_DONE == 5

RuntimeStatus == {"OK", "RUNTIME_ERROR"}

\* What an IOSPEC payload can hold: whole metadata, a part of it, nothing.
\* One that is too large is any of three halves.
Payloads == {<<>>} \cup {<<i>> : i \in Half} \cup {<<i, o>> : i, o \in Half}
TooLarge == <<NoTensors, NoTensors, NoTensors>>

VARIABLES
  g_model_state,
  g_model_spec,
  iospec_written,  \* halves the IOSPEC loader took since its reset
  result           \* the last function called, its status, and a size it gave

vars == <<g_model_state, g_model_spec, iospec_written, result>>

Init ==
  /\ g_model_state = UNINITIALIZED
  /\ g_model_spec = [input |-> NoTensors, output |-> NoTensors]
  /\ iospec_written = 0
  /\ result = [op |-> "none", status |-> "OK", size |-> 0]

\* validate_tensors, of both halves.
Valid(spec) == spec.input \in ValidHalves /\ spec.output \in ValidHalves

Returns(op, status) == result' = [op |-> op, status |-> status, size |-> 0]

\* Mutant: the state is one too low.
ReachedOneBelow(state) == g_model_state >= state - 1

Reached(state) == g_model_state >= state

\* A function sets the state when the runtime succeeded.
Enters(state, status) ==
  g_model_state' = IF status = "OK" THEN state ELSE g_model_state

-----------------------------------------------------------------------------
\* model_init: also the point where the IOSPEC loader is set up (its first
\* call; later calls leave the loader as it is).
model_init(status) ==
  /\ Enters(INITIALIZED, status)
  /\ Returns("INIT", status)
  /\ UNCHANGED <<g_model_spec, iospec_written>>

\* The IOSPEC loader is reset and saves a payload into g_model_spec.
Written(bytes) ==
  [g_model_spec EXCEPT !.input  = IF Len(bytes) > 0 THEN bytes[1] ELSE @,
                       !.output = IF Len(bytes) > 1 THEN bytes[2] ELSE @]

\* Mutant: the loader is not reset before it saves.
iospec_loader_no_reset(bytes) ==
  /\ g_model_spec' = Written(bytes)
  /\ iospec_written' = iospec_written + Len(bytes)

iospec_loader(bytes) ==
  /\ g_model_spec' = Written(bytes)
  /\ iospec_written' = Len(bytes)

\* model_load_struct_from_loader, for metadata `spec` of which `written`
\* halves were just received.
LoadStruct(spec, written) ==
  LET status == IF ~Reached(INITIALIZED) THEN "INV_STATE"
                ELSE IF written # 2 \/ ~Valid(spec) THEN "INV_ARG" ELSE "OK"
  IN  Enters(STRUCT_LOADED, status) /\ Returns("IOSPEC", status)

model_load_struct_from_loader ==
  /\ LoadStruct(g_model_spec, iospec_written)
  /\ UNCHANGED <<g_model_spec, iospec_written>>

\* model_load_struct: reset, save and load in one call (demo_app).  There is
\* no loader before model_init, and no part of a payload that is too large
\* is saved.
model_load_struct(bytes) ==
  \/ /\ Reached(INITIALIZED) /\ Len(bytes) <= 2
     /\ iospec_loader(bytes)
     /\ LoadStruct(Written(bytes), Len(bytes))
  \/ /\ ~Reached(INITIALIZED) \/ Len(bytes) > 2
     /\ Returns("IOSPEC", "NOT_LOADED")
     /\ iospec_written' = IF Reached(INITIALIZED) THEN 0 ELSE iospec_written
     /\ UNCHANGED <<g_model_state, g_model_spec>>

\* model_load_weights_from_loader.
model_load_weights_from_loader(runtime) ==
  LET status == IF Reached(STRUCT_LOADED) THEN runtime ELSE "INV_STATE"
  IN  /\ Enters(WEIGHTS_LOADED, status) /\ Returns("MODEL", status)
      /\ UNCHANGED <<g_model_spec, iospec_written>>

\* model_get_input_size.
model_get_input_size == HalfBytes[g_model_spec.input]

\* model_load_input_from_loader.
model_load_input_from_loader(expected_size, runtime) ==
  LET status == IF ~Reached(WEIGHTS_LOADED) THEN "INV_STATE"
                ELSE IF expected_size # model_get_input_size THEN "INV_ARG"
                ELSE runtime
  IN  /\ Enters(INPUT_LOADED, status) /\ Returns("DATA", status)
      /\ UNCHANGED <<g_model_spec, iospec_written>>

\* model_load_weights and model_load_input (demo_app): the payload is saved
\* first, and what the loader refuses is not loaded.  Before model_init there
\* may be no loader.
Refused(op) ==
  /\ Returns(op, "NOT_LOADED")
  /\ UNCHANGED <<g_model_state, g_model_spec, iospec_written>>

model_load_weights(size, runtime) ==
  \/ (size > MaxLoaderSize \/ ~Reached(INITIALIZED)) /\ Refused("MODEL")
  \/ size <= MaxLoaderSize /\ model_load_weights_from_loader(runtime)

model_load_input(size, runtime) ==
  \/ (size > MaxLoaderSize \/ ~Reached(INITIALIZED)) /\ Refused("DATA")
  \/ size <= MaxLoaderSize /\ model_load_input_from_loader(size, runtime)

\* model_run and model_run_bench.
model_run(runtime) ==
  LET status == IF Reached(INPUT_LOADED) THEN runtime ELSE "INV_STATE"
  IN  /\ Enters(INFERENCE_DONE, status) /\ Returns("PROCESS", status)
      /\ UNCHANGED <<g_model_spec, iospec_written>>

\* model_get_output_size.
model_get_output_size == HalfBytes[g_model_spec.output]

\* model_get_output: the size is set before the runtime is asked.
model_get_output(buffer_size, runtime) ==
  LET status == IF ~Reached(INFERENCE_DONE) THEN "INV_STATE"
                ELSE IF buffer_size < model_get_output_size THEN "INV_ARG"
                ELSE runtime
  IN  /\ result' = [op |-> "OUTPUT", status |-> status,
                    size |-> IF status \in RuntimeStatus THEN model_get_output_size ELSE 0]
      /\ UNCHANGED <<g_model_state, g_model_spec, iospec_written>>

\* model_get_statistics.
model_get_statistics(runtime) ==
  LET status == IF Reached(WEIGHTS_LOADED) THEN runtime ELSE "INV_STATE"
  IN  /\ Returns("STATS", status)
      /\ UNCHANGED <<g_model_state, g_model_spec, iospec_written>>

\* Bytes of an IOSPEC series reach the loader.
ReceiveIospec(bytes) ==
  /\ Reached(INITIALIZED)   \* before that there is no loader
  /\ iospec_loader(bytes)
  /\ UNCHANGED <<g_model_state, result>>

Next ==
  \/ \E bytes \in Payloads : ReceiveIospec(bytes)
  \/ \E bytes \in Payloads \cup {TooLarge} : model_load_struct(bytes)
  \/ model_load_struct_from_loader
  \/ \E st \in RuntimeStatus :
       \/ model_init(st) \/ model_run(st) \/ model_get_statistics(st)
       \/ model_load_weights_from_loader(st)
       \/ model_get_output(CONFIG_KENNING_RESPONSE_PAYLOAD_SIZE, st)
       \/ \E size \in LoaderSizes :
            \/ model_load_input_from_loader(size, st)
            \/ model_load_input(size, st) \/ model_load_weights(size, st)

Spec == Init /\ [][Next]_vars

-----------------------------------------------------------------------------
\* Type invariant.
TypeOK ==
  /\ g_model_state \in UNINITIALIZED .. INFERENCE_DONE
  /\ g_model_spec \in ModelSpec
  /\ iospec_written \in 0 .. 2
  /\ result.size \in Nat

\* The refinement: the state stands for the steps up to it.
DoneSteps == {<<"INIT", "IOSPEC", "MODEL", "DATA", "PROCESS">>[k] : k \in 1 .. g_model_state}

Abstract == INSTANCE InferenceSteps
              WITH done <- DoneSteps,
                   answer <- [op |-> result.op,
                              served |-> result.status = "OK" /\ result.op # "none"]

\* A step is accepted only on top of the steps it rests on, repeating a step
\* undoes those after it, and a refused or failed call leaves everything that
\* stood standing: the six values of g_model_state are enough to tell.
ImplementsSteps == Abstract!Spec
=============================================================================
