----------------------------- MODULE IreeRuntime ----------------------------
(***************************************************************************)
(* runtimes/iree/iree.c: an instance and a device for the life of the      *)
(* program, a context per model, and lists of inputs and outputs that are  *)
(* released and created by each request.                                   *)
(***************************************************************************)
EXTENDS RuntimeData

NoList == <<NULL, NULL>>
EmptyList == <<Empty, Empty>>

\* gp_context stands for the model it was created from, gp_model_inputs for
\* the input copied into it, gp_model_outputs for what was computed.
IreeStates ==
  [runtime_initialized : BOOLEAN, gp_instance : BOOLEAN, gp_device : BOOLEAN,
   gp_context : Graphs \cup {NULL},
   gp_model_inputs : Inputs \cup {Torn, NULL, Empty},
   gp_model_outputs : Results \cup {NoList, EmptyList}]

IreeStart ==
  [runtime_initialized |-> FALSE, gp_instance |-> FALSE, gp_device |-> FALSE,
   gp_context |-> NULL, gp_model_inputs |-> NULL, gp_model_outputs |-> NoList]

\* Mutant: initialized as soon as there is an instance.
InitializedEarly(failed) == failed # "instance"

\* runtime_initialized is set behind the last call that can fail.
Initialized(failed) == failed \notin {"instance", "types", "device"}

\* What an earlier attempt left is released: with the device goes the
\* instance's pointer, not its own (see DeviceNeedsInitialized).
runtime_init(s, failed) ==
  IF s.runtime_initialized THEN Returned(s, "OK")
  ELSE Returned([s EXCEPT !.gp_instance = failed # "instance",
                          !.gp_device = @ \/ failed \notin {"instance", "types", "device"},
                          !.runtime_initialized = Initialized(failed)],
                IF failed \in {"instance", "types", "device"} THEN "RUNTIME_ERROR" ELSE "OK")

InitFailures == {"instance", "types", "device"}

\* Mutant: the outputs of the run before stay.
KeepsOutputs(s) == s

release_input_buffer(s) == [s EXCEPT !.gp_model_inputs = NULL]
release_output_buffer(s) == [s EXCEPT !.gp_model_outputs = NoList]
release_context(s) == [s EXCEPT !.gp_context = NULL]

create_context(s, model, failed) ==
  IF model = Torn \/ failed \in {"hal module", "bytecode module", "context"}
  THEN Returned(release_context(s), "RUNTIME_ERROR")
  ELSE Returned([s EXCEPT !.gp_context = model], "OK")

runtime_init_weights(s, model, failed) ==
  create_context(release_input_buffer(release_output_buffer(s)), model, failed)

InitWeightsFailures == {"hal module", "bytecode module", "context"}

NoType(tensors) ==
  \E t \in tensors : kenning_elem_dtype_to_iree_hal_elem_type(t.code, t.bits) = 0

\* The input is copied, into a list that stays empty if that fails, as it
\* does for elements of no type that IREE has, and if there are no tensors.
prepare_input_buffer(s, input, tensors, failed) ==
  CASE failed = "list" -> Returned(s, "RUNTIME_ERROR")
    [] failed # "list" /\ Overlong(tensors) -> Returned(s, "CRASH")
    [] failed # "list" /\ ~Overlong(tensors) /\ (failed = "views" \/ NoType(tensors)) ->
         Returned([s EXCEPT !.gp_model_inputs = Empty], "RUNTIME_ERROR")
    [] OTHER ->
         Returned([s EXCEPT !.gp_model_inputs = IF tensors = {} THEN Empty ELSE input], "OK")

runtime_init_input(s, input, tensors, failed) ==
  prepare_input_buffer(release_input_buffer(s), input, tensors, failed)

InitInputFailures == {"list", "views"}

prepare_output_buffer(s, failed) ==
  IF failed = "list" THEN s ELSE [s EXCEPT !.gp_model_outputs = EmptyList]

\* Neither the context nor the inputs are looked at before they are used.
\* The context runs the model where the loader put it.
runtime_run_model(s, model, failed) ==
  LET ready == prepare_output_buffer(release_output_buffer(s), failed)
  IN  CASE failed = "list" -> Returned(ready, "RUNTIME_ERROR")
        [] failed # "list" /\ s.gp_context = NULL -> Returned(ready, "CRASH")
        [] s.gp_context # NULL
           /\ (failed \in {"resolve", "invoke"} \/ s.gp_model_inputs \in {NULL, Empty}) ->
             Returned(ready, "RUNTIME_ERROR")
        [] OTHER ->
             Returned([ready EXCEPT !.gp_model_outputs =
                         Computed(IF model = s.gp_context THEN model ELSE Torn,
                                  s.gp_model_inputs)], "OK")

RunFailures == {"list", "resolve", "invoke"}

\* The list is not looked at where there are no tensors.
runtime_get_model_output(s, tensors, failed) ==
  Returned(s, CASE tensors = {} -> "OK"
                [] tensors # {} /\ s.gp_model_outputs = NoList -> "CRASH"
                [] tensors # {} /\ s.gp_model_outputs # NoList
                   /\ (s.gp_model_outputs = EmptyList \/ failed = "map") -> "RUNTIME_ERROR"
                [] OTHER -> "OK")

\* The device is the last thing runtime_init creates: while it may be called
\* again to any effect there is none, and nothing that needs one.  (Were there
\* one, lines 367-371 would release it and keep the pointer.)
DeviceNeedsInitialized(s) ==
  /\ s.gp_device <=> s.runtime_initialized
  /\ s.gp_device => s.gp_instance
  /\ ~s.gp_device => s.gp_context = NULL /\ s.gp_model_inputs = NULL

\* runtime_get_statistics: six entries of the device, three of the heap, two
\* times, and one of the device again that is not counted.
Statistics == [size |-> 11, loaded |-> 12]
=============================================================================
