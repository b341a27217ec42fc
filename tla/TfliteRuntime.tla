--------------------------- MODULE TfliteRuntime ----------------------------
(***************************************************************************)
(* runtimes/tflite/tflite.cpp: an interpreter whose model and tensors live *)
(* in one buffer, which is also the buffer of the MODEL loader; the DATA   *)
(* loader writes into the input tensor.                                    *)
(***************************************************************************)
EXTENDS RuntimeData

\* An interpreter that was created, but has no tensors.
Unallocated == "unallocated"

\* gp_tflite_interpreter stands for the graph it runs; msg_loader_input is
\* the graph whose input tensor the DATA loader points to.
TfliteStates ==
  [gp_tflite_interpreter : Graphs \cup {NULL, Unallocated},
   msg_loader_input : Graphs \cup {NULL},
   output : Results]

TfliteStart ==
  [gp_tflite_interpreter |-> NULL, msg_loader_input |-> NULL, output |-> Garbage]

\* The MODEL loader's reset destroys the interpreter.
tflite_reset_buf(s) == [s EXCEPT !.gp_tflite_interpreter = NULL]

runtime_init(s) == Returned(s, "OK")

\* The DATA loader is pointed at the new input tensor last: where it points
\* after a failure is inside the new model, or its arena.
runtime_init_weights(s, model, failed) ==
  CASE model = Torn \/ failed = "version" -> Returned(s, "RUNTIME_ERROR")
    [] model # Torn /\ failed = "allocate" ->
         Returned([s EXCEPT !.gp_tflite_interpreter = Unallocated], "RUNTIME_ERROR")
    [] OTHER -> Returned([gp_tflite_interpreter |-> model, msg_loader_input |-> model,
                          output |-> Garbage], "OK")

InitWeightsFailures == {"version", "allocate"}

\* DATA arrives: there is a tensor to write to, the model is spared, and so
\* is the output, which shares the arena.
TakesInput(s) == s.msg_loader_input # NULL
SparesModel(s) == s.gp_tflite_interpreter \in Graphs
AfterInput(s) == [s EXCEPT !.output = Garbage]

runtime_init_input(s) == Returned(s, "OK")

\* The model is used where the loader put it.
runtime_run_model(s, model, input, failed) ==
  LET interpreter == s.gp_tflite_interpreter
  IN  CASE interpreter = NULL -> Returned(s, "CRASH")
        [] interpreter = Unallocated \/ (interpreter \in Graphs /\ failed = "invoke") ->
             Returned([s EXCEPT !.output = Garbage], "RUNTIME_ERROR")
        [] OTHER ->
             Returned([s EXCEPT !.output =
                         Computed(IF model = interpreter THEN model ELSE Torn, input)], "OK")

\* Without tensors there is no output tensor.
runtime_get_model_output(s) ==
  Returned(s, IF s.gp_tflite_interpreter \in Graphs THEN "OK" ELSE "CRASH")

\* runtime_get_statistics: the entries it asks room for and reports, and those
\* it loads.  The peak of allocations is not counted.
Statistics == [size |-> 2, loaded |-> 3]
=============================================================================
