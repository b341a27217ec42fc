--------------------------- MODULE EmlearnRuntime ---------------------------
(***************************************************************************)
(* runtimes/emlearn/emlearn.c: the model is compiled into the program, and *)
(* what a client uploads is thrown away.                                   *)
(***************************************************************************)
EXTENDS RuntimeData

CONSTANT BuiltIn    \* the model of emlearn_model, one of Graphs

\* gp_emlearn_output_buffer.
EmlearnStates == [gp_emlearn_output_buffer : Results]
EmlearnStart == [gp_emlearn_output_buffer |-> Garbage]

runtime_init(s) == Returned(s, "OK")
runtime_init_weights(s) == Returned(s, "OK")
runtime_init_input(s) == Returned(s, "OK")

runtime_run_model(s, input) ==
  Returned([s EXCEPT !.gp_emlearn_output_buffer = Computed(BuiltIn, input)], "OK")

runtime_get_model_output(s) == Returned(s, "OK")

\* runtime_get_statistics.
Statistics == [size |-> 2, loaded |-> 2]
=============================================================================
