----------------------------- MODULE RuntimeData ----------------------------
(***************************************************************************)
(* What the runtimes built into the program have in common: what their     *)
(* buffers hold, and what a function of runtime_wrapper.h gives back.      *)
(*                                                                         *)
(* Models and inputs are values.  A buffer in which a payload broke off,   *)
(* or that was overwritten, holds Torn.  The ML libraries are external:    *)
(* `failed` names the first of their calls that fails, or is "none".       *)
(***************************************************************************)
EXTENDS Tensors

CONSTANTS
  Graphs,    \* the model files a client uploads
  Inputs     \* the inputs it sends

NULL == "NULL"
Torn == "torn"
Empty == "empty"

ASSUME RuntimeDataAssumption ==
  (Graphs \cup Inputs) \cap {NULL, Torn, Empty} = {}

\* What a model makes of an input.
Garbage == <<Torn, Torn>>
Computed(graph, input) ==
  IF graph \in Graphs /\ input \in Inputs THEN <<graph, input>> ELSE Garbage
Results == (Graphs \X Inputs) \cup {Garbage}

\* Metadata that was rejected stays in use, and can have more dimensions, and
\* more tensors, than the runtimes' arrays on the stack have room for.  Both
\* are a shape that is too long.
Overlong(tensors) == \E t \in tensors : Len(t.shape) > MAX_MODEL_TENSOR_DIM

\* A function leaves a state behind and returns a status.  "CRASH": it went
\* through a pointer to nothing, to memory that is not its own, or is not any
\* more.
Returned(state, status) == [state |-> state, status |-> status]

\* runtime_run_model_bench of every runtime here: MEASURE_TIME takes the
\* status of the run, and STATUS_OK is returned.
Bench(run) == [run EXCEPT !.status = IF @ = "CRASH" THEN @ ELSE "OK"]
=============================================================================
