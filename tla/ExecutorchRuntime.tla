------------------------- MODULE ExecutorchRuntime --------------------------
(***************************************************************************)
(* runtimes/executorch/executorch.cpp: a method over a program and over    *)
(* planned buffers from the kernel's heap.                                 *)
(*                                                                         *)
(* The method is replaced last, everything it lives on first: the program, *)
(* which is used where the MODEL loader put it, its allocators and the     *)
(* planned buffers.                                                        *)
(***************************************************************************)
EXTENDS RuntimeData

\* gp_method stands for the model it was loaded from.  buffers is what its
\* planned buffers are: "own", freed by a later attempt to load a model
\* ("freed"), or never allocated ("unbacked").
ExecutorchStates ==
  [planned_buffers : BOOLEAN,
   gp_method : Graphs \cup {NULL},
   buffers : {"own", "freed", "unbacked"},
   method_input : Inputs \cup {Torn},
   output : Results]

ExecutorchStart ==
  [planned_buffers |-> FALSE, gp_method |-> NULL, buffers |-> "freed",
   method_input |-> Torn, output |-> Garbage]

runtime_init(s) == Returned(s, "OK")

deallocate_planned_buffers(s) ==
  IF s.planned_buffers THEN [s EXCEPT !.planned_buffers = FALSE, !.buffers = "freed"] ELSE s

\* The check behind each allocation looks at the array of buffers, not at
\* the buffer: one that is not there goes unnoticed.
Buffers(failed) == IF failed = "buffer" THEN "unbacked" ELSE "own"

\* The array of buffers has room for one pointer each, and is filled with
\* spans of two words ("overrun"); the method loaded before is destroyed when
\* its program and its allocators already are ("freed").  Both may go on as
\* if nothing was, or be the end.
LoadMethod(s, model, failed) ==
  CASE model = Torn \/ failed \in {"program", "meta", "array"} -> Returned(s, "RUNTIME_ERROR")
    [] model # Torn /\ (failed = "overrun" \/ (failed = "freed" /\ s.gp_method # NULL)) ->
         Returned(s, "CRASH")
    [] model # Torn /\ failed = "method" ->
         Returned([s EXCEPT !.planned_buffers = TRUE], "RUNTIME_ERROR")
    [] OTHER ->
         Returned([planned_buffers |-> TRUE, gp_method |-> model, buffers |-> Buffers(failed),
                   method_input |-> Torn, output |-> Garbage], "OK")

\* Mutant: the planned buffers are given back last.
DeallocatesLast(s, model, failed) ==
  [LoadMethod(s, model, failed) EXCEPT !.state = deallocate_planned_buffers(@)]

runtime_init_weights(s, model, failed) ==
  LoadMethod(deallocate_planned_buffers(s), model, failed)

InitWeightsFailures == {"program", "meta", "array", "overrun", "buffer", "method", "freed"}

\* The method may be used at all, and its buffers are memory.
Usable(s) == s.gp_method # NULL /\ s.buffers = "own"

NoType(tensors) ==
  \E t \in tensors : kenning_elem_dtype_to_executorch_scalar_type(t.code, t.bits) = 0

\* A method takes a copy of its input or the buffer itself, as it was
\* compiled; every input of it is the start of the buffer.
runtime_init_input(s, input, tensors, failed) ==
  CASE tensors = {} -> Returned(s, "OK")
    [] tensors # {} /\ (Overlong(tensors) \/ ~Usable(s)) -> Returned(s, "CRASH")
    [] tensors # {} /\ ~Overlong(tensors) /\ Usable(s) /\ (failed = "input" \/ NoType(tensors)) ->
         Returned(s, "RUNTIME_ERROR")
    [] OTHER -> Returned([s EXCEPT !.method_input = input], "OK")

\* `copied`: the method took a copy.
runtime_run_model(s, model, input, copied, failed) ==
  CASE ~Usable(s) -> Returned(s, "CRASH")
    [] Usable(s) /\ failed = "execute" ->
         Returned([s EXCEPT !.output = Garbage], "RUNTIME_ERROR")
    [] OTHER ->
         Returned([s EXCEPT !.output =
                     Computed(IF model = s.gp_method THEN model ELSE Torn,
                              IF copied THEN s.method_input ELSE input),
                            !.method_input = Torn], "OK")

runtime_get_model_output(s, tensors, failed) ==
  Returned(s, CASE tensors = {} -> "OK"
                [] tensors # {} /\ ~Usable(s) -> "CRASH"
                [] tensors # {} /\ Usable(s) /\ failed = "tensor" -> "RUNTIME_ERROR"
                [] OTHER -> "OK")

\* runtime_get_statistics counts the planned memory only, not the times.
Statistics == [size |-> 1, loaded |-> 3]
=============================================================================
