----------------------------- MODULE TvmRuntime -----------------------------
(***************************************************************************)
(* runtimes/tvm/tvm.c: the life of the graph executor and of the module it *)
(* runs on.                                                                *)
(*                                                                         *)
(* The TVM library is external: `failed` names the first of its calls that *)
(* fails, or is "none".  What the executor computes is not modelled, only  *)
(* which graph it was built from.  A module of operations: whoever calls   *)
(* them composes them with the model (LlextRuntime).                       *)
(***************************************************************************)
CONSTANT Graphs      \* the model files a client uploads

VARIABLES
  gp_tvm_graph_buffer,       \* the graph the MODEL loader holds, or Broken
  gp_tvm_graph_executor,     \* NULL, the graph it was built from, or NoParams
  g_tvm_module_handle        \* whether it is valid

tvm_vars == <<gp_tvm_graph_buffer, gp_tvm_graph_executor, g_tvm_module_handle>>

NULL == "NULL"
Broken == "broken"       \* its sizes do not add up to what was written
NoParams == "no params"  \* created, but its parameters were not loaded

ASSUME TvmAssumption == Graphs \cap {NULL, Broken, NoParams} = {}

TvmTypeOK ==
  /\ gp_tvm_graph_buffer \in Graphs \cup {Broken}
  /\ gp_tvm_graph_executor \in Graphs \cup {NULL, NoParams}
  /\ g_tvm_module_handle \in BOOLEAN

\* The runtime's data as the program, or the extension, starts with it.
TvmInit ==
  gp_tvm_graph_buffer = Broken /\ gp_tvm_graph_executor = NULL /\ g_tvm_module_handle = FALSE

\* The extension is loaded anew.
TvmStarts ==
  gp_tvm_graph_buffer' = Broken /\ gp_tvm_graph_executor' = NULL /\ g_tvm_module_handle' = FALSE

-----------------------------------------------------------------------------
\* runtime_init_weights.  Executor, module and status it leaves behind.
Left(executor, handle, status) ==
  [executor |-> executor, handle |-> handle, status |-> status]

\* Mutants: an executor there already is kept; the module goes first.
KeepsExecutor(failed) ==
  IF gp_tvm_graph_executor # NULL
  THEN Left(gp_tvm_graph_executor, g_tvm_module_handle, "OK")
  ELSE IF gp_tvm_graph_buffer = Broken THEN Left(NULL, FALSE, "RUNTIME_ERROR")
  ELSE Left(gp_tvm_graph_buffer, TRUE, "OK")

\* The old executor is released and its module freed, before anything is
\* known of the new graph; any failure leaves what has been done so far.
Reload(failed) ==
  CASE failed = "release" /\ gp_tvm_graph_executor # NULL ->
         Left(gp_tvm_graph_executor, g_tvm_module_handle, "RUNTIME_ERROR")
    [] failed = "free" /\ g_tvm_module_handle -> Left(NULL, TRUE, "RUNTIME_ERROR")
    [] OTHER ->
         CASE gp_tvm_graph_buffer = Broken \/ failed \in {"entry point", "module"} ->
                Left(NULL, FALSE, "RUNTIME_ERROR")
           [] gp_tvm_graph_buffer # Broken /\ failed = "create" ->
                Left(NULL, TRUE, "RUNTIME_ERROR")
           [] gp_tvm_graph_buffer # Broken /\ failed = "params" ->
                Left(NoParams, TRUE, "RUNTIME_ERROR")
           [] OTHER -> Left(gp_tvm_graph_buffer, TRUE, "OK")

ReloadFailures == {"none", "release", "free", "entry point", "module", "create", "params"}

tvm_init_weights(failed) ==
  /\ gp_tvm_graph_executor' = Reload(failed).executor
  /\ g_tvm_module_handle' = Reload(failed).handle
  /\ UNCHANGED gp_tvm_graph_buffer

-----------------------------------------------------------------------------
\* The executor runs on a module: none stands without one.
ModuleOutlivesExecutor == gp_tvm_graph_executor # NULL => g_tvm_module_handle
=============================================================================
