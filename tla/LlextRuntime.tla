---------------------------- MODULE LlextRuntime ----------------------------
(***************************************************************************)
(* A build with CONFIG_LLEXT: the runtime is an extension that the client  *)
(* uploads with RUNTIME.  The loader of RUNTIME (inference_server.c),      *)
(* runtime_callback (callbacks.c), the calls through the extension         *)
(* (runtimes/llext), and the TVM runtime inside, over core/model.c.        *)
(*                                                                         *)
(* Zephyr's llext_* functions and its heap are external: `failed` names    *)
(* the call that fails.  The extension lives where the RUNTIME loader put  *)
(* it (CONFIG_LLEXT_STORAGE_WRITABLE).  Of a request, what arrives in the  *)
(* loader and what the callback does are two steps; one without the other  *)
(* is a request without payload, or one that was lost.  Sizes are counted  *)
(* in half size fields.                                                    *)
(***************************************************************************)
EXTENDS Model, TvmRuntime

CONSTANTS
  HeapSize,                              \* llext_heap
  RuntimeSizes,                          \* whole RUNTIME payloads
  CONFIG_KENNING_MESSAGE_RECV_BUFFER_SIZE

RUNTIME_SIZE_FIELD_SIZE == 2

ASSUME LlextAssumption ==
  /\ HeapSize \in Nat /\ RuntimeSizes \subseteq Nat \ {0}
  /\ CONFIG_KENNING_MESSAGE_RECV_BUFFER_SIZE \in Nat \ {0}

VARIABLES
  ldr,         \* msg_loader_llext: whether addr is a buffer, written, max_size
  heap_used,   \* of llext_heap, by the loader
  remaining,   \* what the client still sends of a RUNTIME payload
  image,       \* what was saved since the reset: see Images
  ext,         \* whether llext_by_name("runtime") finds an extension
  gp_llext_runtime,  \* what the pointer is to: see Pointers
  tables,      \* what the loaders of g_ldr_tables[1] belong to: see Pointers
  crashed,     \* a call went through NULL or into an unloaded extension
  loaded,      \* ghost: RUNTIME was answered with success, none began since
  model_ok,    \* ghost: no MODEL has failed in the runtime since it was loaded
  accepted     \* ghost: the graph of the last MODEL that succeeded

loader_vars == <<ldr, heap_used, remaining, image>>
pointers == <<ext, gp_llext_runtime, tables>>
ghosts == <<loaded, model_ok, accepted>>
llext_vars == <<vars, tvm_vars, loader_vars, pointers, ghosts, crashed>>

\* "growing": all that was sent so far.  "holed": something was refused or
\* lost.  "linked": llext_load took it.
Images == {"none", "growing", "holed", "whole", "linked"}
Pointers == {"NULL", "current", "gone"}
LoadFailures == {"none", "load", "bringup", "initialize"}

NoBuffer == [addr |-> FALSE, written |-> 0, max_size |-> 0]

LlextInit ==
  /\ Init
  /\ TvmInit
  /\ ldr = NoBuffer /\ heap_used = 0 /\ remaining = 0 /\ image = "none"
  /\ ext = FALSE /\ gp_llext_runtime = "NULL" /\ tables = "NULL"
  /\ crashed = FALSE
  /\ loaded = FALSE /\ model_ok = FALSE /\ accepted = NULL

\* The server waits for a request.
Listening == ~crashed /\ remaining = 0

\* A call through a pointer to nothing: undefined, and the end of the run.
Crash ==
  /\ crashed' = TRUE
  /\ UNCHANGED <<vars, tvm_vars, loader_vars, pointers, ghosts>>

-----------------------------------------------------------------------------
(* The loader of RUNTIME.                                                  *)

\* Mutants: the extension stays, or the buffer does.
KeepsExtension == ext
KeepsHeap == 0

\* reset_runtime frees the buffer, then tears down and unloads what is there.
Unloads(failed) == failed = "none"
NoExtension == FALSE
Freed == IF ldr.addr THEN ldr.max_size ELSE 0
AfterUnload(pointer) == IF pointer = "current" THEN "gone" ELSE pointer

\* A RUNTIME payload of `size` begins.  If the reset fails it is drained.
reset_runtime(size, failed) ==
  /\ Listening
  /\ heap_used' = heap_used - Freed
  /\ ldr' = NoBuffer /\ image' = "none"
  /\ loaded' = FALSE
  /\ IF ext => Unloads(failed)
     THEN /\ remaining' = size
          /\ ext' = NoExtension
          /\ gp_llext_runtime' = AfterUnload(gp_llext_runtime)
          /\ tables' = AfterUnload(tables)
     ELSE remaining' = 0 /\ UNCHANGED pointers
  /\ UNCHANGED <<vars, tvm_vars, crashed, model_ok, accepted>>

\* Mutant: the size field, which is not saved, counts.
FitsWithField(loader, n) == loader.written + n <= loader.max_size + RUNTIME_SIZE_FIELD_SIZE

\* buf_save.
Fits(loader, n) == loader.written + n <= loader.max_size
Saved(loader, n) == IF Fits(loader, n) THEN [loader EXCEPT !.written = @ + n] ELSE loader

\* save_runtime takes the first field of what it is given for a size as long
\* as there is no buffer: in a first chunk, and after an allocation failed.
\* The loader, what it allocates, and whether the chunk was refused.
save_runtime(n, field) ==
  LET free == HeapSize - heap_used
      new  == [addr |-> TRUE, written |-> 0, max_size |-> field]
      rest == n - RUNTIME_SIZE_FIELD_SIZE
  IN  CASE ldr.addr ->
             [loader |-> Saved(ldr, n), allocated |-> 0, refused |-> ~Fits(ldr, n)]
        [] ~ldr.addr /\ n >= RUNTIME_SIZE_FIELD_SIZE /\ field \in 1 .. free ->
             [loader |-> Saved(new, rest), allocated |-> field, refused |-> ~Fits(new, rest)]
        [] OTHER -> [loader |-> NoBuffer, allocated |-> 0, refused |-> TRUE]

\* What was refused is skipped, and the rest is saved all the same.
ReceiveChunk(n, field) ==
  LET saved == save_runtime(n, field)
  IN  /\ n <= remaining
      /\ remaining' = remaining - n
      /\ ldr' = saved.loader
      /\ heap_used' = heap_used + saved.allocated
      /\ image' = CASE saved.refused \/ image = "holed" -> "holed"
                    [] ~saved.refused /\ image # "holed" /\ n = remaining -> "whole"
                    [] OTHER -> "growing"
      /\ UNCHANGED <<vars, tvm_vars, pointers, ghosts, crashed>>

\* The client stops: protocol_listen times out.
LoseRest ==
  /\ remaining > 0
  /\ remaining' = 0 /\ image' = "holed"
  /\ UNCHANGED <<vars, tvm_vars, ldr, heap_used, pointers, ghosts, crashed>>

-----------------------------------------------------------------------------
(* runtime_callback, and model_init through the extension.                 *)

\* Mutant: the extension is not looked up again (as if g_runtime_initialized
\* had been set and runtime_deinit had not cleared it).
KeepsPointer == IF gp_llext_runtime = "NULL" THEN "current" ELSE gp_llext_runtime

\* llext_load takes a whole image only; CALLBACKS_ERROR stands for every
\* failure before model_init.
FoundExtension == "current"
Links(failed) == ~ext /\ image = "whole" /\ failed # "load"
CallbackStatus(failed) ==
  IF ~Links(failed) \/ failed = "bringup" THEN "CALLBACKS_ERROR"
  ELSE IF failed = "initialize" THEN "RUNTIME_ERROR" ELSE "OK"

runtime_callback(failed) ==
  LET status == CallbackStatus(failed)
  IN  /\ Listening
      /\ loaded' = (loaded \/ status = "OK")
      /\ IF Links(failed)
         THEN /\ ext' = TRUE /\ image' = "linked"
              /\ TvmStarts
              /\ model_ok' = TRUE /\ accepted' = NULL
         ELSE UNCHANGED <<ext, image, tvm_vars, model_ok, accepted>>
      /\ IF status = "CALLBACKS_ERROR"
         THEN UNCHANGED <<vars, gp_llext_runtime, tables>>
         ELSE /\ model_init(status)
              /\ gp_llext_runtime' = FoundExtension /\ tables' = "current"
      /\ UNCHANGED <<ldr, heap_used, remaining, crashed>>

-----------------------------------------------------------------------------
(* The other requests.                                                     *)

\* Payload of IOSPEC, MODEL and DATA.  loader_picker returns NULL before
\* anything was loaded, and a loader inside an extension that may be gone.
ReceiveSpec(bytes) ==
  /\ Listening
  /\ IF Reached(INITIALIZED)
     THEN ReceiveIospec(bytes) /\ UNCHANGED <<tvm_vars, loader_vars, pointers, ghosts, crashed>>
     ELSE Crash

ReceiveGraph(graph) ==
  /\ Listening
  /\ IF tables = "current"
     THEN /\ gp_tvm_graph_buffer' = graph
          /\ UNCHANGED <<vars, gp_tvm_graph_executor, g_tvm_module_handle,
                        loader_vars, pointers, ghosts, crashed>>
     ELSE Crash

ReceiveInput == Listening /\ tables # "current" /\ Crash

\* A call of a runtime function.  FIND_P_FUNC tells NULL from a pointer, not
\* an extension that is there from one that is gone.  (It finds NULL before
\* the first model_init only, when the model calls nothing.)  And tvm.c uses
\* its executor without looking whether there is one.
Unsafe(calls, uses_executor) ==
  /\ calls
  /\ gp_llext_runtime = "gone" \/ (uses_executor /\ gp_tvm_graph_executor = NULL)

Serve(unsafe, request) ==
  /\ Listening
  /\ IF unsafe THEN Crash
     ELSE request /\ UNCHANGED <<loader_vars, pointers, loaded, crashed>>

\* MODEL.
ServeModel(failed) ==
  LET calls == Reached(STRUCT_LOADED)
      status == Reload(failed).status
  IN  Serve(Unsafe(calls, FALSE),
        /\ model_load_weights_from_loader(status)
        /\ IF calls
           THEN /\ tvm_init_weights(failed)
                /\ model_ok' = (status = "OK")
                /\ accepted' = IF status = "OK" THEN gp_tvm_graph_buffer ELSE NULL
           ELSE UNCHANGED <<tvm_vars, model_ok, accepted>>)

\* DATA, PROCESS, OUTPUT and STATS.  The benchmarked run of PROCESS returns
\* STATUS_OK, as does setting the input.
ServeOther(calls, uses_executor, request) ==
  Serve(Unsafe(calls, uses_executor),
        request /\ UNCHANGED <<tvm_vars, model_ok, accepted>>)

ServeData(size) ==
  ServeOther(Reached(WEIGHTS_LOADED) /\ size = model_get_input_size, TRUE,
             model_load_input_from_loader(size, "OK"))

ServeProcess == ServeOther(Reached(INPUT_LOADED), TRUE, model_run("OK"))

ServeOutput(runtime) ==
  ServeOther(/\ Reached(INFERENCE_DONE)
             /\ model_get_output_size <= CONFIG_KENNING_RESPONSE_PAYLOAD_SIZE, TRUE,
             model_get_output(CONFIG_KENNING_RESPONSE_PAYLOAD_SIZE, runtime))

ServeStats(runtime) ==
  ServeOther(Reached(WEIGHTS_LOADED), FALSE, model_get_statistics(runtime))

\* IOSPEC calls no runtime.
ServeSpec == ServeOther(FALSE, FALSE, model_load_struct_from_loader)

LlextNext ==
  \/ \E size \in RuntimeSizes, failed \in {"none", "teardown", "unload"} :
       reset_runtime(size, failed)
  \/ \E n \in 1 .. CONFIG_KENNING_MESSAGE_RECV_BUFFER_SIZE, field \in 0 .. HeapSize + 1 :
       ReceiveChunk(n, field)
  \/ LoseRest
  \/ \E failed \in LoadFailures : runtime_callback(failed)
  \/ \E bytes \in Payloads : ReceiveSpec(bytes)
  \/ \E graph \in Graphs \cup {Broken} : ReceiveGraph(graph)
  \/ ReceiveInput
  \/ \E failed \in ReloadFailures : ServeModel(failed)
  \/ \E size \in LoaderSizes : ServeData(size)
  \/ ServeProcess
  \/ \E st \in RuntimeStatus : ServeOutput(st) \/ ServeStats(st)
  \/ ServeSpec

LlextSpec == LlextInit /\ [][LlextNext]_llext_vars

-----------------------------------------------------------------------------
\* Type invariant, with the bounds of the loader.
LlextTypeOK ==
  /\ TypeOK /\ TvmTypeOK
  /\ ldr \in [addr : BOOLEAN, written : Nat, max_size : 0 .. HeapSize]
  /\ ldr.written <= ldr.max_size
  /\ heap_used \in 0 .. HeapSize
  /\ remaining \in {0} \cup UNION {1 .. size : size \in RuntimeSizes}
  /\ image \in Images
  /\ ext \in BOOLEAN /\ gp_llext_runtime \in Pointers /\ tables \in Pointers
  /\ crashed \in BOOLEAN
  /\ loaded \in BOOLEAN /\ model_ok \in BOOLEAN
  /\ accepted \in Graphs \cup {NULL}

\* Once a RUNTIME was answered with success, and until the next one begins,
\* functions and loaders are those of one extension, the one loaded last, and
\* its memory is not free: no mix of an old runtime and a new one.
OneExtensionInUse ==
  loaded => /\ ext /\ gp_llext_runtime = "current" /\ tables = "current"
            /\ ldr.addr /\ Reached(INITIALIZED)

\* The server calls into nothing only after a failure it has reported: when
\* the client sends, in any order and with any payload, requests to a runtime
\* that was loaded and has not refused a MODEL since, every call finds its
\* function, its loader and its executor.
CrashesAfterFailuresOnly == crashed => ~loaded \/ ~model_ok

\* While the answers say that a model is loaded, what runs is that model, on a
\* module that was not freed under it.
RunsAcceptedModel ==
  /\ loaded /\ model_ok /\ Reached(WEIGHTS_LOADED) => gp_tvm_graph_executor = accepted
  /\ ModuleOutlivesExecutor

\* Nothing but the buffer of the loader is taken of the heap: uploads that
\* failed, were lost or were replaced have given theirs back.
HeapAccounted == heap_used = IF ldr.addr THEN ldr.max_size ELSE 0

\* A RUNTIME that arrived whole is loaded unless a call of Zephyr or TVM
\* fails, whatever became of the uploads before it.
WholeRuntimeLoads == image = "whole" => CallbackStatus("none") = "OK"
=============================================================================
