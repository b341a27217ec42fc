-------------------------------- MODULE Ai8x --------------------------------
(***************************************************************************)
(* The AI8X runtime (runtimes/ai8x): the loader that writes a model into   *)
(* the memory of the CNN accelerator while it arrives, and an inference    *)
(* that waits for the accelerator's interrupt.                             *)
(*                                                                         *)
(* A word of the model is one step: the state of the loader is in its      *)
(* struct, so that where a payload is cut into reads makes no difference   *)
(* (reads are of whole words).  The accelerator is external: once started  *)
(* it may finish at any time, or never.  The order of requests is that of  *)
(* module Model, of which only this is used: they come one by one.         *)
(***************************************************************************)
EXTENDS Integers, SequencesExt

CONSTANTS
  Cells,                         \* words of the accelerator's memory, from 1
  Networks,                      \* [weights, biases]: sequences of entries
  None,                          \* no network
  CONFIG_KENNING_AI8X_CNN_TIMEOUT_MS

Entry == [addr : Cells, words : Seq(Nat)]

\* Where the words of an entry go.
Targets(e) == e.addr .. e.addr + Len(e.words) - 1

\* The entries of a network, in the order they are sent.
Entries(net) == net.weights \o net.biases

\* An entry has a place and at least one word (the loader takes none for
\* 2^32: see README).
ASSUME Ai8xAssumption ==
  /\ Cells \subseteq Nat \ {0}
  /\ Networks \subseteq [weights : Seq(Entry), biases : Seq(Entry)]
  /\ None \notin Networks
  /\ \A net \in Networks : \A e \in ToSet(Entries(net)) :
       Len(e.words) > 0 /\ Targets(e) \subseteq Cells
  /\ CONFIG_KENNING_AI8X_CNN_TIMEOUT_MS \in Nat

VARIABLES
  ldr,          \* msg_loader_model
  mem,          \* the accelerator's memory
  rest,         \* words of a MODEL still to come
  network,      \* ghost: what that MODEL is, None if it was not sent to its end
  pc,           \* where runtime_run_model is
  time,         \* of cnn_wait
  wait_status,  \* what the last cnn_wait returned
  clock,        \* cnn_set_clock
  accelerator,  \* external: "idle", "running" or "finished"
  cnn_done,
  stale         \* ghost: cnn_done was set when the accelerator was started

loader_vars == <<ldr, mem, rest, network>>
run_vars == <<pc, time, wait_status, clock, accelerator, cnn_done, stale>>
vars == <<loader_vars, run_vars>>

Touched == -1   \* a word of which one byte was written

\* The payload of MODEL: per section, its entries and a zero.
Section(entries) ==
  FlattenSeq([k \in DOMAIN entries |->
                <<entries[k].addr, Len(entries[k].words)>> \o entries[k].words]) \o <<0>>
Payload(net) == Section(net.weights) \o Section(net.biases)

\* buf_reset_cnn.
Fresh == [state |-> "WEIGHTS_START", addr |-> 0, written |-> 0, max_size |-> 0]

\* prepare_ai8x_ldr_table, cnn_enable.
Init ==
  /\ ldr = Fresh /\ mem = [c \in Cells |-> Touched]
  /\ rest = <<>> /\ network = None
  /\ pc = "idle" /\ time = 0 /\ wait_status = "OK" /\ clock = "slow"
  /\ accelerator = "idle" /\ cnn_done = FALSE /\ stale = FALSE

-----------------------------------------------------------------------------
(* The MODEL loader.                                                       *)

\* Mutants: the loader goes on where it was; an entry is taken for shorter or
\* longer than it is.
KeepsState == ldr
EntryEndsEarly(written) == written >= ldr.max_size - 1
EntryEndsLate(written) == written > ldr.max_size

\* Where the loader starts, and when an entry is complete.
ResetLoader == Fresh
EntryEnds(written) == written = ldr.max_size

ToLength  == [WEIGHTS_START |-> "WEIGHTS_LENGTH", BIASES_START |-> "BIASES_LENGTH"]
ToContent == [WEIGHTS_LENGTH |-> "WEIGHTS", BIASES_LENGTH |-> "BIASES"]
ToStart   == [WEIGHTS |-> "WEIGHTS_START", BIASES |-> "BIASES_START"]
ToNext    == [WEIGHTS_START |-> "BIASES_START", BIASES_START |-> "END"]

\* The start of an entry, or the end of its section.  The byte written at
\* the start of weights is the hardware's wish.
TakeAddress(val) ==
  /\ ldr.state \in DOMAIN ToLength
  /\ ldr' = [ldr EXCEPT !.addr = val,
               !.state = IF val = 0 THEN ToNext[@] ELSE ToLength[@]]
  /\ mem' = IF ldr.state = "WEIGHTS_START" /\ val # 0
              THEN [mem EXCEPT ![val] = Touched] ELSE mem

TakeLength(val) ==
  /\ ldr.state \in DOMAIN ToContent
  /\ ldr' = [ldr EXCEPT !.max_size = val, !.written = 0, !.state = ToContent[@]]
  /\ UNCHANGED mem

TakeWord(val) ==
  /\ ldr.state \in DOMAIN ToStart
  /\ mem' = [mem EXCEPT ![ldr.addr + ldr.written] = val]
  /\ ldr' = [ldr EXCEPT !.written = @ + 1,
               !.state = IF EntryEnds(ldr.written + 1) THEN ToStart[@] ELSE @]

IgnoreWord == ldr.state = "END" /\ UNCHANGED <<ldr, mem>>

buf_save_one_cnn(val) ==
  TakeAddress(val) \/ TakeLength(val) \/ TakeWord(val) \/ IgnoreWord

\* A MODEL begins, a word of it arrives, or it breaks off.
BeginModel(net) ==
  /\ pc = "idle" /\ rest = <<>>
  /\ ldr' = ResetLoader
  /\ rest' = Payload(net) /\ network' = net
  /\ UNCHANGED <<mem, run_vars>>

ReceiveWord ==
  /\ rest # <<>>
  /\ buf_save_one_cnn(Head(rest))
  /\ rest' = Tail(rest)
  /\ UNCHANGED <<network, run_vars>>

LoseRest ==
  /\ rest # <<>>
  /\ rest' = <<>> /\ network' = None
  /\ UNCHANGED <<ldr, mem, run_vars>>

-----------------------------------------------------------------------------
(* PROCESS: runtime_run_model.                                             *)

\* cnn_set_clock and cnn_start; cnn_done stays as it is.
StartCnn ==
  /\ pc = "idle" /\ rest = <<>>
  /\ pc' = "wait" /\ time' = 0 /\ clock' = "fast"
  /\ accelerator' = "running" /\ stale' = cnn_done
  /\ UNCHANGED <<loader_vars, cnn_done, wait_status>>

\* cnn_wait returns, and the clock is set back.
Return(status) ==
  /\ pc' = "idle" /\ wait_status' = status /\ clock' = "slow"
  /\ UNCHANGED <<loader_vars, time, accelerator, cnn_done, stale>>

\* Mutants: a timeout is not reported; the time is not counted.
FailureDropped == "OK"
TimeStands == time

TimeoutStatus == "FAIL"
NextTime == time + 1
TimedOut == NextTime > CONFIG_KENNING_AI8X_CNN_TIMEOUT_MS

\* The loop of cnn_wait: a look at cnn_done, then a sleep of 1 ms.
Poll ==
  /\ pc = "wait"
  /\ \/ cnn_done /\ Return("OK")
     \/ /\ ~cnn_done /\ pc' = "sleep"
        /\ UNCHANGED <<loader_vars, time, wait_status, clock, accelerator, cnn_done, stale>>

Sleep ==
  /\ pc = "sleep"
  /\ \/ TimedOut /\ Return(TimeoutStatus)
     \/ /\ ~TimedOut /\ pc' = "wait" /\ time' = NextTime
        /\ UNCHANGED <<loader_vars, wait_status, clock, accelerator, cnn_done, stale>>

\* The accelerator finishes: cnn_isr.
cnn_isr ==
  /\ accelerator = "running"
  /\ accelerator' = "finished" /\ cnn_done' = TRUE
  /\ UNCHANGED <<loader_vars, pc, time, wait_status, clock, stale>>

Next ==
  \/ \E net \in Networks : BeginModel(net)
  \/ ReceiveWord \/ LoseRest
  \/ StartCnn \/ Poll \/ Sleep \/ cnn_isr

\* The thread goes on with its loop; nothing makes the accelerator finish.
Spec == Init /\ [][Next]_vars /\ WF_vars(Poll \/ Sleep)

-----------------------------------------------------------------------------
\* Type invariant, with the bounds of the loader and of the wait.
TypeOK ==
  /\ ldr.state \in DOMAIN ToLength \cup DOMAIN ToContent \cup DOMAIN ToStart \cup {"END"}
  /\ ldr.written \in 0 .. ldr.max_size
  /\ ldr.addr \in Cells \cup {0}
  /\ DOMAIN mem = Cells
  /\ network \in Networks \cup {None}
  /\ pc \in {"idle", "wait", "sleep"}
  /\ time \in 0 .. CONFIG_KENNING_AI8X_CNN_TIMEOUT_MS
  /\ wait_status \in {"OK", "FAIL"} /\ clock \in {"slow", "fast"}
  /\ accelerator \in {"idle", "running", "finished"}
  /\ cnn_done \in BOOLEAN /\ stale \in BOOLEAN

\* A MODEL that arrived to its end is in the memory word for word, whatever
\* was loaded, or broken off in any state of the loader, before it.  Where
\* entries overlap the last one counts.
LoadsNetwork ==
  network # None /\ rest = <<>> =>
    LET es == Entries(network)
    IN  \A k \in DOMAIN es : \A i \in 1 .. Len(es[k].words) :
          LET cell == es[k].addr + i - 1
          IN  (\A l \in DOMAIN es : l > k => cell \notin Targets(es[l]))
                => mem[cell] = es[k].words[i]

\* While it arrives, no word is written but those its entries name: lengths
\* and addresses are never taken for content, nor content for addresses.
WritesTargetsOnly ==
  [][\A c \in Cells : mem'[c] # mem[c] =>
       \E e \in ToSet(Entries(network)) : c \in Targets(e)]_vars

\* runtime_run_model comes back, whether or not the accelerator does.
InferenceEnds == pc # "idle" ~> pc = "idle"

\* cnn_wait, cnn.h:134: it "@returns CNN_OK if accelerator completed inference,
\* CNN_FAIL otherwise".  After it, the output may be unloaded and the next
\* model or input written.
WaitMeansCompleted == pc = "idle" /\ wait_status = "OK" => accelerator # "running"

\* What is so: the promise is kept by an inference that finds cnn_done clear,
\* so by the first one, and by each until one has completed.
FirstWaitMeansCompleted == ~stale => WaitMeansCompleted
=============================================================================
