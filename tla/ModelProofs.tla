---------------------------- MODULE ModelProofs -----------------------------
(***************************************************************************)
(* core/model.c implements the order of steps of InferenceSteps, for every *)
(* set of tensor and payload sizes and every behaviour of the runtime.     *)
(***************************************************************************)
EXTENDS Model, TLAPS

LEMMA InitType == Init => TypeOK
BY ModelAssumption DEF Init, TypeOK, ModelSpec, Half, UNINITIALIZED, INFERENCE_DONE

\* What model.c computes from metadata are numbers.
LEMMA SizesAreNat ==
  ASSUME g_model_spec \in ModelSpec
  PROVE  model_get_input_size \in Nat /\ model_get_output_size \in Nat
BY ModelAssumption DEF ModelSpec, model_get_input_size, model_get_output_size

\* What a payload makes of the metadata.
LEMMA WrittenType ==
  ASSUME g_model_spec \in ModelSpec, NEW bytes \in Payloads
  PROVE  Written(bytes) \in ModelSpec /\ Len(bytes) \in 0 .. 2
<1> DEFINE a == IF Len(bytes) > 0 THEN bytes[1] ELSE g_model_spec.input
           b == IF Len(bytes) > 1 THEN bytes[2] ELSE g_model_spec.output
<1>1. Len(bytes) \in 0 .. 2 /\ a \in Half /\ b \in Half
  <2>1. g_model_spec.input \in Half /\ g_model_spec.output \in Half
    BY DEF ModelSpec
  <2>2. CASE bytes = <<>>
    BY <2>1, <2>2
  <2>3. ASSUME NEW i \in Half, bytes = <<i>>
        PROVE  Len(bytes) \in 0 .. 2 /\ a \in Half /\ b \in Half
    <3>1. Len(bytes) = 1 /\ bytes[1] = i
      BY <2>3
    <3> QED BY <2>1, <2>3, <3>1
  <2>4. ASSUME NEW i \in Half, NEW o \in Half, bytes = <<i, o>>
        PROVE  Len(bytes) \in 0 .. 2 /\ a \in Half /\ b \in Half
    <3>1. Len(bytes) = 2 /\ bytes[1] = i /\ bytes[2] = o
      BY <2>4
    <3> QED BY <2>4, <3>1
  <2> QED BY <2>2, <2>3, <2>4 DEF Payloads
<1>2. Written(bytes) = [g_model_spec EXCEPT !.input = a, !.output = b]
  BY DEF Written
<1> HIDE DEF a, b
<1> QED BY <1>1, <1>2 DEF ModelSpec

\* A step of the program: what its caller is told (`op`, whether it was
\* served), and where the state goes.
Answers(op, level, status) ==
  /\ result'.op = op /\ result'.status = status
  /\ g_model_state' = IF status = "OK" THEN level ELSE g_model_state

LEMMA StructStep ==
  ASSUME TypeOK, NEW spec, NEW written, LoadStruct(spec, written)
  PROVE  /\ \E status : /\ Answers("IOSPEC", 2, status)
                        /\ status = "OK" => g_model_state >= 1
         /\ g_model_state' \in 0 .. 5 /\ result'.size = 0
BY DEF LoadStruct, Enters, Returns, Reached, Answers, TypeOK, UNINITIALIZED,
       INITIALIZED, STRUCT_LOADED, INFERENCE_DONE

-----------------------------------------------------------------------------
(* The steps of InferenceSteps.                                            *)

StepNames == <<"INIT", "IOSPEC", "MODEL", "DATA", "PROCESS">>

LEMMA StepNamesAre ==
  /\ Abstract!Steps = StepNames
  /\ DoneSteps = {StepNames[k] : k \in 1 .. g_model_state}
  /\ \A k \in 0 .. 5 : Abstract!Before(k) = {StepNames[j] : j \in 1 .. k}
BY DEF Abstract!Steps, Abstract!Before, DoneSteps, StepNames

\* A call of the k-th step, served when the state allows it or refused.
LEMMA StepImplements ==
  ASSUME TypeOK, NEW k \in 1 .. 5, NEW status, Answers(StepNames[k], k, status),
         status = "OK" => g_model_state >= k - 1
  PROVE  Abstract!Next
<1>1. g_model_state \in 0 .. 5
  BY DEF TypeOK, UNINITIALIZED, INFERENCE_DONE
<1>2. StepNames[k] # "none"
  BY DEF StepNames
<1>3. CASE status = "OK"
  <2>1. g_model_state' = k /\ g_model_state >= k - 1
    BY <1>3 DEF Answers
  <2>2. Abstract!Before(k - 1) \subseteq DoneSteps
    <3>1. k - 1 \in 0 .. 5
      OBVIOUS
    <3>2. 1 .. k - 1 \subseteq 1 .. g_model_state
      BY <1>1, <2>1
    <3> QED BY <3>1, <3>2, StepNamesAre
  <2>3. DoneSteps' = Abstract!Before(k)
    <3>1. DoneSteps' = {StepNames[j] : j \in 1 .. k}
      BY <2>1 DEF DoneSteps, StepNames
    <3>2. k \in 0 .. 5
      OBVIOUS
    <3> QED BY <3>1, <3>2, StepNamesAre
  <2>4. [op |-> result.op, served |-> result.status = "OK" /\ result.op # "none"]'
          = [op |-> Abstract!Steps[k], served |-> TRUE]
    BY <1>2, <1>3, StepNamesAre DEF Answers
  <2>5. Abstract!Serve(k)
    BY <2>2, <2>3, <2>4 DEF Abstract!Serve
  <2> QED BY <2>5 DEF Abstract!Next
<1>4. CASE status # "OK"
  <2>1. DoneSteps' = DoneSteps
    BY <1>4 DEF Answers, DoneSteps
  <2>2. [op |-> result.op, served |-> result.status = "OK" /\ result.op # "none"]'
          = [op |-> StepNames[k], served |-> FALSE]
    BY <1>4 DEF Answers
  <2>3. StepNames[k] \in Abstract!Requests
    BY StepNamesAre DEF Abstract!Requests
  <2>4. Abstract!Refuse(StepNames[k])
    BY <2>1, <2>2 DEF Abstract!Refuse
  <2> QED BY <2>3, <2>4 DEF Abstract!Next
<1> QED BY <1>3, <1>4

\* A query, served when the state allows it or refused.
LEMMA QueryImplements ==
  ASSUME TypeOK, g_model_state' = g_model_state,
         NEW q \in {"OUTPUT", "STATS"}, NEW status,
         result'.op = q, result'.status = status,
         status = "OK" => g_model_state >= (IF q = "OUTPUT" THEN 5 ELSE 3)
  PROVE  Abstract!Next
<1>1. g_model_state \in 0 .. 5
  BY DEF TypeOK, UNINITIALIZED, INFERENCE_DONE
<1>2. DoneSteps' = DoneSteps
  BY DEF DoneSteps
<1>3. DOMAIN Abstract!Needs = {"OUTPUT", "STATS"}
  BY DEF Abstract!Needs
<1>4. CASE status = "OK"
  <2> DEFINE k == Abstract!Needs[q]
  <2>1. k \in 0 .. 5 /\ g_model_state >= k
    BY <1>1, <1>4 DEF Abstract!Needs
  <2> HIDE DEF k
  <2>2. Abstract!Before(k) \subseteq DoneSteps
    <3>1. 1 .. k \subseteq 1 .. g_model_state
      BY <1>1, <2>1
    <3> QED BY <2>1, <3>1, StepNamesAre
  <2>3. [op |-> result.op, served |-> result.status = "OK" /\ result.op # "none"]'
          = [op |-> q, served |-> TRUE]
    BY <1>4
  <2>4. Abstract!Query(q)
    BY <1>2, <2>2, <2>3 DEF Abstract!Query, k
  <2> QED BY <1>3, <2>4 DEF Abstract!Next
<1>5. CASE status # "OK"
  <2>1. [op |-> result.op, served |-> result.status = "OK" /\ result.op # "none"]'
          = [op |-> q, served |-> FALSE]
    BY <1>5
  <2>2. Abstract!Refuse(q)
    BY <1>2, <2>1 DEF Abstract!Refuse
  <2>3. q \in Abstract!Requests
    BY <1>3 DEF Abstract!Requests
  <2> QED BY <2>2, <2>3 DEF Abstract!Next
<1> QED BY <1>4, <1>5

-----------------------------------------------------------------------------
(* The actions: the type invariant is kept, and each is a step of          *)
(* InferenceSteps or leaves what it is about alone.                        *)

Simulates == Abstract!Next \/ UNCHANGED <<DoneSteps, [op |-> result.op, served |-> result.status = "OK" /\ result.op # "none"]>>

LEMMA InitAction ==
  ASSUME TypeOK, NEW st \in RuntimeStatus, model_init(st)
  PROVE  TypeOK' /\ Simulates
<1>1. TypeOK'
  BY DEF model_init, Enters, Returns, TypeOK, UNINITIALIZED, INITIALIZED, INFERENCE_DONE
<1>2. Answers(StepNames[1], 1, st)
  BY DEF model_init, Enters, Returns, Answers, StepNames, INITIALIZED
<1>3. g_model_state >= 1 - 1
  BY DEF TypeOK, UNINITIALIZED, INFERENCE_DONE
<1>4. Abstract!Next
  BY <1>2, <1>3, StepImplements
<1> QED BY <1>1, <1>4 DEF Simulates

LEMMA StructAction ==
  ASSUME TypeOK, NEW spec, NEW written, LoadStruct(spec, written),
         g_model_spec' \in ModelSpec, iospec_written' \in 0 .. 2
  PROVE  TypeOK' /\ Simulates
<1>1. PICK status : /\ Answers("IOSPEC", 2, status)
                    /\ status = "OK" => g_model_state >= 1
  BY StructStep
<1>2. TypeOK'
  BY StructStep DEF TypeOK, UNINITIALIZED, INFERENCE_DONE
<1>3. Answers(StepNames[2], 2, status)
  BY <1>1 DEF StepNames
<1>4. status = "OK" => g_model_state >= 2 - 1
  BY <1>1
<1>5. Abstract!Next
  BY <1>3, <1>4, StepImplements
<1> QED BY <1>2, <1>5 DEF Simulates

\* A call refused before the model is asked.
LEMMA RefusedAction ==
  ASSUME TypeOK, NEW k \in 1 .. 5, Returns(StepNames[k], "NOT_LOADED"),
         g_model_state' = g_model_state, g_model_spec' = g_model_spec,
         iospec_written' \in 0 .. 2
  PROVE  TypeOK' /\ Simulates
<1>1. TypeOK'
  BY DEF Returns, TypeOK
<1>2. Answers(StepNames[k], k, "NOT_LOADED")
  BY DEF Returns, Answers
<1>3. Abstract!Next
  BY <1>2, StepImplements
<1> QED BY <1>1, <1>3 DEF Simulates

LEMMA WeightsAction ==
  ASSUME TypeOK, NEW st \in RuntimeStatus, model_load_weights_from_loader(st)
  PROVE  TypeOK' /\ Simulates
<1> DEFINE status == IF Reached(STRUCT_LOADED) THEN st ELSE "INV_STATE"
<1>1. TypeOK'
  BY DEF model_load_weights_from_loader, Enters, Returns, TypeOK, UNINITIALIZED,
         WEIGHTS_LOADED, INFERENCE_DONE
<1>2. Answers(StepNames[3], 3, status)
  BY DEF model_load_weights_from_loader, Enters, Returns, Answers, StepNames, WEIGHTS_LOADED
<1>3. status = "OK" => g_model_state >= 3 - 1
  BY DEF Reached, STRUCT_LOADED
<1>4. Abstract!Next
  BY <1>2, <1>3, StepImplements
<1> QED BY <1>1, <1>4 DEF Simulates

LEMMA InputAction ==
  ASSUME TypeOK, NEW size, NEW st \in RuntimeStatus, model_load_input_from_loader(size, st)
  PROVE  TypeOK' /\ Simulates
<1> DEFINE status == IF ~Reached(WEIGHTS_LOADED) THEN "INV_STATE"
                     ELSE IF size # model_get_input_size THEN "INV_ARG" ELSE st
<1>1. TypeOK'
  BY DEF model_load_input_from_loader, Enters, Returns, TypeOK, UNINITIALIZED,
         INPUT_LOADED, INFERENCE_DONE
<1>2. Answers(StepNames[4], 4, status)
  BY DEF model_load_input_from_loader, Enters, Returns, Answers, StepNames, INPUT_LOADED
<1>3. status = "OK" => g_model_state >= 4 - 1
  BY DEF Reached, WEIGHTS_LOADED
<1>4. Abstract!Next
  BY <1>2, <1>3, StepImplements
<1> QED BY <1>1, <1>4 DEF Simulates

LEMMA RunAction ==
  ASSUME TypeOK, NEW st \in RuntimeStatus, model_run(st)
  PROVE  TypeOK' /\ Simulates
<1> DEFINE status == IF Reached(INPUT_LOADED) THEN st ELSE "INV_STATE"
<1>1. TypeOK'
  BY DEF model_run, Enters, Returns, TypeOK, UNINITIALIZED, INFERENCE_DONE
<1>2. Answers(StepNames[5], 5, status)
  BY DEF model_run, Enters, Returns, Answers, StepNames, INFERENCE_DONE
<1>3. status = "OK" => g_model_state >= 5 - 1
  BY DEF Reached, INPUT_LOADED
<1>4. Abstract!Next
  BY <1>2, <1>3, StepImplements
<1> QED BY <1>1, <1>4 DEF Simulates

LEMMA OutputAction ==
  ASSUME TypeOK, NEW size, NEW st \in RuntimeStatus, model_get_output(size, st)
  PROVE  TypeOK' /\ Simulates
<1> DEFINE status == IF ~Reached(INFERENCE_DONE) THEN "INV_STATE"
                     ELSE IF size < model_get_output_size THEN "INV_ARG" ELSE st
<1>1. model_get_output_size \in Nat
  BY SizesAreNat DEF TypeOK
<1>2. TypeOK'
  BY <1>1 DEF model_get_output, TypeOK
<1>3. result'.op = "OUTPUT" /\ result'.status = status /\ g_model_state' = g_model_state
  BY DEF model_get_output
<1>4. status = "OK" => g_model_state >= 5
  BY DEF Reached, INFERENCE_DONE
<1>5. Abstract!Next
  BY <1>3, <1>4, QueryImplements
<1> QED BY <1>2, <1>5 DEF Simulates

LEMMA StatsAction ==
  ASSUME TypeOK, NEW st \in RuntimeStatus, model_get_statistics(st)
  PROVE  TypeOK' /\ Simulates
<1> DEFINE status == IF Reached(WEIGHTS_LOADED) THEN st ELSE "INV_STATE"
<1>1. TypeOK'
  BY DEF model_get_statistics, Returns, TypeOK
<1>2. result'.op = "STATS" /\ result'.status = status /\ g_model_state' = g_model_state
  BY DEF model_get_statistics, Returns
<1>3. status = "OK" => g_model_state >= 3
  BY DEF Reached, WEIGHTS_LOADED
<1>4. Abstract!Next
  BY <1>2, <1>3, QueryImplements
<1> QED BY <1>1, <1>4 DEF Simulates

LEMMA NextAction ==
  ASSUME TypeOK, [Next]_vars
  PROVE  TypeOK' /\ Simulates
<1>0. g_model_spec \in ModelSpec /\ iospec_written \in 0 .. 2
  BY DEF TypeOK
<1>1. ASSUME NEW bytes \in Payloads, ReceiveIospec(bytes)
      PROVE  TypeOK' /\ Simulates
  <2>1. g_model_spec' \in ModelSpec /\ iospec_written' \in 0 .. 2
    BY <1>0, <1>1, WrittenType DEF ReceiveIospec, iospec_loader
  <2>2. g_model_state' = g_model_state /\ result' = result
    BY <1>1 DEF ReceiveIospec
  <2> QED BY <2>1, <2>2 DEF TypeOK, Simulates, DoneSteps
<1>2. ASSUME NEW bytes \in Payloads \cup {TooLarge}, model_load_struct(bytes)
      PROVE  TypeOK' /\ Simulates
  <2>1. CASE Len(bytes) <= 2 /\ iospec_loader(bytes) /\ LoadStruct(Written(bytes), Len(bytes))
    <3>1. bytes \in Payloads
      BY <2>1 DEF TooLarge
    <3>2. g_model_spec' \in ModelSpec /\ iospec_written' \in 0 .. 2
      BY <1>0, <2>1, <3>1, WrittenType DEF iospec_loader
    <3> QED BY <2>1, <3>2, StructAction
  <2>2. CASE /\ Returns("IOSPEC", "NOT_LOADED")
             /\ iospec_written' = IF Reached(INITIALIZED) THEN 0 ELSE iospec_written
             /\ UNCHANGED <<g_model_state, g_model_spec>>
    <3>1. Returns(StepNames[2], "NOT_LOADED") /\ iospec_written' \in 0 .. 2
      BY <1>0, <2>2 DEF StepNames
    <3> QED BY <2>2, <3>1, RefusedAction
  <2> QED BY <1>2, <2>1, <2>2 DEF model_load_struct
<1>3. CASE model_load_struct_from_loader
  BY <1>0, <1>3, StructAction DEF model_load_struct_from_loader
<1>4. ASSUME NEW k \in 1 .. 5, Refused(StepNames[k])
      PROVE  TypeOK' /\ Simulates
  BY <1>0, <1>4, RefusedAction DEF Refused
<1>5. ASSUME NEW st \in RuntimeStatus, NEW size, model_load_weights(size, st)
      PROVE  TypeOK' /\ Simulates
  <2>1. StepNames[3] = "MODEL"
    BY DEF StepNames
  <2> QED BY <1>4, <1>5, <2>1, WeightsAction DEF model_load_weights
<1>6. ASSUME NEW st \in RuntimeStatus, NEW size, model_load_input(size, st)
      PROVE  TypeOK' /\ Simulates
  <2>1. StepNames[4] = "DATA"
    BY DEF StepNames
  <2> QED BY <1>4, <1>6, <2>1, InputAction DEF model_load_input
<1>7. CASE UNCHANGED vars
  BY <1>7 DEF vars, TypeOK, Simulates, DoneSteps
<1> QED BY <1>1, <1>2, <1>3, <1>5, <1>6, <1>7, InitAction, RunAction, StatsAction,
           WeightsAction, OutputAction, InputAction DEF Next

LEMMA InitSteps == Init => Abstract!Init
<1> SUFFICES ASSUME Init PROVE Abstract!Init
  OBVIOUS
<1>1. DoneSteps = {}
  <2>1. 1 .. g_model_state = {}
    BY DEF Init, UNINITIALIZED
  <2> QED BY <2>1 DEF DoneSteps
<1>2. result.op = "none"
  BY DEF Init
<1> QED BY <1>1, <1>2 DEF Abstract!Init

\* The variables of model.c keep to their types: the state is one of the six
\* of MODEL_STATE, and the metadata stays one its fields can hold whatever
\* part of an IOSPEC series reached it.
THEOREM TypeCorrect == Spec => []TypeOK
<1>1. Init => TypeOK
  BY InitType
<1>2. TypeOK /\ [Next]_vars => TypeOK'
  BY NextAction
<1> QED BY <1>1, <1>2, PTL DEF Spec

\* model.c implements InferenceSteps: its one state variable, compared with
\* a constant at the head of each function, admits a request only when the
\* steps it rests on stand, drops those a repeated step invalidates, and
\* changes nothing when a function refuses or the runtime fails.
THEOREM StepsImplemented == Spec => ImplementsSteps
<1> DEFINE answer == [op |-> result.op, served |-> result.status = "OK" /\ result.op # "none"]
<1>1. Init => Abstract!Init
  BY InitSteps
<1>2. TypeOK /\ [Next]_vars => [Abstract!Next]_<<DoneSteps, answer>>
  BY NextAction DEF Simulates
<1> QED BY <1>1, <1>2, TypeCorrect, PTL DEF Spec, ImplementsSteps, Abstract!Spec
=============================================================================
