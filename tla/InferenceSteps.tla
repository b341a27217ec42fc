--------------------------- MODULE InferenceSteps ---------------------------
(***************************************************************************)
(* What the model component promises its callers: the steps of an          *)
(* inference can only be taken on top of the steps they rest on, repeating *)
(* a step undoes what was built on it, and a refused request changes       *)
(* nothing.                                                                *)
(***************************************************************************)
EXTENDS Integers, Sequences

\* The steps, each resting on all those before it, and the queries with the
\* number of steps each of them needs.
Steps == <<"INIT", "IOSPEC", "MODEL", "DATA", "PROCESS">>
Needs == [OUTPUT |-> 5, STATS |-> 3]

VARIABLES
  done,    \* the steps that stand
  answer   \* the last request and whether it was served

Before(k) == {Steps[j] : j \in 1 .. k}

Init == done = {} /\ answer = [op |-> "none", served |-> FALSE]

Serve(k) ==
  /\ Before(k - 1) \subseteq done
  /\ done' = Before(k)
  /\ answer' = [op |-> Steps[k], served |-> TRUE]

Query(q) ==
  /\ Before(Needs[q]) \subseteq done
  /\ answer' = [op |-> q, served |-> TRUE]
  /\ UNCHANGED done

Refuse(op) ==
  /\ answer' = [op |-> op, served |-> FALSE]
  /\ UNCHANGED done

Requests == {Steps[k] : k \in 1 .. 5} \cup DOMAIN Needs

Next ==
  \/ \E k \in 1 .. 5 : Serve(k)
  \/ \E q \in DOMAIN Needs : Query(q)
  \/ \E op \in Requests : Refuse(op)

Spec == Init /\ [][Next]_<<done, answer>>
=============================================================================
