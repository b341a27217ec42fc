----------------------------- MODULE AtomicLink -----------------------------
(***************************************************************************)
(* What the sending side of the Kenning protocol promises a client: the    *)
(* line carries whole messages.  Messages of different events may alternate*)
(* (a log line can go out between two messages of a long response), but a  *)
(* message is never torn by another, and the messages of one event come in *)
(* order with its bytes in order, the first and only the first one with    *)
(* the `first` flag, and nothing after the one with the `last` flag.       *)
(***************************************************************************)
EXTENDS Integers, Sequences

CONSTANT Events  \* identities of the events that may be transmitted

VARIABLE link    \* the messages the client has got, in order

MessagesOf(id) == {i \in DOMAIN link : link[i].id = id}

\* Which bytes of an event the client has.
BytesOf(id) ==
  UNION {{link[i].payload[j].at : j \in DOMAIN link[i].payload} : i \in MessagesOf(id)}

Init == link = <<>>

\* The next message of an event arrives as a whole, with the event's next
\* bytes: just those before each of them have arrived before it.
Deliver(m) ==
  /\ m.id \in Events /\ m.index \in Nat
  /\ {link[i].index : i \in MessagesOf(m.id)} = 0 .. m.index - 1
  /\ m.first = (m.index = 0)
  /\ \A i \in MessagesOf(m.id) : ~link[i].last
  /\ \A j \in DOMAIN m.payload :
       /\ m.payload[j].id = m.id /\ m.payload[j].at \in Nat
       /\ BytesOf(m.id) \cup {m.payload[k].at : k \in 1 .. j - 1} = 0 .. m.payload[j].at - 1

Next ==
  /\ Len(link') = Len(link) + 1
  /\ link' = Append(link, link'[Len(link')])
  /\ Deliver(link'[Len(link')])

Spec == Init /\ [][Next]_link
=============================================================================
