------------------------------- MODULE Logger -------------------------------
(***************************************************************************)
(* The logging backend of core/logger.c.  Log lines are rendered, one      *)
(* character at a time, into msg_buffer as records                         *)
(*      <size byte> <characters>                                           *)
(* and the whole buffer is sent as the payload of one LOGS transmission.   *)
(* When the protocol is busy the buffer is kept and the next line retries. *)
(*                                                                         *)
(* Lines are numbered in the order they are logged in a session (from one  *)
(* logger_start to the next), and a buffer cell remembers which line and   *)
(* which position in it a character comes from.  How a line is formatted   *)
(* is Zephyr's business: only its length matters here.                     *)
(***************************************************************************)
EXTENDS Integers, Sequences

CONSTANTS
  CONFIG_KENNING_LOG_BUFFER_SIZE,
  MAX_SINGLE_MESSAGE_LENGTH,   \* 0xFF in the source: the size field is a byte
  LineLengths,                 \* lengths of formatted lines, Line Feed included
  MaxLines                     \* bound: records accepted in one session

ASSUME LoggerAssumption ==
  /\ CONFIG_KENNING_LOG_BUFFER_SIZE \in Nat \ {0}
  /\ MAX_SINGLE_MESSAGE_LENGTH \in 1 .. 255
  /\ LineLengths \subseteq Nat \ {0}
  /\ MaxLines \in Nat

VARIABLES
  msg_buffer,      \* the buffer, a cell per byte
  msg_buffer_len,  \* bytes of fully processed records
  sending_logs,    \* a line is being processed: new lines are ignored
  enabled,         \* Zephyr's flag: log_backend_enable/_disable
  pending,         \* ghost: the records meant to be in the buffer
  inflight,        \* ghost: the records handed to protocol_transmit
  sent,            \* ghost: the records of this session the client got
  accepted         \* ghost: the records put into the buffer in this session

vars == <<msg_buffer, msg_buffer_len, sending_logs, enabled,
          pending, inflight, sent, accepted>>

Index == 0 .. CONFIG_KENNING_LOG_BUFFER_SIZE - 1

\* One byte of msg_buffer: a size field, a character of a line, or unused.
Cell == [tag : {"size", "char", "unused"}, line : Nat, val : Nat]
SizeCell(n)       == [tag |-> "size", line |-> 0, val |-> n]
CharCell(line, k) == [tag |-> "char", line |-> line, val |-> k]
Unused            == [tag |-> "unused", line |-> 0, val |-> 0]

\* A record of the buffer: where its size field is, and how much of which
\* line it holds.
Record == [start : Nat, line : Nat, size : Nat]

Init ==
  /\ msg_buffer = [i \in Index |-> Unused]
  /\ msg_buffer_len = 0
  /\ sending_logs = FALSE
  /\ enabled = FALSE
  /\ pending = <<>>
  /\ inflight = <<>>
  /\ sent = <<>>
  /\ accepted = <<>>

-----------------------------------------------------------------------------
(* render_character, called by Zephyr's immediate mode for one character   *)
(* after another: a character is stored while it fits in the buffer and in *)
(* the record, and refused (without effect) otherwise.  So of a line of    *)
(* `length` characters the first curr_msg_len are stored.                  *)

Lesser(a, b) == IF a <= b THEN a ELSE b

\* Mutant: the bound forgets the cell of the size field.
RenderedNoSizeField(length) ==
  Lesser(Lesser(length, MAX_SINGLE_MESSAGE_LENGTH),
         CONFIG_KENNING_LOG_BUFFER_SIZE - msg_buffer_len)

render_character(length) ==
  Lesser(Lesser(length, MAX_SINGLE_MESSAGE_LENGTH),
         CONFIG_KENNING_LOG_BUFFER_SIZE - 1 - msg_buffer_len)

\* Mutant: the size field counts the character that is left out.
BufferWithFullSize(line, curr_msg_len) ==
  [i \in Index |->
     IF i = msg_buffer_len
       THEN SizeCell(curr_msg_len % 256)
       ELSE IF i \in msg_buffer_len + 1 .. msg_buffer_len + curr_msg_len
              THEN CharCell(line, i - msg_buffer_len)
              ELSE msg_buffer[i]]

\* The buffer after a line was rendered and its size field written.  The
\* stored size leaves out the last stored character.
BufferWith(line, curr_msg_len) ==
  [i \in Index |->
     IF i = msg_buffer_len
       THEN SizeCell((curr_msg_len - 1) % 256)
       ELSE IF i \in msg_buffer_len + 1 .. msg_buffer_len + curr_msg_len
              THEN CharCell(line, i - msg_buffer_len)
              ELSE msg_buffer[i]]

\* msg_buffer_len after the record: the last character is overwritten by the
\* next record.
Advance(curr_msg_len) == msg_buffer_len + curr_msg_len

\* Zephyr calls process for an enabled backend; while sending_logs is set the
\* function returns at once.
TakesLine == enabled /\ ~sending_logs

\* process: render the line, write its size field, and start sending the
\* buffer.
Process(length) ==
  /\ TakesLine
  /\ Len(accepted) < MaxLines
  /\ LET n    == render_character(length)
         line == Len(accepted) + 1
         rec  == [start |-> msg_buffer_len, line |-> line,
                  size |-> n - 1]
     IN  /\ msg_buffer' = BufferWith(line, n)
         /\ msg_buffer_len' = Advance(n)
         /\ pending'  = IF n = 0 THEN pending  ELSE Append(pending, rec)
         /\ accepted' = IF n = 0 THEN accepted ELSE Append(accepted, rec)
  /\ sending_logs' = TRUE
  /\ inflight' = pending'
  /\ UNCHANGED <<enabled, sent>>

\* panic: Zephyr flushes the backend; no line is added.
Panic ==
  /\ enabled
  /\ ~sending_logs
  /\ sending_logs' = TRUE
  /\ inflight' = pending
  /\ UNCHANGED <<msg_buffer, msg_buffer_len, enabled, pending, sent, accepted>>

\* Mutant: the buffer is erased whatever protocol_transmit returned.
EraseAlways(status) == TRUE

\* The buffer is erased only when the transmission succeeded.
Erase(status) == status = "OK"

\* send_all_messages returns with the status of protocol_transmit, and
\* sending_logs is cleared.
SendAllMessages(status) ==
  /\ sending_logs
  /\ sent' = IF status = "OK" THEN sent \o inflight ELSE sent
  /\ msg_buffer_len' = IF Erase(status) THEN 0 ELSE msg_buffer_len
  /\ pending' = IF Erase(status) THEN <<>> ELSE pending
  /\ inflight' = <<>>
  /\ sending_logs' = FALSE
  /\ UNCHANGED <<msg_buffer, enabled, accepted>>

\* logger_start (from ping_callback, in the main loop, so not inside a send).
LoggerStart ==
  /\ ~sending_logs
  /\ msg_buffer_len' = 0
  /\ enabled' = TRUE
  /\ pending' = <<>>
  /\ sent' = <<>>
  /\ accepted' = <<>>
  /\ UNCHANGED <<msg_buffer, sending_logs, inflight>>

\* logger_stop: the buffer keeps what was not sent.
LoggerStop ==
  /\ ~sending_logs
  /\ enabled' = FALSE
  /\ UNCHANGED <<msg_buffer, msg_buffer_len, sending_logs, pending, inflight,
                 sent, accepted>>

Next ==
  \/ \E length \in LineLengths : Process(length)
  \/ Panic
  \/ \E status \in {"OK", "BUSY"} : SendAllMessages(status)
  \/ LoggerStart
  \/ LoggerStop

Spec == Init /\ [][Next]_vars

-----------------------------------------------------------------------------
\* Type invariant.
TypeOK ==
  /\ msg_buffer \in [Index -> Cell]
  /\ msg_buffer_len \in Nat
  /\ sending_logs \in BOOLEAN
  /\ enabled \in BOOLEAN
  /\ pending \in Seq(Record)
  /\ inflight \in Seq(Record)
  /\ sent \in Seq(Record)
  /\ accepted \in Seq(Record)

\* The next size field always has a cell of its own: process writes
\* msg_buffer[msg_buffer_len] without a bound check (logger.c:100), so the
\* bound in render_character has to keep msg_buffer_len inside the buffer
\* however many lines pile up while the protocol is busy.
SizeFieldInBounds == msg_buffer_len < CONFIG_KENNING_LOG_BUFFER_SIZE

RecordEnd(r) == r.start + 1 + r.size

\* The bytes handed to protocol_transmit parse as the records that were
\* logged: records lie one after another from the start of the buffer, each
\* size field is intact and tells the number of characters that follow, and
\* the characters are the beginning of the line, in order.  A record that
\* overwrote another, or a size that disagrees with msg_buffer_len, would
\* make the client misread every later line of the buffer.
Framing ==
  /\ pending = <<>> => msg_buffer_len = 0
  /\ \A i \in DOMAIN pending :
       /\ pending[i].start = IF i = 1 THEN 0 ELSE RecordEnd(pending[i - 1])
       /\ i = Len(pending) => RecordEnd(pending[i]) = msg_buffer_len
       /\ msg_buffer[pending[i].start] = SizeCell(pending[i].size)
       /\ \A k \in 1 .. pending[i].size :
            msg_buffer[pending[i].start + k] = CharCell(pending[i].line, k)

\* Over refused transmissions, flushes and restarts, every line put into the
\* buffer in a session is delivered at most once, in the order logged, and is
\* never dropped once accepted: it is either still waiting or was sent.
DeliveredOnceInOrder == accepted = sent \o pending
=============================================================================
