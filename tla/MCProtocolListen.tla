-------------------------- MODULE MCProtocolListen --------------------------
(***************************************************************************)
(* Instance of ProtocolListen for TLC.  Loaders hold three units and a     *)
(* read takes two, so that a payload of three takes two reads and one of   *)
(* five is refused in the middle.  The scripts are what Kenning sends and  *)
(* one of each kind of message the code has a branch for.                  *)
(***************************************************************************)
EXTENDS ProtocolListen

Msg(type, flow, first, last, size) ==
  [type |-> type, flow |-> flow, first |-> first, last |-> last,
   has_payload |-> size > 0, payload_size |-> size]

MCScripts == {
  \* a request without payload, with and without a loader for its type
  <<Msg("PING", "REQUEST", TRUE, TRUE, 0)>>,
  <<Msg("DATA", "REQUEST", TRUE, TRUE, 0)>>,
  \* one message; a series of two
  <<Msg("DATA", "TRANSMISSION", TRUE, TRUE, 3)>>,
  <<Msg("DATA", "REQUEST", TRUE, FALSE, 1), Msg("DATA", "REQUEST", FALSE, TRUE, 2)>>,
  \* a payload larger than the loader
  <<Msg("DATA", "REQUEST", TRUE, TRUE, 5)>>,
  \* a loader whose reset can fail
  <<Msg("RUNTIME", "REQUEST", TRUE, TRUE, 2)>>,
  \* a client that stops after the first message of a series
  <<Msg("DATA", "REQUEST", TRUE, FALSE, 1)>>,
  \* refused first messages: flow control, flags, type
  <<Msg("DATA", "ACKNOWLEDGE", TRUE, TRUE, 2)>>,
  <<Msg("DATA", "REQUEST", FALSE, TRUE, 2)>>,
  <<Msg("UNKNOWN", "REQUEST", TRUE, TRUE, 1)>>,
  \* refused later messages: type, flow control
  <<Msg("DATA", "REQUEST", TRUE, FALSE, 1), Msg("PING", "REQUEST", FALSE, TRUE, 1)>>,
  <<Msg("DATA", "REQUEST", TRUE, FALSE, 1), Msg("DATA", "TRANSMISSION", FALSE, FALSE, 2)>> }

\* Payload bytes read as a header: one that is refused, with a payload to
\* drain; one that is accepted.  (One naming a type without loader and
\* claiming a payload is left out: protocol_listen would call through NULL.)
MCGarbageHeaders == {
  Msg("DATA", "ACKNOWLEDGE", FALSE, FALSE, 2),
  Msg("DATA", "REQUEST", TRUE, TRUE, 1) }
=============================================================================
