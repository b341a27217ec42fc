------------------------- MODULE MCProtocolTransmit -------------------------
(* Instance of ProtocolTransmit for TLC: messages of at most two bytes, so *)
(* that events of up to five bytes take one to three messages, the last    *)
(* one full or not, and calls nest three deep.                             *)
EXTENDS ProtocolTransmit
=============================================================================
