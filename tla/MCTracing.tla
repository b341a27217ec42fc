------------------------------ MODULE MCTracing ------------------------------
(* Instance of Tracing for TLC: the logger with a buffer of five bytes,    *)
(* records of at most four characters and lines of three and five, so that *)
(* lines are cut by either limit, to one character or to none, and the     *)
(* buffer fills up while the protocol stays busy; a trace buffer of four   *)
(* bytes for events of one and two.                                        *)
EXTENDS Tracing
=============================================================================
