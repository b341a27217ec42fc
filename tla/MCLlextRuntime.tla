--------------------------- MODULE MCLlextRuntime ---------------------------
(* Instance of LlextRuntime for TLC: two graphs, a heap of two units, and  *)
(* RUNTIME payloads that are shorter than their size field, that fit       *)
(* exactly, and that do not fit, read three units at a time.  Tensors are  *)
(* of one size, input of that size or missing.                             *)
EXTENDS LlextRuntime

MCHalfBytes == [h \in 0 .. 1 |-> h]
=============================================================================
