------------------------- MODULE MCInferenceServer --------------------------
(* Instance of InferenceServer for TLC: inputs and outputs of one and two  *)
(* bytes, of which two are more than the DATA loader and a response hold;  *)
(* metadata that is rejected, without tensors and with one of one byte;    *)
(* and DATA without payload, of one byte, and of two.                      *)
EXTENDS InferenceServer

MCHalfBytes == [h \in 0 .. 3 |-> IF h = 3 THEN 1 ELSE h]
=============================================================================
