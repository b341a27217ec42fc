------------------------------- MODULE MCAi8x -------------------------------
(* Instance of Ai8x for TLC: a network with an entry of two words of       *)
(* weights and one of biases, whose words are zero and an address; one     *)
(* with two entries of weights that overlap and no biases; and one with    *)
(* nothing.  An inference times out after two milliseconds.                *)
EXTENDS Ai8x

Chunk(addr, words) == [addr |-> addr, words |-> words]

SomeNetworks ==
  {[weights |-> <<Chunk(1, <<0, 4>>)>>, biases |-> <<Chunk(5, <<0>>)>>],
   [weights |-> <<Chunk(2, <<3, 2>>), Chunk(3, <<5, 0>>)>>, biases |-> <<>>],
   [weights |-> <<>>, biases |-> <<>>]}
=============================================================================
