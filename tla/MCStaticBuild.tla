---------------------------- MODULE MCStaticBuild ---------------------------
(* Instance of StaticBuild for TLC: two models that take one byte and give *)
(* one or two; tensors of one byte (1), of one element of two bytes that   *)
(* IREE has no type for (2) and, accepted too, of no bits (4); rejected    *)
(* ones of nine bits (3), of which the runtimes copy two bytes each, and   *)
(* with too many dimensions (5); metadata of both models and of these.     *)
EXTENDS StaticBuild, TLC

CONSTANTS g1, g2, x1, x2

MCGraphSpec ==
  [g \in {g1, g2} |-> IF g = g1 THEN [input |-> 1, output |-> 2] ELSE [input |-> 2, output |-> 1]]

MCTensor ==
  [h \in 1 .. 5 |->
     CASE h \in {1, 4, 5} ->
            [shape |-> IF h = 5 THEN <<1, 1, 1, 1, 1>> ELSE <<1>>,
             bits |-> IF h = 4 THEN 0 ELSE 8, code |-> "INT"]
       [] h = 2 -> [shape |-> <<1>>, bits |-> 16, code |-> "BFLOAT"]
       [] h = 3 -> [shape |-> <<2>>, bits |-> 9, code |-> "INT"]]

MCHalfBytes == [h \in 0 .. 5 |-> IF h = 0 THEN 0 ELSE ModelBytes(MCTensor[h])]

MCSentSpecs == {<<1, 2>>, <<2, 1>>, <<1, 4>>, <<5, 3>>, <<0, 0>>}

ASSUME MCSizesFit == SizesFit

Symmetric == Permutations({x1, x2})
=============================================================================
