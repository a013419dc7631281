--------------------------- MODULE MCGreedyMesher ---------------------------
(* GreedyMesher on chunks of three voxels a side: every filling of the     *)
(* upper corner of two voxels a side, and every filling of the middle      *)
(* layer.                                                                  *)
EXTENDS GreedyMesher

CONSTANT Stone

Filled(S) == [c \in Cube |-> IF c \in S THEN Stone ELSE IF c = <<0, 0, 0>> THEN Water ELSE Air]

MCFillings ==
  {Filled(S) : S \in SUBSET ((1 .. 2) \X (1 .. 2) \X (1 .. 2))}
    \cup {Filled(S) : S \in SUBSET ({1} \X Coords \X Coords)}

MCEdited == {<<1, 1, 1>>}
=============================================================================
