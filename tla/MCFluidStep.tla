---------------------------- MODULE MCFluidStep ----------------------------
(* A world three voxels wide and high and one deep, for TLC.                 *)
EXTENDS FluidStep

MCWorld == (0..2) \X (-1..1) \X {0}
MCPlayerChunks == {<<0, 0>>, <<1, 0>>}
=============================================================================
