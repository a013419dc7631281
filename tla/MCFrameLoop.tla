---------------------------- MODULE MCFrameLoop ----------------------------
(* FrameLoop with two frames in flight, two slots and three extents.       *)
EXTENDS FrameLoop
=============================================================================
