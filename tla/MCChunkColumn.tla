--------------------------- MODULE MCChunkColumn ---------------------------
(* ChunkColumn on small stacks.  Int16Min is scaled down with the heights. *)
EXTENDS ColumnWalk

MCBaseBelowZero == -1
MCSmallInt16Min == -8
=============================================================================
