--------------------------- MODULE MCColumnCodec ---------------------------
(* PackedChunk and ColumnCodec with bytes of two bits and two voxels.      *)
EXTENDS ColumnCodec

MCVoxels == 0 .. 1
MCBoxes == {{0}, {1}}
MCWidths == {0, 1, 2, 4}
MCCap == [w \in MCWidths |-> 2^w]
MCOther == [bits |-> 1, palette |-> <<0, 2>>, buffer |-> <<2>>]
=============================================================================
