---------------------------- MODULE ColumnCodec ----------------------------
(***************************************************************************)
(* A column's payload in a region file (serialize_column and               *)
(* deserialize_column in region_io.cpp, serialize_into and                 *)
(* deserialize_from in palette_chunk.cpp), byte by byte: a count of        *)
(* chunks, then for each chunk its width, its palette size in one byte,    *)
(* its palette and its index buffer, with nothing between them.  The       *)
(* column has two chunks: the one PackedChunk edits, and Other above it.   *)
(***************************************************************************)
EXTENDS PackedChunk

CONSTANT Other   \* the other chunk of the column: [bits, palette, buffer]

\* The largest size the palette-size byte can say (255).
SizeByteMax == ByteSize - 1

\* Block ids have two bytes, and the other chunk is one whose palette fits.
ASSUME OtherFits ==
  /\ Blocks \subseteq 0 .. ByteSize * ByteSize - 1
  /\ Other \in [bits : Widths, palette : Seq(Blocks), buffer : Seq(0 .. SizeByteMax)]
  /\ Len(Other.palette) \in 1 .. SizeByteMax
  /\ Len(Other.buffer) = IndexBytes(Other.bits)

\* A chunk as the serialiser sees it.
Image(ch, buf) == [bits |-> ch.bits, palette |-> ch.palette, buffer |-> buf]
Column == <<Image(chunk, buffer), Other>>

\* Two bytes for each entry, the low one first.
PaletteBytes(palette) ==
  [p \in 1 .. 2 * Len(palette) |->
     LET v == palette[(p + 1) \div 2]
     IN IF p % 2 = 1 THEN v % ByteSize ELSE v \div ByteSize]

\* serialize_into: the size byte saturates, the palette is written whole.
SerializeChunk(im) ==
  LET n == Len(im.palette)
  IN <<im.bits, IF n < SizeByteMax THEN n ELSE SizeByteMax>>
     \o PaletteBytes(im.palette) \o im.buffer

\* serialize_column, chunk after chunk.
SerializeColumn(col) ==
  LET out[ci \in 0 .. Len(col)] ==
        IF ci = 0 THEN <<Len(col)>> ELSE out[ci - 1] \o SerializeChunk(col[ci])
  IN out[Len(col)]

\* How many bytes the chunk that starts after off claims, by its width and
\* its size byte (deserialize_column and deserialize_from agree on it).
ChunkSize(in, off) == 2 + 2 * in[off + 2] + IndexBytes(in[off + 1])

\* Mutant of ReadChunk: the high byte of a palette entry is ignored.
ReadChunkLow(in, off) ==
  LET n == in[off + 2]
      start == off + 2 + 2 * n
  IN [bits |-> in[off + 1],
      palette |-> [k \in 1 .. n |-> in[off + 2*k + 1]],
      buffer |-> SubSeq(in, start + 1, start + IndexBytes(in[off + 1]))]

\* deserialize_from, on the slice deserialize_column cut for it.
ReadChunk(in, off) ==
  LET n == in[off + 2]
      start == off + 2 + 2 * n
  IN [bits |-> in[off + 1],
      palette |-> IF n = 0 THEN <<Air>>
                  ELSE [k \in 1 .. n |-> in[off + 2*k + 1] + ByteSize * in[off + 2*k + 2]],
      buffer |-> SubSeq(in, start + 1, start + IndexBytes(in[off + 1]))]

\* One turn of deserialize_column's loop, from the state st of its locals:
\* the offset reached, the chunks overwritten so far, and no refusal yet.
ReadNext(in, st, ci) ==
  IF \/ ~st.ok
     \/ st.off + 2 > Len(in)
     \/ in[st.off + 1] \notin Widths
     \/ st.off + ChunkSize(in, st.off) > Len(in)
  THEN [st EXCEPT !.ok = FALSE]
  ELSE [ok |-> TRUE, off |-> st.off + ChunkSize(in, st.off),
        col |-> [st.col EXCEPT ![ci] = ReadChunk(in, st.off)]]

\* deserialize_column, into a column col of the same shape: whether it is
\* accepted, and what the column holds afterwards, accepted or not.
DeserializeColumn(in, col) ==
  IF in[1] # Len(col) THEN [ok |-> FALSE, col |-> col]
  ELSE LET after[ci \in 0 .. Len(col)] ==
             IF ci = 0 THEN [ok |-> TRUE, off |-> 1, col |-> col]
             ELSE ReadNext(in, after[ci - 1], ci)
           st == after[Len(col)]
       IN [ok |-> st.ok /\ st.off = Len(in), col |-> st.col]

\* load_or_create_column loads into a column of fresh chunks, and keeps it
\* whatever the loader answers.
FreshColumn == <<Image(Fresh, <<>>), Image(Fresh, <<>>)>>
Reloaded == DeserializeColumn(SerializeColumn(Column), FreshColumn)

-----------------------------------------------------------------------------
(* Properties.                                                             *)

\* DESIGN.md:342, and :130 for more than 256 block types: a column that is
\* written out and loaded again is the same column.
ColumnRoundTrips ==
  Reloaded.ok /\ Reloaded.col = Column

\* As long as the palette size fits its byte, loading gives back the column
\* as it was, in every representation its chunks can be in.
SmallPalettesRoundTrip ==
  Len(chunk.palette) <= SizeByteMax => ColumnRoundTrips
=============================================================================
