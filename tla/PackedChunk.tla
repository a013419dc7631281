---------------------------- MODULE PackedChunk ----------------------------
(***************************************************************************)
(* The index buffer of a PalettedChunk as its bytes (indices_): several    *)
(* narrow indices to a byte, or one index over two bytes.  Every operation *)
(* of PalettedChunk carries here what it does to those bytes, read by read *)
(* and write by write, so that the array of indices PalettedChunk speaks   *)
(* of can be compared with what the bytes hold.                            *)
(***************************************************************************)
EXTENDS PalettedChunk

CONSTANT ByteBits   \* 8: bits in a byte, half the widest index

\* 1 << n, for shifts of up to the widest index.
Pow2[n \in 0 .. 2 * ByteBits] == IF n = 0 THEN 1 ELSE 2 * Pow2[n - 1]

ASSUME ByteLayout ==
  /\ ByteBits \in Nat \ {0}
  /\ IsFiniteSet(Voxels) /\ Voxels = 0 .. Cardinality(Voxels) - 1
  /\ \A w \in Widths : /\ Cap[w] = Pow2[w]
                       /\ w = 0 \/ ByteBits % w = 0 \/ w = 2 * ByteBits
                       /\ (Cardinality(Voxels) * w) % ByteBits = 0

VARIABLE buffer     \* indices_, a sequence of bytes

packedVars == <<chunk, changed, buffer>>

ByteSize == Pow2[ByteBits]

\* indices_bytes
IndexBytes(w) == (Cardinality(Voxels) * w) \div ByteBits

ZeroBytes(n) == [p \in 1 .. n |-> 0]

\* Where the bits of index i start: a byte of the buffer, and a shift in it.
ByteOf(i, w)  == (i * w) \div ByteBits + 1
ShiftOf(i, w) == Pow2[(i * w) % ByteBits]

\* read_index
ReadPacked(buf, w, i) ==
  LET p == ByteOf(i, w)
  IN IF w = 0 THEN 0
     ELSE IF w = 2 * ByteBits THEN buf[p] + ByteSize * buf[p + 1]
     ELSE IF w = ByteBits THEN buf[p]
     ELSE (buf[p] \div ShiftOf(i, w)) % Cap[w]

\* Mutant of WritePacked: an index over two bytes loses its high one.
WritePackedLow(buf, w, i, idx) ==
  LET p     == ByteOf(i, w)
      shift == ShiftOf(i, w)
      cleared == buf[p] - ((buf[p] \div shift) % Cap[w]) * shift
  IN IF w >= ByteBits THEN [buf EXCEPT ![p] = idx % ByteSize]
     ELSE [buf EXCEPT ![p] = cleared + (idx % Cap[w]) * shift]

\* write_index: the wide widths overwrite their bytes, the narrow ones clear
\* and set their bits of a byte that other indices share.
WritePacked(buf, w, i, idx) ==
  LET p     == ByteOf(i, w)
      shift == ShiftOf(i, w)
      cleared == buf[p] - ((buf[p] \div shift) % Cap[w]) * shift
  IN IF w = 2 * ByteBits
     THEN [buf EXCEPT ![p] = idx % ByteSize, ![p + 1] = (idx \div ByteSize) % ByteSize]
     ELSE IF w = ByteBits THEN [buf EXCEPT ![p] = idx % ByteSize]
     ELSE [buf EXCEPT ![p] = cleared + (idx % Cap[w]) * shift]

\* grow_bits: voxel by voxel from the old buffer into a zeroed one; out[n] is
\* the new buffer when n voxels have been copied.
Transcode(buf, old, new) ==
  LET out[n \in 0 .. Cardinality(Voxels)] ==
        IF n = 0 THEN ZeroBytes(IndexBytes(new))
        ELSE WritePacked(out[n - 1], new, n - 1, ReadPacked(buf, old, n - 1))
  IN out[Cardinality(Voxels)]

\* The buffer after intern_palette has made room for b.
BufferInterned(b) ==
  LET new == Interned(chunk, b).bits
  IN IF new > chunk.bits THEN Transcode(buffer, chunk.bits, new) ELSE buffer

\* The loop of fill_box, or the one write of set: read, compare, write.
BufferPut(box, b) ==
  LET ch == Interned(chunk, b)
      k  == IndexOf(ch, b)
      out[n \in 0 .. Cardinality(Voxels)] ==
        IF n = 0 THEN BufferInterned(b)
        ELSE LET buf == out[n - 1]
             IN IF n - 1 \notin box \/ ReadPacked(buf, ch.bits, n - 1) = k THEN buf
                ELSE WritePacked(buf, ch.bits, n - 1, k)
  IN out[Cardinality(Voxels)]

PackedInit == Init /\ buffer = <<>>

PackedSet(i, b) ==
  /\ Set(i, b)
  /\ buffer' = IF UniformOf(b) THEN buffer ELSE BufferPut({i}, b)

PackedFillPart(box, b) == FillPart(box, b) /\ buffer' = BufferPut(box, b)

PackedFillWhole(b) ==
  /\ FillWhole(b)
  /\ buffer' = IF UniformOf(b) THEN buffer ELSE <<>>

PackedNext ==
  \E b \in Blocks :
    \/ \E i \in Voxels : PackedSet(i, b)
    \/ \E box \in Boxes : PackedFillPart(box, b)
    \/ PackedFillWhole(b)

PackedSpec == PackedInit /\ [][PackedNext]_packedVars

-----------------------------------------------------------------------------
(* Properties.                                                             *)

\* The bytes hold exactly the indices the chunk is described by: a write
\* never touches a neighbour in the same byte, at any width, and a copy into
\* wider indices keeps every one of them.
BytesHoldIndices ==
  /\ DOMAIN buffer = 1 .. IndexBytes(chunk.bits)
  /\ \A i \in Voxels : ReadPacked(buffer, chunk.bits, i) = ReadIndex(chunk, i)
=============================================================================
