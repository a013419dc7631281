--------------------------- MODULE PalettedChunk ---------------------------
(***************************************************************************)
(* One PalettedChunk (src/native/voxel_store/palette_chunk.cpp): block ids *)
(* are interned in a palette that only grows, and a voxel holds an index   *)
(* into it, packed in bits_ bits.  The index buffer exists only while the  *)
(* palette has more than one entry; an entry too many for the width makes  *)
(* the whole buffer be copied into a wider one.  A write that covers the   *)
(* chunk starts over with a palette of one.                                *)
(***************************************************************************)
EXTENDS Integers, Sequences, FiniteSets

CONSTANTS
  Voxels,   \* voxel positions (index_of: 0 .. kChunkVoxels - 1)
  Boxes,    \* the sub-boxes fill_box may be given, as sets of positions
  Blocks,   \* block ids
  Air,      \* block id 0
  Widths,   \* the widths of an index: 0, 1, 2, 4, 8, 16
  Cap,      \* Cap[w] = 2^w: how many indices w bits tell apart
  Packed    \* "bits_ > 0"

ASSUME ChunkShape ==
  /\ Voxels # {} /\ Boxes \subseteq SUBSET Voxels
  /\ Air \in Blocks /\ Packed \notin Blocks
  /\ IsFiniteSet(Blocks)

ASSUME WidthsFit ==
  /\ Widths \subseteq Nat /\ 0 \in Widths
  /\ Cap \in [Widths -> Nat \ {0}] /\ Cap[0] = 1
  /\ \A v, w \in Widths : v < w => Cap[v] < Cap[w]
  /\ \E w \in Widths : Cardinality(Blocks) <= Cap[w]

VARIABLES
  chunk,    \* bits_, palette_ and indices_
  changed   \* what the last set or fill_box returned

vars == <<chunk, changed>>

NoBuffer == <<>>

\* A new chunk is uniform air.
Fresh == [bits |-> 0, palette |-> <<Air>>, indices |-> NoBuffer]

\* bits_for_palette: the narrowest width that tells n entries apart.
BitsFor(n) ==
  CHOOSE w \in Widths : n <= Cap[w] /\ \A v \in Widths : n <= Cap[v] => w <= v

ReadIndex(ch, i) == IF ch.bits = 0 THEN 0 ELSE ch.indices[i]

\* get and copy_voxels: an index without an entry reads as air.
Get(ch, i) ==
  IF ch.bits = 0 THEN ch.palette[1]
  ELSE IF ReadIndex(ch, i) < Len(ch.palette) THEN ch.palette[ReadIndex(ch, i) + 1]
  ELSE Air

\* Mutant of GrowBits: the wider buffer is left zeroed.
GrowBitsZeroed(ch, w) ==
  [ch EXCEPT !.bits = w, !.indices = [i \in Voxels |-> 0]]

\* grow_bits: the buffer transcoded to w bits an index, which masks each of
\* them; the buffer of a uniform chunk starts as zeros.
GrowBits(ch, w) ==
  [ch EXCEPT !.bits = w,
             !.indices = [i \in Voxels |-> ReadIndex(ch, i) % Cap[w]]]

Entries(ch) == {ch.palette[k] : k \in DOMAIN ch.palette}

\* Mutant of Interned: the width is the one the palette needed before.
InternedLate(ch, b) ==
  IF b \in Entries(ch) THEN ch
  ELSE LET longer == [ch EXCEPT !.palette = Append(@, b)]
           need   == IF ch.bits = 0 THEN BitsFor(2) ELSE BitsFor(Len(ch.palette))
       IN IF need > ch.bits THEN GrowBits(longer, need) ELSE longer

\* intern_palette: b gets an entry, at the end, and the buffer a width that
\* can name it.
Interned(ch, b) ==
  IF b \in Entries(ch) THEN ch
  ELSE LET longer == [ch EXCEPT !.palette = Append(@, b)]
           need   == BitsFor(Len(longer.palette))
       IN IF need > ch.bits THEN GrowBits(longer, need) ELSE longer

\* The index intern_palette returns: the first entry that holds b.
IndexOf(ch, b) ==
  (CHOOSE k \in DOMAIN ch.palette :
     ch.palette[k] = b /\ \A j \in 1 .. k - 1 : ch.palette[j] # b) - 1

\* The voxels of a box whose index is not k yet: the ones a write touches.
Stale(ch, box, k) == {i \in box : ReadIndex(ch, i) # k}

\* write_index on each of them: only the low bits of k are stored.
WriteIndices(ch, stale, k) ==
  IF stale = {} THEN ch
  ELSE [ch EXCEPT !.indices =
          [i \in Voxels |-> IF i \in stale THEN k % Cap[ch.bits] ELSE @[i]]]

FillUniform(b) == [bits |-> 0, palette |-> <<b>>, indices |-> NoBuffer]

UniformOf(b) == chunk.bits = 0 /\ chunk.palette[1] = b

-----------------------------------------------------------------------------
Init == chunk = Fresh /\ changed = FALSE

\* Intern once, then write the indices that differ.
Put(box, b) ==
  LET ch    == Interned(chunk, b)
      k     == IndexOf(ch, b)
      stale == Stale(ch, box, k)
  IN /\ chunk' = WriteIndices(ch, stale, k)
     /\ changed' = (stale # {})

\* set: a uniform chunk that already holds b returns at once.
Set(i, b) ==
  \/ UniformOf(b) /\ changed' = FALSE /\ UNCHANGED chunk
  \/ ~UniformOf(b) /\ Put({i}, b)

\* fill_box on a part of the chunk.
FillPart(box, b) == box # Voxels /\ Put(box, b)

\* fill_box on the whole chunk: fill_uniform, unless that changes nothing.
FillWhole(b) ==
  \/ UniformOf(b) /\ changed' = FALSE /\ UNCHANGED chunk
  \/ ~UniformOf(b) /\ changed' = TRUE /\ chunk' = FillUniform(b)

Next ==
  \E b \in Blocks :
    \/ \E i \in Voxels : Set(i, b)
    \/ \E box \in Boxes : FillPart(box, b)
    \/ FillWhole(b)

Spec == Init /\ [][Next]_vars

-----------------------------------------------------------------------------
(* Properties.                                                             *)

\* The three members have the types of the code.
TypeOK ==
  /\ chunk \in [bits : Widths, palette : Seq(Blocks),
                indices : [Voxels -> Nat] \cup {NoBuffer}]
  /\ changed \in BOOLEAN

\* After any sequence of writes the three members fit each other: no entry
\* twice, a width that is the one the palette needs and no other, a buffer
\* exactly when there is something to index, and no index without an entry.
\* The masks of grow_bits and write_index never cut an index short.
PaletteSound ==
  /\ chunk.palette # <<>>
  /\ \A j, k \in DOMAIN chunk.palette :
       chunk.palette[j] = chunk.palette[k] => j = k
  /\ chunk.bits = BitsFor(Len(chunk.palette))
  /\ chunk.bits = 0 <=> chunk.indices = NoBuffer
  /\ \A i \in Voxels : ReadIndex(chunk, i) < Len(chunk.palette)

\* What a chunk's content is, and the flag the column sees.
Content == [i \in Voxels |-> Get(chunk, i)]
Uniform == IF chunk.bits = 0 THEN chunk.palette[1] ELSE Packed

Plain == INSTANCE VoxelArray WITH content <- Content, uniform <- Uniform

\* A chunk is an array of block ids: interning, growing and falling back to
\* one value never change a voxel that was not written, and a write that
\* changes a voxel always says so.
ImplementsVoxelArray == Plain!Spec
=============================================================================
