------------------------ MODULE PalettedChunkProofs ------------------------
(***************************************************************************)
(* What holds of a paletted chunk of any size, any set of block ids and    *)
(* any widths wide enough for them: palette, width and buffer always fit   *)
(* each other, and the chunk implements an array of block ids.  Its bytes, *)
(* of any width, hold exactly those indices; and a column of chunks whose  *)
(* palettes fit the size byte is loaded back as it was written, but a      *)
(* larger palette is not.                                                  *)
(***************************************************************************)
EXTENDS ColumnCodec, FiniteSetTheorems, SequenceTheorems, WellFoundedInduction, TLAPS

\* TypeOK and PaletteSound of any chunk value, not only of the variable.
ChunkOK(ch) ==
  /\ ch \in [bits : Widths, palette : Seq(Blocks),
             indices : [Voxels -> Nat] \cup {NoBuffer}]
  /\ ch.palette # <<>>
  /\ \A j, k \in DOMAIN ch.palette : ch.palette[j] = ch.palette[k] => j = k
  /\ ch.bits = BitsFor(Len(ch.palette))
  /\ ch.bits = 0 <=> ch.indices = NoBuffer
  /\ \A i \in Voxels : ReadIndex(ch, i) < Len(ch.palette)

-----------------------------------------------------------------------------
(* Widths and palettes.                                                    *)

\* A palette without repetition has at most one entry per block id.
LEMMA PaletteFits ==
  ASSUME NEW pal \in Seq(Blocks),
         \A j, k \in DOMAIN pal : pal[j] = pal[k] => j = k
  PROVE  Len(pal) <= Cardinality(Blocks)
<1>1. Len(pal) \in Nat /\ DOMAIN pal = 1 .. Len(pal) /\ pal \in [1 .. Len(pal) -> Blocks]
  OBVIOUS
<1>2. pal \in Injection(1 .. Len(pal), Blocks)
  BY <1>1 DEF Injection, IsInjective
<1>3. Cardinality(1 .. Len(pal)) <= Cardinality(Blocks)
  BY <1>2, ChunkShape, FS_Injection
<1>4. Cardinality(1 .. Len(pal)) = Len(pal)
  BY <1>1, FS_Interval
<1> QED BY <1>3, <1>4

\* A nonempty set of natural numbers has a least element: below one of its
\* members, the segments 0..y, y in the set, are well-founded by inclusion.
LEMMA NatMin ==
  ASSUME NEW S, S \subseteq Nat, S # {}
  PROVE  \E m \in S : \A z \in S : m <= z
<1>1. PICK x \in S : x \in Nat
  OBVIOUS
<1> DEFINE U == {X \in SUBSET (0 .. x) : \E y \in S : X = 0 .. y}
<1>2. IsWellFoundedOn(StrictSubsetOrdering(0 .. x), SUBSET (0 .. x))
  <2>1. IsFiniteSet(0 .. x)
    BY <1>1, FS_Interval
  <2> QED BY <2>1, FS_StrictSubsetOrderingWellFounded, FS_FiniteSubsetsOfFinite
<1>3. U \subseteq SUBSET (0 .. x) /\ 0 .. x \in U
  BY <1>1
<1> HIDE DEF U
<1>4. PICK X \in U : \A Y \in U : ~ (<<Y, X>> \in StrictSubsetOrdering(0 .. x))
  BY <1>2, <1>3, WFMin
<1>5. PICK m \in S : X = 0 .. m
  BY <1>4 DEF U
<1>6. m \in Nat /\ m <= x
  <2>1. m \in Nat /\ m \in 0 .. m /\ 0 .. m \subseteq 0 .. x
    BY <1>3, <1>5
  <2> QED BY <2>1
<1>7. ASSUME NEW z \in S PROVE m <= z
  <2> SUFFICES ASSUME z < m PROVE FALSE
    BY <1>6, <1>7
  <2>1. z \in Nat /\ 0 .. z \subseteq 0 .. m /\ 0 .. z # 0 .. m
    <3>1. z \in Nat /\ m \in 0 .. m /\ m \notin 0 .. z
      BY <1>6
    <3> QED BY <3>1, <1>6
  <2>2. 0 .. z \in U
    BY <2>1, <1>6, <1>1 DEF U
  <2>3. <<0 .. z, 0 .. m>> \in StrictSubsetOrdering(0 .. x)
    BY <2>1, <2>2, <1>3, <1>5 DEF StrictSubsetOrdering
  <2> QED BY <2>2, <2>3, <1>4, <1>5
<1> QED BY <1>7

\* bits_for_palette finds a width for every palette the chunk can have, and
\* width 0 for a palette of one only.
LEMMA BitsForFits ==
  ASSUME NEW n \in Nat \ {0}, n <= Cardinality(Blocks)
  PROVE  /\ BitsFor(n) \in Widths
         /\ n <= Cap[BitsFor(n)]
         /\ BitsFor(n) = 0 <=> n = 1
<1> DEFINE S == {w \in Widths : n <= Cap[w]}
<1>1. Cardinality(Blocks) \in Nat
  BY ChunkShape, FS_CardinalityType
<1>2. S \subseteq Nat /\ S # {}
  <2>1. PICK w \in Widths : Cardinality(Blocks) <= Cap[w]
    BY WidthsFit
  <2>2. Cap[w] \in Nat /\ n <= Cap[w]
    BY <1>1, <2>1, WidthsFit
  <2> QED BY <2>2, WidthsFit
<1>3. PICK m \in S : \A z \in S : m <= z
  BY <1>2, NatMin
<1>4. /\ BitsFor(n) \in Widths /\ n <= Cap[BitsFor(n)]
      /\ \A v \in Widths : n <= Cap[v] => BitsFor(n) <= v
  BY <1>3 DEF BitsFor
<1>5. n = 1 => BitsFor(n) = 0
  <2>1. 0 \in Widths /\ Cap[0] = 1 /\ BitsFor(n) \in Nat
    BY <1>4, WidthsFit
  <2> QED BY <2>1, <1>4
<1>6. BitsFor(n) = 0 => n = 1
  BY <1>4, WidthsFit
<1> QED BY <1>4, <1>5, <1>6

\* A wider palette never asks for a narrower index.
LEMMA BitsForGrows ==
  ASSUME NEW n \in Nat \ {0}, n + 1 <= Cardinality(Blocks)
  PROVE  BitsFor(n) <= BitsFor(n + 1)
<1> DEFINE S == {w \in Widths : n <= Cap[w]}
<1>1. Cardinality(Blocks) \in Nat
  BY ChunkShape, FS_CardinalityType
<1>2. S \subseteq Nat /\ S # {}
  <2>1. PICK w \in Widths : Cardinality(Blocks) <= Cap[w]
    BY WidthsFit
  <2>2. Cap[w] \in Nat /\ n <= Cap[w]
    BY <1>1, <2>1, WidthsFit
  <2> QED BY <2>2, WidthsFit
<1>3. PICK m \in S : \A z \in S : m <= z
  BY <1>2, NatMin
<1>4. \A v \in Widths : n <= Cap[v] => BitsFor(n) <= v
  BY <1>3 DEF BitsFor
<1>5. BitsFor(n + 1) \in Widths /\ n + 1 <= Cap[BitsFor(n + 1)]
  BY BitsForFits
<1>6. Cap[BitsFor(n + 1)] \in Nat
  BY <1>5, WidthsFit
<1>7. n <= Cap[BitsFor(n + 1)]
  BY <1>5, <1>6
<1> QED BY <1>4, <1>5, <1>7

\* Every index a sound chunk stores fits its width.
LEMMA IndicesFit ==
  ASSUME NEW ch, ChunkOK(ch)
  PROVE  /\ Len(ch.palette) \in Nat \ {0}
         /\ Len(ch.palette) <= Cardinality(Blocks)
         /\ Cap[ch.bits] \in Nat \ {0} /\ Len(ch.palette) <= Cap[ch.bits]
         /\ ch.bits = 0 <=> Len(ch.palette) = 1
         /\ \A i \in Voxels : ReadIndex(ch, i) \in Nat
<1>1. Len(ch.palette) \in Nat \ {0}
  BY DEF ChunkOK
<1>2. Len(ch.palette) <= Cardinality(Blocks)
  BY PaletteFits DEF ChunkOK
<1>3. \A i \in Voxels : ReadIndex(ch, i) \in Nat
  BY DEF ChunkOK, ReadIndex
<1> QED BY <1>1, <1>2, <1>3, BitsForFits, WidthsFit DEF ChunkOK

\* In a sound chunk every voxel reads an entry of the palette.
LEMMA GetsEntry ==
  ASSUME NEW ch, ChunkOK(ch), NEW i \in Voxels
  PROVE  Get(ch, i) = ch.palette[ReadIndex(ch, i) + 1]
BY DEF ChunkOK, Get, ReadIndex

\* IndexOf names the entry it was asked for.
LEMMA IndexOfNames ==
  ASSUME NEW ch, ChunkOK(ch), NEW b \in Entries(ch)
  PROVE  /\ IndexOf(ch, b) \in 0 .. Len(ch.palette) - 1
         /\ ch.palette[IndexOf(ch, b) + 1] = b
<1>1. PICK k \in DOMAIN ch.palette : ch.palette[k] = b
  BY DEF Entries
<1>2. DOMAIN ch.palette = 1 .. Len(ch.palette) /\ Len(ch.palette) \in Nat
  BY DEF ChunkOK
<1>3. \A j \in 1 .. k - 1 : ch.palette[j] # b
  BY <1>1, <1>2 DEF ChunkOK
<1>4. \E n \in DOMAIN ch.palette :
        ch.palette[n] = b /\ \A j \in 1 .. n - 1 : ch.palette[j] # b
  BY <1>1, <1>3
<1>5. PICK n \in DOMAIN ch.palette : n - 1 = IndexOf(ch, b) /\ ch.palette[n] = b
  BY <1>4 DEF IndexOf
<1>6. n \in Int /\ n - 1 + 1 = n
  BY <1>2
<1> QED BY <1>2, <1>5, <1>6

-----------------------------------------------------------------------------
(* The steps of a write.                                                   *)

\* Interning keeps the chunk sound and every voxel's value, and leaves the
\* block with an entry; only a uniform chunk of that block stays uniform.
LEMMA InterningIsSound ==
  ASSUME NEW ch, ChunkOK(ch), NEW b \in Blocks
  PROVE  /\ ChunkOK(Interned(ch, b))
         /\ b \in Entries(Interned(ch, b))
         /\ \A i \in Voxels : Get(Interned(ch, b), i) = Get(ch, i)
         /\ ch.bits # 0 \/ ch.palette[1] # b => Interned(ch, b).bits # 0
<1> DEFINE new == Interned(ch, b)
           longer == [ch EXCEPT !.palette = Append(@, b)]
           need == BitsFor(Len(longer.palette))
<1>1. CASE b \in Entries(ch)
  <2>1. new = ch
    BY <1>1 DEF Interned
  <2>2. ch.palette[1] # b => Len(ch.palette) # 1
    BY <1>1 DEF Entries, ChunkOK
  <2> QED BY <2>1, <2>2, <1>1, IndicesFit
<1>2. CASE b \notin Entries(ch)
  <2>1. /\ ch.palette \in Seq(Blocks) /\ Len(ch.palette) \in Nat \ {0}
        /\ longer.palette = Append(ch.palette, b)
        /\ longer.palette \in Seq(Blocks)
        /\ Len(longer.palette) = Len(ch.palette) + 1
        /\ \A k \in 1 .. Len(ch.palette) : longer.palette[k] = ch.palette[k]
        /\ longer.palette[Len(ch.palette) + 1] = b
        /\ longer.bits = ch.bits /\ longer.indices = ch.indices
        /\ longer \in [bits : Widths, palette : Seq(Blocks),
                       indices : [Voxels -> Nat] \cup {NoBuffer}]
    <3>1. /\ ch \in [bits : Widths, palette : Seq(Blocks),
                     indices : [Voxels -> Nat] \cup {NoBuffer}]
          /\ ch.palette # <<>>
      BY DEF ChunkOK
    <3>2. /\ longer.palette = Append(ch.palette, b)
          /\ longer.bits = ch.bits /\ longer.indices = ch.indices
          /\ longer = [bits |-> ch.bits, palette |-> Append(ch.palette, b),
                       indices |-> ch.indices]
      <4>1. longer.palette = Append(ch.palette, b)
        BY <3>1, Zenon
      <4>2. longer.bits = ch.bits /\ longer.indices = ch.indices
        BY <3>1, Zenon
      <4>3. longer \in [bits : Widths, palette : {Append(ch.palette, b)},
                       indices : [Voxels -> Nat] \cup {NoBuffer}]
        BY <3>1, Zenon
      <4> HIDE DEF longer
      <4> QED BY <4>1, <4>2, <4>3
    <3>3. ch.palette \in Seq(Blocks) /\ Len(ch.palette) \in Nat \ {0}
      BY <3>1
    <3> HIDE DEF longer
    <3>4. /\ Append(ch.palette, b) \in Seq(Blocks)
          /\ Len(Append(ch.palette, b)) = Len(ch.palette) + 1
          /\ \A k \in 1 .. Len(ch.palette) :
               Append(ch.palette, b)[k] = ch.palette[k]
          /\ Append(ch.palette, b)[Len(ch.palette) + 1] = b
      BY <3>3
    <3>5. longer \in [bits : Widths, palette : Seq(Blocks),
                      indices : [Voxels -> Nat] \cup {NoBuffer}]
      BY <3>1, <3>2, <3>4
    <3> QED BY <3>2, <3>3, <3>4, <3>5
  <2>2. \A j, k \in DOMAIN longer.palette :
          longer.palette[j] = longer.palette[k] => j = k
    <3>1. DOMAIN longer.palette = 1 .. Len(ch.palette) + 1
      BY <2>1
    <3>2. \A k \in 1 .. Len(ch.palette) : longer.palette[k] # b
      BY <2>1, <1>2 DEF Entries
    <3>3. ASSUME NEW j \in 1 .. Len(ch.palette), NEW k \in 1 .. Len(ch.palette),
                 longer.palette[j] = longer.palette[k]
          PROVE  j = k
      BY <3>3, <2>1 DEF ChunkOK
    <3> QED BY <3>1, <3>2, <3>3, <2>1
  <2>3. Len(ch.palette) + 1 <= Cardinality(Blocks)
    BY <2>1, <2>2, PaletteFits
  <2>4. /\ need \in Widths /\ Len(ch.palette) + 1 <= Cap[need]
        /\ need # 0 /\ need = BitsFor(Len(ch.palette) + 1)
    BY <2>1, <2>3, BitsForFits
  <2>5. ch.bits <= need /\ ch.bits \in Nat /\ need \in Nat /\ Cap[need] \in Nat \ {0}
    <3>1. ch.bits = BitsFor(Len(ch.palette)) /\ ch.bits \in Widths
      BY DEF ChunkOK
    <3> QED BY <3>1, <2>1, <2>3, <2>4, BitsForGrows, WidthsFit
  <2>6. new = IF need > ch.bits THEN GrowBits(longer, need) ELSE longer
    BY <1>2 DEF Interned
  <2>7. \A i \in Voxels : /\ ReadIndex(longer, i) = ReadIndex(ch, i)
                          /\ ReadIndex(ch, i) \in Nat
                          /\ ReadIndex(ch, i) < Len(ch.palette)
    BY <2>1, IndicesFit DEF ReadIndex, ChunkOK
  <2>8. /\ new.palette = longer.palette /\ new.bits = need
        /\ new \in [bits : Widths, palette : Seq(Blocks),
                    indices : [Voxels -> Nat] \cup {NoBuffer}]
        /\ new.indices # NoBuffer
        /\ \A i \in Voxels : ReadIndex(new, i) = ReadIndex(ch, i)
    <3> HIDE DEF longer, need
    <3>1. CASE need > ch.bits
      <4>1. new = [longer EXCEPT !.bits = need,
                     !.indices = [i \in Voxels |-> ReadIndex(longer, i) % Cap[need]]]
        BY <3>1, <2>6 DEF GrowBits
      <4>2. \A i \in Voxels : ReadIndex(longer, i) % Cap[need] = ReadIndex(ch, i)
        <5> SUFFICES ASSUME NEW i \in Voxels
                     PROVE  ReadIndex(ch, i) % Cap[need] = ReadIndex(ch, i)
          BY <2>7
        <5>1. /\ ReadIndex(ch, i) \in Nat /\ Cap[need] \in Nat \ {0}
              /\ ReadIndex(ch, i) < Cap[need]
          BY <2>7, <2>4, <2>5, <2>1
        <5> QED BY <5>1
      <4>3. /\ new.palette = longer.palette /\ new.bits = need
            /\ new.indices = [i \in Voxels |-> ReadIndex(ch, i)]
            /\ new \in [bits : Widths, palette : Seq(Blocks),
                        indices : [Voxels -> Nat] \cup {NoBuffer}]
        <5>1. [i \in Voxels |-> ReadIndex(longer, i) % Cap[need]]
                = [i \in Voxels |-> ReadIndex(ch, i)]
          BY <4>2
        <5>2. [i \in Voxels |-> ReadIndex(ch, i)] \in [Voxels -> Nat]
          BY <2>7
        <5> QED BY <4>1, <5>1, <5>2, <2>1, <2>4
      <4>4. new.indices # NoBuffer
        BY <4>3, ChunkShape DEF NoBuffer
      <4>5. \A i \in Voxels : ReadIndex(new, i) = ReadIndex(ch, i)
        BY <4>3, <2>4 DEF ReadIndex
      <4> QED BY <4>3, <4>4, <4>5
    <3>2. CASE ~ (need > ch.bits)
      <4>1. need = ch.bits /\ new = longer
        BY <3>2, <2>5, <2>6
      <4>2. ch.indices # NoBuffer
        BY <4>1, <2>4 DEF ChunkOK
      <4> QED BY <4>1, <4>2, <2>1, <2>7
    <3> QED BY <3>1, <3>2
  <2> HIDE DEF longer, need, new
  <2>9. ChunkOK(new)
    <3>1. \A i \in Voxels : ReadIndex(new, i) < Len(new.palette)
      BY <2>8, <2>7, <2>1
    <3> QED BY <3>1, <2>1, <2>2, <2>4, <2>8 DEF ChunkOK
  <2>10. b \in Entries(new)
    <3>1. Len(ch.palette) + 1 \in DOMAIN new.palette
      BY <2>8, <2>1
    <3> QED BY <3>1, <2>8, <2>1 DEF Entries
  <2>11. \A i \in Voxels : Get(new, i) = Get(ch, i)
    <3> SUFFICES ASSUME NEW i \in Voxels PROVE Get(new, i) = Get(ch, i)
      OBVIOUS
    <3>1. ReadIndex(ch, i) + 1 \in 1 .. Len(ch.palette)
      BY <2>7, <2>1
    <3> QED BY <3>1, <2>9, <2>8, <2>1, GetsEntry
  <2> QED BY <2>8, <2>9, <2>10, <2>11, <2>4 DEF new
<1> QED BY <1>1, <1>2

\* Writing an entry's index into a box gives that block to the voxels of the
\* box, keeps the others and keeps the chunk sound; there was something to
\* write exactly when some voxel of the box held another block.
LEMMA WritingIsSound ==
  ASSUME NEW ch, ChunkOK(ch), NEW k \in 0 .. Len(ch.palette) - 1,
         NEW box \in SUBSET Voxels
  PROVE  LET stale == Stale(ch, box, k)
             new == WriteIndices(ch, stale, k)
         IN /\ ChunkOK(new) /\ new.bits = ch.bits
            /\ \A i \in Voxels : Get(new, i) =
                 IF i \in box THEN ch.palette[k + 1] ELSE Get(ch, i)
            /\ stale # {} <=> \E i \in box : Get(ch, i) # ch.palette[k + 1]
<1> DEFINE stale == Stale(ch, box, k)
           new == WriteIndices(ch, stale, k)
<1>1. /\ Len(ch.palette) \in Nat \ {0} /\ Cap[ch.bits] \in Nat \ {0}
      /\ Len(ch.palette) <= Cap[ch.bits] /\ k \in Nat /\ k < Len(ch.palette)
      /\ \A i \in Voxels : ReadIndex(ch, i) \in Nat /\ ReadIndex(ch, i) < Len(ch.palette)
  BY IndicesFit DEF ChunkOK
<1>2. \A i \in Voxels : i \in stale <=> i \in box /\ Get(ch, i) # ch.palette[k + 1]
  <2> SUFFICES ASSUME NEW i \in Voxels
               PROVE  ReadIndex(ch, i) # k <=> Get(ch, i) # ch.palette[k + 1]
    BY DEF Stale
  <2>1. ReadIndex(ch, i) + 1 \in DOMAIN ch.palette /\ k + 1 \in DOMAIN ch.palette
    BY <1>1 DEF ChunkOK
  <2>2. ReadIndex(ch, i) + 1 = k + 1 <=> ReadIndex(ch, i) = k
    BY <1>1
  <2>3. ch.palette[ReadIndex(ch, i) + 1] = ch.palette[k + 1]
          <=> ReadIndex(ch, i) + 1 = k + 1
    BY <2>1 DEF ChunkOK
  <2> QED BY <2>2, <2>3, GetsEntry
<1>3. stale \subseteq box
  BY DEF Stale
<1>4. CASE stale = {}
  <2>1. new = ch
    BY <1>4 DEF WriteIndices
  <2> HIDE DEF stale, new
  <2> QED BY <2>1, <1>2, <1>4 DEF stale, new
<1>5. CASE stale # {}
  <2>1. PICK i0 \in stale : TRUE
    BY <1>5
  <2>2. ch.bits # 0
    <3> SUFFICES ASSUME ch.bits = 0 PROVE FALSE
      OBVIOUS
    <3>1. Len(ch.palette) = 1
      BY IndicesFit
    <3>2. k = 0 /\ ReadIndex(ch, i0) = 0
      BY <3>1, <1>1 DEF ReadIndex
    <3> QED BY <3>2, <2>1 DEF Stale
  <2>3. new = [ch EXCEPT !.indices =
                 [i \in Voxels |-> IF i \in stale THEN k % Cap[ch.bits] ELSE @[i]]]
    BY <1>5 DEF WriteIndices
  <2>4. k % Cap[ch.bits] = k
    BY <1>1
  <2>5. ch.indices \in [Voxels -> Nat]
    BY <2>2 DEF ChunkOK
  <2>6. /\ new.bits = ch.bits /\ new.palette = ch.palette
        /\ new.indices = [i \in Voxels |-> IF i \in stale THEN k ELSE ch.indices[i]]
        /\ new \in [bits : Widths, palette : Seq(Blocks),
                    indices : [Voxels -> Nat] \cup {NoBuffer}]
    <3>1. ch \in [bits : Widths, palette : Seq(Blocks),
                  indices : [Voxels -> Nat] \cup {NoBuffer}]
      BY DEF ChunkOK
    <3> HIDE DEF stale, new
    <3>2. [i \in Voxels |-> IF i \in stale THEN k ELSE ch.indices[i]]
            \in [Voxels -> Nat]
      BY <2>5, <1>1
    <3>3. new = [bits |-> ch.bits, palette |-> ch.palette, indices |->
                 [i \in Voxels |-> IF i \in stale THEN k ELSE ch.indices[i]]]
      BY <2>3, <2>4, <3>1
    <3> QED BY <3>1, <3>2, <3>3
  <2> HIDE DEF stale, new
  <2>7. new.indices # NoBuffer
    BY <2>6, ChunkShape DEF NoBuffer
  <2>8. \A i \in Voxels :
          ReadIndex(new, i) = IF i \in stale THEN k ELSE ReadIndex(ch, i)
    BY <2>6, <2>2 DEF ReadIndex
  <2>9. ChunkOK(new)
    <3>1. \A i \in Voxels : ReadIndex(new, i) < Len(new.palette)
      BY <2>8, <2>6, <1>1
    <3> QED BY <3>1, <2>6, <2>7, <2>2 DEF ChunkOK
  <2>10. \A i \in Voxels : Get(new, i) =
           IF i \in stale THEN ch.palette[k + 1] ELSE Get(ch, i)
    BY <2>9, <2>8, <2>6, GetsEntry
  <2>11. \A i \in Voxels : Get(new, i) =
           IF i \in box THEN ch.palette[k + 1] ELSE Get(ch, i)
    BY <2>10, <1>2, <1>3
  <2> QED BY <2>9, <2>6, <2>11, <1>2, <1>3, <1>5 DEF stale, new
<1> QED BY <1>4, <1>5

-----------------------------------------------------------------------------
(* The invariant.                                                          *)

Inv == ChunkOK(chunk) /\ changed \in BOOLEAN

\* A chunk of one value is sound.
LEMMA UniformIsSound ==
  ASSUME NEW b \in Blocks
  PROVE  /\ ChunkOK([bits |-> 0, palette |-> <<b>>, indices |-> NoBuffer])
         /\ \A i \in Voxels :
              Get([bits |-> 0, palette |-> <<b>>, indices |-> NoBuffer], i) = b
<1> DEFINE ch == [bits |-> 0, palette |-> <<b>>, indices |-> NoBuffer]
<1>1. /\ ch \in [bits : Widths, palette : Seq(Blocks),
                 indices : [Voxels -> Nat] \cup {NoBuffer}]
      /\ ch.bits = 0 /\ ch.palette = <<b>> /\ ch.indices = NoBuffer
  BY WidthsFit
<1> HIDE DEF ch
<1>2. Len(ch.palette) = 1 /\ DOMAIN ch.palette = {1} /\ ch.palette[1] = b
      /\ ch.palette # <<>>
  BY <1>1
<1>3. 1 <= Cardinality(Blocks)
  <2>1. \A j, k \in DOMAIN ch.palette : ch.palette[j] = ch.palette[k] => j = k
    BY <1>2
  <2> QED BY <1>1, <1>2, <2>1, PaletteFits
<1>4. BitsFor(1) = 0
  BY <1>3, BitsForFits
<1>5. \A i \in Voxels : ReadIndex(ch, i) < Len(ch.palette)
  BY <1>1, <1>2 DEF ReadIndex
<1>6. ChunkOK(ch)
  BY <1>1, <1>2, <1>4, <1>5 DEF ChunkOK
<1>7. \A i \in Voxels : Get(ch, i) = b
  BY <1>1, <1>2 DEF Get
<1> QED BY <1>6, <1>7 DEF ch

\* What Put does to the content of the chunk and to its flag.
LEMMA PutIsWrite ==
  ASSUME Inv, NEW b \in Blocks, NEW box \in SUBSET Voxels, Put(box, b)
  PROVE  Inv' /\ Plain!Write(box, b)
<1> DEFINE ch == Interned(chunk, b)
           k  == IndexOf(ch, b)
           stale == Stale(ch, box, k)
<1>1. /\ ChunkOK(ch) /\ b \in Entries(ch)
      /\ \A i \in Voxels : Get(ch, i) = Get(chunk, i)
      /\ chunk.bits # 0 \/ chunk.palette[1] # b => ch.bits # 0
  BY InterningIsSound DEF Inv
<1>2. chunk' = WriteIndices(ch, stale, k) /\ changed' = (stale # {})
  BY DEF Put
<1> HIDE DEF ch
<1>3. k \in 0 .. Len(ch.palette) - 1 /\ ch.palette[k + 1] = b
  BY <1>1, IndexOfNames
<1> HIDE DEF k
<1>4. /\ ChunkOK(chunk') /\ chunk'.bits = ch.bits
      /\ \A i \in Voxels : Get(chunk', i) = IF i \in box THEN b ELSE Get(chunk, i)
      /\ changed' = (\E i \in box : Get(chunk, i) # b)
  <2> HIDE DEF stale
  <2>1. /\ ChunkOK(WriteIndices(ch, stale, k)) /\ WriteIndices(ch, stale, k).bits = ch.bits
        /\ \A i \in Voxels : Get(WriteIndices(ch, stale, k), i) =
             IF i \in box THEN ch.palette[k + 1] ELSE Get(ch, i)
        /\ stale # {} <=> \E i \in box : Get(ch, i) # ch.palette[k + 1]
    BY <1>1, <1>3, WritingIsSound DEF stale
  <2>2. \A i \in box : Get(ch, i) = Get(chunk, i)
    BY <1>1
  <2> QED BY <1>1, <1>2, <1>3, <2>1, <2>2
<1>5. Content' = [i \in Voxels |-> IF i \in box THEN b ELSE Content[i]]
  BY <1>4 DEF Content
<1>6. changed' = (\E i \in box : Content[i] # b)
  BY <1>4 DEF Content
<1>7. Uniform' = IF Uniform = b THEN b ELSE Packed
  <2>1. CASE UniformOf(b)
    <3>1. b \in Entries(chunk)
      BY <2>1 DEF UniformOf, Entries, Inv, ChunkOK
    <3>2. ch = chunk
      BY <3>1 DEF ch, Interned
    <3>3. chunk'.bits = 0 /\ Uniform = b
      BY <3>2, <1>4, <2>1 DEF UniformOf, Uniform
    <3>4. chunk'.palette[1] = b
      BY <3>2, <1>2, <2>1 DEF UniformOf, WriteIndices, Inv, ChunkOK
    <3> QED BY <3>3, <3>4 DEF Uniform
  <2>2. CASE ~UniformOf(b)
    <3>1. chunk'.bits # 0
      BY <2>2, <1>1, <1>4 DEF UniformOf
    <3>2. Uniform # b
      BY <2>2, ChunkShape DEF UniformOf, Uniform
    <3> QED BY <3>1, <3>2 DEF Uniform
  <2> QED BY <2>1, <2>2
<1>8. changed' \in BOOLEAN
  BY <1>2
<1> QED BY <1>4, <1>5, <1>6, <1>7, <1>8 DEF Inv, Plain!Write

\* Every step of the chunk is a step of the array, or a stutter, and keeps
\* the invariant.
LEMMA StepIsArrayStep ==
  ASSUME Inv, [Next]_vars
  PROVE  Inv' /\ [Plain!Next]_(Plain!arrayVars)
<1>1. ASSUME NEW b \in Blocks, UniformOf(b)
      PROVE  Uniform = b /\ \A i \in Voxels : Content[i] = b
  BY <1>1 DEF UniformOf, Uniform, Content, Get
<1>2. ASSUME NEW b \in Blocks, NEW i \in Voxels, Set(i, b)
      PROVE  Inv' /\ Plain!Next
  <2>1. CASE UniformOf(b) /\ changed' = FALSE /\ UNCHANGED chunk
    <3>1. Content' = Content /\ Uniform' = Uniform
      BY <2>1 DEF Content, Uniform
    <3>2. Content = [j \in Voxels |-> IF j \in {i} THEN b ELSE Content[j]]
      BY <2>1, <1>1 DEF Content
    <3>3. Plain!Write({i}, b)
      BY <2>1, <1>1, <3>1, <3>2 DEF Plain!Write
    <3> QED BY <2>1, <3>3 DEF Plain!Next, Inv
  <2>2. CASE ~UniformOf(b) /\ Put({i}, b)
    BY <2>2, PutIsWrite DEF Plain!Next
  <2> QED BY <1>2, <2>1, <2>2 DEF Set
<1>3. ASSUME NEW b \in Blocks, NEW box \in Boxes, FillPart(box, b)
      PROVE  Inv' /\ Plain!Next
  <2>1. box \in SUBSET Voxels /\ box \in Boxes \ {Voxels} /\ Put(box, b)
    BY <1>3, ChunkShape DEF FillPart
  <2>2. Inv' /\ Plain!Write(box, b)
    BY <2>1, PutIsWrite
  <2> QED BY <2>1, <2>2 DEF Plain!Next
<1>4. ASSUME NEW b \in Blocks, FillWhole(b)
      PROVE  Inv' /\ Plain!Next
  <2>1. CASE UniformOf(b) /\ changed' = FALSE /\ UNCHANGED chunk
    <3>1. Content' = Content /\ Uniform' = Uniform
      BY <2>1 DEF Content, Uniform
    <3>2. Content = [j \in Voxels |-> b]
      BY <2>1, <1>1 DEF Content
    <3>3. Plain!FillWhole(b)
      BY <2>1, <1>1, <3>1, <3>2 DEF Plain!FillWhole
    <3> QED BY <2>1, <3>3 DEF Plain!Next, Inv
  <2>2. CASE ~UniformOf(b) /\ changed' = TRUE /\ chunk' = FillUniform(b)
    <3>1. /\ chunk'.bits = 0 /\ chunk'.palette = <<b>>
          /\ ChunkOK(chunk') /\ \A i \in Voxels : Get(chunk', i) = b
      BY <2>2, UniformIsSound DEF FillUniform
    <3>2. Content' = [j \in Voxels |-> b] /\ Uniform' = b
      BY <3>1 DEF Content, Uniform
    <3>3. Uniform # b
      BY <2>2, ChunkShape DEF UniformOf, Uniform
    <3>4. Plain!FillWhole(b)
      BY <2>2, <3>2, <3>3 DEF Plain!FillWhole
    <3> QED BY <2>2, <3>1, <3>4 DEF Plain!Next, Inv
  <2> QED BY <1>4, <2>1, <2>2 DEF FillWhole
<1>5. CASE UNCHANGED vars
  BY <1>5 DEF vars, Inv, Content, Uniform, Plain!arrayVars
<1> QED BY <1>2, <1>3, <1>4, <1>5 DEF Next

-----------------------------------------------------------------------------
(* The theorems.                                                           *)

\* Every state the chunk reaches satisfies the invariant.
LEMMA InvHolds == Spec => []Inv
<1>1. Init => Inv
  BY UniformIsSound, ChunkShape DEF Init, Fresh, Inv
<1>2. Inv /\ [Next]_vars => Inv'
  BY StepIsArrayStep
<1> QED BY <1>1, <1>2, PTL DEF Spec

\* The members of a chunk keep their types.
THEOREM ChunkTyping == Spec => []TypeOK
<1>1. Inv => TypeOK
  BY DEF Inv, ChunkOK, TypeOK
<1> QED BY <1>1, InvHolds, PTL

\* Palette, width and index buffer of a chunk fit each other after any
\* sequence of writes, whatever the block ids.
THEOREM PaletteAlwaysSound == Spec => []PaletteSound
<1>1. Inv => PaletteSound
  BY DEF Inv, ChunkOK, PaletteSound
<1> QED BY <1>1, InvHolds, PTL

\* A paletted chunk implements an array of block ids.
THEOREM ChunkImplementsVoxelArray == Spec => ImplementsVoxelArray
<1>1. Init => Plain!Init
  <2> SUFFICES ASSUME Init PROVE Plain!Init
    OBVIOUS
  <2>1. \A i \in Voxels : Get(chunk, i) = Air
    BY UniformIsSound, ChunkShape DEF Init, Fresh
  <2>2. chunk.bits = 0 /\ chunk.palette = <<Air>>
    BY DEF Init, Fresh
  <2> QED BY <2>1, <2>2 DEF Init, Content, Uniform, Plain!Init
<1>2. Inv /\ [Next]_vars => [Plain!Next]_(Plain!arrayVars)
  BY StepIsArrayStep
<1> QED BY <1>1, <1>2, InvHolds, PTL DEF Spec, ImplementsVoxelArray, Plain!Spec

-----------------------------------------------------------------------------
(* Quotients, remainders, and fields of a number.                          *)

\* Quotient and remainder are determined by their sum.
LEMMA DivModIs ==
  ASSUME NEW x \in Int, NEW d \in Nat \ {0}, NEW q \in Int, NEW r \in 0 .. d - 1,
         x = q * d + r
  PROVE  x \div d = q /\ x % d = r
OBVIOUS

\* Every number is its quotient times the divisor plus its remainder.
LEMMA DivModOf ==
  ASSUME NEW x \in Nat, NEW d \in Nat \ {0}
  PROVE  x \div d \in Nat /\ x % d \in 0 .. d - 1 /\ x = ((x \div d) * d) + (x % d)
OBVIOUS

\* A number below the divisor has the quotient 0.
LEMMA DivZero ==
  ASSUME NEW x \in Nat, NEW d \in Nat \ {0}
  PROVE  x < d <=> x \div d = 0
OBVIOUS

\* Products, regrouped.
LEMMA Assoc ==
  ASSUME NEW a \in Int, NEW b \in Int, NEW c \in Int
  PROVE  (a * b) * c = a * (b * c) /\ a * b \in Int
OBVIOUS

\* A product with a sum.
LEMMA Distr ==
  ASSUME NEW a \in Int, NEW b \in Int, NEW c \in Int
  PROVE  (a + b) * c = (a * c) + (b * c) /\ (a - b) * c = (a * c) - (b * c) /\ a * c = c * a
OBVIOUS

\* A product with a larger factor is no smaller.
LEMMA Mono ==
  ASSUME NEW a \in Int, NEW b \in Int, NEW c \in Nat, a <= b
  PROVE  a * c <= b * c
OBVIOUS

\* Dividing by a product is dividing twice.
LEMMA DivDiv ==
  ASSUME NEW x \in Nat, NEW a \in Nat \ {0}, NEW b \in Nat \ {0}
  PROVE  x \div (a * b) = (x \div a) \div b
<1> DEFINE y == x \div a
           l == x % a
           h == y \div b
           f == y % b
           r == (f * a) + l
<1>1. y \in Nat /\ l \in 0 .. a - 1 /\ x = (y * a) + l
  BY DivModOf
<1> HIDE DEF y, l
<1>2. h \in Nat /\ f \in 0 .. b - 1 /\ y = (h * b) + f
  BY <1>1, DivModOf
<1> HIDE DEF h, f
<1>3. x = (((h * b) + f) * a) + l
  BY <1>1, <1>2
<1>4. ((h * b) + f) * a = ((h * b) * a) + (f * a)
  BY <1>1, <1>2, Distr, Assoc
<1>5. (h * b) * a = h * (a * b)
  BY <1>1, <1>2, Distr, Assoc
<1>6. f * a \in Nat /\ f * a <= (b - 1) * a /\ (b - 1) * a = (b * a) - a
  BY <1>2, Mono, Distr
<1>7. a * b \in Nat \ {0} /\ a * b = b * a
  OBVIOUS
<1>8. x = (h * (a * b)) + r /\ r \in 0 .. (a * b) - 1
  <2> DEFINE p == a * b
             o == f * a
             i == h * p
  <2>1. x = (i + o) + l
    BY <1>3, <1>4, <1>5
  <2>2. o \in Nat /\ o <= p - a /\ p \in Nat /\ i \in Int
    BY <1>2, <1>6, <1>7
  <2> HIDE DEF p, o, i
  <2>3. x = i + (o + l) /\ o + l \in 0 .. p - 1
    BY <1>1, <2>1, <2>2
  <2> QED BY <2>3 DEF p, o, i
<1> HIDE DEF r
<1>9. x \div (a * b) = h
  BY <1>2, <1>7, <1>8, DivModIs
<1> QED BY <1>9 DEF h, y

\* Fields of a number: the digits of base c at scale s.  SameAbove: two
\* numbers agree on what lies above the field; IsScale: a scale t that lies u
\* above the field; Written: the number with the field cleared and set.
SameAbove(x, y, s, c) == (y \div s) \div c = (x \div s) \div c
IsScale(t, s, c, u) == t = (s * c) * u
Written(x, s, c, v) == (x - (((x \div s) % c) * s)) + (v * s)

\* Writing a field gives it its value and keeps what is below and above.
LEMMA FieldWritten ==
  ASSUME NEW x \in Nat, NEW s \in Nat \ {0}, NEW c \in Nat \ {0}, NEW v \in 0 .. c - 1
  PROVE  /\ Written(x, s, c, v) \in Nat
         /\ (Written(x, s, c, v) \div s) % c = v
         /\ Written(x, s, c, v) % s = x % s
         /\ SameAbove(x, Written(x, s, c, v), s, c)
<1> DEFINE z == x \div s
           l == x % s
           h == z \div c
           f == z % c
           y == (x - (f * s)) + (v * s)
           g == (h * c) + v
<1>1. z \in Nat /\ l \in 0 .. s - 1 /\ x = (z * s) + l
  BY DivModOf
<1> HIDE DEF z, l
<1>2. h \in Nat /\ f \in 0 .. c - 1 /\ z = (h * c) + f
  BY <1>1, DivModOf
<1> HIDE DEF h, f
<1>3. z * s = ((h * c) * s) + (f * s) /\ g * s = ((h * c) * s) + (v * s)
  <2>1. h * c \in Int
    BY <1>2
  <2> QED BY <1>2, <2>1, Distr
<1>4. h * c \in Nat /\ g \in Nat
  BY <1>2
<1>5. (h * c) * s \in Int /\ f * s \in Int /\ v * s \in Int
  BY <1>2, <1>4
<1>6. y = (g * s) + l
  BY <1>1, <1>3, <1>5
<1> HIDE DEF y
<1>7. y \in Nat
  BY <1>1, <1>4, <1>6
<1>8. y \div s = g /\ y % s = l
  BY <1>1, <1>4, <1>6, <1>7, DivModIs
<1>9. g \div c = h /\ g % c = v
  BY <1>2, <1>4, DivModIs
<1>10. y = Written(x, s, c, v)
  BY DEF y, f, z, Written
<1>11. /\ (y \div s) % c = v /\ y % s = x % s
       /\ (y \div s) \div c = (x \div s) \div c
  BY <1>8, <1>9 DEF h, z, l
<1> QED BY <1>7, <1>10, <1>11, Zenon DEF SameAbove

\* A field above another does not see what is written in it.
LEMMA FieldAbove ==
  ASSUME NEW x \in Nat, NEW y \in Nat, NEW s \in Nat \ {0}, NEW c \in Nat \ {0},
         SameAbove(x, y, s, c), NEW u \in Nat \ {0}, NEW t, IsScale(t, s, c, u)
  PROVE  y \div t = x \div t
<1>1. s * c \in Nat \ {0}
  OBVIOUS
<1>2. y \div ((s * c) * u) = (y \div (s * c)) \div u
  BY <1>1, DivDiv
<1>3. x \div ((s * c) * u) = (x \div (s * c)) \div u
  BY <1>1, DivDiv
<1>4. y \div (s * c) = (y \div s) \div c /\ x \div (s * c) = (x \div s) \div c
  BY DivDiv
<1> QED BY <1>2, <1>3, <1>4, Zenon DEF SameAbove, IsScale

\* A field below depends on the remainder only.
LEMMA FieldBelow ==
  ASSUME NEW x \in Nat, NEW t \in Nat \ {0}, NEW c \in Nat \ {0}, NEW u \in Nat \ {0},
         NEW s, IsScale(s, t, c, u)
  PROVE  (x \div t) % c = ((x % s) \div t) % c
<1> DEFINE q == x \div s
           l == x % s
           m == l \div t
           r == l % t
           n == m \div c
           e == m % c
<1>0. s = (t * c) * u
  BY DEF IsScale
<1>1. s \in Nat \ {0} /\ t * c \in Nat
  BY <1>0
<1>2. q \in Nat /\ l \in Nat /\ x = (q * s) + l
  <2>1. q \in Nat /\ l \in 0 .. s - 1 /\ x = (q * s) + l
    BY <1>1, DivModOf, Zenon
  <2> HIDE DEF q, l
  <2> QED BY <1>1, <2>1
<1> HIDE DEF q, l
<1>3. m \in Nat /\ r \in 0 .. t - 1 /\ l = (m * t) + r
  BY <1>2, DivModOf
<1> HIDE DEF m, r
<1>4. n \in Nat /\ e \in 0 .. c - 1 /\ m = (n * c) + e
  BY <1>3, DivModOf
<1> HIDE DEF n, e
<1>5. q * s = ((q * u) * c) * t
  <2>1. s = t * (c * u) /\ c * u = u * c /\ c * u \in Int
    BY <1>0, Assoc, Distr
  <2>2. q * s = (q * (u * c)) * t
    <3>1. q * (t * (c * u)) = (q * (c * u)) * t
      BY <1>2, <2>1, Assoc, Distr
    <3> QED BY <2>1, <3>1
  <2>3. q * (u * c) = (q * u) * c
    BY <1>2, Assoc
  <2> QED BY <2>2, <2>3
<1>6. (q * u) * c \in Nat
  BY <1>2
<1>7. x = ((((q * u) * c) + m) * t) + r
  BY <1>2, <1>3, <1>5, <1>6, Distr
<1>8. ((q * u) * c) + m \in Nat
  BY <1>3, <1>6
<1>9. x \div t = ((q * u) * c) + m
  BY <1>3, <1>7, <1>8, DivModIs
<1>10. ((q * u) * c) + m = (((q * u) + n) * c) + e /\ (q * u) + n \in Nat
  <2>1. q * u \in Nat
    BY <1>2
  <2> QED BY <1>4, <2>1, Distr
<1>11. (((q * u) * c) + m) % c = e
  BY <1>4, <1>8, <1>10, DivModIs
<1> QED BY <1>9, <1>11 DEF e, m, l

\* A number below such a scale stays below it when the field is written.
LEMMA FieldFits ==
  ASSUME NEW x \in Nat, NEW y \in Nat, NEW s \in Nat \ {0}, NEW c \in Nat \ {0},
         SameAbove(x, y, s, c), NEW u \in Nat \ {0}, NEW t, IsScale(t, s, c, u), x < t
  PROVE  y < t
<1>1. t \in Nat \ {0}
  BY DEF IsScale
<1>2. y \div t = x \div t
  BY FieldAbove
<1> QED BY <1>1, <1>2, DivZero, Zenon

-----------------------------------------------------------------------------
(* Where the bits of an index lie in a byte, and its byte in the buffer.   *)

\* Where the bits of an index lie when whole indices fill a byte of b bits:
\* within the byte, and apart from those of another index in the same byte.
LEMMA PlaceInByte ==
  ASSUME NEW b \in Nat \ {0}, NEW w \in Nat \ {0}, b % w = 0, NEW i \in Nat
  PROVE  ((i * w) % b) + w <= b
<1> DEFINE q == b \div w
           a == (i * w) \div b
           m == (i * w) % b
           e == i - (q * a)
<1>1. q \in Nat /\ b = q * w
  BY DivModOf
<1>2. i * w \in Nat
  OBVIOUS
<1>3. a \in Nat /\ m \in 0 .. b - 1 /\ i * w = (a * b) + m
  BY <1>2, DivModOf, Zenon
<1> HIDE DEF q, a, m
<1>4. a * b = (q * a) * w /\ q * a \in Nat
  <2>1. a * (q * w) = (a * q) * w /\ a * q = q * a /\ a * q \in Nat
    BY <1>1, <1>3, Assoc, Distr
  <2> QED BY <1>1, <2>1
<1>5. m = e * w /\ e \in Int
  <2>1. (i - (q * a)) * w = (i * w) - ((q * a) * w)
    BY <1>4, Distr
  <2> DEFINE x == i * w
             y == (q * a) * w
             z == e * w
  <2>2. y \in Nat /\ x \in Nat /\ z = x - y /\ x = y + m
    BY <1>2, <1>3, <1>4, <2>1
  <2>3. e \in Int
    BY <1>4
  <2> HIDE DEF x, y, z
  <2>4. m = z
    BY <1>3, <2>2
  <2> QED BY <2>3, <2>4 DEF z
<1> HIDE DEF e
<1>6. e <= q - 1
  <2> SUFFICES ASSUME q <= e PROVE FALSE
    BY <1>1, <1>5
  <2>1. q * w <= e * w
    BY <1>1, <1>5, Mono
  <2> QED BY <1>1, <1>3, <1>5, <2>1
<1>7. e * w <= (q - 1) * w /\ (q - 1) * w = (q * w) - w
  <2>1. q - 1 \in Int /\ 1 * w = w
    BY <1>1
  <2> QED BY <1>1, <1>5, <1>6, <2>1, Mono, Distr
<1>8. m + w <= b
  BY <1>1, <1>3, <1>5, <1>7
<1> QED BY <1>8 DEF m

\* Of two indices that start in the same byte, the lower one ends before
\* the higher one starts.
LEMMA PlacesApart ==
  ASSUME NEW b \in Nat \ {0}, NEW w \in Nat \ {0}, NEW i \in Nat, NEW j \in Nat, i < j,
         (i * w) \div b = (j * w) \div b
  PROVE  ((i * w) % b) + w <= (j * w) % b
<1>1. i * w \in Nat /\ j * w \in Nat
  OBVIOUS
<1>2. /\ i * w = (((i * w) \div b) * b) + ((i * w) % b) /\ (i * w) % b \in 0 .. b - 1
      /\ j * w = (((j * w) \div b) * b) + ((j * w) % b) /\ (j * w) % b \in 0 .. b - 1
      /\ (j * w) \div b \in Nat
  BY <1>1, DivModOf, Zenon
<1>3. (i + 1) * w <= j * w /\ (i + 1) * w = (i * w) + w
  <2>1. i + 1 \in Int /\ i + 1 <= j /\ 1 * w = w
    OBVIOUS
  <2> QED BY <2>1, Mono, Distr
<1> DEFINE x == i * w
           y == j * w
           a == y \div b
           m == x % b
           n == y % b
           z == a * b
<1>4. x = z + m /\ y = z + n /\ x + w <= y /\ z \in Nat /\ m \in Nat /\ n \in Nat
  BY <1>2, <1>3
<1> HIDE DEF x, y, a, m, n, z
<1>5. m + w <= n
  BY <1>4
<1> QED BY <1>5 DEF m, n, x, y

\* Every index starts within the buffer.
LEMMA PlaceInBuffer ==
  ASSUME NEW b \in Nat \ {0}, NEW w \in Nat \ {0}, NEW i \in Nat, NEW n \in Nat, i < n,
         (n * w) % b = 0
  PROVE  (i * w) \div b < (n * w) \div b
<1>1. i * w \in Nat /\ n * w \in Nat
  OBVIOUS
<1> DEFINE p == (i * w) \div b
           q == (n * w) \div b
<1>2. /\ i * w = (p * b) + ((i * w) % b) /\ (i * w) % b \in 0 .. b - 1 /\ p \in Nat
      /\ n * w = (q * b) + ((n * w) % b) /\ q \in Nat
  BY <1>1, DivModOf, Zenon
<1>3. i * w < n * w
  <2>1. i + 1 \in Int /\ i + 1 <= n /\ 1 * w = w
    OBVIOUS
  <2>2. (i + 1) * w <= n * w /\ (i + 1) * w = (i * w) + w
    BY <2>1, Mono, Distr
  <2> QED BY <1>1, <2>2
<1>4. p * b < q * b
  BY <1>1, <1>2, <1>3
<1> HIDE DEF p, q
<1>5. p < q
  <2> SUFFICES ASSUME q <= p PROVE FALSE
    BY <1>2
  <2>1. q * b <= p * b /\ q * b \in Int /\ p * b \in Int
    BY <1>2, Mono
  <2> QED BY <1>4, <2>1
<1> QED BY <1>5 DEF p, q

-----------------------------------------------------------------------------
(* Loops, and powers of two.                                               *)

\* What holds of 0, and of the successor of each number below n it holds of,
\* holds up to n.
LEMMA UpInduction ==
  ASSUME NEW n \in Nat, NEW S \in SUBSET (0 .. n), 0 \in S,
         \A z \in 0 .. n - 1 : z \in S => z + 1 \in S
  PROVE  S = 0 .. n
<1> DEFINE Out == (0 .. n) \ S
<1> SUFFICES ASSUME Out # {} PROVE FALSE
  OBVIOUS
<1>1. Out \subseteq Nat
  OBVIOUS
<1> HIDE DEF Out
<1>2. PICK m \in Out : \A z \in Out : m <= z
  BY <1>1, NatMin
<1>3. m \in 0 .. n /\ m \notin S /\ m # 0
  BY <1>2 DEF Out
<1>4. m - 1 \in 0 .. n - 1 /\ m - 1 \notin Out
  BY <1>2, <1>3
<1>5. m - 1 \in S
  BY <1>3, <1>4 DEF Out
<1>6. m - 1 + 1 = m
  BY <1>3
<1> QED BY <1>3, <1>4, <1>5, <1>6

\* f is what the local of a loop of n turns holds after each of them, x
\* before the first one.
RunsUp(f, n, X, x, step) ==
  /\ f \in [0 .. n -> X]
  /\ \A z \in 0 .. n : f[z] = IF z = 0 THEN x ELSE step[<<z, f[z - 1]>>]

\* A loop runs to its end.
LEMMA LoopUp ==
  ASSUME NEW n \in Nat, NEW X, NEW x \in X, NEW step \in [(0 .. n) \X X -> X]
  PROVE  \E f : RunsUp(f, n, X, x, step)
<1> DEFINE Loop(y, f) == \A z \in 0 .. y : f[z] = IF z = 0 THEN x ELSE step[<<z, f[z - 1]>>]
           Runs(y) == \E f \in [0 .. y -> X] : Loop(y, f)
           S == {y \in 0 .. n : Runs(y)}
<1>1. Runs(0)
  <2> DEFINE g == [z \in 0 .. 0 |-> x]
  <2>1. g \in [0 .. 0 -> X] /\ Loop(0, g)
    OBVIOUS
  <2> HIDE DEF g
  <2> QED BY <2>1
<1>2. ASSUME NEW y \in 0 .. n - 1, Runs(y) PROVE Runs(y + 1)
  <2>1. PICK f \in [0 .. y -> X] : Loop(y, f)
    BY <1>2
  <2> DEFINE g == [z \in 0 .. y + 1 |-> IF z = y + 1 THEN step[<<y + 1, f[y]>>] ELSE f[z]]
  <2>2. step[<<y + 1, f[y]>>] \in X
    <3>1. y + 1 \in 0 .. n /\ f[y] \in X
      BY <2>1
    <3> QED BY <3>1
  <2>3. g \in [0 .. y + 1 -> X]
    BY <2>2
  <2>4. ASSUME NEW z \in 0 .. y + 1 PROVE g[z] = IF z = 0 THEN x ELSE step[<<z, g[z - 1]>>]
    <3>1. CASE z = y + 1
      <4>1. z # 0 /\ g[z] = step[<<y + 1, f[y]>>] /\ g[z - 1] = f[y]
        BY <3>1
      <4> QED BY <3>1, <4>1
    <3>2. CASE z # y + 1
      <4>1. z \in 0 .. y /\ g[z] = f[z] /\ (z # 0 => g[z - 1] = f[z - 1])
        BY <3>2
      <4> QED BY <2>1, <4>1
    <3> QED BY <3>1, <3>2
  <2> HIDE DEF g
  <2> QED BY <2>3, <2>4
<1> HIDE DEF Runs
<1>3. S \in SUBSET (0 .. n) /\ 0 \in S
  BY <1>1
<1>4. \A y \in 0 .. n - 1 : y \in S => y + 1 \in S
  BY <1>2
<1> HIDE DEF S
<1>5. S = 0 .. n
  BY <1>3, <1>4, UpInduction
<1> QED BY <1>5 DEF S, Runs, RunsUp

\* Powers of two.
LEMMA Pow2Is ==
  /\ 2 * ByteBits \in Nat
  /\ Pow2 \in [0 .. 2 * ByteBits -> Nat \ {0}]
  /\ Pow2[0] = 1
  /\ \A z \in 1 .. 2 * ByteBits : Pow2[z] = 2 * Pow2[z - 1]
<1> DEFINE n == 2 * ByteBits
           X == Nat \ {0}
           step == [p \in (0 .. n) \X X |-> 2 * p[2]]
           Is(f) == f = [z \in 0 .. n |-> IF z = 0 THEN 1 ELSE 2 * f[z - 1]]
<1>1. n \in Nat
  BY ByteLayout
<1>2. step \in [(0 .. n) \X X -> X] /\ \A z \in 0 .. n, v \in X : step[<<z, v>>] = 2 * v
  OBVIOUS
<1>3. 1 \in X
  OBVIOUS
<1>4. Pow2 = CHOOSE f : Is(f)
  BY DEF Pow2
<1> HIDE DEF step, n, X
<1>5. PICK f : RunsUp(f, n, X, 1, step)
  BY <1>1, <1>2, <1>3, LoopUp, Zenon
<1>6. f \in [0 .. n -> X] /\ \A z \in 0 .. n : f[z] = IF z = 0 THEN 1 ELSE step[<<z, f[z - 1]>>]
  BY <1>5 DEF RunsUp
<1>7. \A z \in 0 .. n : f[z] = IF z = 0 THEN 1 ELSE 2 * f[z - 1]
  <2> SUFFICES ASSUME NEW z \in 0 .. n, z # 0 PROVE step[<<z, f[z - 1]>>] = 2 * f[z - 1]
    BY <1>6
  <2>1. z - 1 \in 0 .. n
    BY <1>1
  <2> QED BY <1>2, <1>6, <2>1
<1>8. Is(f)
  BY <1>6, <1>7
<1>9. Is(Pow2)
  BY <1>4, <1>8
<1> HIDE DEF Is
<1>10. Pow2 = f
  <2> DEFINE S == {z \in 0 .. n : Pow2[z] = f[z]}
  <2>1. DOMAIN Pow2 = 0 .. n /\ \A z \in 0 .. n : Pow2[z] = IF z = 0 THEN 1 ELSE 2 * Pow2[z - 1]
    BY <1>9 DEF Is
  <2>2. 0 \in S /\ S \in SUBSET (0 .. n)
    BY <1>1, <1>7, <2>1
  <2>3. ASSUME NEW z \in 0 .. n - 1, z \in S PROVE z + 1 \in S
    <3>1. z + 1 \in 0 .. n /\ z + 1 # 0 /\ (z + 1) - 1 = z
      BY <1>1
    <3>2. Pow2[z + 1] = 2 * Pow2[(z + 1) - 1] /\ f[z + 1] = 2 * f[(z + 1) - 1]
      BY <1>7, <2>1, <3>1
    <3> QED BY <2>3, <3>1, <3>2
  <2> HIDE DEF S
  <2>4. S = 0 .. n
    BY <1>1, <2>2, <2>3, UpInduction
  <2>5. \A z \in 0 .. n : Pow2[z] = f[z]
    BY <2>4 DEF S
  <2>6. Pow2 = [z \in 0 .. n |-> Pow2[z]] /\ f = [z \in 0 .. n |-> f[z]]
    BY <1>6, <1>9 DEF Is
  <2> QED BY <2>5, <2>6
<1>11. \A z \in 1 .. n : z \in 0 .. n /\ z # 0
  BY <1>1
<1>12. 0 \in 0 .. n
  BY <1>1
<1> QED BY <1>1, <1>6, <1>7, <1>10, <1>11, <1>12 DEF n, X

\* Shifting twice is shifting by the sum.
LEMMA Pow2Sum ==
  ASSUME NEW m \in Nat, NEW n \in Nat, m + n <= 2 * ByteBits
  PROVE  Pow2[m + n] = Pow2[m] * Pow2[n]
<1> DEFINE S == {z \in 0 .. n : Pow2[m + z] = Pow2[m] * Pow2[z]}
<1>1. \A z \in 0 .. n : /\ z \in 0 .. 2 * ByteBits /\ m + z \in 0 .. 2 * ByteBits
                        /\ Pow2[z] \in Nat /\ Pow2[m + z] \in Nat /\ Pow2[m] \in Nat
  <2>1. 2 * ByteBits \in Nat /\ m \in 0 .. 2 * ByteBits
    BY Pow2Is
  <2>2. \A z \in 0 .. n : z \in 0 .. 2 * ByteBits /\ m + z \in 0 .. 2 * ByteBits
    BY <2>1
  <2> QED BY <2>1, <2>2, Pow2Is
<1>2. S \in SUBSET (0 .. n) /\ 0 \in S
  <2>1. m + 0 = m /\ Pow2[m] * 1 = Pow2[m] /\ 0 \in 0 .. n
    BY <1>1
  <2> QED BY <2>1, Pow2Is
<1>3. ASSUME NEW z \in 0 .. n - 1, z \in S PROVE z + 1 \in S
  <2>1. z + 1 \in 0 .. n /\ z \in 0 .. n /\ (m + (z + 1)) - 1 = m + z /\ (z + 1) - 1 = z
    OBVIOUS
  <2>2. Pow2[m + (z + 1)] = 2 * Pow2[m + z] /\ Pow2[z + 1] = 2 * Pow2[z]
    <3>1. m + (z + 1) \in 1 .. 2 * ByteBits /\ z + 1 \in 1 .. 2 * ByteBits
      BY <1>1, <2>1
    <3> QED BY <2>1, <3>1, Pow2Is
  <2>3. Pow2[m + z] = Pow2[m] * Pow2[z]
    BY <1>3
  <2> DEFINE a == Pow2[m]
             b == Pow2[z]
  <2>4. a \in Nat /\ b \in Nat
    BY <1>1, <2>1
  <2> HIDE DEF a, b
  <2>5. 2 * (a * b) = a * (2 * b)
    BY <2>4
  <2>6. Pow2[m + (z + 1)] = Pow2[m] * Pow2[z + 1]
    BY <2>2, <2>3, <2>5 DEF a, b
  <2> QED BY <2>1, <2>6
<1> HIDE DEF S
<1>4. S = 0 .. n
  BY <1>2, <1>3, UpInduction
<1>5. n \in 0 .. n
  OBVIOUS
<1> QED BY <1>4, <1>5 DEF S

-----------------------------------------------------------------------------
(* A write of one index, at each kind of width.                            *)

\* The kinds of widths there are.
LEMMA WidthKinds ==
  /\ ByteBits \in Nat \ {0} /\ ByteSize = Pow2[ByteBits] /\ ByteSize \in Nat \ {0}
  /\ \A w \in Widths \ {0} :
       /\ w \in Nat \ {0} /\ Cap[w] = Pow2[w] /\ Cap[w] \in Nat \ {0}
       /\ \/ w = 2 * ByteBits
          \/ w = ByteBits
          \/ w < ByteBits /\ ByteBits % w = 0
  /\ Cap[0] = 1
<1>1. ByteBits \in Nat \ {0} /\ ByteBits \in 0 .. 2 * ByteBits
  BY ByteLayout
<1>2. ASSUME NEW w \in Widths \ {0}
      PROVE  /\ w \in Nat \ {0} /\ Cap[w] = Pow2[w] /\ Cap[w] \in Nat \ {0}
             /\ ByteBits % w = 0 \/ w = 2 * ByteBits
  BY WidthsFit, ByteLayout
<1>3. ASSUME NEW w \in Nat \ {0}, ByteBits % w = 0, w # ByteBits PROVE w < ByteBits
  <2> SUFFICES ASSUME ByteBits < w PROVE FALSE
    BY <1>1, <1>3
  <2>1. ByteBits = 0 * w + ByteBits /\ ByteBits \in 0 .. w - 1
    BY <1>1
  <2>2. ByteBits % w = ByteBits
    BY <1>1, <2>1, DivModIs
  <2> QED BY <1>1, <1>3, <2>2
<1>4. Cap[0] = 1
  BY WidthsFit
<1>5. ByteSize \in Nat \ {0}
  BY <1>1, Pow2Is DEF ByteSize
<1> QED BY <1>1, <1>2, <1>3, <1>4, <1>5 DEF ByteSize

\* The voxels, and the bytes of their indices.
LEMMA VoxelsAre ==
  /\ Cardinality(Voxels) \in Nat /\ Voxels = 0 .. Cardinality(Voxels) - 1
  /\ \A w \in Widths : /\ (Cardinality(Voxels) * w) % ByteBits = 0
                       /\ IndexBytes(w) = (Cardinality(Voxels) * w) \div ByteBits
                       /\ IndexBytes(w) \in Nat
<1>1. Cardinality(Voxels) \in Nat /\ Voxels = 0 .. Cardinality(Voxels) - 1
  BY ByteLayout, FS_CardinalityType
<1>2. ASSUME NEW w \in Widths
      PROVE  /\ (Cardinality(Voxels) * w) % ByteBits = 0
             /\ (Cardinality(Voxels) * w) \div ByteBits \in Nat
  <2>1. w \in Nat /\ ByteBits \in Nat \ {0}
    BY WidthsFit, ByteLayout
  <2>2. Cardinality(Voxels) * w \in Nat
    BY <1>1, <2>1
  <2> QED BY <1>2, <2>1, <2>2, ByteLayout, DivModOf
<1> QED BY <1>1, <1>2 DEF IndexBytes

\* The buffers of chunks with indices of w bits.
Buffers(w) == [1 .. IndexBytes(w) -> 0 .. ByteSize - 1]

\* What a write does to a buffer.
WritesOne(buf, w, i, k) ==
  /\ WritePacked(buf, w, i, k) \in Buffers(w)
  /\ \A j \in Voxels : ReadPacked(WritePacked(buf, w, i, k), w, j) =
                         IF j = i THEN k % Cap[w] ELSE ReadPacked(buf, w, j)

\* An index that fills its byte.
LEMMA WriteByte ==
  ASSUME NEW w \in Widths \ {0}, w = ByteBits, NEW buf \in Buffers(w),
         NEW i \in Voxels, NEW k \in Nat
  PROVE  WritesOne(buf, w, i, k)
<1> DEFINE n == Cardinality(Voxels)
<1>1. /\ ByteBits \in Nat \ {0} /\ ByteSize \in Nat \ {0}
      /\ w \in Nat \ {0} /\ Cap[w] = ByteSize /\ w # 2 * ByteBits
      /\ n \in Nat /\ Voxels = 0 .. n - 1 /\ i \in Voxels
  BY WidthKinds, VoxelsAre
<1>2. \A j \in Nat : ByteOf(j, w) = j + 1
  <2> SUFFICES ASSUME NEW j \in Nat PROVE (j * w) \div ByteBits = j
    BY DEF ByteOf
  <2>1. j * w = j * w + 0 /\ 0 \in 0 .. w - 1 /\ j * w \in Int
    BY <1>1
  <2> QED BY <1>1, <2>1, DivModIs
<1>3. IndexBytes(w) = n
  <2>1. n * w = n * w + 0 /\ 0 \in 0 .. w - 1 /\ n * w \in Int
    BY <1>1
  <2>2. (n * w) \div w = n
    BY <1>1, <2>1, DivModIs
  <2> QED BY <2>2 DEF IndexBytes
<1>2a. ByteOf(i, w) = i + 1 /\ \A j \in Voxels : ByteOf(j, w) = j + 1
  <2>1. \A j \in Voxels : j \in Nat
    BY <1>1
  <2> QED BY <1>2, <2>1, Zenon
<1>2b. w # 2 * ByteBits /\ w # 0
  BY <1>1
<1>4. WritePacked(buf, w, i, k) = [buf EXCEPT ![i + 1] = k % ByteSize]
  BY <1>2a, <1>2b, Zenon DEF WritePacked

<1>5. \A j \in Voxels : /\ ReadPacked(buf, w, j) = buf[j + 1]
                         /\ ReadPacked(WritePacked(buf, w, i, k), w, j) = WritePacked(buf, w, i, k)[j + 1]
  BY <1>2a, <1>2b, Zenon DEF ReadPacked
<1>6. k % ByteSize \in 0 .. ByteSize - 1 /\ buf \in [1 .. n -> 0 .. ByteSize - 1]
  BY <1>1, <1>3 DEF Buffers
<1>7. WritePacked(buf, w, i, k) \in Buffers(w)
  BY <1>1, <1>3, <1>4, <1>6 DEF Buffers
<1>8. \A j \in Voxels : WritePacked(buf, w, i, k)[j + 1] = IF j = i THEN k % ByteSize ELSE buf[j + 1]
  BY <1>1, <1>4, <1>6
<1> QED BY <1>1, <1>5, <1>7, <1>8 DEF WritesOne

\* An index over two bytes.
LEMMA WriteTwoBytes ==
  ASSUME NEW w \in Widths \ {0}, w = 2 * ByteBits, NEW buf \in Buffers(w),
         NEW i \in Voxels, NEW k \in Nat
  PROVE  WritesOne(buf, w, i, k)
<1> DEFINE n == Cardinality(Voxels)
           s == ByteSize
           new == WritePacked(buf, w, i, k)
           lo == k % s
           hi == (k \div s) % s
<1>1. /\ ByteBits \in Nat \ {0} /\ s \in Nat \ {0}
      /\ w \in Nat \ {0} /\ Cap[w] \in Nat \ {0}
      /\ n \in Nat /\ Voxels = 0 .. n - 1 /\ i \in Voxels
  BY WidthKinds, VoxelsAre
<1>2. Cap[w] = s * s
  <2>1. w = ByteBits + ByteBits /\ ByteBits + ByteBits <= 2 * ByteBits
    BY <1>1
  <2> QED BY <1>1, <2>1, WidthKinds, Pow2Sum
<1>3. \A j \in Nat : (j * w) \div ByteBits = 2 * j
  <2> SUFFICES ASSUME NEW j \in Nat PROVE (j * w) \div ByteBits = 2 * j
    OBVIOUS
  <2>1. j * w = (2 * j) * ByteBits + 0 /\ 0 \in 0 .. ByteBits - 1 /\ j * w \in Int
    BY <1>1, Assoc
  <2> QED BY <1>1, <2>1, DivModIs
<1>4. /\ IndexBytes(w) = 2 * n /\ ByteOf(i, w) = 2 * i + 1
      /\ \A j \in Voxels : ByteOf(j, w) = 2 * j + 1
  <2>1. \A j \in Voxels : j \in Nat
    BY <1>1
  <2> QED BY <1>1, <1>3, <2>1, Zenon DEF IndexBytes, ByteOf
<1>5. w # 0
  BY <1>1
<1>6. new = [buf EXCEPT ![2 * i + 1] = lo, ![(2 * i + 1) + 1] = hi]
  BY <1>4, Zenon DEF WritePacked
<1>7. \A j \in Voxels : /\ ReadPacked(buf, w, j) = buf[2 * j + 1] + s * buf[(2 * j + 1) + 1]
                         /\ ReadPacked(new, w, j) = new[2 * j + 1] + s * new[(2 * j + 1) + 1]
  BY <1>4, <1>5, Zenon DEF ReadPacked
<1>8. /\ lo \in 0 .. s - 1 /\ hi \in 0 .. s - 1
      /\ buf \in [1 .. 2 * n -> 0 .. s - 1]
  BY <1>1, <1>4 DEF Buffers
<1>9. lo + s * hi = k % Cap[w]
  <2> DEFINE q == k \div s
             g == q \div s
  <2>1. q \in Nat /\ k = (q * s) + lo
    BY <1>1, DivModOf
  <2> HIDE DEF q, lo
  <2>2. g \in Nat /\ q = (g * s) + (q % s)
    BY <1>1, <2>1, DivModOf
  <2>3. hi = q % s
    BY DEF q
  <2> HIDE DEF hi, g
  <2>4. q * s = (g * (s * s)) + (s * hi)
    <3>1. ((g * s) + hi) * s = ((g * s) * s) + (hi * s) /\ hi * s = s * hi
      BY <1>1, <1>8, <2>2, Distr
    <3>2. (g * s) * s = g * (s * s)
      BY <1>1, <2>2, Assoc
    <3> QED BY <2>2, <2>3, <3>1, <3>2
  <2>5. lo + s * hi \in 0 .. (s * s) - 1
    <3>1. hi * s <= (s - 1) * s /\ (s - 1) * s = (s * s) - s /\ hi * s = s * hi /\ s * hi \in Nat
      BY <1>1, <1>8, Mono, Distr
    <3> QED BY <1>1, <1>8, <3>1
  <2>6. s * s \in Nat \ {0} /\ k \in Int
    BY <1>1
  <2> DEFINE p == s * s
             r == lo + s * hi
  <2>7. k = (g * p) + r
    <3> DEFINE o == g * p
               m == s * hi
    <3>1. o \in Int /\ m \in Int /\ q * s = o + m
      BY <1>1, <1>8, <2>2, <2>4
    <3> HIDE DEF o, m
    <3>2. k = o + (lo + m)
      BY <1>8, <2>1, <3>1
    <3> QED BY <3>2 DEF o, m
  <2> HIDE DEF p, r
  <2>8. k % p = r
    BY <2>2, <2>5, <2>6, <2>7, DivModIs DEF p, r
  <2> QED BY <1>2, <2>8 DEF p, r
<1> HIDE DEF lo, hi, new, s, n
<1>10. new \in Buffers(w)
  BY <1>1, <1>4, <1>6, <1>8 DEF Buffers, s
<1>11. \A j \in Voxels : /\ 2 * j + 1 \in 1 .. 2 * n /\ (2 * j + 1) + 1 \in 1 .. 2 * n
                          /\ j # i => /\ 2 * j + 1 # 2 * i + 1 /\ 2 * j + 1 # (2 * i + 1) + 1
                                      /\ (2 * j + 1) + 1 # 2 * i + 1
                                      /\ (2 * j + 1) + 1 # (2 * i + 1) + 1
  BY <1>1
<1>12. 2 * i + 1 # (2 * i + 1) + 1
  BY <1>1
<1>13. \A j \in Voxels : j # i => new[2 * j + 1] = buf[2 * j + 1]
                                 /\ new[(2 * j + 1) + 1] = buf[(2 * j + 1) + 1]
  <2>1. \A p \in 1 .. 2 * n : p # 2 * i + 1 /\ p # (2 * i + 1) + 1 => new[p] = buf[p]
    BY <1>6, <1>8
  <2> SUFFICES ASSUME NEW j \in Voxels, j # i
               PROVE  new[2 * j + 1] = buf[2 * j + 1] /\ new[(2 * j + 1) + 1] = buf[(2 * j + 1) + 1]
    OBVIOUS
  <2> DEFINE a == 2 * j + 1
             b == (2 * j + 1) + 1
  <2>2. /\ a \in 1 .. 2 * n /\ a # 2 * i + 1 /\ a # (2 * i + 1) + 1
        /\ b \in 1 .. 2 * n /\ b # 2 * i + 1 /\ b # (2 * i + 1) + 1
    BY <1>1
  <2> HIDE DEF a, b
  <2>3. new[a] = buf[a] /\ new[b] = buf[b]
    BY <2>1, <2>2
  <2> QED BY <2>3 DEF a, b
<1>14. new[2 * i + 1] = lo /\ new[(2 * i + 1) + 1] = hi
  BY <1>1, <1>6, <1>8, <1>11, <1>12
<1>15. ASSUME NEW j \in Voxels
       PROVE  ReadPacked(new, w, j) = IF j = i THEN k % Cap[w] ELSE ReadPacked(buf, w, j)
  BY <1>7, <1>9, <1>13, <1>14
<1> QED BY <1>10, <1>15, Zenon DEF WritesOne, new

\* Powers of two between which a third fits.
LEMMA Pow2Between ==
  ASSUME NEW m \in Nat, NEW w \in Nat, NEW n \in Nat, m + w <= n, n <= ByteBits
  PROVE  /\ Pow2[n - (m + w)] \in Nat \ {0}
         /\ IsScale(Pow2[n], Pow2[m], Pow2[w], Pow2[n - (m + w)])
<1> DEFINE o == n - (m + w)
<1>1. ByteBits \in Nat /\ m + w \in Nat /\ o \in Nat /\ (m + w) + o = n
  BY ByteLayout
<1>2. m + w <= 2 * ByteBits /\ (m + w) + o <= 2 * ByteBits /\ o \in 0 .. 2 * ByteBits
  BY <1>1
<1> HIDE DEF o
<1>3. Pow2[m + w] = Pow2[m] * Pow2[w]
  BY <1>2, Pow2Sum
<1>4. Pow2[(m + w) + o] = Pow2[m + w] * Pow2[o]
  BY <1>1, <1>2, Pow2Sum
<1>5. Pow2[o] \in Nat \ {0}
  BY <1>2, Pow2Is
<1>6. IsScale(Pow2[n], Pow2[m], Pow2[w], Pow2[o])
  BY <1>1, <1>3, <1>4, Zenon DEF IsScale
<1> QED BY <1>5, <1>6 DEF o

\* An index that shares its byte.
LEMMA WriteBits ==
  ASSUME NEW w \in Widths \ {0}, w < ByteBits, ByteBits % w = 0, NEW buf \in Buffers(w),
         NEW i \in Voxels, NEW k \in Nat
  PROVE  WritesOne(buf, w, i, k)
<1> DEFINE n == Cardinality(Voxels)
           c == Cap[w]
           At(j) == (j * w) % ByteBits
           s == ShiftOf(i, w)
           p == ByteOf(i, w)
           x == buf[p]
           y == Written(x, s, c, k % c)
           new == WritePacked(buf, w, i, k)
<1>1. /\ ByteBits \in Nat \ {0} /\ ByteSize = Pow2[ByteBits] /\ ByteSize \in Nat \ {0}
      /\ w \in Nat \ {0} /\ c = Pow2[w] /\ c \in Nat \ {0}
      /\ w # 2 * ByteBits /\ w # ByteBits /\ w # 0 /\ ~ (w >= ByteBits)
  <2>1. ByteBits \in Nat \ {0} /\ w \in Nat \ {0}
    BY WidthKinds
  <2>2. w # 2 * ByteBits /\ w # ByteBits /\ w # 0 /\ ~ (w >= ByteBits)
    BY <2>1
  <2> QED BY <2>1, <2>2, WidthKinds
<1>2. /\ n \in Nat /\ Voxels = 0 .. n - 1 /\ (n * w) % ByteBits = 0
      /\ IndexBytes(w) = (n * w) \div ByteBits /\ IndexBytes(w) \in Nat
  BY VoxelsAre
<1>3. \A j \in Voxels : j \in Nat /\ j < n
  BY <1>2
<1>4. \A j \in Voxels : /\ At(j) \in Nat /\ At(j) + w <= ByteBits
                        /\ ByteOf(j, w) \in 1 .. IndexBytes(w)
                        /\ ShiftOf(j, w) = Pow2[At(j)] /\ ShiftOf(j, w) \in Nat \ {0}
  <2> SUFFICES ASSUME NEW j \in Voxels
               PROVE  /\ At(j) \in Nat /\ At(j) + w <= ByteBits
                      /\ ByteOf(j, w) \in 1 .. IndexBytes(w)
                      /\ ShiftOf(j, w) = Pow2[At(j)] /\ ShiftOf(j, w) \in Nat \ {0}
    OBVIOUS
  <2>1. j \in Nat /\ j < n /\ j * w \in Nat
    BY <1>1, <1>3
  <2>2. At(j) \in 0 .. ByteBits - 1 /\ (j * w) \div ByteBits \in Nat
    BY <1>1, <2>1, DivModOf, Zenon
  <2>3. At(j) + w <= ByteBits
    BY <1>1, <2>1, PlaceInByte, Zenon
  <2>4. (j * w) \div ByteBits < IndexBytes(w)
    BY <1>1, <1>2, <2>1, PlaceInBuffer, Zenon
  <2>5. ByteOf(j, w) = (j * w) \div ByteBits + 1 /\ ShiftOf(j, w) = Pow2[At(j)]
    BY DEF ByteOf, ShiftOf
  <2> HIDE DEF At
  <2> DEFINE a == (j * w) \div ByteBits
  <2>6. a \in Nat /\ a < IndexBytes(w) /\ ByteOf(j, w) = a + 1
    BY <2>2, <2>4, <2>5
  <2> HIDE DEF a
  <2>7. ByteOf(j, w) \in 1 .. IndexBytes(w)
    BY <1>2, <2>6
  <2>8. At(j) \in 0 .. 2 * ByteBits
    BY <1>1, <2>2
  <2> QED BY <1>1, <2>2, <2>3, <2>5, <2>7, <2>8, Pow2Is
<1>5. ASSUME NEW j \in Voxels, NEW h \in Voxels, j < h, ByteOf(j, w) = ByteOf(h, w)
      PROVE  At(j) + w <= At(h)
  <2>1. j \in Nat /\ h \in Nat /\ j * w \in Nat /\ h * w \in Nat
    BY <1>1, <1>3
  <2>2. (j * w) \div ByteBits \in Nat /\ (h * w) \div ByteBits \in Nat
    BY <1>1, <2>1, DivModOf, Zenon
  <2>3. (j * w) \div ByteBits + 1 = (h * w) \div ByteBits + 1
    BY <1>5 DEF ByteOf
  <2>4. (j * w) \div ByteBits = (h * w) \div ByteBits
    BY <2>2, <2>3
  <2> QED BY <1>1, <1>5, <2>1, <2>4, PlacesApart, Zenon
<1> HIDE DEF At, c, n
<1>6. /\ p \in 1 .. IndexBytes(w) /\ s \in Nat \ {0} /\ s = Pow2[At(i)]
      /\ At(i) \in Nat /\ At(i) + w <= ByteBits
  BY <1>4
<1>7. /\ buf \in [1 .. IndexBytes(w) -> 0 .. ByteSize - 1]
      /\ x \in Nat /\ x < ByteSize
  BY <1>1, <1>6 DEF Buffers
<1>8. new = [buf EXCEPT ![p] = y]
  BY <1>1, Zenon DEF WritePacked, Written, c
<1>9. /\ \A j \in Voxels : /\ ReadPacked(buf, w, j) = (buf[ByteOf(j, w)] \div ShiftOf(j, w)) % c
                           /\ ReadPacked(new, w, j) = (new[ByteOf(j, w)] \div ShiftOf(j, w)) % c
  BY <1>1, Zenon DEF ReadPacked, c
<1>10. k % c \in 0 .. c - 1
  BY <1>1
<1> HIDE DEF x, s, p
<1>11. y \in Nat /\ (y \div s) % c = k % c /\ y % s = x % s /\ SameAbove(x, y, s, c)
  <2> DEFINE v == k % c
  <2>1. v \in 0 .. c - 1
    BY <1>10
  <2> HIDE DEF v
  <2>a. x \in Nat /\ s \in Nat \ {0} /\ c \in Nat \ {0}
    BY <1>1, <1>6, <1>7
  <2>2. /\ Written(x, s, c, v) \in Nat /\ (Written(x, s, c, v) \div s) % c = v
        /\ Written(x, s, c, v) % s = x % s /\ SameAbove(x, Written(x, s, c, v), s, c)
    BY <2>1, <2>a, FieldWritten
  <2> QED BY <2>2, Zenon DEF v
<1> HIDE DEF y
<1>12. y < ByteSize
  <2> DEFINE u == Pow2[ByteBits - (At(i) + w)]
  <2>1. u \in Nat \ {0} /\ IsScale(ByteSize, s, c, u)
    BY <1>1, <1>6, Pow2Between
  <2> HIDE DEF u
  <2> QED BY <1>1, <1>6, <1>7, <1>11, <2>1, FieldFits
<1> HIDE DEF new
<1>13. new \in Buffers(w) /\ new[p] = y /\ \A q \in 1 .. IndexBytes(w) : q # p => new[q] = buf[q]
  BY <1>1, <1>6, <1>7, <1>8, <1>11, <1>12 DEF Buffers
<1>14. ASSUME NEW j \in Voxels
       PROVE  ReadPacked(new, w, j) = IF j = i THEN k % c ELSE ReadPacked(buf, w, j)
  <2> DEFINE t == ShiftOf(j, w)
  <2>0. t = Pow2[At(j)] /\ t \in Nat \ {0} /\ At(j) \in Nat /\ At(j) + w <= ByteBits
    BY <1>4
  <2>1. CASE j = i
    BY <1>9, <1>11, <1>13, <2>1 DEF p, s
  <2>2. CASE j # i /\ ByteOf(j, w) # p
    BY <1>4, <1>9, <1>13, <2>2
  <2>3. CASE j # i /\ ByteOf(j, w) = p /\ i < j
    <3> DEFINE u == Pow2[At(j) - (At(i) + w)]
    <3>1. At(i) + w <= At(j)
      BY <1>5, <2>3 DEF p
    <3>2. At(j) <= ByteBits
      BY <1>1, <2>0
    <3>3. u \in Nat \ {0} /\ IsScale(t, s, c, u)
      BY <1>1, <1>6, <2>0, <3>1, <3>2, Pow2Between
    <3> HIDE DEF u, t
    <3>a. /\ x \in Nat /\ y \in Nat /\ s \in Nat \ {0} /\ c \in Nat \ {0}
          /\ SameAbove(x, y, s, c)
      BY <1>1, <1>6, <1>7, <1>11
    <3>4. y \div t = x \div t
      BY <3>a, <3>3, FieldAbove
    <3> QED BY <1>9, <1>13, <2>3, <3>4, Zenon DEF t, x
  <2>4. CASE j # i /\ ByteOf(j, w) = p /\ j < i
    <3> DEFINE u == Pow2[At(i) - (At(j) + w)]
    <3>1. At(j) + w <= At(i)
      BY <1>5, <2>4 DEF p
    <3>2. At(i) <= ByteBits
      BY <1>1, <1>6
    <3>3. u \in Nat \ {0} /\ IsScale(s, t, c, u)
      BY <1>1, <1>6, <2>0, <3>1, <3>2, Pow2Between
    <3> HIDE DEF u, t
    <3>4. (x \div t) % c = ((x % s) \div t) % c
      BY <1>1, <1>7, <2>0, <3>3, FieldBelow
    <3>5. (y \div t) % c = ((y % s) \div t) % c
      BY <1>1, <1>11, <2>0, <3>3, FieldBelow
    <3> QED BY <1>9, <1>11, <1>13, <2>4, <3>4, <3>5, Zenon DEF t, x
  <2>5. j < i \/ i < j \/ j = i
    BY <1>3
  <2> QED BY <2>1, <2>2, <2>3, <2>4, <2>5
<1> QED BY <1>13, <1>14, Zenon DEF WritesOne, new, c

\* A write stores its index, cut to the width, and touches no other.
LEMMA WriteIsOne ==
  ASSUME NEW w \in Widths \ {0}, NEW buf \in Buffers(w), NEW i \in Voxels, NEW k \in Nat
  PROVE  WritesOne(buf, w, i, k)
BY WidthKinds, WriteBits, WriteByte, WriteTwoBytes

-----------------------------------------------------------------------------
(* The loops that write several.                                           *)

\* What holds of a loop's local before the loop, and after each turn that
\* starts with a local it holds of, holds after every turn; I pairs a number
\* of turns with the locals that are right after as many.
LEMMA LoopHolds ==
  ASSUME NEW n \in Nat, NEW I, NEW g, <<0, g[0]>> \in I,
         \A z \in 1 .. n : <<z - 1, g[z - 1]>> \in I => <<z, g[z]>> \in I
  PROVE  <<n, g[n]>> \in I
<1> DEFINE S == {z \in 0 .. n : <<z, g[z]>> \in I}
<1>1. S \in SUBSET (0 .. n) /\ 0 \in S
  OBVIOUS
<1>2. ASSUME NEW z \in 0 .. n - 1, z \in S PROVE z + 1 \in S
  <2>1. z + 1 \in 1 .. n /\ (z + 1) - 1 = z /\ z + 1 \in 0 .. n
    OBVIOUS
  <2>2. <<z, g[z]>> \in I
    BY <1>2
  <2>3. <<(z + 1) - 1, g[(z + 1) - 1]>> \in I
    BY <2>1, <2>2
  <2> QED BY <2>1, <2>3
<1> HIDE DEF S
<1>3. S = 0 .. n
  BY <1>1, <1>2, UpInduction
<1>4. n \in S
  BY <1>3
<1> QED BY <1>4 DEF S

\* What a buffer holds: an index for each voxel.
Holds(buf, w, idx) == buf \in Buffers(w) /\ \A j \in Voxels : ReadPacked(buf, w, j) = idx[j]

LEMMA TranscodeCopies ==
  ASSUME NEW old \in Widths, NEW new \in Widths \ {0}, NEW buf,
         NEW idx \in [Voxels -> Nat], \A j \in Voxels : ReadPacked(buf, old, j) = idx[j]
  PROVE  Holds(Transcode(buf, old, new), new, [j \in Voxels |-> idx[j] % Cap[new]])
<1> DEFINE n == Cardinality(Voxels)
           X == Buffers(new)
           zero == ZeroBytes(IndexBytes(new))
           Turn(z, b) == WritePacked(b, new, z - 1, ReadPacked(buf, old, z - 1))
           step == [p \in (0 .. n) \X X |-> IF p[1] = 0 THEN p[2] ELSE Turn(p[1], p[2])]
           Is(f) == f = [z \in 0 .. n |-> IF z = 0 THEN zero ELSE Turn(z, f[z - 1])]
           I == {p \in (0 .. n) \X X : \A j \in Voxels : j < p[1] =>
                   ReadPacked(p[2], new, j) = idx[j] % Cap[new]}
<1>1. n \in Nat /\ Voxels = 0 .. n - 1
  BY VoxelsAre
<1>2. zero \in X
  <2>1. ByteSize \in Nat \ {0} /\ IndexBytes(new) \in Nat
    BY WidthKinds, VoxelsAre
  <2> QED BY <2>1 DEF ZeroBytes, Buffers
<1>3. ASSUME NEW z \in 1 .. n, NEW b \in X
      PROVE  /\ z - 1 \in Voxels
             /\ Turn(z, b) \in X
             /\ \A j \in Voxels : ReadPacked(Turn(z, b), new, j) =
                  IF j = z - 1 THEN idx[j] % Cap[new] ELSE ReadPacked(b, new, j)
  <2>1. z - 1 \in Voxels
    BY <1>1
  <2>2. ReadPacked(buf, old, z - 1) = idx[z - 1] /\ idx[z - 1] \in Nat
    BY <2>1
  <2>3. WritesOne(b, new, z - 1, idx[z - 1])
    BY <2>1, <2>2, WriteIsOne
  <2>4. Turn(z, b) = WritePacked(b, new, z - 1, idx[z - 1])
    BY <2>2
  <2> HIDE DEF Turn
  <2> QED BY <2>1, <2>3, <2>4, Zenon DEF WritesOne
<1>4. \A z \in 1 .. n : z \in 0 .. n /\ z - 1 \in 0 .. n /\ z # 0
  BY <1>1
<1> HIDE DEF n, X, zero, Turn
<1>5. step \in [(0 .. n) \X X -> X] /\ \A z \in 0 .. n, b \in X : z # 0 => step[<<z, b>>] = Turn(z, b)
  <2>1. ASSUME NEW z \in 0 .. n, NEW b \in X, z # 0 PROVE Turn(z, b) \in X
    <3>1. z \in 1 .. n
      BY <1>1, <2>1
    <3> QED BY <1>3, <3>1
  <2> QED BY <2>1
<1> HIDE DEF step
<1>6. PICK f : RunsUp(f, n, X, zero, step)
  BY <1>1, <1>2, <1>5, LoopUp, Zenon
<1>7. f \in [0 .. n -> X] /\ \A z \in 0 .. n : f[z] = IF z = 0 THEN zero ELSE step[<<z, f[z - 1]>>]
  BY <1>6 DEF RunsUp
<1>8. Is(f)
  <2>1. ASSUME NEW z \in 0 .. n, z # 0 PROVE step[<<z, f[z - 1]>>] = Turn(z, f[z - 1])
    <3>1. z - 1 \in 0 .. n
      BY <1>1, <2>1
    <3> QED BY <1>5, <1>7, <2>1, <3>1
  <2> QED BY <1>7, <2>1
<1>9. Transcode(buf, old, new) = (CHOOSE f_1 : Is(f_1))[n]
  BY DEF Transcode, n, zero, Turn
<1>10. PICK g : Is(g) /\ Transcode(buf, old, new) = g[n]
  BY <1>8, <1>9
<1>11. <<0, g[0]>> \in I
  <2>1. g[0] = zero /\ 0 \in 0 .. n
    BY <1>1, <1>10
  <2>2. \A j \in Voxels : ~ (j < 0)
    BY <1>1
  <2> QED BY <1>2, <2>1, <2>2
<1>12. ASSUME NEW z \in 1 .. n, <<z - 1, g[z - 1]>> \in I PROVE <<z, g[z]>> \in I
  <2>1. g[z] = Turn(z, g[z - 1])
    BY <1>4, <1>10
  <2>2. g[z - 1] \in X /\ \A j \in Voxels : j < z - 1 => ReadPacked(g[z - 1], new, j) = idx[j] % Cap[new]
    BY <1>12
  <2>3. \A j \in Voxels : j < z => j = z - 1 \/ j < z - 1
    BY <1>1
  <2>4. /\ g[z] \in X
        /\ \A j \in Voxels : ReadPacked(g[z], new, j) =
                  IF j = z - 1 THEN idx[j] % Cap[new] ELSE ReadPacked(g[z - 1], new, j)
    BY <1>3, <2>1, <2>2
  <2>5. \A j \in Voxels : j < z => ReadPacked(g[z], new, j) = idx[j] % Cap[new]
    BY <2>2, <2>3, <2>4
  <2> QED BY <1>4, <2>4, <2>5
<1> HIDE DEF I, Is
<1>13. <<n, g[n]>> \in I
  BY <1>1, <1>11, <1>12, LoopHolds
<1>14. g[n] \in X /\ \A j \in Voxels : j < n => ReadPacked(g[n], new, j) = idx[j] % Cap[new]
  BY <1>13 DEF I
<1>15. \A j \in Voxels : j < n
  BY <1>1
<1> QED BY <1>10, <1>14, <1>15 DEF Holds, X

\* An index written in the voxels of a box.
PutIn(idx, box, k) == [j \in Voxels |-> IF j \in box THEN k ELSE idx[j]]

\* The loop of a write puts its index in every voxel of the box.
LEMMA PutBytes ==
  ASSUME NEW box \in SUBSET Voxels, NEW b, NEW idx \in [Voxels -> Nat],
         NEW w \in Widths, w = Interned(chunk, b).bits,
         NEW k \in Nat, k = IndexOf(Interned(chunk, b), b), k < Cap[w],
         Holds(BufferInterned(b), w, idx)
  PROVE  Holds(BufferPut(box, b), w, PutIn(idx, box, k))
<1> DEFINE n == Cardinality(Voxels)
           X == Buffers(w)
           start == BufferInterned(b)
           Turn(z, buf) == IF z - 1 \notin box \/ ReadPacked(buf, w, z - 1) = k THEN buf
                           ELSE WritePacked(buf, w, z - 1, k)
           step == [p \in (0 .. n) \X X |-> IF p[1] = 0 THEN p[2] ELSE Turn(p[1], p[2])]
           Is(f) == f = [z \in 0 .. n |-> IF z = 0 THEN start ELSE Turn(z, f[z - 1])]
           At(z, j) == IF j < z /\ j \in box THEN k ELSE idx[j]
           I == {p \in (0 .. n) \X X : \A j \in Voxels : ReadPacked(p[2], w, j) = At(p[1], j)}
<1>1. n \in Nat /\ Voxels = 0 .. n - 1
  BY VoxelsAre
<1>2. start \in X /\ \A j \in Voxels : ReadPacked(start, w, j) = idx[j]
  BY DEF Holds
<1>3. k % Cap[w] = k /\ (w = 0 => k = 0)
  <2>1. Cap[w] \in Nat \ {0} /\ Cap[0] = 1
    BY WidthsFit
  <2> QED BY <2>1
<1>4. ASSUME NEW z \in 1 .. n, NEW buf \in X
      PROVE  /\ z - 1 \in Voxels
             /\ Turn(z, buf) \in X
             /\ \A j \in Voxels : ReadPacked(Turn(z, buf), w, j) =
                  IF j = z - 1 /\ j \in box THEN k ELSE ReadPacked(buf, w, j)
  <2>1. z - 1 \in Voxels
    BY <1>1
  <2>2. CASE z - 1 \notin box \/ ReadPacked(buf, w, z - 1) = k
    <3>1. Turn(z, buf) = buf
      BY <2>2
    <3> HIDE DEF Turn
    <3> QED BY <2>1, <2>2, <3>1
  <2>3. CASE ~ (z - 1 \notin box \/ ReadPacked(buf, w, z - 1) = k)
    <3>1. Turn(z, buf) = WritePacked(buf, w, z - 1, k)
      BY <2>3
    <3>2. w # 0
      BY <1>3, <2>3 DEF ReadPacked
    <3>3. WritesOne(buf, w, z - 1, k)
      BY <2>1, <3>2, WriteIsOne
    <3> HIDE DEF Turn
    <3> QED BY <1>3, <2>1, <2>3, <3>1, <3>3, Zenon DEF WritesOne
  <2> QED BY <2>2, <2>3
<1>5. \A z \in 1 .. n : z \in 0 .. n /\ z - 1 \in 0 .. n /\ z # 0
  BY <1>1
<1> HIDE DEF n, X, start, Turn
<1>6. step \in [(0 .. n) \X X -> X] /\ \A z \in 0 .. n, buf \in X : z # 0 => step[<<z, buf>>] = Turn(z, buf)
  <2>1. ASSUME NEW z \in 0 .. n, NEW buf \in X, z # 0 PROVE Turn(z, buf) \in X
    <3>1. z \in 1 .. n
      BY <1>1, <2>1
    <3> QED BY <1>4, <3>1
  <2> QED BY <2>1
<1> HIDE DEF step
<1>7. PICK f : RunsUp(f, n, X, start, step)
  BY <1>1, <1>2, <1>6, LoopUp, Zenon
<1>8. f \in [0 .. n -> X] /\ \A z \in 0 .. n : f[z] = IF z = 0 THEN start ELSE step[<<z, f[z - 1]>>]
  BY <1>7 DEF RunsUp
<1>9. Is(f)
  <2>1. ASSUME NEW z \in 0 .. n, z # 0 PROVE step[<<z, f[z - 1]>>] = Turn(z, f[z - 1])
    <3>1. z - 1 \in 0 .. n
      BY <1>1, <2>1
    <3> QED BY <1>6, <1>8, <2>1, <3>1
  <2> QED BY <1>8, <2>1
<1>10. BufferPut(box, b) = (CHOOSE f_1 : Is(f_1))[n]
  BY DEF BufferPut, n, start, Turn
<1>11. PICK g : Is(g) /\ BufferPut(box, b) = g[n]
  BY <1>9, <1>10
<1>12. <<0, g[0]>> \in I
  <2>1. g[0] = start /\ 0 \in 0 .. n
    BY <1>1, <1>11
  <2>2. \A j \in Voxels : ~ (j < 0)
    BY <1>1
  <2> QED BY <1>2, <2>1, <2>2
<1>13. ASSUME NEW z \in 1 .. n, <<z - 1, g[z - 1]>> \in I PROVE <<z, g[z]>> \in I
  <2>1. g[z] = Turn(z, g[z - 1])
    BY <1>5, <1>11
  <2>2. g[z - 1] \in X /\ \A j \in Voxels : ReadPacked(g[z - 1], w, j) = At(z - 1, j)
    BY <1>13
  <2>3. \A j \in Voxels : j < z <=> j = z - 1 \/ j < z - 1
    BY <1>1
  <2>4. /\ g[z] \in X
        /\ \A j \in Voxels : ReadPacked(g[z], w, j) =
                  IF j = z - 1 /\ j \in box THEN k ELSE ReadPacked(g[z - 1], w, j)
    BY <1>4, <2>1, <2>2
  <2>5. \A j \in Voxels : ReadPacked(g[z], w, j) = At(z, j)
    BY <2>2, <2>3, <2>4
  <2> QED BY <1>5, <2>4, <2>5
<1> HIDE DEF I, Is
<1>14. <<n, g[n]>> \in I
  BY <1>1, <1>12, <1>13, LoopHolds
<1>15. g[n] \in X /\ \A j \in Voxels : ReadPacked(g[n], w, j) = At(n, j)
  BY <1>14 DEF I
<1>16. \A j \in Voxels : j < n
  BY <1>1
<1>17. \A j \in Voxels : At(n, j) = IF j \in box THEN k ELSE idx[j]
  BY <1>16
<1> QED BY <1>11, <1>15, <1>17 DEF Holds, PutIn, X

-----------------------------------------------------------------------------
(* The bytes of the chunk.                                                 *)

\* The indices of a chunk, as a function.
IndicesOf(ch) == [i \in Voxels |-> ReadIndex(ch, i)]

\* Interning keeps the bytes what the chunk's indices are.
LEMMA InternedBytes ==
  ASSUME Inv, NEW b \in Blocks, Holds(buffer, chunk.bits, IndicesOf(chunk))
  PROVE  LET ch == Interned(chunk, b)
         IN Holds(BufferInterned(b), ch.bits, IndicesOf(ch))
<1> DEFINE ch == Interned(chunk, b)
           longer == [chunk EXCEPT !.palette = Append(@, b)]
           need == BitsFor(Len(longer.palette))
<1>1. ChunkOK(chunk) /\ ChunkOK(ch)
  BY InterningIsSound DEF Inv
<1>2. chunk.bits \in Widths /\ ch.bits \in Widths /\ chunk.bits \in Nat /\ ch.bits \in Nat
  BY <1>1, WidthsFit DEF ChunkOK
<1>3. chunk \in [bits : Widths, palette : Seq(Blocks),
                 indices : [Voxels -> Nat] \cup {NoBuffer}]
  BY <1>1 DEF ChunkOK
<1>4. longer.bits = chunk.bits /\ longer.indices = chunk.indices
  BY <1>3, Zenon
<1>5. ch = chunk \/ ch = longer \/ (ch = GrowBits(longer, need) /\ need > chunk.bits)
  BY <1>4, Zenon DEF Interned
<1>6. BufferInterned(b) = IF ch.bits > chunk.bits THEN Transcode(buffer, chunk.bits, ch.bits)
                          ELSE buffer
  BY Zenon DEF BufferInterned
<1>8. longer.palette \in Seq(Blocks) /\ longer \in [bits : Widths, palette : Seq(Blocks),
                 indices : [Voxels -> Nat] \cup {NoBuffer}]
  <2>1. chunk.palette \in Seq(Blocks)
    BY <1>3
  <2>2. Append(chunk.palette, b) \in Seq(Blocks)
    BY <2>1
  <2>3. longer \in [bits : Widths, palette : {Append(chunk.palette, b)},
                    indices : [Voxels -> Nat] \cup {NoBuffer}]
    BY <1>3, Zenon
  <2> HIDE DEF longer
  <2> QED BY <2>2, <2>3
<1> HIDE DEF longer, need, ch
<1>7. \A i \in Voxels : ReadIndex(longer, i) = ReadIndex(chunk, i)
  BY <1>4 DEF ReadIndex
<1>9. CASE ch = chunk \/ ch = longer
  <2>1. ch.bits = chunk.bits /\ \A i \in Voxels : ReadIndex(ch, i) = ReadIndex(chunk, i)
    BY <1>4, <1>7, <1>9
  <2>2. IndicesOf(ch) = IndicesOf(chunk)
    BY <2>1 DEF IndicesOf
  <2>3. ~ (ch.bits > chunk.bits)
    BY <1>2, <2>1
  <2> QED BY <1>6, <2>1, <2>2, <2>3 DEF ch
<1>10. CASE ch = GrowBits(longer, need) /\ need > chunk.bits
  <2>1. ch.bits = need /\ ch.indices = [i \in Voxels |-> ReadIndex(longer, i) % Cap[need]]
    BY <1>8, <1>10 DEF GrowBits
  <2>2. ch.bits > chunk.bits /\ ch.bits \in Widths \ {0}
    BY <1>2, <1>10, <2>1
  <2>3. IndicesOf(chunk) \in [Voxels -> Nat]
    BY <1>1, IndicesFit DEF IndicesOf
  <2>4. \A j \in Voxels : ReadPacked(buffer, chunk.bits, j) = IndicesOf(chunk)[j]
    BY DEF Holds
  <2>5. Holds(Transcode(buffer, chunk.bits, ch.bits), ch.bits,
              [j \in Voxels |-> IndicesOf(chunk)[j] % Cap[ch.bits]])
    BY <1>2, <2>2, <2>3, <2>4, TranscodeCopies
  <2>6. \A j \in Voxels : ReadIndex(ch, j) = ReadIndex(chunk, j) % Cap[ch.bits]
    BY <1>7, <2>1, <2>2 DEF ReadIndex
  <2>7. IndicesOf(ch) = [j \in Voxels |-> IndicesOf(chunk)[j] % Cap[ch.bits]]
    BY <2>6 DEF IndicesOf
  <2> QED BY <1>6, <2>2, <2>5, <2>7 DEF ch
<1> QED BY <1>5, <1>9, <1>10

\* The invariant of the bytes.
PackedInv == Inv /\ Holds(buffer, chunk.bits, IndicesOf(chunk))

\* A write of a box keeps it.
LEMMA PutKeepsBytes ==
  ASSUME PackedInv, NEW b \in Blocks, NEW box \in SUBSET Voxels, Put(box, b),
         buffer' = BufferPut(box, b)
  PROVE  Holds(buffer', chunk'.bits, IndicesOf(chunk'))
<1> DEFINE ch == Interned(chunk, b)
           k == IndexOf(ch, b)
           stale == Stale(ch, box, k)
<1>1. ChunkOK(ch) /\ b \in Entries(ch)
  BY InterningIsSound DEF Inv, PackedInv
<1>2. Holds(BufferInterned(b), ch.bits, IndicesOf(ch))
  BY InternedBytes DEF PackedInv
<1>3. chunk' = WriteIndices(ch, stale, k)
  BY DEF Put
<1>4. /\ ch.bits \in Widths /\ Cap[ch.bits] \in Nat \ {0}
      /\ Len(ch.palette) \in Nat /\ Len(ch.palette) <= Cap[ch.bits]
      /\ \A i \in Voxels : ReadIndex(ch, i) \in Nat
      /\ ch \in [bits : Widths, palette : Seq(Blocks),
                 indices : [Voxels -> Nat] \cup {NoBuffer}]
      /\ ch.bits = 0 <=> ch.indices = NoBuffer
  BY <1>1, IndicesFit DEF ChunkOK
<1> HIDE DEF ch
<1>5. k \in 0 .. Len(ch.palette) - 1
  BY <1>1, IndexOfNames
<1>6. k \in Nat /\ k < Cap[ch.bits] /\ k % Cap[ch.bits] = k
  <2> DEFINE c == Cap[ch.bits]
             l == Len(ch.palette)
  <2>1. c \in Nat \ {0} /\ l \in Nat /\ l <= c /\ k \in 0 .. l - 1
    BY <1>4, <1>5
  <2> HIDE DEF k, c, l
  <2>2. k \in Nat /\ k < c /\ k % c = k
    BY <2>1
  <2> QED BY <2>2 DEF c
<1>7. Holds(BufferPut(box, b), ch.bits, PutIn(IndicesOf(ch), box, k))
  <2>1. IndicesOf(ch) \in [Voxels -> Nat]
    BY <1>4 DEF IndicesOf
  <2>2. k = IndexOf(Interned(chunk, b), b) /\ ch.bits = Interned(chunk, b).bits
    BY DEF ch
  <2> HIDE DEF k
  <2> QED BY <1>2, <1>4, <1>6, <2>1, <2>2, PutBytes
<1> HIDE DEF k
<1>8. /\ chunk'.bits = ch.bits
      /\ \A j \in Voxels : ReadIndex(chunk', j) = IF j \in box THEN k ELSE ReadIndex(ch, j)
  <2>1. \A j \in Voxels : j \in stale <=> j \in box /\ ReadIndex(ch, j) # k
    BY DEF Stale
  <2> HIDE DEF stale
  <2>2. CASE stale = {}
    BY <1>3, <2>1, <2>2 DEF WriteIndices
  <2>3. CASE stale # {}
    <3>1. chunk' = [ch EXCEPT !.indices =
            [i \in Voxels |-> IF i \in stale THEN k % Cap[ch.bits] ELSE @[i]]]
      BY <1>3, <2>3 DEF WriteIndices
    <3>2. /\ chunk'.bits = ch.bits
          /\ chunk'.indices = [i \in Voxels |-> IF i \in stale THEN k ELSE ch.indices[i]]
      BY <1>4, <1>6, <3>1
    <3>3. ch.bits # 0
      <4>1. PICK j \in Voxels : j \in box /\ ReadIndex(ch, j) # k
        BY <2>1, <2>3 DEF stale, Stale
      <4>2. ch.bits = 0 => k = 0
        BY <1>4, <1>6, WidthsFit
      <4> QED BY <4>1, <4>2 DEF ReadIndex
    <3> QED BY <2>1, <3>2, <3>3 DEF ReadIndex
  <2> QED BY <2>2, <2>3
<1>9. IndicesOf(chunk') = PutIn(IndicesOf(ch), box, k)
  BY <1>8 DEF IndicesOf, PutIn
<1> QED BY <1>7, <1>8, <1>9

\* A chunk of one value has no bytes, and every index reads as 0.
LEMMA NoBytes ==
  ASSUME NEW b
  PROVE  Holds(<<>>, 0, IndicesOf([bits |-> 0, palette |-> <<b>>, indices |-> NoBuffer]))
<1>1. IndexBytes(0) = 0
  <2>1. Cardinality(Voxels) * 0 = 0 /\ 0 \div ByteBits = 0
    BY VoxelsAre, WidthKinds
  <2> QED BY <2>1 DEF IndexBytes
<1>2. <<>> \in Buffers(0)
  BY <1>1 DEF Buffers
<1>3. \A j \in Voxels : ReadPacked(<<>>, 0, j) = 0
  BY DEF ReadPacked
<1> QED BY <1>2, <1>3 DEF Holds, IndicesOf, ReadIndex

\* A step of the chunk with its bytes is a step of the chunk.
LEMMA PackedStepIsStep ==
  [PackedNext]_packedVars => [Next]_vars
BY DEF PackedNext, PackedSet, PackedFillPart, PackedFillWhole, Next, packedVars, vars

\* Every step keeps it.
LEMMA PackedStep ==
  ASSUME PackedInv, [PackedNext]_packedVars
  PROVE  PackedInv'
<1>1. Inv'
  BY PackedStepIsStep, StepIsArrayStep DEF PackedInv
<1>2. ASSUME UNCHANGED <<chunk, buffer>> PROVE PackedInv'
  BY <1>1, <1>2 DEF PackedInv, IndicesOf, Holds
<1>3. ASSUME NEW b \in Blocks, NEW i \in Voxels, PackedSet(i, b) PROVE PackedInv'
  <2>1. CASE UniformOf(b)
    <3>1. b \in Entries(chunk)
      BY <2>1 DEF UniformOf, Entries, PackedInv, Inv, ChunkOK
    <3> QED BY <1>2, <1>3, <2>1 DEF PackedSet, Set
  <2>2. CASE ~UniformOf(b)
    <3>1. Put({i}, b) /\ buffer' = BufferPut({i}, b)
      BY <1>3, <2>2 DEF PackedSet, Set
    <3> QED BY <1>1, <3>1, PutKeepsBytes DEF PackedInv
  <2> QED BY <2>1, <2>2
<1>4. ASSUME NEW b \in Blocks, NEW box \in Boxes, PackedFillPart(box, b) PROVE PackedInv'
  <2>1. box \in SUBSET Voxels /\ Put(box, b) /\ buffer' = BufferPut(box, b)
    BY <1>4, ChunkShape DEF PackedFillPart, FillPart
  <2> QED BY <1>1, <2>1, PutKeepsBytes DEF PackedInv
<1>5. ASSUME NEW b \in Blocks, PackedFillWhole(b) PROVE PackedInv'
  <2>1. CASE UniformOf(b)
    BY <1>2, <1>5, <2>1 DEF PackedFillWhole, FillWhole
  <2>2. CASE ~UniformOf(b)
    <3>1. /\ chunk' = [bits |-> 0, palette |-> <<b>>, indices |-> NoBuffer]
          /\ buffer' = <<>> /\ chunk'.bits = 0
      BY <1>5, <2>2 DEF PackedFillWhole, FillWhole, FillUniform
    <3>2. Holds(buffer', chunk'.bits, IndicesOf(chunk'))
      BY <3>1, NoBytes
    <3> QED BY <1>1, <3>2 DEF PackedInv
  <2> QED BY <2>1, <2>2
<1> QED BY <1>2, <1>3, <1>4, <1>5 DEF PackedNext, packedVars

\* So every state the chunk reaches with its bytes satisfies it.
LEMMA PackedInvHolds == PackedSpec => []PackedInv
<1>1. PackedInit => PackedInv
  <2> SUFFICES ASSUME PackedInit PROVE PackedInv
    OBVIOUS
  <2>1. Inv
    BY UniformIsSound, ChunkShape DEF PackedInit, Init, Fresh, Inv
  <2>2. chunk = [bits |-> 0, palette |-> <<Air>>, indices |-> NoBuffer] /\ buffer = <<>>
        /\ chunk.bits = 0
    BY DEF PackedInit, Init, Fresh
  <2>3. Holds(buffer, chunk.bits, IndicesOf(chunk))
    BY <2>2, NoBytes
  <2> QED BY <2>1, <2>3 DEF PackedInv
<1> QED BY <1>1, PackedStep, PTL DEF PackedSpec

\* The bytes of a chunk of any size, for bytes of any width, hold exactly
\* the indices the chunk is described by.
THEOREM BytesAlwaysHoldIndices == PackedSpec => []BytesHoldIndices
<1>1. PackedInv => BytesHoldIndices
  BY DEF PackedInv, Holds, IndicesOf, Buffers, BytesHoldIndices
<1> QED BY <1>1, PackedInvHolds, PTL

-----------------------------------------------------------------------------
(* The payload of a column.                                                *)

\* A chunk the size byte can speak for.
SmallImage(im) ==
  /\ im \in [bits : Widths, palette : Seq(Blocks), buffer : Seq(0 .. SizeByteMax)]
  /\ Len(im.palette) \in 1 .. SizeByteMax
  /\ Len(im.buffer) = IndexBytes(im.bits)

\* s stands in the sequence in, after off elements.
SitsAt(s, in, off) ==
  off + Len(s) <= Len(in) /\ \A p \in 1 .. Len(s) : in[off + p] = s[p]

\* Two bytes give back the block id they were made of.
LEMMA EntryReadsBack ==
  ASSUME NEW v \in Blocks
  PROVE  /\ v % ByteSize \in Nat /\ v \div ByteSize \in Nat
         /\ (v % ByteSize) + ByteSize * (v \div ByteSize) = v
<1>1. v \in Nat /\ ByteSize \in Nat \ {0}
  BY OtherFits, WidthKinds
<1>2. v \div ByteSize \in Nat /\ v % ByteSize \in 0 .. ByteSize - 1
      /\ v = ((v \div ByteSize) * ByteSize) + (v % ByteSize)
  BY <1>1, DivModOf
<1>3. (v \div ByteSize) * ByteSize = ByteSize * (v \div ByteSize)
  BY <1>1, <1>2, Distr
<1> QED BY <1>1, <1>2, <1>3

\* Where the entries of a palette are in its bytes.
LEMMA PaletteBytesAre ==
  ASSUME NEW pal \in Seq(Blocks)
  PROVE  /\ PaletteBytes(pal) \in Seq(Nat) /\ Len(PaletteBytes(pal)) = 2 * Len(pal)
         /\ \A k \in 1 .. Len(pal) :
              /\ 2 * k - 1 \in 1 .. 2 * Len(pal) /\ 2 * k \in 1 .. 2 * Len(pal)
              /\ PaletteBytes(pal)[2 * k - 1] = pal[k] % ByteSize
              /\ PaletteBytes(pal)[2 * k] = pal[k] \div ByteSize
<1> DEFINE n == Len(pal)
           At(p) == LET v == pal[(p + 1) \div 2]
                    IN IF p % 2 = 1 THEN v % ByteSize ELSE v \div ByteSize
           bytes == [p \in 1 .. 2 * n |-> At(p)]
<1>1. n \in Nat /\ \A k \in 1 .. n : pal[k] \in Blocks
  OBVIOUS
<1>2. PaletteBytes(pal) = bytes
  BY DEF PaletteBytes
<1>3. \A p \in 1 .. 2 * n : At(p) \in Nat
  <2> SUFFICES ASSUME NEW p \in 1 .. 2 * n PROVE At(p) \in Nat
    OBVIOUS
  <2>1. (p + 1) \div 2 \in 1 .. n
    BY <1>1
  <2>2. pal[(p + 1) \div 2] \in Blocks
    BY <1>1, <2>1
  <2> QED BY <2>2, EntryReadsBack
<1>4. ASSUME NEW k \in 1 .. n
      PROVE  /\ 2 * k - 1 \in 1 .. 2 * n /\ 2 * k \in 1 .. 2 * n
             /\ At(2 * k - 1) = pal[k] % ByteSize /\ At(2 * k) = pal[k] \div ByteSize
  <2>1. /\ 2 * k - 1 \in 1 .. 2 * n /\ 2 * k \in 1 .. 2 * n
        /\ (2 * k - 1) % 2 = 1 /\ (2 * k) % 2 # 1
        /\ ((2 * k - 1) + 1) \div 2 = k /\ (2 * k + 1) \div 2 = k
    BY <1>1
  <2> QED BY <2>1
<1> HIDE DEF At
<1>5. bytes \in [1 .. 2 * n -> Nat] /\ \A p \in 1 .. 2 * n : bytes[p] = At(p)
  BY <1>3
<1> HIDE DEF bytes
<1>6. bytes \in Seq(Nat) /\ Len(bytes) = 2 * n
  BY <1>1, <1>5
<1> QED BY <1>2, <1>4, <1>5, <1>6

\* The parts of two sequences put together.
LEMMA Joined ==
  ASSUME NEW s \in Seq(Nat), NEW t \in Seq(Nat)
  PROVE  /\ s \o t \in Seq(Nat) /\ Len(s \o t) = Len(s) + Len(t)
         /\ Len(s) \in Nat /\ Len(t) \in Nat
         /\ \A p \in 1 .. Len(s) : (s \o t)[p] = s[p]
         /\ \A p \in 1 .. Len(t) : (s \o t)[Len(s) + p] = t[p]
<1>1. Len(s) \in Nat /\ Len(t) \in Nat
  OBVIOUS
<1>2. /\ s \o t \in Seq(Nat) /\ Len(s \o t) = Len(s) + Len(t)
      /\ \A i \in 1 .. Len(s) + Len(t) : (s \o t)[i] =
                IF i <= Len(s) THEN s[i] ELSE t[i - Len(s)]
  BY ConcatProperties
<1>3. \A p \in 1 .. Len(s) : p \in 1 .. Len(s) + Len(t) /\ p <= Len(s)
  BY <1>1
<1>4. \A p \in 1 .. Len(t) : /\ Len(s) + p \in 1 .. Len(s) + Len(t) /\ ~ (Len(s) + p <= Len(s))
                              /\ (Len(s) + p) - Len(s) = p
  BY <1>1
<1>5. \A p \in 1 .. Len(s) : (s \o t)[p] = s[p]
  BY <1>2, <1>3, Zenon
<1>6. \A p \in 1 .. Len(t) : (s \o t)[Len(s) + p] = t[p]
  BY <1>2, <1>4, Zenon
<1> QED BY <1>1, <1>2, <1>5, <1>6

\* The parts of a chunk's image.
LEMMA ImageParts ==
  ASSUME NEW im, SmallImage(im)
  PROVE  LET n == Len(im.palette)
             s == SerializeChunk(im)
         IN /\ s \in Seq(Nat) /\ Len(s) = 2 + 2 * n + IndexBytes(im.bits)
            /\ s[1] = im.bits /\ s[2] = n
            /\ \A k \in 1 .. n : /\ s[2 * k + 1] = im.palette[k] % ByteSize
                                 /\ s[2 * k + 2] = im.palette[k] \div ByteSize
            /\ \A q \in 1 .. IndexBytes(im.bits) : s[2 + 2 * n + q] = im.buffer[q]
<1> DEFINE n == Len(im.palette)
           l == IndexBytes(im.bits)
           h == <<im.bits, n>>
           pb == PaletteBytes(im.palette)
           b == im.buffer
           s == SerializeChunk(im)
<1>1. /\ im.bits \in Nat /\ im.palette \in Seq(Blocks) /\ n \in Nat /\ n <= SizeByteMax
      /\ l \in Nat /\ Len(b) = l /\ b \in Seq(Nat) /\ n \in 1 .. SizeByteMax
      /\ SizeByteMax \in Nat
  <2>0. SizeByteMax \in Nat
    BY WidthKinds DEF SizeByteMax
  <2>1. SizeByteMax \in Nat /\ im.bits \in Widths /\ im.bits \in Nat
    BY <2>0, WidthsFit DEF SmallImage
  <2>2. im.palette \in Seq(Blocks) /\ b \in Seq(0 .. SizeByteMax) /\ n \in Nat
    BY DEF SmallImage
  <2>3. b \in Seq(Nat)
    BY <2>1, <2>2
  <2> QED BY <2>1, <2>2, <2>3, VoxelsAre DEF SmallImage
<1>2. s = (h \o pb) \o b
  <2>1. (IF n < SizeByteMax THEN n ELSE SizeByteMax) = n
    BY <1>1
  <2> QED BY <2>1 DEF SerializeChunk
<1>3. /\ pb \in Seq(Nat) /\ Len(pb) = 2 * n
      /\ \A k \in 1 .. n :
              /\ 2 * k - 1 \in 1 .. 2 * n /\ 2 * k \in 1 .. 2 * n
              /\ pb[2 * k - 1] = im.palette[k] % ByteSize
              /\ pb[2 * k] = im.palette[k] \div ByteSize
  BY <1>1, PaletteBytesAre
<1>4. h \in Seq(Nat) /\ Len(h) = 2 /\ h[1] = im.bits /\ h[2] = n
  BY <1>1
<1> HIDE DEF h, pb, b, s, n, l
<1>5. /\ h \o pb \in Seq(Nat) /\ Len(h \o pb) = 2 + 2 * n
      /\ (h \o pb)[1] = im.bits /\ (h \o pb)[2] = n
      /\ \A p \in 1 .. 2 * n : (h \o pb)[2 + p] = pb[p]
  <2>1. /\ h \o pb \in Seq(Nat) /\ Len(h \o pb) = Len(h) + Len(pb)
        /\ \A p \in 1 .. Len(h) : (h \o pb)[p] = h[p]
        /\ \A p \in 1 .. Len(pb) : (h \o pb)[Len(h) + p] = pb[p]
    BY <1>3, <1>4, Joined
  <2>2. 1 \in 1 .. 2 /\ 2 \in 1 .. 2
    OBVIOUS
  <2> QED BY <1>3, <1>4, <2>1, <2>2, Zenon
<1> DEFINE hp == h \o pb
<1> HIDE DEF hp
<1>6. /\ hp \o b \in Seq(Nat) /\ Len(hp \o b) = 2 + 2 * n + l
      /\ \A p \in 1 .. 2 + 2 * n : (hp \o b)[p] = hp[p]
      /\ \A q \in 1 .. l : (hp \o b)[2 + 2 * n + q] = b[q]
  <2>1. hp \in Seq(Nat) /\ Len(hp) = 2 + 2 * n
    BY <1>5 DEF hp
  <2>2. b \in Seq(Nat) /\ Len(b) = l
    BY <1>1
  <2>3. /\ hp \o b \in Seq(Nat) /\ Len(hp \o b) = Len(hp) + Len(b)
        /\ \A p \in 1 .. Len(hp) : (hp \o b)[p] = hp[p]
        /\ \A p \in 1 .. Len(b) : (hp \o b)[Len(hp) + p] = b[p]
    BY <2>1, <2>2, Joined
  <2> QED BY <2>1, <2>2, <2>3, Zenon
<1>7. s = hp \o b
  BY <1>2 DEF hp
<1>8. s[1] = im.bits /\ s[2] = n
  <2>1. 1 \in 1 .. 2 + 2 * n /\ 2 \in 1 .. 2 + 2 * n
    BY <1>1
  <2> QED BY <1>5, <1>6, <1>7, <2>1, Zenon DEF hp
<1>9. \A p \in 1 .. 2 * n : s[2 + p] = pb[p]
  <2>1. \A p \in 1 .. 2 * n : 2 + p \in 1 .. 2 + 2 * n
    BY <1>1
  <2> QED BY <1>5, <1>6, <1>7, <2>1 DEF hp
<1>10. \A k \in 1 .. n : /\ s[2 * k + 1] = im.palette[k] % ByteSize
                         /\ s[2 * k + 2] = im.palette[k] \div ByteSize
  <2>1. \A k \in 1 .. n : 2 + (2 * k - 1) = 2 * k + 1 /\ 2 + 2 * k = 2 * k + 2
    BY <1>1
  <2> QED BY <1>3, <1>9, <2>1
<1> QED BY <1>6, <1>7, <1>8, <1>10 DEF n, l, b, s

\* A slice that holds a sequence is that sequence.
LEMMA SliceIs ==
  ASSUME NEW X, NEW b \in Seq(X), NEW in, NEW f \in Int, NEW t \in Int,
         (t - f) + 1 = Len(b), \A q \in 1 .. Len(b) : in[(f + q) - 1] = b[q]
  PROVE  SubSeq(in, f, t) = b
<1> DEFINE l == Len(b)
           s == SubSeq(in, f, t)
<1>1. l \in Nat /\ t = (f + l) - 1 /\ \A q \in 1 .. l : b[q] \in X
  OBVIOUS
<1>2. \A q \in 1 .. l : in[(f + q) - 1] = b[q]
  OBVIOUS
<1> HIDE DEF l
<1>3. \A i \in f .. t : in[i] \in X
  <2> SUFFICES ASSUME NEW i \in f .. t PROVE in[i] \in X
    OBVIOUS
  <2>1. PICK q \in 1 .. l : (f + q) - 1 = i
    <3>1. (i - f) + 1 \in 1 .. l /\ (f + ((i - f) + 1)) - 1 = i
      BY <1>1
    <3> QED BY <3>1
  <2> QED BY <1>1, <1>2, <2>1
<1>4. /\ s \in Seq(X)
      /\ Len(s) = IF f <= t THEN t - f + 1 ELSE 0
      /\ \A i \in 1 .. t - f + 1 : s[i] = in[f + i - 1]
  BY <1>3, SubSeqProperties
<1> HIDE DEF s
<1>5. Len(s) = l /\ t - f + 1 = l
  BY <1>1, <1>4
<1>6. \A i \in 1 .. l : s[i] = b[i]
  <2> SUFFICES ASSUME NEW i \in 1 .. l PROVE s[i] = b[i]
    OBVIOUS
  <2>1. s[i] = in[f + i - 1]
    BY <1>4, <1>5, Zenon
  <2>2. in[(f + i) - 1] = b[i]
    BY <1>2
  <2>3. f + i - 1 = (f + i) - 1
    OBVIOUS
  <2> QED BY <2>1, <2>2, <2>3
<1>7. s = b
  BY <1>4, <1>5, <1>6 DEF l
<1> QED BY <1>7 DEF s

\* A chunk reads back where it was written.
LEMMA ChunkReadsBack ==
  ASSUME NEW im, SmallImage(im), NEW in, NEW off \in Nat, SitsAt(SerializeChunk(im), in, off),
         Len(in) \in Nat
  PROVE  /\ ~ (off + 2 > Len(in))
         /\ in[off + 1] \in Widths
         /\ ChunkSize(in, off) = Len(SerializeChunk(im))
         /\ ReadChunk(in, off) = im
<1> DEFINE n == Len(im.palette)
           l == IndexBytes(im.bits)
           s == SerializeChunk(im)
<1>1. /\ Len(s) = 2 + 2 * n + l
      /\ s[1] = im.bits /\ s[2] = n
      /\ \A k \in 1 .. n : /\ s[2 * k + 1] = im.palette[k] % ByteSize
                           /\ s[2 * k + 2] = im.palette[k] \div ByteSize
      /\ \A q \in 1 .. l : s[2 + 2 * n + q] = im.buffer[q]
  BY ImageParts
<1>2. /\ im \in [bits : Widths, palette : Seq(Blocks), buffer : Seq(0 .. SizeByteMax)]
      /\ n \in Nat /\ n # 0 /\ Len(im.buffer) = l /\ l \in Nat
  <2>1. im.bits \in Widths
    BY DEF SmallImage
  <2>2. n \in Nat /\ n # 0
    BY DEF SmallImage
  <2> QED BY <2>1, <2>2, VoxelsAre DEF SmallImage
<1>3. off + Len(s) <= Len(in) /\ \A p \in 1 .. Len(s) : in[off + p] = s[p]
  BY DEF SitsAt
<1> HIDE DEF n, l, s
<1>4. in[off + 1] = im.bits /\ in[off + 2] = n
  BY <1>1, <1>2, <1>3
<1>5. ~ (off + 2 > Len(in)) /\ in[off + 1] \in Widths
  BY <1>1, <1>2, <1>3, <1>4
<1>6. ChunkSize(in, off) = Len(s)
  BY <1>1, <1>2, <1>4 DEF ChunkSize, l
<1> DEFINE start == off + 2 + 2 * n
           pal == [k \in 1 .. n |-> in[off + 2*k + 1] + ByteSize * in[off + 2*k + 2]]
           sub == SubSeq(in, start + 1, start + l)
<1>7. ReadChunk(in, off) = [bits |-> im.bits, palette |-> pal, buffer |-> sub]
  BY <1>2, <1>4, Zenon DEF ReadChunk, l
<1>8. pal = im.palette
  <2>1. ASSUME NEW k \in 1 .. n PROVE in[off + 2*k + 1] + ByteSize * in[off + 2*k + 2] = im.palette[k]
    <3>1. /\ 2 * k + 1 \in 1 .. Len(s) /\ 2 * k + 2 \in 1 .. Len(s)
          /\ off + (2 * k + 1) = off + 2*k + 1 /\ off + (2 * k + 2) = off + 2*k + 2
      BY <1>1, <1>2
    <3>2. in[off + 2*k + 1] = s[2 * k + 1] /\ in[off + 2*k + 2] = s[2 * k + 2]
      BY <1>3, <3>1
    <3>3. in[off + 2*k + 1] = im.palette[k] % ByteSize /\ in[off + 2*k + 2] = im.palette[k] \div ByteSize
      BY <1>1, <3>2
    <3>4. im.palette[k] \in Blocks
      BY <1>2 DEF n
    <3> QED BY <3>3, <3>4, EntryReadsBack
  <2>2. pal = [k \in 1 .. n |-> im.palette[k]]
    BY <2>1
  <2>3. im.palette \in [1 .. n -> Blocks]
    BY <1>2 DEF n
  <2> QED BY <2>2, <2>3
<1>9. sub = im.buffer
  <2> DEFINE X == 0 .. SizeByteMax
             f == start + 1
             t == start + l
             b == im.buffer
  <2>1. b \in Seq(X) /\ Len(b) = l /\ f \in Int /\ t \in Int /\ (t - f) + 1 = l
    BY <1>2
  <2>2. \A q \in 1 .. l : in[(f + q) - 1] = b[q]
    <3>1. \A q \in 1 .. l : (f + q) - 1 = off + (2 + 2 * n + q) /\ 2 + 2 * n + q \in 1 .. Len(s)
      BY <1>1, <1>2
    <3>2. \A q \in 1 .. l : in[off + (2 + 2 * n + q)] = s[2 + 2 * n + q]
      BY <1>3, <3>1, Zenon
    <3> QED BY <1>1, <3>1, <3>2, Zenon
  <2> HIDE DEF X, b, f, t
  <2>3. SubSeq(in, f, t) = b
    BY <2>1, <2>2, SliceIs
  <2> QED BY <2>3 DEF f, t, b
<1> HIDE DEF pal, sub
<1>10. im = [bits |-> im.bits, palette |-> im.palette, buffer |-> im.buffer]
  BY <1>2
<1> QED BY <1>5, <1>6, <1>7, <1>8, <1>9, <1>10 DEF s

\* A column of two chunks, as the bytes of its count and its chunks.
LEMMA TwoChunks ==
  ASSUME NEW a, NEW b
  PROVE  SerializeColumn(<<a, b>>) = (<<2>> \o SerializeChunk(a)) \o SerializeChunk(b)
<1> DEFINE col == <<a, b>>
           Turn(x, ci) == x \o SerializeChunk(col[ci])
           s0 == <<2>>
           s1 == Turn(s0, 1)
           s2 == Turn(s1, 2)
           Is(f) == f = [ci \in 0 .. Len(col) |-> IF ci = 0 THEN s0 ELSE Turn(f[ci - 1], ci)]
           g == [ci \in 0 .. 2 |-> IF ci = 0 THEN s0 ELSE IF ci = 1 THEN s1 ELSE s2]
           out == (CHOOSE f : Is(f))[2]
<1>1. Len(col) = 2 /\ col[1] = a /\ col[2] = b
  OBVIOUS
<1> HIDE DEF col
<1>2. SerializeColumn(col) = out
  BY <1>1, Zenon DEF SerializeColumn
<1> HIDE DEF Turn
<1>3. Is(g)
  <2>1. g[0] = s0 /\ g[1] = s1 /\ g[2] = s2
    OBVIOUS
  <2>2. s1 = Turn(s0, 1) /\ s2 = Turn(s1, 2)
    OBVIOUS
  <2> HIDE DEF s0, s1, s2
  <2>3. ASSUME NEW ci \in 0 .. 2
        PROVE  g[ci] = IF ci = 0 THEN s0 ELSE Turn(g[ci - 1], ci)
    <3>1. ci = 0 \/ ci = 1 \/ ci = 2
      OBVIOUS
    <3> HIDE DEF g
    <3>2. CASE ci = 0
      BY <2>1, <3>2
    <3>3. CASE ci = 1
      BY <2>1, <2>2, <3>3
    <3>4. CASE ci = 2
      BY <2>1, <2>2, <3>4
    <3> QED BY <3>1, <3>2, <3>3, <3>4
  <2>4. g = [ci \in 0 .. 2 |-> g[ci]]
    OBVIOUS
  <2> HIDE DEF g
  <2>5. g = [ci \in 0 .. 2 |-> IF ci = 0 THEN s0 ELSE Turn(g[ci - 1], ci)]
    BY <2>3, <2>4
  <2> QED BY <1>1, <2>5, Zenon DEF s0
<1>4. PICK f : Is(f) /\ out = f[2]
  BY <1>3
<1>5. f[2] = Turn(f[1], 2) /\ f[1] = Turn(f[0], 1) /\ f[0] = s0
  <2> HIDE DEF s0
  <2>1. f = [ci \in 0 .. 2 |-> IF ci = 0 THEN s0 ELSE Turn(f[ci - 1], ci)]
    BY <1>1, <1>4, Zenon DEF s0
  <2> QED BY <2>1
<1>6. out = s2
  BY <1>4, <1>5
<1> HIDE DEF out
<1>7. s2 = (<<2>> \o SerializeChunk(a)) \o SerializeChunk(b)
  BY <1>1, Zenon DEF Turn
<1> QED BY <1>2, <1>6, <1>7 DEF col

\* Reading a column of two chunks: its loop takes two turns.
LEMMA TwoTurns ==
  ASSUME NEW in, NEW c, NEW d, in[1] = 2
  PROVE  LET s0 == [ok |-> TRUE, off |-> 1, col |-> <<c, d>>]
             st == ReadNext(in, ReadNext(in, s0, 1), 2)
         IN DeserializeColumn(in, <<c, d>>) = [ok |-> st.ok /\ st.off = Len(in), col |-> st.col]
<1> DEFINE col == <<c, d>>
           s0 == [ok |-> TRUE, off |-> 1, col |-> col]
           s1 == ReadNext(in, s0, 1)
           s2 == ReadNext(in, s1, 2)
           Is(f) == f = [ci \in 0 .. Len(col) |->
                           IF ci = 0 THEN [ok |-> TRUE, off |-> 1, col |-> col]
                           ELSE ReadNext(in, f[ci - 1], ci)]
           g == [ci \in 0 .. 2 |-> IF ci = 0 THEN s0 ELSE IF ci = 1 THEN s1 ELSE s2]
           st == (CHOOSE f : Is(f))[2]
<1>1. Len(col) = 2
  OBVIOUS
<1> HIDE DEF col
<1>2. DeserializeColumn(in, col) = [ok |-> st.ok /\ st.off = Len(in), col |-> st.col]
  <2>1. ~ (in[1] # Len(col))
    BY <1>1
  <2>2. (CHOOSE f : Is(f))[Len(col)] = st
    BY <1>1
  <2> QED BY <2>1, <2>2, Zenon DEF DeserializeColumn
<1>3. Is(g)
  <2>1. g[0] = s0 /\ g[1] = s1 /\ g[2] = s2
    OBVIOUS
  <2>2. s1 = ReadNext(in, s0, 1) /\ s2 = ReadNext(in, s1, 2)
    OBVIOUS
  <2> HIDE DEF s0, s1, s2
  <2>3. ASSUME NEW ci \in 0 .. 2
        PROVE  g[ci] = IF ci = 0 THEN s0 ELSE ReadNext(in, g[ci - 1], ci)
    <3>1. ci = 0 \/ ci = 1 \/ ci = 2
      OBVIOUS
    <3> HIDE DEF g
    <3>2. CASE ci = 0
      BY <2>1, <3>2
    <3>3. CASE ci = 1
      BY <2>1, <2>2, <3>3
    <3>4. CASE ci = 2
      BY <2>1, <2>2, <3>4
    <3> QED BY <3>1, <3>2, <3>3, <3>4
  <2>4. g = [ci \in 0 .. 2 |-> g[ci]]
    OBVIOUS
  <2> HIDE DEF g
  <2>5. g = [ci \in 0 .. 2 |-> IF ci = 0 THEN s0 ELSE ReadNext(in, g[ci - 1], ci)]
    BY <2>3, <2>4
  <2> QED BY <1>1, <2>5, Zenon DEF s0
<1>4. PICK f : Is(f) /\ st = f[2]
  BY <1>3
<1>5. f[2] = ReadNext(in, f[1], 2) /\ f[1] = ReadNext(in, f[0], 1) /\ f[0] = s0
  <2> HIDE DEF s0
  <2>1. f = [ci \in 0 .. 2 |-> IF ci = 0 THEN s0 ELSE ReadNext(in, f[ci - 1], ci)]
    BY <1>1, <1>4, Zenon DEF s0
  <2> QED BY <2>1
<1>6. st = s2
  BY <1>4, <1>5
<1> HIDE DEF st
<1> QED BY <1>2, <1>6 DEF col

\* The state of the loop after it has read the chunks in col, up to off.
ReadTo(off, col) == [ok |-> TRUE, off |-> off, col |-> col]

\* A turn of the loop, the first or the second, that reads im after off.
TurnsRead(im, in, off) ==
  \A c, d :
    /\ ReadNext(in, ReadTo(off, <<c, d>>), 1)
          = ReadTo(off + Len(SerializeChunk(im)), <<im, d>>)
    /\ ReadNext(in, ReadTo(off, <<c, d>>), 2)
          = ReadTo(off + Len(SerializeChunk(im)), <<c, im>>)

\* Such a turn happens wherever the chunk stands.
LEMMA TurnReads ==
  ASSUME NEW im, SmallImage(im), NEW in, Len(in) \in Nat, NEW off \in Nat,
         SitsAt(SerializeChunk(im), in, off)
  PROVE  TurnsRead(im, in, off)
<1> SUFFICES ASSUME NEW c, NEW d
             PROVE  /\ ReadNext(in, ReadTo(off, <<c, d>>), 1)
                         = ReadTo(off + Len(SerializeChunk(im)), <<im, d>>)
                    /\ ReadNext(in, ReadTo(off, <<c, d>>), 2)
                         = ReadTo(off + Len(SerializeChunk(im)), <<c, im>>)
  BY DEF TurnsRead
<1> DEFINE l == Len(SerializeChunk(im))
           st == ReadTo(off, <<c, d>>)
<1>1. /\ ~ (off + 2 > Len(in)) /\ in[off + 1] \in Widths /\ ChunkSize(in, off) = l
      /\ ReadChunk(in, off) = im
  BY ChunkReadsBack
<1>2. l \in Nat /\ off + l <= Len(in)
  BY ImageParts DEF SitsAt
<1>3. ~ (off + ChunkSize(in, off) > Len(in))
  BY <1>1, <1>2
<1>4. st.ok /\ st.off = off /\ st.col = <<c, d>>
  BY DEF ReadTo
<1> HIDE DEF st, l
<1>5. ASSUME NEW ci
      PROVE  ReadNext(in, st, ci) = [ok |-> TRUE, off |-> off + l, col |-> [<<c, d>> EXCEPT ![ci] = im]]
  BY <1>1, <1>3, <1>4, Zenon DEF ReadNext
<1>6. [<<c, d>> EXCEPT ![1] = im] = <<im, d>> /\ [<<c, d>> EXCEPT ![2] = im] = <<c, im>>
  OBVIOUS
<1> QED BY <1>5, <1>6, Zenon DEF st, l, ReadTo

\* A column of two such chunks reads back, into any column of two chunks.
LEMMA ColumnReadsBack ==
  ASSUME NEW a, SmallImage(a), NEW b, SmallImage(b), NEW c, NEW d
  PROVE  DeserializeColumn(SerializeColumn(<<a, b>>), <<c, d>>) = [ok |-> TRUE, col |-> <<a, b>>]
<1> DEFINE s == SerializeChunk(a)
           t == SerializeChunk(b)
           p == <<2>> \o s
           in == p \o t
<1>1. s \in Seq(Nat) /\ t \in Seq(Nat) /\ <<2>> \in Seq(Nat) /\ Len(<<2>>) = 1 /\ <<2>>[1] = 2
  BY ImageParts
<1>2. SerializeColumn(<<a, b>>) = in
  BY TwoChunks
<1> HIDE DEF s, t
<1>3. /\ p \in Seq(Nat) /\ Len(p) = 1 + Len(s) /\ Len(s) \in Nat
      /\ \A q \in 1 .. 1 : p[q] = <<2>>[q]
      /\ \A q \in 1 .. Len(s) : p[1 + q] = s[q]
  BY <1>1, Joined
<1> HIDE DEF p
<1>4. /\ in \in Seq(Nat) /\ Len(in) = Len(p) + Len(t) /\ Len(t) \in Nat
      /\ \A q \in 1 .. Len(p) : in[q] = p[q]
      /\ \A q \in 1 .. Len(t) : in[Len(p) + q] = t[q]
  BY <1>1, <1>3, Joined
<1> HIDE DEF in
<1>5. in[1] = 2 /\ Len(in) \in Nat
  <2>1. 1 \in 1 .. 1 /\ 1 \in 1 .. Len(p)
    BY <1>3
  <2>2. p[1] = 2
    BY <1>1, <1>3, <2>1
  <2> QED BY <1>3, <1>4, <2>1, <2>2
<1>6. SitsAt(s, in, 1)
  <2>1. 1 + Len(s) <= Len(in)
    BY <1>3, <1>4
  <2>2. \A q \in 1 .. Len(s) : 1 + q \in 1 .. Len(p)
    BY <1>3
  <2> QED BY <1>3, <1>4, <2>1, <2>2 DEF SitsAt
<1>7. SitsAt(t, in, 1 + Len(s))
  BY <1>3, <1>4 DEF SitsAt
<1>8. ReadNext(in, ReadTo(1, <<c, d>>), 1) = ReadTo(1 + Len(s), <<a, d>>)
  <2>1. SitsAt(SerializeChunk(a), in, 1)
    BY <1>6 DEF s
  <2>2. TurnsRead(a, in, 1)
    BY <1>5, <2>1, TurnReads
  <2> QED BY <2>2, Zenon DEF s, TurnsRead
<1>9. ReadNext(in, ReadTo(1 + Len(s), <<a, d>>), 2) = ReadTo(1 + Len(s) + Len(t), <<a, b>>)
  <2> DEFINE off == 1 + Len(s)
  <2>1. off \in Nat
    BY <1>3
  <2>2. SitsAt(SerializeChunk(b), in, off)
    BY <1>7 DEF t
  <2> HIDE DEF off
  <2>3. TurnsRead(b, in, off)
    BY <1>5, <2>1, <2>2, TurnReads
  <2> QED BY <2>3, Zenon DEF t, off, TurnsRead
<1> DEFINE st == ReadTo(1 + Len(s) + Len(t), <<a, b>>)
<1>10. DeserializeColumn(in, <<c, d>>) = [ok |-> st.ok /\ st.off = Len(in), col |-> st.col]
  BY <1>5, <1>8, <1>9, TwoTurns, Zenon DEF ReadTo
<1>11. st.ok = TRUE /\ st.off = Len(in) /\ st.col = <<a, b>>
  BY <1>3, <1>4 DEF ReadTo
<1> QED BY <1>2, <1>10, <1>11

\* The chunk that is edited is one the size byte can speak for, as long as
\* its palette is small enough.
LEMMA EditedIsSmall ==
  ASSUME PackedInv, Len(chunk.palette) <= SizeByteMax
  PROVE  SmallImage(Image(chunk, buffer))
<1>1. /\ chunk.bits \in Widths /\ chunk.palette \in Seq(Blocks)
      /\ Len(chunk.palette) \in Nat \ {0} /\ buffer \in Buffers(chunk.bits)
  BY IndicesFit DEF PackedInv, Inv, ChunkOK, Holds
<1>2. IndexBytes(chunk.bits) \in Nat
  BY <1>1, VoxelsAre
<1>3. buffer \in Seq(0 .. SizeByteMax) /\ Len(buffer) = IndexBytes(chunk.bits)
  <2> DEFINE l == IndexBytes(chunk.bits)
             X == 0 .. SizeByteMax
  <2>1. buffer \in [1 .. l -> X]
    BY <1>1 DEF Buffers, SizeByteMax
  <2>2. l \in Nat
    BY <1>2
  <2> HIDE DEF l, X
  <2>3. buffer \in Seq(X) /\ Len(buffer) = l
    BY <2>1, <2>2
  <2> QED BY <2>3 DEF l, X
<1> QED BY <1>1, <1>3 DEF SmallImage, Image

\* A column of chunks whose palettes fit the size byte is loaded back as it
\* was written, for chunks, block ids and bytes of any size.
THEOREM SmallPalettesAlwaysRoundTrip == PackedSpec => []SmallPalettesRoundTrip
<1>1. PackedInv => SmallPalettesRoundTrip
  <2> SUFFICES ASSUME PackedInv, Len(chunk.palette) <= SizeByteMax PROVE ColumnRoundTrips
    BY DEF SmallPalettesRoundTrip
  <2>1. SmallImage(Image(chunk, buffer))
    BY EditedIsSmall
  <2>2. SmallImage(Other)
    BY OtherFits DEF SmallImage
  <2>3. Reloaded = [ok |-> TRUE, col |-> <<Image(chunk, buffer), Other>>]
    BY <2>1, <2>2, ColumnReadsBack DEF Reloaded, Column, FreshColumn
  <2> QED BY <2>3 DEF ColumnRoundTrips, Column
<1> QED BY <1>1, PackedInvHolds, PTL

-----------------------------------------------------------------------------
(* What the size byte of a palette cannot say.                               *)

\* serialize_into (palette_chunk.cpp:235) saturates the size byte: a palette
\* with more entries than it can say is never loaded back, because the column
\* is refused or its palette is cut.
LargePalettesAreLost ==
  Len(chunk.palette) > SizeByteMax => ~ColumnRoundTrips

\* The locals of the loop when a turn has refused the column.
Refused(st) == "ok" \in DOMAIN st /\ ~st.ok

\* A turn of the loop refuses the column, or reads a chunk into it.
LEMMA TurnIs ==
  ASSUME NEW in, NEW st, "ok" \in DOMAIN st, NEW ci
  PROVE  \/ Refused(ReadNext(in, st, ci))
         \/ /\ st.ok
            /\ ReadNext(in, st, ci) = ReadTo(st.off + ChunkSize(in, st.off),
                                             [st.col EXCEPT ![ci] = ReadChunk(in, st.off)])
<1> DEFINE refused == \/ ~st.ok
                      \/ st.off + 2 > Len(in)
                      \/ in[st.off + 1] \notin Widths
                      \/ st.off + ChunkSize(in, st.off) > Len(in)
<1>1. CASE refused
  <2>1. ReadNext(in, st, ci) = [st EXCEPT !.ok = FALSE]
    BY <1>1, Zenon DEF ReadNext
  <2>2. Refused([st EXCEPT !.ok = FALSE])
    BY DEF Refused
  <2> QED BY <2>1, <2>2, Zenon
<1>2. CASE ~refused
  <2>1. st.ok
    BY <1>2, Zenon
  <2>2. ReadNext(in, st, ci) = [ok |-> TRUE, off |-> st.off + ChunkSize(in, st.off),
                                col |-> [st.col EXCEPT ![ci] = ReadChunk(in, st.off)]]
    BY <1>2, Zenon DEF ReadNext
  <2> QED BY <2>1, <2>2, Zenon DEF ReadTo
<1> QED BY <1>1, <1>2, Zenon

\* What is read of the first chunk of a column of two, when both are accepted.
LEMMA FirstChunkRead ==
  ASSUME NEW in, NEW c, NEW d, in[1] = 2, DeserializeColumn(in, <<c, d>>).ok
  PROVE  DeserializeColumn(in, <<c, d>>).col[1] = ReadChunk(in, 1)
<1> DEFINE chk == ReadChunk(in, 1)
           cd == <<c, d>>
           off == 1 + ChunkSize(in, 1)
           cd1 == [cd EXCEPT ![1] = chk]
           cd2 == [cd1 EXCEPT ![2] = ReadChunk(in, off)]
           s0 == ReadTo(1, cd)
           s1 == ReadNext(in, s0, 1)
           s2 == ReadNext(in, s1, 2)
           out == DeserializeColumn(in, cd)
<1>1. out = [ok |-> s2.ok /\ s2.off = Len(in), col |-> s2.col]
  BY TwoTurns DEF ReadTo
<1>2. s2.ok /\ out.col = s2.col
  <2>1. out.ok
    OBVIOUS
  <2> HIDE DEF out, s2
  <2> QED BY <1>1, <2>1
<1>3. Refused(s1) \/ s1 = ReadTo(off, cd1)
  <2>1. "ok" \in DOMAIN s0 /\ s0.off = 1 /\ s0.col = cd
    BY DEF ReadTo
  <2> HIDE DEF s0
  <2> QED BY <2>1, TurnIs, Zenon
<1> HIDE DEF s1
<1>4. "ok" \in DOMAIN s1
  <2>1. "ok" \in DOMAIN ReadTo(off, cd1)
    BY DEF ReadTo
  <2> QED BY <1>3, <2>1, Zenon DEF Refused
<1>5. s1.ok /\ s2 = ReadTo(s1.off + ChunkSize(in, s1.off),
                           [s1.col EXCEPT ![2] = ReadChunk(in, s1.off)])
  BY <1>2, <1>4, TurnIs, Zenon DEF Refused
<1>6. s1.off = off /\ s1.col = cd1
  <2>1. s1 = ReadTo(off, cd1)
    BY <1>3, <1>5, Zenon DEF Refused
  <2>2. ReadTo(off, cd1).off = off /\ ReadTo(off, cd1).col = cd1
    BY DEF ReadTo
  <2> QED BY <2>1, <2>2, Zenon
<1>7. s2.col = [s1.col EXCEPT ![2] = ReadChunk(in, s1.off)]
  <2> HIDE DEF s2
  <2> QED BY <1>5 DEF ReadTo
<1>8. cd2[1] = chk
  OBVIOUS
<1>9. s2.col = cd2
  BY <1>6, <1>7, Zenon
<1> HIDE DEF s2, cd2, out, chk
<1>10. out.col[1] = chk
  BY <1>2, <1>8, <1>9, Zenon
<1> QED BY <1>10, Zenon DEF out, chk

\* The size byte of a palette that is too large.
LEMMA SizeByteIsCut ==
  ASSUME NEW im, im \in [bits : Widths, palette : Seq(Blocks), buffer : Seq(Nat)],
         Len(im.palette) > SizeByteMax
  PROVE  /\ SerializeChunk(im) \in Seq(Nat) /\ Len(SerializeChunk(im)) >= 2
         /\ SerializeChunk(im)[2] = SizeByteMax
<1> DEFINE n == Len(im.palette)
           h == <<im.bits, SizeByteMax>>
           pb == PaletteBytes(im.palette)
           b == im.buffer
<1>1. /\ im.bits \in Nat /\ n \in Nat /\ b \in Seq(Nat) /\ SizeByteMax \in Nat
      /\ im.palette \in Seq(Blocks)
  <2>1. SizeByteMax \in Nat
    BY WidthKinds DEF SizeByteMax
  <2>2. im.bits \in Widths /\ im.palette \in Seq(Blocks) /\ im.buffer \in Seq(Nat)
    OBVIOUS
  <2>3. n \in Nat
    BY <2>2
  <2>4. \A w \in Widths : w \in Nat
    BY WidthsFit
  <2> QED BY <2>1, <2>2, <2>3, <2>4, Zenon
<1>2. SerializeChunk(im) = (h \o pb) \o b
  <2>1. (IF n < SizeByteMax THEN n ELSE SizeByteMax) = SizeByteMax
    BY <1>1
  <2> QED BY <2>1 DEF SerializeChunk
<1>3. pb \in Seq(Nat)
  BY <1>1, PaletteBytesAre
<1>4. h \in Seq(Nat) /\ Len(h) = 2 /\ h[2] = SizeByteMax
  BY <1>1
<1> HIDE DEF h, pb, b
<1>5. /\ h \o pb \in Seq(Nat) /\ Len(h \o pb) = Len(h) + Len(pb) /\ Len(pb) \in Nat
      /\ \A p \in 1 .. Len(h) : (h \o pb)[p] = h[p]
  BY <1>3, <1>4, Joined
<1> DEFINE hp == h \o pb
<1>6. hp \in Seq(Nat) /\ Len(hp) \in Nat /\ Len(hp) >= 2 /\ hp[2] = SizeByteMax
  <2>1. 2 \in 1 .. Len(h)
    BY <1>4
  <2> QED BY <1>4, <1>5, <2>1
<1> HIDE DEF hp
<1>7. /\ hp \o b \in Seq(Nat) /\ Len(hp \o b) = Len(hp) + Len(b) /\ Len(b) \in Nat
      /\ \A p \in 1 .. Len(hp) : (hp \o b)[p] = hp[p]
  BY <1>1, <1>6, Joined
<1>8. (hp \o b)[2] = SizeByteMax /\ Len(hp \o b) >= 2
  <2>1. 2 \in 1 .. Len(hp)
    BY <1>6
  <2> QED BY <1>6, <1>7, <2>1
<1> QED BY <1>2, <1>7, <1>8 DEF hp

\* That a palette beyond the size byte breaks its column does not depend on the
\* other bytes of the column: with bytes, block ids and chunks of any size, no
\* such palette is ever loaded back.
THEOREM LargePalettesAlwaysLost == PackedSpec => []LargePalettesAreLost
<1>1. PackedInv => LargePalettesAreLost
  <2> SUFFICES ASSUME PackedInv, Len(chunk.palette) > SizeByteMax, ColumnRoundTrips
               PROVE  FALSE
    BY DEF LargePalettesAreLost
  <2> DEFINE im == Image(chunk, buffer)
             s == SerializeChunk(im)
             t == SerializeChunk(Other)
             in == (<<2>> \o s) \o t
  <2>1. /\ im \in [bits : Widths, palette : Seq(Blocks), buffer : Seq(Nat)]
        /\ im.palette = chunk.palette /\ Len(chunk.palette) \in Nat
    <3>1. /\ chunk.bits \in Widths /\ chunk.palette \in Seq(Blocks)
          /\ buffer \in Buffers(chunk.bits)
      BY DEF PackedInv, Inv, ChunkOK, Holds
    <3> DEFINE l == IndexBytes(chunk.bits)
    <3>2. l \in Nat
      BY <3>1, VoxelsAre
    <3>3. buffer \in [1 .. l -> Nat]
      BY <3>1, WidthKinds DEF Buffers
    <3> HIDE DEF l
    <3>4. buffer \in Seq(Nat)
      BY <3>2, <3>3
    <3> QED BY <3>1, <3>4 DEF Image
  <2>2. s \in Seq(Nat) /\ Len(s) >= 2 /\ s[2] = SizeByteMax
    BY <2>1, SizeByteIsCut
  <2>3. t \in Seq(Nat)
    <3>1. SmallImage(Other)
      BY OtherFits DEF SmallImage
    <3> QED BY <3>1, ImageParts
  <2>4. SerializeColumn(Column) = in
    BY TwoChunks DEF Column
  <2>5. Reloaded = DeserializeColumn(in, FreshColumn) /\ Reloaded.ok /\ Reloaded.col = Column
    BY <2>4 DEF Reloaded, ColumnRoundTrips
  <2>6. in[1] = 2 /\ in[3] = SizeByteMax
    <3> DEFINE one == <<2>>
               p == one \o s
    <3>1. one \in Seq(Nat) /\ Len(one) = 1 /\ one[1] = 2
      OBVIOUS
    <3> HIDE DEF one, s, t
    <3>2. /\ p \in Seq(Nat) /\ Len(p) = Len(one) + Len(s)
          /\ \A q \in 1 .. Len(one) : p[q] = one[q]
          /\ \A q \in 1 .. Len(s) : p[Len(one) + q] = s[q]
      BY <2>2, <3>1, Joined
    <3>3. Len(p) >= 3 /\ p[1] = 2 /\ p[3] = SizeByteMax
      <4>1. 1 \in 1 .. Len(one) /\ 2 \in 1 .. Len(s) /\ Len(one) + 2 = 3
        BY <2>2, <3>1
      <4>2. p[1] = one[1] /\ p[3] = s[2]
        BY <3>2, <4>1
      <4> QED BY <2>2, <3>1, <3>2, <4>2
    <3> HIDE DEF p
    <3>4. \A q \in 1 .. Len(p) : (p \o t)[q] = p[q]
      BY <2>3, <3>2, Joined
    <3>5. 1 \in 1 .. Len(p) /\ 3 \in 1 .. Len(p)
      BY <3>2, <3>3
    <3>6. (p \o t)[1] = 2 /\ (p \o t)[3] = SizeByteMax
      BY <3>3, <3>4, <3>5
    <3> QED BY <3>6 DEF p, one
  <2>7. Column[1] = ReadChunk(in, 1)
    <3> HIDE DEF in
    <3>1. Reloaded.col[1] = ReadChunk(in, 1)
      BY <2>5, <2>6, FirstChunkRead DEF FreshColumn
    <3> QED BY <2>5, <3>1
  <2>8. chunk.palette = ReadChunk(in, 1).palette
    BY <2>1, <2>7 DEF Column
  <2>9. SizeByteMax \in Nat \ {0}
    <3>1. ByteBits \in 1 .. 2 * ByteBits /\ ByteBits - 1 \in 0 .. 2 * ByteBits
      BY WidthKinds
    <3>2. ByteSize = 2 * Pow2[ByteBits - 1] /\ Pow2[ByteBits - 1] \in Nat \ {0}
      BY <3>1, Pow2Is DEF ByteSize
    <3> QED BY <3>2 DEF SizeByteMax
  <2>10. Len(ReadChunk(in, 1).palette) = SizeByteMax
    <3> HIDE DEF in
    <3>1. in[1 + 2] = SizeByteMax
      BY <2>6
    <3>2. ReadChunk(in, 1).palette =
            [k \in 1 .. SizeByteMax |-> in[1 + 2*k + 1] + ByteSize * in[1 + 2*k + 2]]
      BY <2>9, <3>1 DEF ReadChunk
    <3> QED BY <2>9, <3>2
  <2> QED BY <2>1, <2>8, <2>9, <2>10
<1> QED BY <1>1, PackedInvHolds, PTL
=============================================================================
