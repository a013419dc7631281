------------------------- MODULE ChunkColumnProofs -------------------------
(***************************************************************************)
(* What holds of a chunk column of any size: types, the soundness of the   *)
(* uniform representation, and, when the heights fit int16, the exactness  *)
(* of both tops, the bound on the depth and the only step that leaves it   *)
(* stale, and the refinement of the height field.  At the end, that the    *)
(* walk of rescan_cell, voxel by voxel, finds what the sets of heights say *)
(* a cell's record is.                                                     *)
(***************************************************************************)
EXTENDS ColumnWalk, FiniteSetTheorems, WellFoundedInduction, TLAPS

-----------------------------------------------------------------------------
(* The shape of the stack, and the top of a set of heights.                *)

\* The heights of the stack are a finite interval of integers.
LEMMA ShapeFacts ==
  /\ MinY \in Int
  /\ NChunks * Edge \in Nat \ {0}
  /\ Ys = MinY .. MinY + NChunks * Edge - 1
  /\ Ys \subseteq Int
  /\ IsFiniteSet(Ys)
<1>1. MinY \in Int /\ NChunks * Edge \in Nat \ {0}
  BY ColumnShape DEF MinY
<1>2. IsFiniteSet(MinY .. MinY + NChunks * Edge - 1)
  BY <1>1, FS_Interval
<1> QED BY <1>1, <1>2 DEF Ys

\* A nonempty set of integers inside an interval has a greatest element: the
\* tails y..b of the interval, y in the set, are well-founded by inclusion.
LEMMA IntervalMax ==
  ASSUME NEW a \in Int, NEW b \in Int, NEW S, S \subseteq a .. b, S # {}
  PROVE  \E m \in S : \A z \in S : z <= m
<1> DEFINE U == {X \in SUBSET (a .. b) : \E y \in S : X = y .. b}
<1>1. IsFiniteSet(a .. b)
  BY FS_Interval
<1>2. IsWellFoundedOn(StrictSubsetOrdering(a .. b), SUBSET (a .. b))
  BY <1>1, FS_StrictSubsetOrderingWellFounded, FS_FiniteSubsetsOfFinite
<1>3. PICK y0 \in S : TRUE
  OBVIOUS
<1>4. y0 .. b \in U
  OBVIOUS
<1>5. U \subseteq SUBSET (a .. b) /\ U # {}
  BY <1>4
<1> HIDE DEF U
<1>6. PICK X \in U : \A Y \in U : ~ (<<Y, X>> \in StrictSubsetOrdering(a .. b))
  BY <1>2, <1>5, WFMin
<1>7. PICK m \in S : X = m .. b
  BY <1>6 DEF U
<1>8. ASSUME NEW z \in S PROVE z <= m
  <2> SUFFICES ASSUME m < z PROVE FALSE
    BY <1>8, <1>7
  <2>1. z .. b \in U /\ m .. b \in U
    BY <1>8, <1>7 DEF U
  <2>2. z .. b \subseteq m .. b /\ z .. b # m .. b
    <3>1. m \in m .. b /\ m \notin z .. b
      OBVIOUS
    <3> QED BY <3>1
  <2>3. <<z .. b, m .. b>> \in StrictSubsetOrdering(a .. b)
    BY <2>1, <2>2, <1>5 DEF StrictSubsetOrdering
  <2> QED BY <2>1, <2>3, <1>6, <1>7
<1> QED BY <1>8

\* Highest of a nonempty set of heights is its greatest member.
LEMMA HighestIsMax ==
  ASSUME NEW S \in SUBSET Ys, S # {}
  PROVE  Highest(S) \in S /\ \A z \in S : z <= Highest(S)
<1> DEFINE top == MinY + NChunks * Edge - 1
<1>1. MinY \in Int /\ top \in Int /\ S \subseteq MinY .. top
  BY ShapeFacts
<1> HIDE DEF top
<1>2. \E m \in S : \A z \in S : z <= m
  BY <1>1, IntervalMax
<1> QED BY <1>2 DEF Highest

\* A member that bounds the set is its Highest.
LEMMA HighestUnique ==
  ASSUME NEW S \in SUBSET Ys, NEW m \in S, \A z \in S : z <= m
  PROVE  Highest(S) = m
<1>1. Highest(S) \in S /\ Highest(S) <= m /\ m <= Highest(S)
  BY HighestIsMax
<1>2. Highest(S) \in Int /\ m \in Int
  BY <1>1, ShapeFacts
<1> QED BY <1>1, <1>2

LEMMA HighestType ==
  ASSUME NEW S \in SUBSET Ys
  PROVE  Highest(S) \in Int /\ Highest(S) \in Ys \cup {Int16Min}
BY HighestIsMax, ShapeFacts, ColumnShape DEF Highest

\* Adding a height raises the highest one or leaves it.
LEMMA HighestAdd ==
  ASSUME NEW S \in SUBSET Ys, NEW y \in Ys, YFitsInt16
  PROVE  Highest(S \cup {y}) = Raised(Highest(S), y)
<1>1. y \in Int /\ Int16Min # y
  BY ShapeFacts DEF YFitsInt16
<1>2. CASE S = {}
  <2>1. Highest(S \cup {y}) = y
    BY <1>1, <1>2, HighestUnique
  <2> QED BY <2>1, <1>2 DEF Highest, Raised
<1>3. CASE S # {}
  <2>1. /\ Highest(S) \in S /\ Highest(S) \in Int /\ Highest(S) # Int16Min
        /\ \A z \in S : z <= Highest(S) /\ z \in Int
    <3>1. Highest(S) \in S /\ \A z \in S : z <= Highest(S)
      BY <1>3, HighestIsMax
    <3>2. \A z \in S : z \in Int /\ z # Int16Min
      BY ShapeFacts, ColumnShape DEF YFitsInt16
    <3> QED BY <3>1, <3>2
  <2>2. CASE y > Highest(S)
    <3>1. \A z \in S \cup {y} : z <= y
      BY <2>1, <2>2, <1>1
    <3>2. Highest(S \cup {y}) = y
      BY <3>1, HighestUnique
    <3> QED BY <3>2, <2>2 DEF Raised
  <2>3. CASE ~ (y > Highest(S))
    <3>1. \A z \in S \cup {y} : z <= Highest(S)
      BY <2>1, <2>3, <1>1
    <3>2. Highest(S \cup {y}) = Highest(S)
      BY <3>1, <2>1, HighestUnique
    <3> QED BY <3>2, <2>1, <2>3 DEF Raised
  <2> QED BY <2>2, <2>3
<1> QED BY <1>2, <1>3

\* Removing a height that is not the highest one leaves it.
LEMMA HighestRemove ==
  ASSUME NEW S \in SUBSET Ys, NEW y \in Ys, y # Highest(S)
  PROVE  Highest(S \ {y}) = Highest(S)
<1>1. CASE S = {}
  BY <1>1
<1>2. CASE S # {}
  <2>1. Highest(S) \in S \ {y} /\ \A z \in S \ {y} : z <= Highest(S)
    BY <1>2, HighestIsMax
  <2> QED BY <2>1, HighestUnique
<1> QED BY <1>1, <1>2

-----------------------------------------------------------------------------
(* Types.                                                                  *)

LEMMA SetsOfYs ==
  ASSUME NEW col
  PROVE  /\ SolidYs(col) \in SUBSET Ys /\ WaterYs(col) \in SUBSET Ys
         /\ Seen(SolidYs(col)) \in SUBSET Ys /\ Seen(WaterYs(col)) \in SUBSET Ys
         /\ OpenWater(col) \in SUBSET Ys
         /\ Cardinality(OpenWater(col)) \in Nat
<1>1. /\ SolidYs(col) \in SUBSET Ys /\ WaterYs(col) \in SUBSET Ys
      /\ OpenWater(col) \in SUBSET Ys
  BY DEF SolidYs, WaterYs, OpenWater
<1>2. Cardinality(OpenWater(col)) \in Nat
  BY <1>1, ShapeFacts, FS_Subset, FS_CardinalityType
<1> QED BY <1>1, <1>2 DEF Seen

LEMMA NarrowType ==
  ASSUME NEW y \in Int PROVE Narrow(y) \in Int
<1>1. Int16Min \in Int /\ -2 * Int16Min \in Nat \ {0}
  BY ColumnShape
<1>2. \A x \in Int, n \in Nat \ {0} : x % n \in Int
  OBVIOUS
<1>3. y - Int16Min \in Int
  BY <1>1
<1>4. (y - Int16Min) % (-2 * Int16Min) \in Int
  BY <1>1, <1>2, <1>3
<1> QED BY <1>1, <1>4 DEF Narrow

LEMMA RescanType ==
  ASSUME NEW cell \in ColumnCell, NEW col
  PROVE  Rescan(cell, col) \in ColumnCell
<1>1. Highest(Seen(SolidYs(col))) \in Int /\ Highest(Seen(WaterYs(col))) \in Int
  BY SetsOfYs, HighestType
<1>2. /\ Narrow(Highest(Seen(SolidYs(col)))) \in Int
      /\ Narrow(Highest(Seen(WaterYs(col)))) \in Int
  BY <1>1, NarrowType
<1>3. cell.flags \cup {WaveReseed, MeshRebuild} \in SUBSET {WaveReseed, MeshRebuild}
  BY DEF ColumnCell
<1> QED BY <1>2, <1>3, SetsOfYs DEF Rescan, ColumnCell

LEMMA IncrementalType ==
  ASSUME NEW cell \in ColumnCell, NEW y16 \in Int, NEW block
  PROVE  Incremental(cell, y16, block) \in ColumnCell
<1>1. Raised(cell.terrain_top_y, y16) \in Int
  BY DEF ColumnCell, Raised
<1>2. cell.flags \cup {MeshRebuild} \in SUBSET {WaveReseed, MeshRebuild}
  BY DEF ColumnCell
<1> QED BY <1>1, <1>2 DEF Incremental, ColumnCell

\* Type correctness of the column, for every shape of column.
THEOREM Typing == Spec => []TypeOK
<1>1. Init => TypeOK
  BY ColumnShape DEF Init, TypeOK, Blocks, ColumnCell
<1>2. TypeOK /\ [Next]_vars => TypeOK'
  <2> SUFFICES ASSUME TypeOK, [Next]_vars PROVE TypeOK'
    OBVIOUS
  <2>1. ASSUME NEW c \in Cells, NEW y \in Ys, NEW block \in Blocks,
               SetVoxel(c, y, block)
        PROVE  TypeOK'
    <3>1. voxels' \in [Cells -> [Ys -> Blocks]] /\ uniform' \in [Chunks -> Blocks \cup {Packed}]
      BY <2>1 DEF SetVoxel, TypeOK
    <3>2. Narrow(y) \in Int /\ cells[c] \in ColumnCell
      BY ShapeFacts, NarrowType DEF TypeOK
    <3>3. cells' \in [Cells -> ColumnCell]
      BY <2>1, <3>2, RescanType, IncrementalType DEF SetVoxel, TypeOK
    <3> QED BY <3>1, <3>3 DEF TypeOK
  <2>2. ASSUME NEW rect \in Rects, NEW y0 \in FillYs, NEW y1 \in FillYs,
               NEW block \in Blocks, FillBox(rect, y0, y1, block)
        PROVE  TypeOK'
    <3>1. voxels' \in [Cells -> [Ys -> Blocks]]
      BY <2>2 DEF FillBox, TypeOK
    <3>2. uniform' \in [Chunks -> Blocks \cup {Packed}]
      BY <2>2 DEF FillBox, TypeOK, UniformAfter
    <3>3. cells' \in [Cells -> ColumnCell]
      BY <2>2, RescanType DEF FillBox, TypeOK
    <3> QED BY <3>1, <3>2, <3>3 DEF TypeOK
  <2>3. CASE RecomputeCells
    BY <2>3, RescanType DEF RecomputeCells, TypeOK
  <2>4. CASE UNCHANGED vars
    BY <2>4 DEF vars, TypeOK
  <2> QED BY <2>1, <2>2, <2>3, <2>4 DEF Next
<1> QED BY <1>1, <1>2, PTL DEF Spec

-----------------------------------------------------------------------------
(* The chunks partition the heights of the column.                         *)

LEMMA ChunkYsInside ==
  ASSUME NEW ci \in Chunks
  PROVE  /\ ChunkY0(ci) \in Int
         /\ ChunkYs(ci) = ChunkY0(ci) .. ChunkY0(ci) + Edge - 1
         /\ ChunkYs(ci) \subseteq Ys
<1>1. ci \in Int /\ 0 <= ci /\ ci <= NChunks - 1 /\ Edge \in Nat \ {0}
      /\ BaseCy \in Int /\ NChunks \in Nat \ {0}
  BY ColumnShape DEF Chunks
<1>2. (BaseCy + ci) * Edge = BaseCy * Edge + ci * Edge
  BY <1>1
<1>3. 0 <= ci * Edge /\ ci * Edge \in Int
  BY <1>1
<1>4. ci * Edge + Edge <= NChunks * Edge
  <2>1. (ci + 1) * Edge <= NChunks * Edge
    BY <1>1
  <2> QED BY <2>1, <1>1
<1>5. BaseCy * Edge \in Int /\ NChunks * Edge \in Int
  BY <1>1
<1> QED BY <1>1, <1>2, <1>3, <1>4, <1>5 DEF ChunkYs, ChunkY0, Ys, MinY

LEMMA ChunksDisjoint ==
  ASSUME NEW ci \in Chunks, NEW cj \in Chunks, NEW y \in ChunkYs(ci), y \in ChunkYs(cj)
  PROVE  ci = cj
<1>1. ci \in Int /\ cj \in Int /\ Edge \in Nat \ {0} /\ BaseCy \in Int /\ y \in Int
  BY ColumnShape, ChunkYsInside, ShapeFacts DEF Chunks
<1>2. /\ (BaseCy + ci) * Edge <= y /\ y <= (BaseCy + ci) * Edge + Edge - 1
      /\ (BaseCy + cj) * Edge <= y /\ y <= (BaseCy + cj) * Edge + Edge - 1
  BY <1>1 DEF ChunkYs, ChunkY0
<1>3. ASSUME NEW a \in Int, NEW b \in Int, a < b
      PROVE  (BaseCy + a) * Edge + Edge <= (BaseCy + b) * Edge
  <2>1. (BaseCy + a) * Edge + Edge = (BaseCy + a + 1) * Edge
    BY <1>1, <1>3
  <2>2. (BaseCy + a + 1) * Edge <= (BaseCy + b) * Edge
    BY <1>1, <1>3
  <2> QED BY <2>1, <2>2
<1>4. (BaseCy + ci) * Edge \in Int /\ (BaseCy + cj) * Edge \in Int
  BY <1>1
<1>5. ~ (ci < cj)
  BY <1>1, <1>2, <1>3, <1>4
<1>6. ~ (cj < ci)
  BY <1>1, <1>2, <1>3, <1>4
<1> QED BY <1>1, <1>5, <1>6

LEMMA SliceInside ==
  ASSUME NEW ci \in Chunks, NEW y0 \in Int, NEW y1 \in Int
  PROVE  Slice(ci, y0, y1) \subseteq ChunkYs(ci)
BY ChunkYsInside, ColumnShape DEF Slice

-----------------------------------------------------------------------------
(* The uniform representation is sound.                                    *)

LEMMA FillArguments ==
  FillYs \subseteq Int /\ \A rect \in Rects : rect \subseteq Cells
<1>1. FillYs \subseteq Int
  BY ShapeFacts DEF FillYs
<1>2. ASSUME NEW rect \in Rects PROVE rect \subseteq Cells
  <2>1. PICK x0 \in 0 .. WidthX - 1, x1 \in 0 .. WidthX - 1,
             z0 \in 0 .. WidthZ - 1, z1 \in 0 .. WidthZ - 1 :
               rect = (x0 .. x1) \X (z0 .. z1)
    BY <1>2 DEF Rects
  <2>2. x0 .. x1 \subseteq 0 .. WidthX - 1 /\ z0 .. z1 \subseteq 0 .. WidthZ - 1
    BY ColumnShape
  <2> QED BY <2>1, <2>2 DEF Cells
<1> QED BY <1>1, <1>2

LEMMA SetVoxelKeepsUniform ==
  ASSUME TypeOK, UniformIsTrue, NEW c \in Cells, NEW y \in Ys, NEW block \in Blocks,
         SetVoxel(c, y, block)
  PROVE  UniformIsTrue'
<1> SUFFICES ASSUME NEW ci \in Chunks, uniform'[ci] # Packed,
                    NEW d \in Cells, NEW h \in ChunkYs(ci)
             PROVE  voxels'[d][h] = uniform'[ci]
  BY DEF UniformIsTrue
<1>1. y \notin ChunkYs(ci) /\ uniform'[ci] = uniform[ci]
  BY DEF SetVoxel
<1>2. h # y /\ h \in Ys
  BY <1>1, ChunkYsInside
<1>3. voxels'[d][h] = voxels[d][h]
  BY <1>2 DEF SetVoxel, TypeOK
<1> QED BY <1>1, <1>3 DEF UniformIsTrue

LEMMA FillBoxKeepsUniform ==
  ASSUME TypeOK, UniformIsTrue, NEW rect \in Rects, NEW y0 \in FillYs, NEW y1 \in FillYs,
         NEW block \in Blocks, FillBox(rect, y0, y1, block)
  PROVE  UniformIsTrue'
<1> SUFFICES ASSUME NEW ci \in Chunks, uniform'[ci] # Packed,
                    NEW d \in Cells, NEW h \in ChunkYs(ci)
             PROVE  voxels'[d][h] = uniform'[ci]
  BY DEF UniformIsTrue
<1> DEFINE hit == d \in rect /\ \E cj \in Chunks : h \in Slice(cj, y0, y1)
<1>1. h \in Ys /\ y0 \in Int /\ y1 \in Int
  BY ChunkYsInside, FillArguments
<1>2. voxels'[d][h] = IF hit THEN block ELSE voxels[d][h]
  BY <1>1 DEF FillBox
<1>3. hit <=> d \in rect /\ h \in Slice(ci, y0, y1)
  BY <1>1, SliceInside, ChunksDisjoint
<1>4. uniform'[ci] = UniformAfter(ci, rect, Slice(ci, y0, y1), block)
  BY DEF FillBox
<1>5. CASE Slice(ci, y0, y1) = {} \/ uniform[ci] = block
  <2>1. uniform'[ci] = uniform[ci]
    BY <1>4, <1>5 DEF UniformAfter
  <2>2. voxels[d][h] = uniform[ci]
    BY <2>1 DEF UniformIsTrue
  <2> QED BY <1>2, <1>3, <1>5, <2>1, <2>2
<1>6. CASE ~ (Slice(ci, y0, y1) = {} \/ uniform[ci] = block)
  <2>1. WholeChunk(ci, rect, Slice(ci, y0, y1)) /\ uniform'[ci] = block
    BY <1>4, <1>6 DEF UniformAfter
  <2> QED BY <1>2, <1>3, <2>1 DEF WholeChunk
<1> QED BY <1>5, <1>6

\* In a column of any shape, a chunk stored as one value holds that value
\* everywhere.
THEOREM UniformSound == Spec => []UniformIsTrue
<1>1. Init => UniformIsTrue
  <2> SUFFICES ASSUME Init, NEW ci \in Chunks, NEW c \in Cells, NEW y \in ChunkYs(ci)
               PROVE  voxels[c][y] = uniform[ci]
    BY DEF UniformIsTrue
  <2>1. y \in Ys
    BY ChunkYsInside
  <2> QED BY <2>1 DEF Init
<1>2. TypeOK /\ UniformIsTrue /\ [Next]_vars => UniformIsTrue'
  <2> SUFFICES ASSUME TypeOK, UniformIsTrue, [Next]_vars PROVE UniformIsTrue'
    OBVIOUS
  <2>1. CASE RecomputeCells
    BY <2>1 DEF RecomputeCells, UniformIsTrue
  <2>2. CASE UNCHANGED vars
    BY <2>2 DEF vars, UniformIsTrue
  <2> QED BY <2>1, <2>2, SetVoxelKeepsUniform, FillBoxKeepsUniform DEF Next
<1> QED BY <1>1, <1>2, Typing, PTL DEF Spec

\* A fill that reports no change made none, so not rescanning is right.
LEMMA UnreportedFillIsNone ==
  ASSUME TypeOK, UniformIsTrue, NEW rect \in Rects, NEW y0 \in FillYs, NEW y1 \in FillYs,
         NEW block \in Blocks, FillBox(rect, y0, y1, block),
         ~ \E ci \in Chunks : /\ Slice(ci, y0, y1) # {}
                             /\ ChunkChanges(ci, rect, Slice(ci, y0, y1), block)
  PROVE  voxels' = voxels
<1>1. ASSUME NEW c \in rect, NEW y \in Ys, NEW ci \in Chunks, y \in Slice(ci, y0, y1)
      PROVE  voxels[c][y] = block
  <2>1. ~ ChunkChanges(ci, rect, Slice(ci, y0, y1), block)
    BY <1>1
  <2>2. CASE WholeChunk(ci, rect, Slice(ci, y0, y1))
    <3>1. uniform[ci] = block /\ block # Packed
      BY <2>1, <2>2, BlockTraits DEF ChunkChanges, Blocks
    <3>2. c \in Cells /\ y \in ChunkYs(ci)
      BY <1>1, <2>2 DEF WholeChunk
    <3> QED BY <3>1, <3>2 DEF UniformIsTrue
  <2>3. CASE ~ WholeChunk(ci, rect, Slice(ci, y0, y1))
    BY <1>1, <2>1, <2>3 DEF ChunkChanges
  <2> QED BY <2>2, <2>3
<1>2. voxels' = [c \in Cells |-> [y \in Ys |->
                  IF c \in rect /\ \E ci \in Chunks : y \in Slice(ci, y0, y1)
                  THEN block ELSE voxels[c][y]]]
  BY DEF FillBox
<1>3. ASSUME NEW c \in Cells
      PROVE  [y \in Ys |-> IF c \in rect /\ \E ci \in Chunks : y \in Slice(ci, y0, y1)
                           THEN block ELSE voxels[c][y]] = voxels[c]
  BY <1>1, <1>3 DEF TypeOK
<1> QED BY <1>2, <1>3 DEF TypeOK

-----------------------------------------------------------------------------
(* The records tell the truth, when every height fits int16.               *)

LEMMA NarrowKeeps ==
  ASSUME YFitsInt16, NEW h \in Ys \cup {Int16Min} PROVE Narrow(h) = h
BY ColumnShape, ShapeFacts DEF YFitsInt16, Narrow

LEMMA SeenAll ==
  ASSUME YFitsInt16, NEW S \in SUBSET Ys PROVE Seen(S) = S
<1>1. \A y \in Ys : Narrow(y) = y /\ y # Int16Min
  BY NarrowKeeps, ShapeFacts, ColumnShape DEF YFitsInt16
<1> QED BY <1>1 DEF Seen

\* A rescan finds both tops and counts the open water.
LEMMA RescanExact ==
  ASSUME YFitsInt16, NEW cell \in ColumnCell, NEW col
  PROVE  /\ Rescan(cell, col).terrain_top_y = Highest(SolidYs(col))
         /\ Rescan(cell, col).water_surface_y = Highest(WaterYs(col))
         /\ Rescan(cell, col).water_depth_voxels = Cardinality(OpenWater(col))
<1>1. /\ Seen(SolidYs(col)) = SolidYs(col) /\ Seen(WaterYs(col)) = WaterYs(col)
  BY SetsOfYs, SeenAll
<1>2. /\ Highest(SolidYs(col)) \in Ys \cup {Int16Min}
      /\ Highest(WaterYs(col)) \in Ys \cup {Int16Min}
  BY SetsOfYs, HighestType
<1>3. /\ Narrow(Highest(SolidYs(col))) = Highest(SolidYs(col))
      /\ Narrow(Highest(WaterYs(col))) = Highest(WaterYs(col))
  BY <1>2, NarrowKeeps
<1> QED BY <1>1, <1>3 DEF Rescan

\* The record of one cell is the truth about its voxels, up to a depth that
\* may only err upwards: the inductive form of TopsExact and
\* DepthCoversWater, one cell at a time.
RecordOf(cell, col) ==
  /\ cell.terrain_top_y = Highest(SolidYs(col))
  /\ cell.water_surface_y = Highest(WaterYs(col))
  /\ Cardinality(OpenWater(col)) <= cell.water_depth_voxels
  /\ WaterYs(col) = {} => cell.water_depth_voxels = 0

Records == \A c \in Cells : RecordOf(cells[c], voxels[c])

LEMMA RescanRecord ==
  ASSUME YFitsInt16, NEW cell \in ColumnCell, NEW col
  PROVE  RecordOf(Rescan(cell, col), col)
<1>1. WaterYs(col) = {} => Cardinality(OpenWater(col)) = 0
  <2> SUFFICES ASSUME WaterYs(col) = {} PROVE Cardinality(OpenWater(col)) = 0
    OBVIOUS
  <2>1. OpenWater(col) = {}
    BY DEF OpenWater
  <2> QED BY <2>1, FS_EmptySet
<1> QED BY <1>1, RescanExact, SetsOfYs DEF RecordOf

\* The heart of the argument: when set_voxel decides that no rescan is
\* needed, the incremental update is right.
LEMMA IncrementalRecord ==
  ASSUME YFitsInt16, NEW cell \in ColumnCell, NEW col \in [Ys -> Blocks],
         NEW y \in Ys, NEW block \in Blocks, block # col[y],
         RecordOf(cell, col), ~ NeedRescan(cell, y, col[y], block)
  PROVE  RecordOf(Incremental(cell, y, block), [col EXCEPT ![y] = block])
<1> DEFINE new == [col EXCEPT ![y] = block]
           out == Incremental(cell, y, block)
<1>1. /\ out.terrain_top_y = IF block \in Solids THEN Raised(cell.terrain_top_y, y)
                             ELSE cell.terrain_top_y
      /\ out.water_surface_y = cell.water_surface_y
      /\ out.water_depth_voxels = cell.water_depth_voxels
  BY DEF Incremental, ColumnCell
<1>2. block # Water
  BY DEF NeedRescan
<1>3. SolidYs(new) = IF block \in Solids THEN SolidYs(col) \cup {y} ELSE SolidYs(col) \ {y}
  BY DEF SolidYs
<1>4. WaterYs(new) = WaterYs(col) \ {y}
  BY <1>2 DEF WaterYs
<1>5. SolidYs(col) \in SUBSET Ys /\ WaterYs(col) \in SUBSET Ys
  BY SetsOfYs
<1>6. block \notin Solids /\ y \in SolidYs(col) => y # Highest(SolidYs(col))
  BY DEF NeedRescan, RecordOf, SolidYs
<1>7. y \in WaterYs(col) => y # Highest(WaterYs(col))
  BY <1>2 DEF NeedRescan, RecordOf, WaterYs
<1>8. out.terrain_top_y = Highest(SolidYs(new))
  <2>1. CASE block \in Solids
    BY <2>1, <1>1, <1>3, <1>5, HighestAdd DEF RecordOf
  <2>2. CASE block \notin Solids /\ y \in SolidYs(col)
    BY <2>2, <1>1, <1>3, <1>5, <1>6, HighestRemove DEF RecordOf
  <2>3. CASE block \notin Solids /\ y \notin SolidYs(col)
    <3>1. SolidYs(new) = SolidYs(col)
      BY <2>3, <1>3
    <3> QED BY <3>1, <2>3, <1>1 DEF RecordOf
  <2> QED BY <2>1, <2>2, <2>3
<1>9. out.water_surface_y = Highest(WaterYs(new))
  <2>1. CASE y \in WaterYs(col)
    BY <2>1, <1>1, <1>4, <1>5, <1>7, HighestRemove DEF RecordOf
  <2>2. CASE y \notin WaterYs(col)
    <3>1. WaterYs(new) = WaterYs(col)
      BY <2>2, <1>4
    <3> QED BY <3>1, <1>1 DEF RecordOf
  <2> QED BY <2>1, <2>2
<1>10. OpenWater(new) \subseteq OpenWater(col)
  <2> SUFFICES ASSUME NEW w \in OpenWater(new), NEW s \in SolidYs(col) PROVE s < w
    BY <1>4, SeenAll, SetsOfYs DEF OpenWater
  <2>1. Seen(SolidYs(new)) = SolidYs(new)
    BY SeenAll, SetsOfYs
  <2>2. \A t \in SolidYs(new) : t < w
    BY <2>1 DEF OpenWater
  <2> HIDE DEF new
  <2>3. CASE s \in SolidYs(new)
    BY <2>2, <2>3
  <2>4. CASE s \notin SolidYs(new)
    <3>1. block \notin Solids /\ s = y /\ y \in SolidYs(col)
      BY <2>4, <1>3
    <3>2. Highest(SolidYs(col)) \in SolidYs(new) /\ y <= Highest(SolidYs(col))
      BY <3>1, <1>3, <1>5, <1>6, HighestIsMax
    <3>3. w \in Int /\ y \in Int /\ Highest(SolidYs(col)) \in Int
      BY ShapeFacts, SetsOfYs, HighestType
    <3> QED BY <2>2, <3>1, <3>2, <3>3
  <2> QED BY <2>3, <2>4
<1>11. Cardinality(OpenWater(new)) <= cell.water_depth_voxels
  <2>1. IsFiniteSet(OpenWater(col))
    BY SetsOfYs, ShapeFacts, FS_Subset
  <2>2. Cardinality(OpenWater(new)) <= Cardinality(OpenWater(col))
    BY <2>1, <1>10, FS_Subset
  <2>3. /\ Cardinality(OpenWater(new)) \in Nat /\ Cardinality(OpenWater(col)) \in Nat
        /\ cell.water_depth_voxels \in Nat
    BY SetsOfYs DEF ColumnCell
  <2> QED BY <2>2, <2>3 DEF RecordOf
<1>12. WaterYs(new) = {} => cell.water_depth_voxels = 0
  <2> SUFFICES ASSUME WaterYs(new) = {} PROVE WaterYs(col) = {}
    BY DEF RecordOf
  <2> SUFFICES ASSUME WaterYs(col) # {} PROVE FALSE
    OBVIOUS
  <2>1. Highest(WaterYs(col)) \in WaterYs(col)
    BY <1>5, HighestIsMax
  <2> QED BY <2>1, <1>4, <1>7
<1> QED BY <1>1, <1>8, <1>9, <1>11, <1>12 DEF RecordOf

LEMMA SetVoxelKeepsRecords ==
  ASSUME YFitsInt16, TypeOK, Records, NEW c \in Cells, NEW y \in Ys, NEW block \in Blocks,
         SetVoxel(c, y, block)
  PROVE  Records'
<1> SUFFICES ASSUME NEW d \in Cells PROVE RecordOf(cells'[d], voxels'[d])
  BY DEF Records
<1> DEFINE col == [voxels[c] EXCEPT ![y] = block]
<1>1. /\ voxels[c] \in [Ys -> Blocks] /\ cells[c] \in ColumnCell /\ block # voxels[c][y]
      /\ RecordOf(cells[c], voxels[c])
  BY DEF TypeOK, Records, SetVoxel
<1>2. Narrow(y) = y
  BY NarrowKeeps
<1>3. CASE d # c
  BY <1>3 DEF SetVoxel, TypeOK, Records
<1>4. CASE d = c
  <2>1. voxels'[c] = col
    BY DEF SetVoxel, TypeOK
  <2>2. cells'[c] = IF NeedRescan(cells[c], y, voxels[c][y], block)
                    THEN Rescan(cells[c], col) ELSE Incremental(cells[c], y, block)
    BY <1>2 DEF SetVoxel, TypeOK
  <2>3. CASE NeedRescan(cells[c], y, voxels[c][y], block)
    BY <2>1, <2>2, <2>3, <1>1, <1>4, RescanRecord
  <2>4. CASE ~ NeedRescan(cells[c], y, voxels[c][y], block)
    BY <2>1, <2>2, <2>4, <1>1, <1>4, IncrementalRecord
  <2> QED BY <2>3, <2>4
<1> QED BY <1>3, <1>4

LEMMA FillBoxKeepsRecords ==
  ASSUME YFitsInt16, TypeOK, UniformIsTrue, Records, NEW rect \in Rects,
         NEW y0 \in FillYs, NEW y1 \in FillYs, NEW block \in Blocks,
         FillBox(rect, y0, y1, block)
  PROVE  Records'
<1> DEFINE changed == \E ci \in Chunks : /\ Slice(ci, y0, y1) # {}
                                        /\ ChunkChanges(ci, rect, Slice(ci, y0, y1), block)
<1>1. \A d \in Cells : cells'[d] = IF changed /\ d \in rect
                                   THEN Rescan(cells[d], voxels'[d]) ELSE cells[d]
  BY DEF FillBox
<1>2. CASE changed
  <2> SUFFICES ASSUME NEW d \in Cells PROVE RecordOf(cells'[d], voxels'[d])
    BY DEF Records
  <2>1. CASE d \in rect
    BY <1>1, <1>2, <2>1, RescanRecord DEF TypeOK
  <2>2. CASE d \notin rect
    <3>1. voxels'[d] = [y \in Ys |-> voxels[d][y]]
      BY <2>2 DEF FillBox
    <3>2. voxels'[d] = voxels[d]
      BY <3>1 DEF TypeOK
    <3> QED BY <1>1, <2>2, <3>2 DEF Records
  <2> QED BY <2>1, <2>2
<1>3. CASE ~ changed
  <2>1. voxels' = voxels
    BY <1>3, UnreportedFillIsNone
  <2> QED BY <1>1, <1>3, <2>1 DEF Records
<1> QED BY <1>2, <1>3

\* In a column of any shape whose heights fit int16, the records are true
\* after every edit.
THEOREM RecordsHold == ASSUME YFitsInt16 PROVE Spec => []Records
<1>1. Init => Records
  <2> SUFFICES ASSUME Init, NEW c \in Cells PROVE RecordOf(cells[c], voxels[c])
    BY DEF Records
  <2>1. SolidYs(voxels[c]) = {} /\ WaterYs(voxels[c]) = {}
    BY BlockTraits DEF Init, SolidYs, WaterYs
  <2>2. OpenWater(voxels[c]) = {}
    BY <2>1 DEF OpenWater
  <2> QED BY <2>1, <2>2, FS_EmptySet DEF Init, RecordOf, Highest
<1>2. TypeOK /\ UniformIsTrue /\ Records /\ [Next]_vars => Records'
  <2> SUFFICES ASSUME TypeOK, UniformIsTrue, Records, [Next]_vars PROVE Records'
    OBVIOUS
  <2>1. CASE RecomputeCells
    BY <2>1, RescanRecord DEF RecomputeCells, TypeOK, Records
  <2>2. CASE UNCHANGED vars
    BY <2>2 DEF vars, Records
  <2> QED BY <2>1, <2>2, SetVoxelKeepsRecords, FillBoxKeepsRecords DEF Next
<1> QED BY <1>1, <1>2, Typing, UniformSound, PTL DEF Spec

\* Both tops of every cell are exact after every edit of any column.
THEOREM TopsAlwaysExact == ASSUME YFitsInt16 PROVE Spec => []TopsExact
<1>1. Records => TopsExact
  BY DEF Records, RecordOf, TopsExact
<1> QED BY <1>1, RecordsHold, PTL

\* The cached depth never understates the open water of any column.
THEOREM DepthAlwaysCovers == ASSUME YFitsInt16 PROVE Spec => []DepthCoversWater
<1>1. Records => DepthCoversWater
  BY DEF Records, RecordOf, DepthCoversWater
<1> QED BY <1>1, RecordsHold, PTL

-----------------------------------------------------------------------------
(* When the cached depth goes stale.                                       *)

\* With every height an int16, water is open when no solid voxel is above it.
LEMMA OpenIsAboveSolids ==
  ASSUME YFitsInt16, NEW col
  PROVE  OpenWater(col) = {w \in WaterYs(col) : \A s \in SolidYs(col) : s < w}
BY SeenAll, SetsOfYs DEF OpenWater

\* Open water lies above the top of the solid voxels, the sentinel included.
LEMMA OpenAboveTop ==
  ASSUME YFitsInt16, NEW col, NEW w \in OpenWater(col)
  PROVE  w \in Ys /\ Highest(SolidYs(col)) < w
<1>1. w \in Ys /\ w \in Int /\ Int16Min < w
  BY SetsOfYs, ShapeFacts DEF YFitsInt16
<1>2. CASE SolidYs(col) = {}
  BY <1>1, <1>2 DEF Highest
<1>3. CASE SolidYs(col) # {}
  <2>1. Highest(SolidYs(col)) \in SolidYs(col)
    BY <1>3, SetsOfYs, HighestIsMax
  <2>2. \A s \in SolidYs(col) : s < w
    BY OpenIsAboveSolids
  <2> QED BY <1>1, <2>1, <2>2
<1> QED BY <1>1, <1>2, <1>3

\* An edit that set_voxel does not rescan for disturbs the open water of its
\* cell in two ways only.
LEMMA UnscannedEditOfOpenWater ==
  ASSUME YFitsInt16, NEW cell \in ColumnCell, NEW col \in [Ys -> Blocks],
         NEW y \in Ys, NEW block \in Blocks, block # col[y],
         RecordOf(cell, col), ~ NeedRescan(cell, y, col[y], block),
         OpenWater([col EXCEPT ![y] = block]) # OpenWater(col)
  PROVE  /\ y > cell.terrain_top_y
         /\ \/ /\ block \in Solids
               /\ \E w \in OpenWater(col) : w <= y
            \/ /\ col[y] = Water /\ block = Air
               /\ y < cell.water_surface_y
<1> DEFINE new == [col EXCEPT ![y] = block]
<1>0. /\ Ys \subseteq Int /\ y \in Int /\ Highest(SolidYs(col)) \in Int
      /\ Highest(WaterYs(col)) \in Int
  BY ShapeFacts, SetsOfYs, HighestType
<1>1. cell.terrain_top_y = Highest(SolidYs(col)) /\ cell.water_surface_y = Highest(WaterYs(col))
  BY DEF RecordOf
<1>2. block # Water
  BY DEF NeedRescan
<1>3. SolidYs(new) = IF block \in Solids THEN SolidYs(col) \cup {y} ELSE SolidYs(col) \ {y}
  BY DEF SolidYs
<1>4. WaterYs(new) = WaterYs(col) \ {y}
  BY <1>2 DEF WaterYs
<1>5. /\ OpenWater(col) = {w \in WaterYs(col) : \A s \in SolidYs(col) : s < w}
      /\ OpenWater(new) = {w \in WaterYs(new) : \A s \in SolidYs(new) : s < w}
  BY OpenIsAboveSolids
<1>6. SolidYs(col) \in SUBSET Ys /\ WaterYs(col) \in SUBSET Ys
  BY SetsOfYs
<1>7. \A w \in OpenWater(col) : w \in Int /\ Highest(SolidYs(col)) < w
  BY <1>0, OpenAboveTop
<1> HIDE DEF new
<1>8. CASE block \in Solids
  <2>1. PICK w \in OpenWater(col) : w <= y
    <3> SUFFICES ASSUME \A w \in OpenWater(col) : ~ (w <= y) PROVE FALSE
      OBVIOUS
    <3>1. \A w \in OpenWater(col) : y < w
      BY <1>0, <1>7
    <3>2. OpenWater(new) = OpenWater(col)
      BY <1>3, <1>4, <1>5, <1>8, <3>1, <1>0
    <3> QED BY <3>2 DEF new
  <2>2. y > Highest(SolidYs(col))
    BY <2>1, <1>7, <1>0
  <2> QED BY <1>1, <1>8, <2>1, <2>2
<1>9. CASE block \notin Solids /\ y \in SolidYs(col)
  <2>1. y # Highest(SolidYs(col)) /\ y \notin WaterYs(col)
    BY <1>1, <1>9, BlockTraits DEF NeedRescan, SolidYs, WaterYs
  <2>2. Highest(SolidYs(col)) \in SolidYs(new) /\ y <= Highest(SolidYs(col))
    BY <1>3, <1>6, <1>9, <2>1, HighestIsMax
  <2>3. \A w \in OpenWater(new) : Highest(SolidYs(col)) < w
    BY <1>5, <2>2
  <2>4. \A w \in OpenWater(new) : w \in Int /\ y < w
    <3>1. \A w \in OpenWater(new) : w \in Int
      BY <1>0, <1>4, <1>5, <1>6
    <3> QED BY <1>0, <2>2, <2>3, <3>1
  <2>5. OpenWater(new) = OpenWater(col)
    BY <1>3, <1>4, <1>5, <1>9, <2>1, <2>4
  <2> QED BY <2>5 DEF new
<1>10. CASE block \notin Solids /\ y \notin SolidYs(col)
  <2>1. SolidYs(new) = SolidYs(col)
    BY <1>3, <1>10
  <2>2. OpenWater(new) = OpenWater(col) \ {y}
    BY <1>4, <1>5, <2>1
  <2>3. y \in OpenWater(col)
    BY <2>2 DEF new
  <2>4. y \in WaterYs(col) /\ col[y] = Water
    BY <2>3, <1>5 DEF WaterYs
  <2>5. y # Highest(WaterYs(col)) /\ y <= Highest(WaterYs(col))
    BY <1>1, <1>6, <2>4, HighestIsMax DEF NeedRescan
  <2>6. block = Air
    BY <1>2, <1>10 DEF Blocks
  <2> QED BY <1>0, <1>1, <1>7, <2>3, <2>4, <2>5, <2>6
<1> QED BY <1>8, <1>9, <1>10

\* The depth of a column of any shape goes stale only when a solid voxel is
\* put above the terrain of a cell with open water, or water below the
\* surface is emptied; fills, recomputations and all other edits keep a
\* correct depth correct.
THEOREM DepthStaleOnlyBySubmergedEdit ==
  ASSUME YFitsInt16 PROVE Spec => DepthGoesStaleOnlyBySubmergedEdit
<1> DEFINE Stale(c) ==
             \E y \in Ys :
               /\ voxels' = [voxels EXCEPT ![c][y] = voxels'[c][y]]
               /\ y > cells[c].terrain_top_y
               /\ \/ /\ voxels'[c][y] \in Solids
                     /\ \E w \in OpenWater(voxels[c]) : w <= y
                  \/ /\ voxels[c][y] = Water /\ voxels'[c][y] = Air
                     /\ y < cells[c].water_surface_y
<1>1. ASSUME TypeOK, UniformIsTrue, Records, Next, NEW c \in Cells,
             DepthExact(c), ~ DepthExact(c)'
      PROVE  Stale(c)
  <2>r. ASSUME cells'[c] = Rescan(cells[c], voxels'[c]) PROVE FALSE
    BY <1>1, <2>r, RescanExact DEF TypeOK, DepthExact
  <2>u. ASSUME cells'[c] = cells[c], voxels'[c] = voxels[c] PROVE FALSE
    BY <1>1, <2>u DEF DepthExact
  <2>1. CASE RecomputeCells
    BY <2>1, <2>r, <1>1 DEF RecomputeCells
  <2>2. ASSUME NEW rect \in Rects, NEW y0 \in FillYs, NEW y1 \in FillYs,
               NEW block \in Blocks, FillBox(rect, y0, y1, block)
        PROVE  FALSE
    <3> DEFINE changed == \E ci \in Chunks : /\ Slice(ci, y0, y1) # {}
                                            /\ ChunkChanges(ci, rect, Slice(ci, y0, y1), block)
    <3>1. cells'[c] = IF changed /\ c \in rect
                      THEN Rescan(cells[c], voxels'[c]) ELSE cells[c]
      BY <1>1, <2>2 DEF FillBox
    <3>2. CASE ~ changed
      <4>1. voxels' = voxels
        BY <1>1, <2>2, <3>2, UnreportedFillIsNone
      <4> QED BY <3>1, <3>2, <4>1, <2>u
    <3>3. CASE c \notin rect
      <4>1. voxels'[c] = [y \in Ys |-> voxels[c][y]]
        BY <1>1, <2>2, <3>3 DEF FillBox
      <4>2. voxels'[c] = voxels[c]
        BY <1>1, <4>1 DEF TypeOK
      <4> QED BY <3>1, <3>3, <4>2, <2>u
    <3> QED BY <3>1, <3>2, <3>3, <2>r
  <2>3. ASSUME NEW d \in Cells, NEW y \in Ys, NEW block \in Blocks, SetVoxel(d, y, block)
        PROVE  Stale(c)
    <3> DEFINE col == [voxels[c] EXCEPT ![y] = block]
    <3>1. d = c
      <4> SUFFICES ASSUME d # c PROVE FALSE
        OBVIOUS
      <4>1. cells'[c] = cells[c] /\ voxels'[c] = voxels[c]
        BY <1>1, <2>3 DEF SetVoxel, TypeOK
      <4> QED BY <4>1, <2>u
    <3>2. /\ voxels[c] \in [Ys -> Blocks] /\ cells[c] \in ColumnCell /\ RecordOf(cells[c], voxels[c])
          /\ block # voxels[c][y] /\ Narrow(y) = y
      BY <1>1, <2>3, <3>1, NarrowKeeps DEF TypeOK, Records, SetVoxel
    <3>3. voxels' = [voxels EXCEPT ![c] = col] /\ voxels'[c] = col /\ col[y] = block
      BY <1>1, <2>3, <3>1, <3>2 DEF SetVoxel, TypeOK
    <3>4. cells'[c] = IF NeedRescan(cells[c], y, voxels[c][y], block)
                      THEN Rescan(cells[c], col) ELSE Incremental(cells[c], y, block)
      BY <1>1, <2>3, <3>1, <3>2 DEF SetVoxel, TypeOK
    <3>5. ~ NeedRescan(cells[c], y, voxels[c][y], block)
      BY <2>r, <3>3, <3>4
    <3>6. cells'[c].water_depth_voxels = cells[c].water_depth_voxels
      BY <3>2, <3>4, <3>5 DEF Incremental, ColumnCell
    <3>7. OpenWater(col) # OpenWater(voxels[c])
      BY <1>1, <3>3, <3>6 DEF DepthExact
    <3>8. /\ y > cells[c].terrain_top_y
          /\ \/ /\ block \in Solids
                /\ \E w \in OpenWater(voxels[c]) : w <= y
             \/ /\ voxels[c][y] = Water /\ block = Air
                /\ y < cells[c].water_surface_y
      BY <3>2, <3>5, <3>7, UnscannedEditOfOpenWater
    <3>9. voxels' = [voxels EXCEPT ![c][y] = voxels'[c][y]]
      BY <3>3
    <3> QED BY <3>3, <3>8, <3>9
  <2> QED BY <1>1, <2>1, <2>2, <2>3 DEF Next
<1>2. TypeOK /\ UniformIsTrue /\ Records /\ [Next]_vars =>
        [\A c \in Cells : DepthExact(c) /\ ~ DepthExact(c)' => Stale(c)]_vars
  BY <1>1
<1> QED BY <1>2, Typing, UniformSound, RecordsHold, PTL
        DEF Spec, DepthGoesStaleOnlyBySubmergedEdit

-----------------------------------------------------------------------------
(* A chunk column whose heights fit int16 implements the height field:     *)
(* every edit, however it is sliced over the chunks, is one box edit of    *)
(* the field, and both maps follow it in the same step.                    *)

\* Every height of the column lies in one of its chunks.
LEMMA ChunksCover ==
  ASSUME NEW y \in Ys PROVE \E ci \in Chunks : y \in ChunkYs(ci)
<1> DEFINE a == y - MinY
           q == a \div Edge
<1>1. /\ a \in Nat /\ a < NChunks * Edge /\ Edge \in Nat \ {0} /\ NChunks \in Nat \ {0}
      /\ BaseCy \in Int /\ y \in Int /\ MinY \in Int
  BY ColumnShape, ShapeFacts
<1>2. \A n \in Nat, d \in Nat \ {0} :
        n \div d \in Nat /\ d * (n \div d) <= n /\ n < d * (n \div d) + d
  OBVIOUS
<1>3. q \in Nat /\ Edge * q <= a /\ a < Edge * q + Edge
  BY <1>1, <1>2
<1> HIDE DEF q
<1>4. q < NChunks
  <2> SUFFICES ASSUME NChunks <= q PROVE FALSE
    BY <1>1, <1>3
  <2>1. NChunks * Edge <= Edge * q
    BY <1>1, <1>3
  <2> QED BY <2>1, <1>1, <1>3
<1>5. q \in Chunks
  BY <1>1, <1>3, <1>4 DEF Chunks
<1>6. (BaseCy + q) * Edge = MinY + Edge * q
  BY <1>1, <1>3 DEF MinY
<1>7. y \in ChunkYs(q)
  BY <1>1, <1>3, <1>6 DEF ChunkYs, ChunkY0
<1> QED BY <1>5, <1>7

\* The slices of a fill add up to its range of heights.
LEMMA SlicesCover ==
  ASSUME NEW y \in Ys, NEW y0 \in Int, NEW y1 \in Int
  PROVE  (\E ci \in Chunks : y \in Slice(ci, y0, y1)) <=> y0 <= y /\ y < y1
<1>1. PICK cy \in Chunks : y \in ChunkYs(cy)
  BY ChunksCover
<1>2. y \in Int /\ ChunkY0(cy) \in Int /\ Edge \in Nat \ {0}
      /\ ChunkY0(cy) <= y /\ y < ChunkY0(cy) + Edge
  BY <1>1, ChunkYsInside, ShapeFacts, ColumnShape
<1>3. y \in Slice(cy, y0, y1) <=> y0 <= y /\ y < y1
  BY <1>2 DEF Slice
<1>4. ASSUME NEW ci \in Chunks, y \in Slice(ci, y0, y1) PROVE ci = cy
  BY <1>1, <1>4, SliceInside, ChunksDisjoint
<1> QED BY <1>3, <1>4

-----------------------------------------------------------------------------
(* The height field's operators, in the column's terms.                    *)

LEMMA FieldTops ==
  ASSUME NEW col
  PROVE  Field!SolidTop(col) = Highest(SolidYs(col)) /\ Field!WaterTop(col) = Highest(WaterYs(col))
BY DEF Field!SolidTop, Field!WaterTop, Field!Highest, Highest, SolidYs, WaterYs

\* Once the records are true before and after, a step that sets exactly one
\* box of voxels is an edit of the field.
LEMMA BoxEditsField ==
  ASSUME Records', NEW rect \in Rects, NEW y0 \in Ys, NEW y1 \in {y + 1 : y \in Ys},
         NEW block \in Blocks,
         voxels' = [c \in Cells |-> [y \in Ys |->
                     IF c \in rect /\ y0 <= y /\ y < y1 THEN block ELSE voxels[c][y]]]
  PROVE  Field!Next
<1>1. \A c \in Cells : /\ cells'[c].terrain_top_y = Field!SolidTop(voxels'[c])
                       /\ cells'[c].water_surface_y = Field!WaterTop(voxels'[c])
  BY FieldTops DEF Records, RecordOf
<1>2. Field!Edit(rect, y0, y1, block)
  BY <1>1 DEF Field!Edit
<1>3. block \in Field!Blocks
  BY DEF Blocks, Field!Blocks
<1> QED BY <1>2, <1>3 DEF Field!Next

\* And one that changes no voxel leaves the field as it is.
LEMMA NoEditStutters ==
  ASSUME Records, Records', voxels' = voxels
  PROVE  UNCHANGED Field!fieldVars
BY DEF Records, RecordOf, Field!fieldVars

LEMMA SetVoxelEdits ==
  ASSUME TypeOK, Records', NEW c \in Cells, NEW y \in Ys, NEW block \in Blocks,
         SetVoxel(c, y, block)
  PROVE  Field!Next
<1>1. PICK lx \in 0 .. WidthX - 1, lz \in 0 .. WidthZ - 1 : c = <<lx, lz>>
  BY DEF Cells
<1>2. {c} = (lx .. lx) \X (lz .. lz)
  BY <1>1, ColumnShape
<1>3. {c} \in Rects
  BY <1>2 DEF Rects
<1>4. \A h \in Ys : y <= h /\ h < y + 1 <=> h = y
  BY ShapeFacts
<1>5. voxels' = [d \in Cells |-> [h \in Ys |->
                  IF d \in {c} /\ y <= h /\ h < y + 1 THEN block ELSE voxels[d][h]]]
  <2>1. ASSUME NEW d \in Cells
        PROVE  voxels'[d] = [h \in Ys |->
                  IF d \in {c} /\ y <= h /\ h < y + 1 THEN block ELSE voxels[d][h]]
    BY <2>1, <1>4 DEF SetVoxel, TypeOK
  <2>2. voxels' = [d \in Cells |-> voxels'[d]]
    BY DEF SetVoxel, TypeOK
  <2> QED BY <2>1, <2>2
<1> QED BY <1>3, <1>5, BoxEditsField

\* A fill may reach beyond the column: what it does is the edit of the part
\* inside, or nothing.
LEMMA FillBoxEdits ==
  ASSUME TypeOK, Records, Records', NEW rect \in Rects,
         NEW y0 \in FillYs, NEW y1 \in FillYs, NEW block \in Blocks,
         FillBox(rect, y0, y1, block)
  PROVE  Field!Next \/ UNCHANGED Field!fieldVars
<1> DEFINE hi == MinY + NChunks * Edge
           lo0 == IF y0 < MinY THEN MinY ELSE y0
           hi1 == IF y1 > hi THEN hi ELSE y1
<1>1. /\ y0 \in Int /\ y1 \in Int /\ MinY \in Int /\ hi \in Int /\ y0 < y1
      /\ MinY < hi /\ Ys = MinY .. hi - 1
  BY FillArguments, ShapeFacts DEF FillBox
<1>2. voxels' = [c \in Cells |-> [y \in Ys |->
                  IF c \in rect /\ y0 <= y /\ y < y1 THEN block ELSE voxels[c][y]]]
  <2>1. voxels' = [c \in Cells |-> [y \in Ys |->
                    IF c \in rect /\ \E ci \in Chunks : y \in Slice(ci, y0, y1)
                    THEN block ELSE voxels[c][y]]]
    BY DEF FillBox
  <2> QED BY <2>1, <1>1, SlicesCover
<1> HIDE DEF hi
<1>3. CASE y0 < hi /\ MinY < y1
  <2>1. lo0 \in Ys /\ hi1 - 1 \in Ys /\ hi1 = (hi1 - 1) + 1
    BY <1>1, <1>3
  <2>2. hi1 \in {y + 1 : y \in Ys}
    BY <2>1
  <2>3. \A y \in Ys : y0 <= y /\ y < y1 <=> lo0 <= y /\ y < hi1
    BY <1>1
  <2>4. voxels' = [c \in Cells |-> [y \in Ys |->
                    IF c \in rect /\ lo0 <= y /\ y < hi1 THEN block ELSE voxels[c][y]]]
    BY <1>2, <2>3
  <2> HIDE DEF lo0, hi1
  <2> QED BY <2>1, <2>2, <2>4, BoxEditsField
<1>4. CASE ~ (y0 < hi /\ MinY < y1)
  <2>1. \A y \in Ys : ~ (y0 <= y /\ y < y1)
    BY <1>1, <1>4
  <2>2. voxels' = [c \in Cells |-> [y \in Ys |-> voxels[c][y]]]
    BY <1>2, <2>1
  <2>3. voxels' = voxels
    BY <2>2 DEF TypeOK
  <2> QED BY <2>3, NoEditStutters
<1> QED BY <1>3, <1>4

\* A chunk column of any shape whose heights fit int16 implements the height
\* field.
THEOREM ColumnImplementsHeightField ==
  ASSUME YFitsInt16 PROVE Spec => ImplementsHeightField
<1>1. Init => Field!Init
  <2> SUFFICES ASSUME Init PROVE Field!Init
    OBVIOUS
  <2> QED BY DEF Init, Field!Init
<1>2. TypeOK /\ Records /\ Records' /\ [Next]_vars => [Field!Next]_(Field!fieldVars)
  <2> SUFFICES ASSUME TypeOK, Records, Records', [Next]_vars
               PROVE  Field!Next \/ UNCHANGED Field!fieldVars
    OBVIOUS
  <2>1. CASE RecomputeCells
    BY <2>1, NoEditStutters DEF RecomputeCells
  <2>2. CASE UNCHANGED vars
    BY <2>2, NoEditStutters DEF vars
  <2> QED BY <2>1, <2>2, SetVoxelEdits, FillBoxEdits DEF Next
<1>3. Spec => []TypeOK /\ []Records
  BY Typing, RecordsHold
<1> QED BY <1>1, <1>2, <1>3, PTL DEF Spec, ImplementsHeightField, Field!Spec
-----------------------------------------------------------------------------
(* The walk of rescan_cell computes what a full look at the stack does.    *)

\* What holds at the top of an interval, and of each height whose successor
\* it holds of, holds down to the bottom.
LEMMA DownInduction ==
  ASSUME NEW a \in Int, NEW b \in Int, a <= b, NEW S \in SUBSET (a .. b), b \in S,
         \A y \in a .. b - 1 : y + 1 \in S => y \in S
  PROVE  a \in S
<1> DEFINE Out == (a .. b) \ S
<1> SUFFICES ASSUME a \notin S PROVE FALSE
  OBVIOUS
<1>1. a \in Out /\ Out \subseteq a .. b
  OBVIOUS
<1> HIDE DEF Out
<1>2. PICK m \in Out : \A z \in Out : z <= m
  BY <1>1, IntervalMax
<1>3. m \in a .. b /\ m \notin S /\ m # b
  BY <1>2 DEF Out
<1>4. m + 1 \in a .. b /\ m + 1 \notin Out
  BY <1>2, <1>3
<1>5. m + 1 \in S
  BY <1>4 DEF Out
<1> QED BY <1>3, <1>5

\* f is what the locals of a loop from b down to a hold after each turn, x
\* before the first one.
RunsDown(f, a, b, X, x, step) ==
  /\ f \in [a .. b -> X]
  /\ \A z \in a .. b : f[z] = IF z = b THEN x ELSE step[<<z, f[z + 1]>>]

\* A loop down an interval runs to its end.
LEMMA LoopDown ==
  ASSUME NEW a \in Int, NEW b \in Int, a <= b, NEW X, NEW x \in X,
         NEW step \in [(a .. b) \X X -> X]
  PROVE  \E f : RunsDown(f, a, b, X, x, step)
<1> DEFINE Loop(y, f) == \A z \in y .. b : f[z] = IF z = b THEN x ELSE step[<<z, f[z + 1]>>]
           Runs(y) == \E f \in [y .. b -> X] : Loop(y, f)
           S == {y \in a .. b : Runs(y)}
<1>1. Runs(b)
  <2> DEFINE g == [z \in b .. b |-> x]
  <2>1. g \in [b .. b -> X] /\ Loop(b, g)
    OBVIOUS
  <2> HIDE DEF g
  <2> QED BY <2>1
<1>2. ASSUME NEW y \in a .. b - 1, Runs(y + 1) PROVE Runs(y)
  <2>1. PICK f \in [y + 1 .. b -> X] : Loop(y + 1, f)
    BY <1>2
  <2> DEFINE g == [z \in y .. b |-> IF z = y THEN step[<<y, f[y + 1]>>] ELSE f[z]]
  <2>2. step[<<y, f[y + 1]>>] \in X
    OBVIOUS
  <2>3. g \in [y .. b -> X]
    BY <2>2
  <2>4. ASSUME NEW z \in y .. b PROVE g[z] = IF z = b THEN x ELSE step[<<z, g[z + 1]>>]
    <3>1. CASE z = y
      BY <3>1
    <3>2. CASE z # y
      <4>1. z \in y + 1 .. b /\ g[z] = f[z] /\ (z # b => g[z + 1] = f[z + 1])
        BY <3>2
      <4> QED BY <2>1, <4>1
    <3> QED BY <3>1, <3>2
  <2> HIDE DEF g
  <2> QED BY <2>3, <2>4
<1> HIDE DEF Runs
<1>3. S \in SUBSET (a .. b) /\ b \in S
  BY <1>1
<1>4. \A y \in a .. b - 1 : y + 1 \in S => y \in S
  BY <1>2
<1> HIDE DEF S
<1>5. a \in S
  BY <1>3, <1>4, DownInduction
<1> QED BY <1>5 DEF S, Runs, RunsDown

\* The locals of the walk.
Locals == [top : Int, surf : Int, depth : Nat, done : BOOLEAN]

LEMMA WalkStepType ==
  ASSUME NEW col, NEW y \in Int, NEW w \in Locals
  PROVE  WalkStep(col, y, w) \in Locals
<1>1. Narrow(y) \in Int
  BY NarrowType
<1>2. w.top \in Int /\ w.surf \in Int /\ w.depth \in Nat
  BY DEF Locals
<1> DEFINE t == IF col[y] \in Solids /\ w.top = Int16Min THEN Narrow(y) ELSE w.top
           s == IF col[y] = Water /\ w.surf = Int16Min THEN Narrow(y) ELSE w.surf
           d == IF col[y] = Water /\ w.top = Int16Min THEN w.depth + 1 ELSE w.depth
           e == t # Int16Min /\ s # Int16Min /\ col[y] \in Solids
<1>3. t \in Int /\ s \in Int /\ d \in Nat
  BY <1>1, <1>2
<1>4. WalkStep(col, y, w) = [top |-> t, surf |-> s, depth |-> d, done |-> e]
  BY DEF WalkStep
<1>5. e \in BOOLEAN
  OBVIOUS
<1> HIDE DEF t, s, d, e
<1>6. [top |-> t, surf |-> s, depth |-> d, done |-> e] \in Locals
  BY <1>3, <1>5, Zenon DEF Locals
<1> QED BY <1>4, <1>6, Zenon

\* The walk, turn by turn.
LEMMA WalkTurns ==
  ASSUME NEW col
  PROVE  \E f : /\ Walk(col) = f[MinY]
                /\ f[MaxY + 1] = WalkStart
                /\ \A y \in Ys : f[y] = IF f[y + 1].done THEN f[y + 1]
                                        ELSE WalkStep(col, y, f[y + 1])
<1>1. /\ MinY \in Int /\ MaxY + 1 \in Int /\ MinY <= MaxY + 1 /\ Ys = MinY .. MaxY
      /\ MaxY \in Int
  BY ShapeFacts DEF MaxY
<1> DEFINE D == MinY .. MaxY + 1
           Turn(y, w) == IF w.done THEN w ELSE WalkStep(col, y, w)
           step == [p \in D \X Locals |-> Turn(p[1], p[2])]
           Is(f) == f = [y \in D |-> IF y = MaxY + 1 THEN WalkStart
                                     ELSE LET w == f[y + 1]
                                          IN IF w.done THEN w ELSE WalkStep(col, y, w)]
<1>2. WalkStart \in Locals
  BY ColumnShape DEF WalkStart, Locals
<1>3. step \in [D \X Locals -> Locals]
  BY <1>1, WalkStepType
<1>4. \A y \in D, w \in Locals : step[<<y, w>>] = Turn(y, w)
  OBVIOUS
<1> HIDE DEF step
<1>5. PICK f \in [D -> Locals] :
        \A z \in D : f[z] = IF z = MaxY + 1 THEN WalkStart ELSE step[<<z, f[z + 1]>>]
  <2> DEFINE b == MaxY + 1
  <2>0. MinY \in Int /\ b \in Int /\ MinY <= b
    BY <1>1
  <2>1. step \in [(MinY .. b) \X Locals -> Locals]
    BY <1>3
  <2> HIDE DEF b
  <2>2. \E f : RunsDown(f, MinY, b, Locals, WalkStart, step)
    BY <1>2, <2>0, <2>1, LoopDown, Zenon
  <2> QED BY <2>2 DEF b, RunsDown
<1>6. Is(f)
  <2>1. ASSUME NEW z \in D, z # MaxY + 1 PROVE f[z + 1] \in Locals
    BY <1>1, <2>1
  <2> QED BY <1>4, <1>5, <2>1
<1>7. Walk(col) = (CHOOSE g : Is(g))[MinY]
  BY DEF Walk
<1>8. PICK g : Is(g) /\ Walk(col) = g[MinY]
  BY <1>6, <1>7
<1>9. g[MaxY + 1] = WalkStart
  BY <1>1, <1>8
<1>10. \A y \in Ys : g[y] = IF g[y + 1].done THEN g[y + 1] ELSE WalkStep(col, y, g[y + 1])
  BY <1>1, <1>8
<1> QED BY <1>8, <1>9, <1>10

\* The part of a set of heights from y up.
Up(S, y) == {z \in S : y <= z}

\* What the locals hold once height y has been passed: the two tops of the
\* part of the stack from y up, and the open water in it.  A walk that has
\* stopped has found both, so nothing further down can change them.
Passed(col, y, w) ==
  /\ w \in Locals
  /\ w.top = Narrow(Highest(Up(Seen(SolidYs(col)), y)))
  /\ w.surf = Narrow(Highest(Up(Seen(WaterYs(col)), y)))
  /\ w.depth = Cardinality(Up(OpenWater(col), y))
  /\ w.done => w.top # Int16Min /\ w.surf # Int16Min

LEMMA UpStep ==
  ASSUME NEW S \in SUBSET Ys, NEW y \in Ys
  PROVE  /\ Up(S, y) \in SUBSET Ys /\ Up(S, y + 1) \in SUBSET Ys
         /\ Up(S, y) = IF y \in S THEN Up(S, y + 1) \cup {y} ELSE Up(S, y + 1)
         /\ \A z \in Up(S, y + 1) : z \in S /\ z \in Int /\ y < z
<1>1. y \in Int /\ \A z \in S : z \in Int
  BY ShapeFacts
<1>2. \A z \in S : y <= z <=> z = y \/ y + 1 <= z
  BY <1>1
<1>3. Up(S, y) = {z \in S : z = y \/ y + 1 <= z}
  BY <1>2 DEF Up
<1>4. \A z \in S : y + 1 <= z => y < z
  BY <1>1
<1> QED BY <1>1, <1>3, <1>4 DEF Up

\* The highest of the part from y up, from that of the part above y.
LEMMA HighestUp ==
  ASSUME NEW S \in SUBSET Ys, NEW y \in Ys
  PROVE  Highest(Up(S, y)) =
           IF Up(S, y + 1) # {} THEN Highest(Up(S, y + 1))
           ELSE IF y \in S THEN y ELSE Int16Min
<1> DEFINE U == Up(S, y)
           V == Up(S, y + 1)
<1>1. /\ U \in SUBSET Ys /\ V \in SUBSET Ys
      /\ U = IF y \in S THEN V \cup {y} ELSE V
      /\ \A z \in V : z \in Int /\ y < z
  BY UpStep
<1>2. y \in Int
  BY ShapeFacts
<1> HIDE DEF U, V
<1>3. CASE V # {}
  <2>1. Highest(V) \in V /\ \A z \in V : z <= Highest(V)
    BY <1>1, <1>3, HighestIsMax
  <2>2. Highest(V) \in Int /\ y < Highest(V)
    BY <1>1, <2>1, Zenon
  <2>3. y <= Highest(V)
    BY <1>2, <2>2
  <2>4. Highest(V) \in U /\ \A z \in U : z <= Highest(V)
    BY <1>1, <2>1, <2>3
  <2>5. Highest(U) = Highest(V)
    BY <1>1, <2>4, HighestUnique
  <2> QED BY <1>3, <2>5 DEF U, V
<1>4. CASE V = {} /\ y \in S
  <2>1. U = {y}
    BY <1>1, <1>4
  <2>2. Highest(U) = y
    BY <1>1, <1>2, <2>1, HighestUnique
  <2> QED BY <1>4, <2>2 DEF U, V
<1>5. CASE V = {} /\ y \notin S
  BY <1>1, <1>5 DEF U, V, Highest
<1> QED BY <1>3, <1>4, <1>5

\* A top is known exactly when a seen voxel has been passed.
LEMMA NarrowNone == Narrow(Int16Min) = Int16Min
BY ColumnShape DEF Narrow

LEMMA TopKnown ==
  ASSUME NEW S \in SUBSET Ys, NEW y \in Int
  PROVE  Narrow(Highest(Up(Seen(S), y))) = Int16Min <=> Up(Seen(S), y) = {}
<1> DEFINE U == Up(Seen(S), y)
<1>1. U \in SUBSET Ys /\ \A z \in U : Narrow(z) # Int16Min
  BY DEF Up, Seen
<1> HIDE DEF U
<1>2. CASE U = {}
  BY <1>2, NarrowNone DEF U, Highest
<1>3. CASE U # {}
  <2>1. Highest(U) \in U
    BY <1>1, <1>3, HighestIsMax
  <2> QED BY <1>1, <1>3, <2>1 DEF U
<1> QED BY <1>2, <1>3

\* A top is taken from the first voxel of its kind on the way down that does
\* not narrow to the sentinel, and then kept.
LEMMA TopTaken ==
  ASSUME NEW S \in SUBSET Ys, NEW y \in Ys
  PROVE  LET top == Narrow(Highest(Up(Seen(S), y + 1)))
         IN Narrow(Highest(Up(Seen(S), y))) =
              IF y \in S /\ top = Int16Min THEN Narrow(y) ELSE top
<1> DEFINE T == Seen(S)
<1>1. y + 1 \in Int
  BY ShapeFacts
<1>2. T \in SUBSET Ys /\ (y \in T <=> y \in S /\ Narrow(y) # Int16Min)
  BY DEF Seen
<1>3. Narrow(Highest(Up(T, y + 1))) = Int16Min <=> Up(T, y + 1) = {}
  BY <1>1, TopKnown
<1> HIDE DEF T
<1>4. Highest(Up(T, y)) =
        IF Up(T, y + 1) # {} THEN Highest(Up(T, y + 1))
        ELSE IF y \in T THEN y ELSE Int16Min
  BY <1>2, HighestUp
<1>5. Narrow(Highest(Up(T, y))) =
        IF y \in S /\ Narrow(Highest(Up(T, y + 1))) = Int16Min THEN Narrow(y)
        ELSE Narrow(Highest(Up(T, y + 1)))
  BY <1>2, <1>3, <1>4, NarrowNone
<1> QED BY <1>5 DEF T

\* Water is open when no seen solid voxel has been passed on the way to it.
LEMMA OpenWhenNoTop ==
  ASSUME NEW col, NEW y \in Ys
  PROVE  y \in OpenWater(col) <=> col[y] = Water /\ Up(Seen(SolidYs(col)), y + 1) = {}
<1> DEFINE S == Seen(SolidYs(col))
<1>1. y \in Int /\ S \in SUBSET Ys /\ \A s \in S : s \in Int
  BY SetsOfYs, ShapeFacts
<1>2. col[y] = Water => y \notin S
  BY BlockTraits DEF Seen, SolidYs
<1>3. y \in OpenWater(col) <=> col[y] = Water /\ \A s \in S : s < y
  BY DEF OpenWater, WaterYs
<1>4. Up(S, y + 1) = {} <=> \A s \in S : ~ (y + 1 <= s)
  BY DEF Up
<1> HIDE DEF S
<1>5. \A s \in S : (s < y \/ s = y) <=> ~ (y + 1 <= s)
  BY <1>1
<1>6. col[y] = Water => \A s \in S : s < y <=> ~ (y + 1 <= s)
  BY <1>1, <1>2, <1>5
<1>7. y \in OpenWater(col) <=> col[y] = Water /\ Up(S, y + 1) = {}
  BY <1>3, <1>4, <1>6
<1> QED BY <1>7 DEF S

\* One turn of the walk, or none when it has stopped, takes what is known of
\* the stack above y to what is known from y up.
LEMMA PassedDown ==
  ASSUME NEW col, NEW y \in Ys, NEW w, Passed(col, y + 1, w)
  PROVE  Passed(col, y, IF w.done THEN w ELSE WalkStep(col, y, w))
<1> DEFINE S == SolidYs(col)
           W == WaterYs(col)
           O == OpenWater(col)
<1>1. y \in Int /\ S \in SUBSET Ys /\ W \in SUBSET Ys /\ O \in SUBSET Ys
  BY SetsOfYs, ShapeFacts
<1>2. /\ w \in Locals
      /\ w.top = Narrow(Highest(Up(Seen(S), y + 1)))
      /\ w.surf = Narrow(Highest(Up(Seen(W), y + 1)))
      /\ w.depth = Cardinality(Up(O, y + 1))
      /\ w.done => w.top # Int16Min /\ w.surf # Int16Min
  BY DEF Passed
<1>3. /\ Narrow(Highest(Up(Seen(S), y))) = IF y \in S /\ w.top = Int16Min THEN Narrow(y) ELSE w.top
      /\ Narrow(Highest(Up(Seen(W), y))) = IF y \in W /\ w.surf = Int16Min THEN Narrow(y) ELSE w.surf
  BY <1>1, <1>2, TopTaken
<1>4. y \in O <=> y \in W /\ w.top = Int16Min
  <2>1. w.top = Int16Min <=> Up(Seen(S), y + 1) = {}
    BY <1>1, <1>2, TopKnown
  <2>2. y \in W <=> col[y] = Water
    BY DEF WaterYs
  <2> QED BY <2>1, <2>2, OpenWhenNoTop
<1>5. Cardinality(Up(O, y)) = IF y \in W /\ w.top = Int16Min THEN w.depth + 1 ELSE w.depth
  <2>1. /\ Up(O, y + 1) \in SUBSET Ys
        /\ Up(O, y) = IF y \in O THEN Up(O, y + 1) \cup {y} ELSE Up(O, y + 1)
        /\ \A z \in Up(O, y + 1) : z \in Int /\ y < z
    BY <1>1, UpStep
  <2>2. IsFiniteSet(Up(O, y + 1)) /\ y \notin Up(O, y + 1)
    <3>1. y \notin Up(O, y + 1)
      BY <1>1, <2>1
    <3> QED BY <2>1, <3>1, ShapeFacts, FS_Subset
  <2>3. Cardinality(Up(O, y + 1) \cup {y}) = Cardinality(Up(O, y + 1)) + 1
    BY <2>2, FS_AddElement
  <2> HIDE DEF O, W
  <2> QED BY <1>2, <1>4, <2>1, <2>3
<1>6. y \in S <=> col[y] \in Solids
  BY DEF SolidYs
<1>7. y \in W <=> col[y] = Water
  BY DEF WaterYs
<1>8. CASE w.done
  BY <1>2, <1>3, <1>5, <1>8 DEF Passed
<1>9. CASE ~ w.done
  <2> DEFINE n == WalkStep(col, y, w)
  <2>1. n \in Locals
    BY <1>1, <1>2, WalkStepType
  <2>2. /\ n.top = IF col[y] \in Solids /\ w.top = Int16Min THEN Narrow(y) ELSE w.top
        /\ n.surf = IF col[y] = Water /\ w.surf = Int16Min THEN Narrow(y) ELSE w.surf
        /\ n.depth = IF col[y] = Water /\ w.top = Int16Min THEN w.depth + 1 ELSE w.depth
        /\ n.done => n.top # Int16Min /\ n.surf # Int16Min
    BY DEF WalkStep
  <2> HIDE DEF n, S, W, O
  <2>3. Passed(col, y, n)
    BY <1>3, <1>5, <1>6, <1>7, <2>1, <2>2 DEF Passed, S, W, O
  <2> QED BY <1>9, <2>3 DEF n
<1> QED BY <1>8, <1>9

\* The walk returns what a full look at the stack returns.
LEMMA WalkIsRescan ==
  ASSUME NEW col, NEW cell
  PROVE  /\ Walk(col).top = Rescan(cell, col).terrain_top_y
         /\ Walk(col).surf = Rescan(cell, col).water_surface_y
         /\ Walk(col).depth = Rescan(cell, col).water_depth_voxels
<1>1. /\ MinY \in Int /\ MaxY + 1 \in Int /\ MinY <= MaxY + 1 /\ Ys = MinY .. MaxY
      /\ MaxY \in Int
  BY ShapeFacts DEF MaxY
<1>2. PICK f : /\ Walk(col) = f[MinY]
               /\ f[MaxY + 1] = WalkStart
               /\ \A y \in Ys : f[y] = IF f[y + 1].done THEN f[y + 1]
                                       ELSE WalkStep(col, y, f[y + 1])
  BY WalkTurns
<1> DEFINE D == {y \in MinY .. MaxY + 1 : Passed(col, y, f[y])}
<1>3. MaxY + 1 \in D
  <2>1. ASSUME NEW S \in SUBSET Ys PROVE Up(S, MaxY + 1) = {}
    <3>1. \A z \in S : z \in Int /\ z <= MaxY
      BY <1>1
    <3>2. \A z \in S : ~ (MaxY + 1 <= z)
      BY <1>1, <3>1
    <3> QED BY <3>2, Zenon DEF Up
  <2>2. /\ Up(Seen(SolidYs(col)), MaxY + 1) = {} /\ Up(Seen(WaterYs(col)), MaxY + 1) = {}
        /\ Up(OpenWater(col), MaxY + 1) = {}
    BY <2>1, SetsOfYs
  <2>3. WalkStart \in Locals /\ WalkStart.top = Int16Min /\ WalkStart.surf = Int16Min
        /\ WalkStart.depth = 0 /\ ~ WalkStart.done
    BY ColumnShape DEF WalkStart, Locals
  <2>4. Passed(col, MaxY + 1, WalkStart)
    BY <2>2, <2>3, NarrowNone, FS_EmptySet DEF Passed, Highest
  <2> QED BY <1>1, <1>2, <2>4
<1>4. ASSUME NEW y \in MinY .. MaxY, y + 1 \in D PROVE y \in D
  <2>1. Passed(col, y, f[y])
    BY <1>1, <1>2, <1>4, PassedDown
  <2> QED BY <1>1, <2>1
<1>5. Passed(col, MinY, Walk(col))
  <2> DEFINE b == MaxY + 1
  <2>1. b \in Int /\ MinY <= b /\ D \in SUBSET (MinY .. b) /\ b \in D
    BY <1>1, <1>3
  <2>2. \A y \in MinY .. b - 1 : y + 1 \in D => y \in D
    BY <1>1, <1>4
  <2> HIDE DEF D, b
  <2>3. MinY \in D
    BY <1>1, <2>1, <2>2, DownInduction
  <2> QED BY <1>2, <2>3 DEF D
<1>6. ASSUME NEW S \in SUBSET Ys PROVE Up(S, MinY) = S
  <2>1. \A z \in S : MinY <= z
    BY <1>1
  <2> QED BY <2>1, Zenon DEF Up
<1>7. /\ Up(Seen(SolidYs(col)), MinY) = Seen(SolidYs(col))
      /\ Up(Seen(WaterYs(col)), MinY) = Seen(WaterYs(col))
      /\ Up(OpenWater(col), MinY) = OpenWater(col)
  BY <1>6, SetsOfYs
<1> QED BY <1>5, <1>7 DEF Passed, Rescan

\* In a column of any shape and height, wrapping heights included, the
\* early-exit walk of rescan_cell returns what a full look at the stack
\* returns.
THEOREM WalkAlwaysAgrees == Spec => []WalkAgreesWithRescan
<1>1. WalkAgreesWithRescan
  BY WalkIsRescan DEF WalkAgreesWithRescan
<1> QED BY <1>1, PTL

=============================================================================
