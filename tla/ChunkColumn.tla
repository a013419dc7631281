---------------------------- MODULE ChunkColumn ----------------------------
(***************************************************************************)
(* One ChunkColumn (src/native/voxel_store/column.cpp): a stack of chunks  *)
(* and, for every (lx, lz) cell, the ColumnCell record that caches the     *)
(* topmost solid voxel, the topmost water voxel, the depth of the water    *)
(* and two dirty flags.  set_voxel keeps the record incrementally and      *)
(* falls back on a rescan of the cell; fill_box rescans every cell of its  *)
(* box.  A chunk appears here as its voxels and the one fact of its        *)
(* representation the column sees: whether it is stored as a single value  *)
(* (bits_ == 0).  PalettedChunk models that representation.                *)
(***************************************************************************)
EXTENDS Integers, FiniteSets

CONSTANTS
  WidthX, WidthZ,  \* horizontal extent of a chunk   (kChunkEdge in the code)
  Edge,            \* vertical extent of a chunk     (kChunkEdge in the code)
  BaseCy,          \* base_cy_: chunk coordinate of the lowest chunk
  NChunks,         \* number of chunks in the stack  (1 .. kColumnMaxChunks)
  Air, Water,      \* block ids 0 and 2
  Solids,          \* every other block id
  Packed,          \* "this chunk has an index buffer" (bits_ > 0)
  Int16Min         \* INT16_MIN: the sentinel of the two heights

ASSUME ColumnShape ==
  /\ WidthX \in Nat \ {0} /\ WidthZ \in Nat \ {0}
  /\ Edge \in Nat \ {0} /\ NChunks \in Nat \ {0}
  /\ BaseCy \in Int
  /\ Int16Min \in Int /\ Int16Min < 0

ASSUME BlockTraits ==
  /\ Air # Water /\ Air \notin Solids /\ Water \notin Solids
  /\ Packed \notin {Air, Water} \cup Solids

Blocks == {Air, Water} \cup Solids
Cells  == (0 .. WidthX - 1) \X (0 .. WidthZ - 1)
Chunks == 0 .. NChunks - 1
MinY   == BaseCy * Edge
Ys     == MinY .. MinY + NChunks * Edge - 1

\* The heights chunk ci owns.
ChunkY0(ci) == (BaseCy + ci) * Edge
ChunkYs(ci) == ChunkY0(ci) .. ChunkY0(ci) + Edge - 1

\* static_cast<int16_t>(y): a height that fits is kept, another one wraps.
Narrow(y) ==
  IF Int16Min <= y /\ y < -Int16Min THEN y
  ELSE ((y - Int16Min) % (-2 * Int16Min)) + Int16Min

\* The heights a column may use without losing them in that conversion.
YFitsInt16 == \A y \in Ys : Int16Min < y /\ y < -Int16Min

WaveReseed  == "WAVE_RESEED"
MeshRebuild == "MESH_REBUILD"

VARIABLES
  voxels,   \* [Cells -> [Ys -> Blocks]]: what chunks_[ci]->get returns
  uniform,  \* per chunk: its only value when bits_ == 0, else Packed
  cells     \* cells_: the ColumnCell records

vars == <<voxels, uniform, cells>>

ColumnCell == [terrain_top_y : Int, water_surface_y : Int,
               water_depth_voxels : Nat, flags : SUBSET {WaveReseed, MeshRebuild}]

-----------------------------------------------------------------------------
(* What the voxels of one cell say.                                        *)

SolidYs(col) == {y \in Ys : col[y] \in Solids}
WaterYs(col) == {y \in Ys : col[y] = Water}

Highest(S) ==
  IF S = {} THEN Int16Min ELSE CHOOSE y \in S : \A z \in S : z <= y

\* The top-down walk takes a height that narrows to the sentinel for "none
\* found yet", and goes on looking.
Seen(S) == {y \in S : Narrow(y) # Int16Min}

\* Water voxels with no solid voxel above them: the walk stops counting once
\* it has met a solid voxel.
OpenWater(col) == {y \in WaterYs(col) : \A s \in Seen(SolidYs(col)) : s < y}

\* rescan_cell, as a function of the cell's voxels and old record.
Rescan(cell, col) ==
  [terrain_top_y      |-> Narrow(Highest(Seen(SolidYs(col)))),
   water_surface_y    |-> Narrow(Highest(Seen(WaterYs(col)))),
   water_depth_voxels |-> Cardinality(OpenWater(col)),
   flags              |-> cell.flags \cup {WaveReseed, MeshRebuild}]

-----------------------------------------------------------------------------
Init ==
  /\ voxels = [c \in Cells |-> [y \in Ys |-> Air]]
  /\ uniform = [ci \in Chunks |-> Air]
  /\ cells = [c \in Cells |->
       [terrain_top_y |-> Int16Min, water_surface_y |-> Int16Min,
        water_depth_voxels |-> 0, flags |-> {}]]

\* A top that only ever rises: the new voxel is above it, or is the first.
Raised(top, y16) == IF top = Int16Min \/ y16 > top THEN y16 ELSE top

\* Mutants of NeedRescan: the removal of the top solid voxel is forgotten;
\* the arrival of water is.
NeedRescanWaterOnly(cell, y16, prev, block) ==
  block = Water \/ (prev = Water /\ y16 = cell.water_surface_y)

NeedRescanRemovalOnly(cell, y16, prev, block) ==
  \/ block \notin Solids /\ prev \in Solids /\ y16 = cell.terrain_top_y
  \/ prev = Water /\ y16 = cell.water_surface_y

\* The edit may have invalidated the record: the voxel that was a top is
\* gone, or the voxel is water now.
NeedRescan(cell, y16, prev, block) ==
  \/ block \notin Solids /\ prev \in Solids /\ y16 = cell.terrain_top_y
  \/ block = Water
  \/ prev = Water /\ y16 = cell.water_surface_y

\* The incremental update of set_voxel, when no rescan is needed.
Incremental(cell, y16, block) ==
  [cell EXCEPT
    !.terrain_top_y = IF block \in Solids THEN Raised(@, y16) ELSE @,
    !.flags = @ \cup {MeshRebuild}]

\* set_voxel: nothing happens outside the column or when the voxel already
\* holds the block.  A write of another value ends a chunk's uniformity.
SetVoxel(c, y, block) ==
  LET prev == voxels[c][y]
      col  == [voxels[c] EXCEPT ![y] = block]
      y16  == Narrow(y)
  IN /\ prev # block
     /\ voxels' = [voxels EXCEPT ![c] = col]
     /\ uniform' = [ci \in Chunks |->
                      IF y \in ChunkYs(ci) THEN Packed ELSE uniform[ci]]
     /\ cells' = [cells EXCEPT ![c] =
                    IF NeedRescan(cells[c], y16, prev, block)
                    THEN Rescan(cells[c], col)
                    ELSE Incremental(cells[c], y16, block)]

\* The heights of chunk ci that a fill of [y0, y1) hands to that chunk, from
\* the local bounds ly0 and ly1 of the dispatch loop.
Slice(ci, y0, y1) ==
  IF y1 <= ChunkY0(ci) \/ y0 >= ChunkY0(ci) + Edge THEN {}
  ELSE (IF y0 > ChunkY0(ci) THEN y0 ELSE ChunkY0(ci))
       .. (IF y1 < ChunkY0(ci) + Edge THEN y1 ELSE ChunkY0(ci) + Edge) - 1

\* PalettedChunk::fill_box on one slice: a box that covers the chunk makes it
\* uniform and reports a change unless it already was, with that value; a
\* smaller box reports whether some voxel differed.
WholeChunk(ci, rect, slice) == rect = Cells /\ slice = ChunkYs(ci)

\* Mutant of ChunkChanges: only a chunk with a single value is compared.
ChunkChangesIfUniform(ci, rect, slice, block) ==
  uniform[ci] # Packed /\ uniform[ci] # block

ChunkChanges(ci, rect, slice, block) ==
  IF WholeChunk(ci, rect, slice)
  THEN uniform[ci] # block
  ELSE \E c \in rect, y \in slice : voxels[c][y] # block

\* Mutant of UniformAfter: a partial write leaves the chunk uniform.
UniformAfterAnyWrite(ci, rect, slice, block) ==
  IF slice # {} /\ WholeChunk(ci, rect, slice) THEN block ELSE uniform[ci]

UniformAfter(ci, rect, slice, block) ==
  IF slice = {} \/ uniform[ci] = block THEN uniform[ci]
  ELSE IF WholeChunk(ci, rect, slice) THEN block ELSE Packed

\* fill_box: slice by slice through the stack, then one rescan of every cell
\* of the box if some chunk reported a change.
FillBox(rect, y0, y1, block) ==
  LET slice == [ci \in Chunks |-> Slice(ci, y0, y1)]
      hit(c, y) == c \in rect /\ \E ci \in Chunks : y \in slice[ci]
      changed == \E ci \in Chunks :
                   slice[ci] # {} /\ ChunkChanges(ci, rect, slice[ci], block)
  IN /\ y0 < y1
     /\ voxels' = [c \in Cells |-> [y \in Ys |->
                     IF hit(c, y) THEN block ELSE voxels[c][y]]]
     /\ uniform' = [ci \in Chunks |->
                      UniformAfter(ci, rect, slice[ci], block)]
     /\ cells' = [c \in Cells |->
                    IF changed /\ c \in rect
                    THEN Rescan(cells[c], voxels'[c]) ELSE cells[c]]

\* recompute_cells: the recovery path, a rescan of every cell.
RecomputeCells ==
  /\ cells' = [c \in Cells |-> Rescan(cells[c], voxels[c])]
  /\ UNCHANGED <<voxels, uniform>>

\* The half-open boxes a caller can hand to fill_box: [lx0,lx1) x [lz0,lz1)
\* inside the chunk, heights possibly beyond the column on either side.
Rects == {(x0 .. x1) \X (z0 .. z1) :
            x0 \in 0 .. WidthX - 1, x1 \in 0 .. WidthX - 1,
            z0 \in 0 .. WidthZ - 1, z1 \in 0 .. WidthZ - 1} \ {{}}
FillYs == MinY - 1 .. MinY + NChunks * Edge + 1

Next ==
  \/ \E c \in Cells, y \in Ys, block \in Blocks : SetVoxel(c, y, block)
  \/ \E rect \in Rects, y0 \in FillYs, y1 \in FillYs, block \in Blocks :
       FillBox(rect, y0, y1, block)
  \/ RecomputeCells

Spec == Init /\ [][Next]_vars

-----------------------------------------------------------------------------
(* Properties.                                                             *)

\* The records and the representation flag have the types of the code.
TypeOK ==
  /\ voxels \in [Cells -> [Ys -> Blocks]]
  /\ uniform \in [Chunks -> Blocks \cup {Packed}]
  /\ cells \in [Cells -> ColumnCell]

\* Whatever mix of single-voxel edits and box fills came before, every cell
\* reports the topmost solid and the topmost water voxel of its stack: the
\* incremental update never misses an edit that moves a top.
TopsExact ==
  \A c \in Cells :
    /\ cells[c].terrain_top_y = Highest(SolidYs(voxels[c]))
    /\ cells[c].water_surface_y = Highest(WaterYs(voxels[c]))

\* The cached depth never understates the open water of a cell, and a cell
\* without water reports none: a reader may use it as an upper bound even
\* though set_voxel lets it go stale.
DepthCoversWater ==
  \A c \in Cells :
    /\ Cardinality(OpenWater(voxels[c])) <= cells[c].water_depth_voxels
    /\ WaterYs(voxels[c]) = {} => cells[c].water_depth_voxels = 0

\* A chunk stored as a single value holds that value everywhere, whatever
\* boxes were written into it: the fast path that answers "unchanged" from
\* the palette alone, and so skips the rescan, is sound.
UniformIsTrue ==
  \A ci \in Chunks : uniform[ci] # Packed =>
    \A c \in Cells, y \in ChunkYs(ci) : voxels[c][y] = uniform[ci]

DepthExact(c) ==
  cells[c].water_depth_voxels = Cardinality(OpenWater(voxels[c]))

\* The only two edits that make a correct depth wrong: a solid voxel placed
\* above the terrain of a cell that has water, and a submerged water voxel
\* that is emptied.  Fills and every other edit leave it as right as it was.
DepthGoesStaleOnlyBySubmergedEdit ==
  [][\A c \in Cells : DepthExact(c) /\ ~DepthExact(c)' =>
       \E y \in Ys :
         /\ voxels' = [voxels EXCEPT ![c][y] = voxels'[c][y]]
         /\ y > cells[c].terrain_top_y
         /\ \/ /\ voxels'[c][y] \in Solids
               /\ \E w \in OpenWater(voxels[c]) : w <= y
            \/ /\ voxels[c][y] = Water /\ voxels'[c][y] = Air
               /\ y < cells[c].water_surface_y]_vars

-----------------------------------------------------------------------------
(* The column implements the height field: its voxels are the field, and   *)
(* the two heights of its records are the field's maps.                    *)
Field == INSTANCE HeightField WITH
  NoTop <- Int16Min,
  terrainTop <- [c \in Cells |-> cells[c].terrain_top_y],
  waterTop <- [c \in Cells |-> cells[c].water_surface_y]

\* Every edit of the column, sliced over its chunks, is one box edit of the
\* height field with both maps following it.
ImplementsHeightField == Field!Spec
=============================================================================
