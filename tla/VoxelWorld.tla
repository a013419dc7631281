----------------------------- MODULE VoxelWorld -----------------------------
(* A world behind its handle: voxel_store/world.cpp and the calls of          *)
(* voxel_store_abi.cpp that reach it.  World coordinates are split into a     *)
(* column, a chunk of it and a voxel of that; columns are loaded when they    *)
(* are first touched.  Storage is taken to work: RegionStore has its faults.  *)
EXTENDS Integers

CONSTANTS Edge,        \* DEMEN_CHUNK_EDGE
          MaxChunks,   \* kColumnMaxChunks
          Blocks, Air,
          Params,      \* the parameters a world may be created with
          Points,      \* the positions single voxels are read and written at
          Boxes,       \* the boxes that are filled, as pairs of corners
          Chunks,      \* the chunks <<cx, cy, cz>> that are acquired
          Grid,        \* the columns all of these lie in
          Ranges,      \* the ranges of columns read in bulk, as pairs of keys
          MaxEdits,    \* bound on the writes
          MaxWorlds,   \* bound on the world handles given out
          MaxChunkHandles,  \* bound on the chunk handles given out
          Ok, OutOfBounds, NotLoaded,  \* result codes
          Garbage      \* what a read through a dangling pointer returns

ASSUME WorldAssumption ==
  /\ Edge \in Nat \ {0} /\ MaxChunks \in Nat \ {0}
  /\ Air \in Blocks
  /\ Params \subseteq [scale : {"FINITE_BOUNDED", "STREAMING"},
                       minX : Int, maxX : Int, minZ : Int, maxZ : Int,
                       minY : Int, maxY : Int]
  /\ Points \subseteq Int \X Int \X Int /\ Chunks \subseteq Int \X Int \X Int
  /\ Boxes \subseteq (Int \X Int \X Int) \X (Int \X Int \X Int)
  /\ Grid \subseteq Int \X Int
  /\ MaxEdits \in Nat /\ MaxWorlds \in Nat \ {0} /\ MaxChunkHandles \in Nat

VARIABLES params,   \* params_
          world,    \* the live world handle, 0 when there is none
          columns,  \* columns_: the loaded columns by their key
          disk,     \* the columns in region files
          handles,  \* g_chunks: what each live chunk handle stands for
          nextId,   \* g_next_world_id and g_next_chunk_id
          edits,    \* history: the number of writes
          answer    \* what the last call returned

vars == <<params, world, columns, disk, handles, nextId, edits, answer>>
-----------------------------------------------------------------------------
(* The quotient and remainder of C, towards zero, and floordiv and floormod   *)
(* made from them.                                                           *)
CDiv(a, b) == IF a >= 0 THEN a \div b ELSE -((-a) \div b)
CMod(a, b) == a - CDiv(a, b) * b

\* Mutant of FloorDiv: the quotient of C as it is.
CDivOnly(a, b) == CDiv(a, b)

FloorDiv(a, b) == IF CMod(a, b) # 0 /\ (CMod(a, b) < 0) # (b < 0)
                  THEN CDiv(a, b) - 1 ELSE CDiv(a, b)
FloorMod(a, b) == IF CMod(a, b) # 0 /\ (CMod(a, b) < 0) # (b < 0)
                  THEN CMod(a, b) + b ELSE CMod(a, b)

ColumnOf(p) == <<FloorDiv(p[1], Edge), FloorDiv(p[3], Edge)>>

(* The columns that the calls read are in the grid that is looked at.         *)
ASSUME GridAssumption ==
  /\ \A p \in Points : ColumnOf(p) \in Grid
  /\ \A c \in Chunks : <<c[1], c[3]>> \in Grid

(* The height of a column, clamped to what a column can hold.                *)
Height(pa) ==
  LET h == pa.maxY - pa.minY + 1 IN
  IF h < 1 THEN 1 ELSE IF h > MaxChunks THEN MaxChunks ELSE h

ColumnInBounds(pa, k) ==
  \/ pa.scale = "STREAMING"
  \/ k[1] \in pa.minX..pa.maxX /\ k[2] \in pa.minZ..pa.maxZ

InBounds(pa, p) == /\ FloorDiv(p[2], Edge) \in pa.minY..pa.maxY
                   /\ ColumnInBounds(pa, ColumnOf(p))

Local == 0..Edge - 1
Locals == Local \X Local \X Local

(* chunk ci and height ly of a row, where the column has it.                 *)
RowOf(y) == LET rel == y - params.minY * Edge IN <<rel \div Edge, rel % Edge>>

HasRow(y) == y \in params.minY * Edge..(params.minY + Height(params)) * Edge - 1

LocalOf(p) == <<FloorMod(p[1], Edge), RowOf(p[2])[2], FloorMod(p[3], Edge)>>

EmptyColumn == [ci \in 0..Height(params) - 1 |-> [l \in Locals |-> Air]]

(* ensure_column: a column that is not in memory is loaded, or made.         *)
Loaded(k) == IF k \in DOMAIN columns THEN columns[k]
             ELSE IF k \in DOMAIN disk THEN disk[k] ELSE EmptyColumn

With(ks) == [k \in DOMAIN columns \union ks |-> Loaded(k)]
-----------------------------------------------------------------------------
Init == /\ params \in Params
        /\ world = 1 /\ nextId = [world |-> 2, chunk |-> 1]
        /\ columns = << >> /\ disk = << >> /\ handles = << >>
        /\ edits = 0 /\ answer = Ok

Unmanaged == UNCHANGED <<params, world, disk, handles, nextId>>

Edited == edits < MaxEdits /\ edits' = edits + 1

(* demen_world_set_voxel; a row the clamp has cut off is not written.         *)
SetVoxel(p, b) ==
  /\ world # 0 /\ Edited
  /\ \/ /\ ~InBounds(params, p)
        /\ answer' = OutOfBounds /\ UNCHANGED columns
     \/ /\ InBounds(params, p)
        /\ LET k == ColumnOf(p) IN
           columns' = IF HasRow(p[2])
                      THEN [With({k}) EXCEPT ![k][RowOf(p[2])[1]][LocalOf(p)] = b]
                      ELSE With({k})
        /\ answer' = Ok
  /\ Unmanaged

GetVoxel(p) ==
  /\ world # 0
  /\ \/ /\ ~InBounds(params, p)
        /\ answer' = OutOfBounds /\ UNCHANGED columns
     \/ /\ InBounds(params, p)
        /\ columns' = With({ColumnOf(p)})
        /\ answer' = IF HasRow(p[2])
                     THEN Loaded(ColumnOf(p))[RowOf(p[2])[1]][LocalOf(p)] ELSE Air
  /\ Unmanaged /\ UNCHANGED edits
-----------------------------------------------------------------------------
Lower(a, b) == IF a < b THEN a ELSE b
Upper(a, b) == IF a < b THEN b ELSE a

(* The columns a box of ordered corners reaches, less those out of bounds.    *)
\* Mutant of ColumnsOf: the bounds are not looked at.
ColumnsOfAnywhere(lo, hi) ==
  {k \in (FloorDiv(lo[1], Edge)..FloorDiv(hi[1] - 1, Edge))
           \X (FloorDiv(lo[3], Edge)..FloorDiv(hi[3] - 1, Edge)) : TRUE}

ColumnsOf(lo, hi) ==
  {k \in (FloorDiv(lo[1], Edge)..FloorDiv(hi[1] - 1, Edge))
           \X (FloorDiv(lo[3], Edge)..FloorDiv(hi[3] - 1, Edge)) :
     ColumnInBounds(params, k)}

(* lx0, lx1 and lz0, lz1: the part of a box that lies in a column, half open.  *)
Part(lo, hi, c) == {i \in Upper(lo - c * Edge, 0)..Lower(hi - c * Edge, Edge) - 1 : TRUE}

(* ly0, ly1 of ChunkColumn::fill_box, after the clamp to the world's rows.    *)
Rows(lo, hi, ci) ==
  LET y0 == Upper(lo, params.minY * Edge)
      y1 == Lower(hi, (params.maxY + 1) * Edge)
      cy == params.minY + ci IN
  Upper(y0 - cy * Edge, 0)..Lower(y1 - cy * Edge, Edge) - 1

FilledColumn(col, lo, hi, k, b) ==
  [ci \in DOMAIN col |->
     [l \in Locals |->
        IF /\ l[1] \in Part(lo[1], hi[1], k[1])
           /\ l[2] \in Rows(lo[2], hi[2], ci)
           /\ l[3] \in Part(lo[3], hi[3], k[2])
        THEN b ELSE col[ci][l]]]

(* demen_world_fill_box: the corners are put in order, an empty box is done.  *)
FillBox(p, q, b) ==
  /\ world # 0 /\ Edited
  /\ LET lo == [i \in 1..3 |-> Lower(p[i], q[i])]
         hi == [i \in 1..3 |-> Upper(p[i], q[i])]
         ks == ColumnsOf(lo, hi) IN
     IF \E i \in 1..3 : lo[i] = hi[i]
     THEN UNCHANGED columns
     ELSE columns' = [k \in DOMAIN With(ks) |->
                        IF k \in ks THEN FilledColumn(With(ks)[k], lo, hi, k, b)
                        ELSE With(ks)[k]]
  /\ answer' = Ok
  /\ Unmanaged
-----------------------------------------------------------------------------
(* demen_world_get_column_cell, and the two queries made of it.              *)
GetColumnCell(p) ==
  /\ world # 0
  /\ \/ /\ ColumnInBounds(params, ColumnOf(p))
        /\ columns' = With({ColumnOf(p)}) /\ answer' = Ok
     \/ /\ ~ColumnInBounds(params, ColumnOf(p))
        /\ answer' = OutOfBounds /\ UNCHANGED columns
  /\ Unmanaged /\ UNCHANGED edits

(* demen_world_copy_columns_bulk looks at no bounds, except that the range    *)
(* must be in order.                                                         *)
CopyColumnsBulk(a, b) ==
  /\ world # 0
  /\ \/ /\ a[1] <= b[1] /\ a[2] <= b[2]
        /\ columns' = With((a[1]..b[1]) \X (a[2]..b[2])) /\ answer' = Ok
     \/ /\ a[1] > b[1] \/ a[2] > b[2]
        /\ answer' = OutOfBounds /\ UNCHANGED columns
  /\ Unmanaged /\ UNCHANGED edits

(* demen_chunk_acquire looks at no bounds either.  The handle keeps a pointer *)
(* to the column of the world that is live now.                              *)
ChunkAcquire(c) ==
  /\ world # 0
  /\ nextId.chunk <= MaxChunkHandles
  /\ columns' = With({<<c[1], c[3]>>})
  /\ handles' = [h \in DOMAIN handles \union {nextId.chunk} |->
                   IF h = nextId.chunk THEN [world |-> world, chunk |-> c]
                   ELSE handles[h]]
  /\ nextId' = [nextId EXCEPT !.chunk = @ + 1]
  /\ answer' = Ok
  /\ UNCHANGED <<params, world, disk, edits>>

ChunkRelease(h) ==
  /\ answer' = Ok
  /\ handles' = [g \in DOMAIN handles \ {h} |-> handles[g]]
  /\ UNCHANGED <<params, world, columns, disk, nextId, edits>>

(* The world that handed h out is still there, and with it the column.       *)
Dangling(h) == handles[h].world # world

(* demen_chunk_copy_voxels goes through the pointer the handle keeps.         *)
CopyVoxels(h) ==
  LET c == handles[h].chunk
      ci == c[2] - params.minY IN
  /\ \/ /\ ~Dangling(h) /\ ci \in 0..Height(params) - 1
        /\ answer' = columns[<<c[1], c[3]>>][ci]
     \/ /\ ~Dangling(h) /\ ci \notin 0..Height(params) - 1
        /\ answer' = OutOfBounds
     \/ /\ Dangling(h)
        /\ answer' = Garbage
  /\ UNCHANGED <<params, world, columns, disk, handles, nextId, edits>>
-----------------------------------------------------------------------------
(* Every loaded column is written; the others stay as they were.             *)
Saved == [k \in DOMAIN disk \union DOMAIN columns |->
            IF k \in DOMAIN columns THEN columns[k] ELSE disk[k]]

\* Mutant of Flush: what is saved is unloaded.
FlushUnloading == /\ world # 0
                  /\ disk' = Saved /\ columns' = << >> /\ answer' = Ok
                  /\ UNCHANGED <<params, world, handles, nextId, edits>>

Flush == /\ world # 0
         /\ disk' = Saved /\ answer' = Ok
         /\ UNCHANGED <<params, world, columns, handles, nextId, edits>>

\* Mutant of Close: the columns stay behind.
CloseKept == /\ world # 0
             /\ disk' = Saved /\ UNCHANGED columns /\ world' = 0 /\ answer' = Ok
             /\ UNCHANGED <<params, handles, nextId, edits>>

(* demen_world_close leaves the chunk handles registered.                    *)
Close == /\ world # 0
         /\ disk' = Saved /\ columns' = << >> /\ world' = 0 /\ answer' = Ok
         /\ UNCHANGED <<params, handles, nextId, edits>>

(* demen_world_open of the same directory.                                   *)
Open == /\ world = 0
        /\ nextId.world <= MaxWorlds
        /\ world' = nextId.world /\ nextId' = [nextId EXCEPT !.world = @ + 1]
        /\ columns' = << >> /\ answer' = Ok
        /\ UNCHANGED <<params, disk, handles, edits>>

(* Any call with a world or chunk handle that is not live.                   *)
StaleCall == /\ answer' = NotLoaded
             /\ UNCHANGED <<params, world, columns, disk, handles, nextId, edits>>

Next == \/ \E p \in Points, b \in Blocks : SetVoxel(p, b)
        \/ \E p \in Points : GetVoxel(p) \/ GetColumnCell(p)
        \/ \E box \in Boxes, b \in Blocks : FillBox(box[1], box[2], b)
        \/ \E r \in Ranges : CopyColumnsBulk(r[1], r[2])
        \/ \E c \in Chunks : ChunkAcquire(c)
        \/ \E h \in DOMAIN handles : ChunkRelease(h) \/ CopyVoxels(h)
        \/ Flush \/ Close \/ Open \/ StaleCall

Spec == Init /\ [][Next]_vars
-----------------------------------------------------------------------------
Column == [0..Height(params) - 1 -> [Locals -> Blocks]]

TypeOK ==
  /\ params \in Params
  /\ world \in 0..MaxWorlds
  /\ \A k \in DOMAIN columns : columns[k] \in Column
  /\ \A k \in DOMAIN disk : disk[k] \in Column
  /\ \A h \in DOMAIN handles : handles[h].world \in 1..MaxWorlds /\ handles[h].chunk \in Chunks
  /\ nextId.world \in 2..MaxWorlds + 1 /\ nextId.chunk \in 1..MaxChunkHandles + 1
  /\ edits \in 0..MaxEdits
  /\ world = 0 => columns = << >>

(* The positions of a column's voxels, by the plain arithmetic of a grid.     *)
Placed(k) == {<<k[1] * Edge + l[1], (params.minY + ci) * Edge + l[2], k[2] * Edge + l[3]>> :
                ci \in 0..Height(params) - 1, l \in Locals}
(* The space the columns add up to, whether they are in memory or on disk.    *)
Space ==
  [p \in UNION {Placed(k) : k \in {g \in Grid : ColumnInBounds(params, g)}} |->
     Loaded(<<p[1] \div Edge, p[3] \div Edge>>)
       [p[2] \div Edge - params.minY]
       [<<p[1] % Edge, p[2] % Edge, p[3] % Edge>>]]

Accepted ==
  {p \in Points :
     /\ p[2] \in params.minY * Edge..(params.maxY + 1) * Edge - 1
     /\ \/ params.scale = "STREAMING"
        \/ /\ p[1] \in params.minX * Edge..(params.maxX + 1) * Edge - 1
           /\ p[3] \in params.minZ * Edge..(params.maxZ + 1) * Edge - 1}

Promise == INSTANCE VoxelSpace WITH inBounds <- Accepted, space <- Space

(* Split into columns, chunks and voxels, loaded when touched, saved and      *)
(* loaded again, the world is one space of voxels: every call reads and       *)
(* writes exactly the voxels it names, and no other step changes a voxel,     *)
(* loading, saving, closing and opening again included.                      *)
CallsKeepPromise ==
  [][/\ \A p \in Points, b \in Blocks : SetVoxel(p, b) => Promise!Set(p, b)
     /\ \A p \in Points : GetVoxel(p) => Promise!Get(p)
     /\ \A box \in Boxes, b \in Blocks :
          FillBox(box[1], box[2], b) => Promise!Fill(box[1], box[2], b)
     /\ \A h \in DOMAIN handles :
          /\ CopyVoxels(h) /\ ~Dangling(h) /\ answer' # OutOfBounds
          /\ ColumnInBounds(params, <<handles[h].chunk[1], handles[h].chunk[3]>>)
          => Promise!Copy(handles[h].chunk)
     /\ edits' = edits => Space' = Space]_vars

(* A bounded world has no columns outside its bounds, in memory or on disk,   *)
(* but those that the two calls which look at no bounds have made.            *)
OutsideOnlyUnchecked ==
  [][\A k \in (DOMAIN columns') \ (DOMAIN columns) :
       \/ ColumnInBounds(params, k)
       \/ \E c \in Chunks : ChunkAcquire(c)
       \/ \E r \in Ranges : CopyColumnsBulk(r[1], r[2])]_vars

(* A chunk handle of the live world always finds its column: no call takes a  *)
(* column out of memory while the world is open.                             *)
HandlesFindColumns ==
  \A h \in DOMAIN handles :
    ~Dangling(h) => <<handles[h].chunk[1], handles[h].chunk[3]>> \in DOMAIN columns
=============================================================================
