-------------------------- MODULE VoxelWorldProofs --------------------------
(* What holds of a world for every size, bounds and set of calls: floordiv is *)
(* the division of the grid, handles find their columns, and every call keeps *)
(* the promise of VoxelSpace.                                                *)
EXTENDS VoxelWorld, TLAPS

-----------------------------------------------------------------------------
(* Division with remainder has one result.                                   *)
LEMMA QuotientIsUnique ==
  ASSUME NEW b \in Nat \ {0}, NEW q \in Int, NEW r \in Int, NEW q2 \in Int, NEW r2 \in Int,
         0 =< r, r < b, 0 =< r2, r2 < b, q * b + r = q2 * b + r2
  PROVE  q = q2 /\ r = r2
<1>1. CASE q < q2
  <2>1. PICK d \in Nat \ {0} : q2 = q + d
    <3>1. q2 - q \in Nat \ {0} /\ q2 = q + (q2 - q)
      BY <1>1
    <3> QED BY <3>1
  <2>2. q2 * b = q * b + d * b
    BY <2>1
  <2>3. d * b >= b
    BY SMTT(30)
  <2>4. q * b \in Int /\ q2 * b \in Int /\ d * b \in Int
    OBVIOUS
  <2> QED BY <2>2, <2>3, <2>4
<1>2. CASE q > q2
  <2>1. PICK d \in Nat \ {0} : q = q2 + d
    <3>1. q - q2 \in Nat \ {0} /\ q = q2 + (q - q2)
      BY <1>2
    <3> QED BY <3>1
  <2>2. q * b = q2 * b + d * b
    BY <2>1
  <2>3. d * b >= b
    BY SMTT(30)
  <2>4. q * b \in Int /\ q2 * b \in Int /\ d * b \in Int
    OBVIOUS
  <2> QED BY <2>2, <2>3, <2>4
<1>3. CASE q = q2
  <2>1. q * b = q2 * b /\ q * b \in Int
    BY <1>3
  <2> QED BY <1>3, <2>1
<1> QED BY <1>1, <1>2, <1>3

LEMMA DivisionFacts ==
  ASSUME NEW a \in Int, NEW b \in Nat \ {0}
  PROVE  /\ a \div b \in Int /\ a % b \in Int
         /\ 0 =< (a % b) /\ a % b < b
         /\ a = (a \div b) * b + (a % b)
  BY SMTT(30)

(* What the C quotient rounds towards zero, floordiv and floormod bring to    *)
(* the quotient and remainder of a grid, on both sides of zero.              *)
THEOREM FloorDivIsFloor ==
  ASSUME NEW a \in Int, NEW b \in Nat \ {0}
  PROVE  FloorDiv(a, b) = a \div b /\ FloorMod(a, b) = a % b
<1>1. CASE a >= 0
  <2>1. CDiv(a, b) = a \div b
    BY <1>1 DEF CDiv
  <2>2. CMod(a, b) = a % b
    BY <2>1, DivisionFacts DEF CMod
  <2>3. 0 =< CMod(a, b) /\ CMod(a, b) \in Int
    BY <2>2, DivisionFacts
  <2> QED BY <2>1, <2>2, <2>3 DEF FloorDiv, FloorMod
<1>2. CASE a < 0
  <2> DEFINE q == (-a) \div b
             r == (-a) % b
  <2>1. /\ q \in Int /\ r \in Int /\ 0 =< r /\ r < b
        /\ -a = q * b + r
    BY DivisionFacts, -a \in Int
  <2>2. /\ a \div b \in Int /\ a % b \in Int
        /\ 0 =< (a % b) /\ a % b < b
        /\ a = (a \div b) * b + (a % b)
    BY DivisionFacts
  <2>3. CDiv(a, b) = -q
    BY <1>2 DEF CDiv
  <2> HIDE DEF q, r
  <2>4. CMod(a, b) = -r
    <3>1. (-q) * b = -(q * b) /\ q * b \in Int
      BY <2>1
    <3> QED BY <2>1, <2>3, <3>1 DEF CMod
  <2>5. CASE r = 0
    <3>1. (-q) * b + r = (a \div b) * b + (a % b)
      <4>1. (-q) * b = -(q * b) /\ q * b \in Int
        BY <2>1
      <4> QED BY <2>1, <2>2, <2>5, <4>1
    <3>2. -q = a \div b /\ r = a % b
      <4>1. -q \in Int
        BY <2>1
      <4> QED BY <2>1, <2>2, <3>1, <4>1, QuotientIsUnique
    <3> QED BY <2>1, <2>3, <2>4, <2>5, <3>2 DEF FloorDiv, FloorMod
  <2>6. CASE r # 0
    <3>1. (-q - 1) * b + (b - r) = (a \div b) * b + (a % b)
      <4>1. (-q - 1) * b = -(q * b) - b /\ q * b \in Int
        BY <2>1
      <4> QED BY <2>1, <2>2, <4>1
    <3>2. -q - 1 = a \div b /\ b - r = a % b
      <4>1. -q - 1 \in Int /\ b - r \in Int /\ 0 =< b - r /\ b - r < b
        BY <2>1, <2>6
      <4> QED BY <2>1, <2>2, <3>1, <4>1, QuotientIsUnique
    <3> QED BY <2>1, <2>3, <2>4, <2>6, <3>2 DEF FloorDiv, FloorMod
  <2> QED BY <2>5, <2>6
<1> QED BY <1>1, <1>2
-----------------------------------------------------------------------------
(* Every call but opening and closing keeps the world and the columns that    *)
(* are loaded, and the ones that load a column out of bounds are two.         *)
LEMMA CallsKeepColumns ==
  ASSUME Next, ~Close, ~Open
  PROVE  /\ DOMAIN columns \subseteq DOMAIN columns'
         /\ world' = world /\ nextId'.world = nextId.world
         /\ \A k \in (DOMAIN columns') \ (DOMAIN columns) :
              \/ ColumnInBounds(params, k)
              \/ \E c \in Chunks : ChunkAcquire(c)
              \/ \E r \in Ranges : CopyColumnsBulk(r[1], r[2])
<1> DEFINE Kept == DOMAIN columns \subseteq DOMAIN columns'
           Inside == \A k \in (DOMAIN columns') \ (DOMAIN columns) :
                       \/ ColumnInBounds(params, k)
                       \/ \E c \in Chunks : ChunkAcquire(c)
                       \/ \E r \in Ranges : CopyColumnsBulk(r[1], r[2])
<1>1. \A ks : DOMAIN With(ks) = DOMAIN columns \union ks
  BY DEF With
<1>2. CASE \E p \in Points, b \in Blocks : SetVoxel(p, b)
  <2>1. PICK p \in Points, b \in Blocks : SetVoxel(p, b)
    BY <1>2
  <2>2. CASE UNCHANGED columns
    BY <2>1, <2>2 DEF SetVoxel, Unmanaged
  <2>3. CASE ~UNCHANGED columns
    <3>1. InBounds(params, p) /\ DOMAIN columns' = DOMAIN columns \union {ColumnOf(p)}
      BY <1>1, <2>1, <2>3 DEF SetVoxel
    <3> QED BY <2>1, <3>1 DEF SetVoxel, Unmanaged, InBounds
  <2> QED BY <2>2, <2>3
<1>3. CASE \E p \in Points : GetVoxel(p) \/ GetColumnCell(p)
  <2>1. PICK p \in Points : GetVoxel(p) \/ GetColumnCell(p)
    BY <1>3
  <2>2. \/ UNCHANGED columns
        \/ /\ ColumnInBounds(params, ColumnOf(p))
           /\ DOMAIN columns' = DOMAIN columns \union {ColumnOf(p)}
    BY <1>1, <2>1 DEF GetVoxel, GetColumnCell, InBounds
  <2> QED BY <2>1, <2>2 DEF GetVoxel, GetColumnCell, Unmanaged
<1>4. CASE \E box \in Boxes, b \in Blocks : FillBox(box[1], box[2], b)
  <2>1. PICK box \in Boxes, b \in Blocks : FillBox(box[1], box[2], b)
    BY <1>4
  <2>2. \/ UNCHANGED columns
        \/ \E lo, hi : DOMAIN columns' = DOMAIN With(ColumnsOf(lo, hi))
    BY <2>1 DEF FillBox
  <2>3. \A lo, hi : \A k \in ColumnsOf(lo, hi) : ColumnInBounds(params, k)
    BY DEF ColumnsOf
  <2> QED BY <1>1, <2>1, <2>2, <2>3 DEF FillBox, Unmanaged
<1>5. CASE \E r \in Ranges : CopyColumnsBulk(r[1], r[2])
  <2>1. PICK r \in Ranges : CopyColumnsBulk(r[1], r[2])
    BY <1>5
  <2>2. UNCHANGED columns \/ \E ks : columns' = With(ks)
    BY <2>1 DEF CopyColumnsBulk
  <2> QED BY <1>1, <1>5, <2>1, <2>2 DEF CopyColumnsBulk, Unmanaged
<1>6. CASE \E c \in Chunks : ChunkAcquire(c)
  <2>1. PICK c \in Chunks : ChunkAcquire(c)
    BY <1>6
  <2>2. nextId'.world = nextId.world
    BY <2>1 DEF ChunkAcquire
  <2> QED BY <1>1, <1>6, <2>1, <2>2 DEF ChunkAcquire
<1>7. CASE \E h \in DOMAIN handles : ChunkRelease(h) \/ CopyVoxels(h)
  BY <1>7 DEF ChunkRelease, CopyVoxels
<1>8. CASE Flush \/ StaleCall
  BY <1>8 DEF Flush, StaleCall
<1> QED
  BY <1>2, <1>3, <1>4, <1>5, <1>6, <1>7, <1>8 DEF Next

(* Only copy_columns_bulk and demen_chunk_acquire, which look at no bounds,   *)
(* make columns outside a bounded world.                                     *)
THEOREM OutsideIsUnchecked == Spec => OutsideOnlyUnchecked
<1>1. ASSUME [Next]_vars
      PROVE  [\A k \in (DOMAIN columns') \ (DOMAIN columns) :
                \/ ColumnInBounds(params, k)
                \/ \E c \in Chunks : ChunkAcquire(c)
                \/ \E r \in Ranges : CopyColumnsBulk(r[1], r[2])]_vars
  <2>1. CASE Close \/ Open
    <3>1. DOMAIN columns' = {}
      BY <2>1 DEF Close, Open
    <3> QED BY <3>1
  <2>2. CASE Next /\ ~Close /\ ~Open
    BY <2>2, CallsKeepColumns
  <2> QED BY <1>1, <2>1, <2>2
<1> QED BY <1>1, PTL DEF Spec, OutsideOnlyUnchecked
-----------------------------------------------------------------------------
(* Handles of worlds are given out in order, so a chunk handle of a world     *)
(* that is gone is never taken for one of a world that is open again.         *)
HandlesInOrder ==
  /\ nextId \in [world : Nat \ {0}, chunk : Nat \ {0}]
  /\ world \in Nat /\ world < nextId.world
  /\ \A h \in DOMAIN handles :
       handles[h].world \in Nat \ {0} /\ handles[h].world < nextId.world

HandlesInv == HandlesInOrder /\ HandlesFindColumns

LEMMA HandlesInit == Init => HandlesInv
  BY DEF Init, HandlesInv, HandlesInOrder, HandlesFindColumns

LEMMA HandlesNext == HandlesInv /\ [Next]_vars => HandlesInv'
<1> SUFFICES ASSUME HandlesInv, [Next]_vars PROVE HandlesInv'
  OBVIOUS
<1> USE DEF HandlesInv, HandlesInOrder, HandlesFindColumns, Dangling
<1>1. CASE Close
  BY <1>1 DEF Close
<1>2. CASE Open
  BY <1>2 DEF Open
<1>3. CASE \E c \in Chunks : ChunkAcquire(c)
  <2>1. PICK c \in Chunks : ChunkAcquire(c)
    BY <1>3
  <2>2. /\ DOMAIN columns' = DOMAIN columns \union {<<c[1], c[3]>>}
        /\ DOMAIN handles' = DOMAIN handles \union {nextId.chunk}
        /\ \A h \in DOMAIN handles' :
             handles'[h] = IF h = nextId.chunk THEN [world |-> world, chunk |-> c]
                           ELSE handles[h]
        /\ world' = world /\ world # 0
    BY <2>1 DEF ChunkAcquire, With
  <2>3. /\ nextId' \in [world : Nat \ {0}, chunk : Nat \ {0}]
        /\ nextId'.world = nextId.world
    BY <2>1 DEF ChunkAcquire
  <2>4. \A h \in DOMAIN handles' : h = nextId.chunk \/ h \in DOMAIN handles
    BY <2>2
  <2> QED BY <2>2, <2>3, <2>4
<1>4. CASE \E h \in DOMAIN handles : ChunkRelease(h)
  BY <1>4 DEF ChunkRelease
<1>5. CASE /\ Next /\ ~Close /\ ~Open
           /\ ~\E c \in Chunks : ChunkAcquire(c)
           /\ ~\E h \in DOMAIN handles : ChunkRelease(h)
  <2>1. UNCHANGED <<handles, nextId>>
    BY <1>5 DEF Next, SetVoxel, GetVoxel, GetColumnCell, FillBox, CopyColumnsBulk,
                CopyVoxels, Flush, StaleCall, Unmanaged
  <2> QED BY <1>5, <2>1, CallsKeepColumns
<1>6. CASE UNCHANGED vars
  BY <1>6 DEF vars
<1> QED BY <1>1, <1>2, <1>3, <1>4, <1>5, <1>6

(* demen_chunk_copy_voxels goes through a raw pointer to a column; while the   *)
(* world that gave the handle is open the column is in memory, whatever was   *)
(* called since, and a world opened later is never taken for it.             *)
THEOREM HandlesAreFound == Spec => []HandlesFindColumns
<1>1. HandlesInv => HandlesFindColumns
  BY DEF HandlesInv
<1> QED BY <1>1, HandlesInit, HandlesNext, PTL DEF Spec
-----------------------------------------------------------------------------
(* Rows and columns by division.                                             *)
LEMMA TimesGrows ==
  ASSUME NEW e \in Nat, NEW a \in Int, NEW b \in Int, a =< b
  PROVE  a * e =< b * e
OBVIOUS

(* A coordinate made of a place k and an offset l gives both back.            *)
LEMMA PlaceAndOffset ==
  ASSUME NEW e \in Nat \ {0}, NEW k \in Int, NEW l \in 0..e - 1
  PROVE  k * e + l \in Int /\ (k * e + l) \div e = k /\ (k * e + l) % e = l
<1> DEFINE x == k * e + l
<1>1. x \in Int /\ x = k * e + l
  OBVIOUS
<1> HIDE DEF x
<1>2. /\ x \div e \in Int /\ x % e \in Int
      /\ 0 =< (x % e) /\ x % e < e
      /\ x = (x \div e) * e + (x % e)
  BY <1>1, DivisionFacts
<1>3. x \div e = k /\ x % e = l
  <2>1. (x \div e) * e + (x % e) = k * e + l /\ l \in Int /\ 0 =< l /\ l < e
    BY <1>1, <1>2
  <2> QED BY <1>2, <2>1, QuotientIsUnique
<1> QED BY <1>1, <1>3 DEF x

(* A coordinate is at or above a border exactly when its place is.            *)
LEMMA AboveBorder ==
  ASSUME NEW e \in Nat \ {0}, NEW y \in Int, NEW m \in Int
  PROVE  y >= m * e <=> y \div e >= m
<1>1. /\ y \div e \in Int /\ y % e \in Int /\ 0 =< (y % e) /\ y % e < e
      /\ y = (y \div e) * e + (y % e)
  BY DivisionFacts
<1> DEFINE d == y \div e
           r == y % e
<1>2. d \in Int /\ r \in Int /\ 0 =< r /\ r < e /\ y = d * e + r
  BY <1>1
<1> HIDE DEF d, r
<1>3. CASE d >= m
  <2>1. m * e =< d * e /\ m * e \in Int /\ d * e \in Int
    BY <1>2, <1>3, TimesGrows
  <2> QED BY <1>2, <1>3, <2>1 DEF d
<1>4. CASE ~(d >= m)
  <2>1. (d + 1) * e =< m * e
    BY <1>2, <1>4, TimesGrows
  <2>2. (d + 1) * e = d * e + e /\ d * e \in Int /\ m * e \in Int
    BY <1>2
  <2> QED BY <1>2, <1>4, <2>1, <2>2 DEF d
<1> QED BY <1>3, <1>4

LEMMA DivisionGrows ==
  ASSUME NEW e \in Nat \ {0}, NEW x \in Int, NEW y \in Int, x =< y
  PROVE  x \div e =< y \div e
<1>1. x \div e \in Int /\ y \div e \in Int
  BY DivisionFacts
<1>2. x >= (x \div e) * e /\ (x \div e) * e \in Int
  BY <1>1, AboveBorder
<1>3. y >= (x \div e) * e
  BY <1>2
<1> QED BY <1>1, <1>3, AboveBorder

(* A range of places is a range of coordinates.                              *)
LEMMA BetweenBorders ==
  ASSUME NEW e \in Nat \ {0}, NEW y \in Int, NEW m \in Int, NEW n \in Int
  PROVE  y \in m * e..(n + 1) * e - 1 <=> y \div e \in m..n
<1>1. y \div e \in Int /\ m * e \in Int /\ (n + 1) * e \in Int
  BY DivisionFacts
<1>2. y >= m * e <=> y \div e >= m
  BY AboveBorder
<1>3. y >= (n + 1) * e <=> y \div e >= n + 1
  BY AboveBorder
<1> QED BY <1>1, <1>2, <1>3

(* Counted from the lowest row, a row has the same offset and a place less.   *)
LEMMA RowFromBottom ==
  ASSUME NEW e \in Nat \ {0}, NEW y \in Int, NEW m \in Int
  PROVE  (y - m * e) \div e = (y \div e) - m /\ (y - m * e) % e = y % e
<1> DEFINE d == y \div e
           r == y % e
<1>1. d \in Int /\ r \in Int /\ 0 =< r /\ r < e /\ y = d * e + r
  BY DivisionFacts
<1>2. r \in 0..e - 1
  BY <1>1
<1> HIDE DEF d, r
<1>3. y - m * e = (d - m) * e + r
  <2>1. (d - m) * e = d * e - m * e /\ d * e \in Int /\ m * e \in Int
    BY <1>1
  <2> QED BY <1>1, <2>1
<1>4. d - m \in Int
  BY <1>1
<1>5. ((d - m) * e + r) \div e = d - m /\ ((d - m) * e + r) % e = r
  BY <1>2, <1>4, PlaceAndOffset
<1> QED BY <1>3, <1>5 DEF d, r
-----------------------------------------------------------------------------
(* The types.                                                                *)
LEMMA SizeFacts ==
  /\ Edge \in Nat \ {0} /\ Air \in Blocks
  /\ \A pa \in Params :
       /\ pa.minX \in Int /\ pa.maxX \in Int /\ pa.minZ \in Int /\ pa.maxZ \in Int
       /\ pa.minY \in Int /\ pa.maxY \in Int
       /\ Height(pa) \in Nat /\ Height(pa) > 0
       /\ pa.minY =< pa.maxY => Height(pa) =< pa.maxY - pa.minY + 1
BY WorldAssumption DEF Height

LEMMA ColumnTypes ==
  ASSUME TypeOK
  PROVE  EmptyColumn \in Column /\ \A k : Loaded(k) \in Column
<1>1. EmptyColumn \in Column
  BY SizeFacts DEF EmptyColumn, Column
<1> QED BY <1>1 DEF Loaded, TypeOK

LEMMA WithTypes ==
  ASSUME TypeOK, NEW ks
  PROVE  /\ DOMAIN With(ks) = DOMAIN columns \union ks
         /\ \A k \in DOMAIN With(ks) : With(ks)[k] = Loaded(k) /\ With(ks)[k] \in Column
BY ColumnTypes DEF With

(* A call that keeps the kind of the columns keeps the types.                 *)
LEMMA TypedCall ==
  ASSUME TypeOK, Unmanaged, edits' \in 0..MaxEdits, world # 0,
         \A k \in DOMAIN columns' : columns'[k] \in Column
  PROVE  TypeOK'
<1>1. Column' = Column
  BY DEF Column, Height, Unmanaged
<1> QED BY <1>1 DEF TypeOK, Unmanaged

LEMMA EditedFacts ==
  ASSUME TypeOK, Edited
  PROVE  edits' \in 0..MaxEdits /\ edits' # edits
BY WorldAssumption DEF TypeOK, Edited

LEMMA TypesInit == Init => TypeOK
<1> SUFFICES ASSUME Init PROVE TypeOK
  OBVIOUS
<1>1. 1 \in 0..MaxWorlds /\ 2 \in 2..MaxWorlds + 1 /\ 1 \in 1..MaxChunkHandles + 1 /\ 0 \in 0..MaxEdits
  BY WorldAssumption
<1> QED BY <1>1 DEF Init, TypeOK

(* A voxel set in a column leaves a column.                                  *)
LEMMA SetInColumn ==
  ASSUME NEW col \in Column, NEW ci \in 0..Height(params) - 1, NEW l \in Locals, NEW b \in Blocks
  PROVE  [col EXCEPT ![ci][l] = b] \in Column
BY DEF Column

LEMMA FillInColumn ==
  ASSUME NEW col \in Column, NEW lo, NEW hi, NEW k, NEW b \in Blocks
  PROVE  FilledColumn(col, lo, hi, k, b) \in Column
BY DEF Column, FilledColumn

(* The place and the offsets of a position.                                  *)
LEMMA PositionFacts ==
  ASSUME TypeOK, NEW p \in Int \X Int \X Int
  PROVE  /\ ColumnOf(p) = <<p[1] \div Edge, p[3] \div Edge>>
         /\ RowOf(p[2]) = <<(p[2] \div Edge) - params.minY, p[2] % Edge>>
         /\ LocalOf(p) = <<p[1] % Edge, p[2] % Edge, p[3] % Edge>>
         /\ LocalOf(p) \in Locals
         /\ HasRow(p[2]) <=> (p[2] \div Edge) - params.minY \in 0..Height(params) - 1
<1>1. p[1] \in Int /\ p[2] \in Int /\ p[3] \in Int /\ Edge \in Nat \ {0} /\ params.minY \in Int
  BY SizeFacts DEF TypeOK
<1>2. ColumnOf(p) = <<p[1] \div Edge, p[3] \div Edge>>
  BY <1>1, FloorDivIsFloor DEF ColumnOf
<1>3. RowOf(p[2]) = <<(p[2] \div Edge) - params.minY, p[2] % Edge>>
  BY <1>1, RowFromBottom DEF RowOf
<1>4. LocalOf(p) = <<p[1] % Edge, p[2] % Edge, p[3] % Edge>>
  <2>1. FloorMod(p[1], Edge) = p[1] % Edge /\ FloorMod(p[3], Edge) = p[3] % Edge
    BY <1>1, FloorDivIsFloor
  <2>2. RowOf(p[2])[2] = p[2] % Edge
    BY <1>3
  <2> QED BY <2>1, <2>2 DEF LocalOf
<1>5. p[1] % Edge \in Local /\ p[2] % Edge \in Local /\ p[3] % Edge \in Local
  <2>1. \A a \in Int : a % Edge \in Local
    BY <1>1, DivisionFacts DEF Local
  <2> QED BY <1>1, <2>1
<1>6. HasRow(p[2]) <=> (p[2] \div Edge) - params.minY \in 0..Height(params) - 1
  <2>1. Height(params) \in Nat /\ params.minY \in Int /\ p[2] \div Edge \in Int
    BY <1>1, SizeFacts, DivisionFacts DEF TypeOK
  <2> DEFINE n == params.minY + Height(params) - 1
  <2>2. n \in Int /\ n + 1 = params.minY + Height(params)
    BY <2>1
  <2> HIDE DEF n
  <2>3. p[2] \in params.minY * Edge..(n + 1) * Edge - 1 <=> p[2] \div Edge \in params.minY..n
    BY <1>1, <2>2, BetweenBorders
  <2>4. HasRow(p[2]) <=> p[2] \div Edge \in params.minY..n
    BY <2>2, <2>3 DEF HasRow
  <2>5. p[2] \div Edge \in params.minY..n <=> (p[2] \div Edge) - params.minY \in 0..Height(params) - 1
    BY <2>1, <2>2
  <2> QED BY <2>4, <2>5
<1> QED BY <1>2, <1>3, <1>4, <1>5, <1>6 DEF Locals
-----------------------------------------------------------------------------
(* What each call does to the columns as they would be loaded.                *)
LEMMA LoadedPrimed ==
  ASSUME UNCHANGED params
  PROVE  \A k : Loaded(k)' = IF k \in DOMAIN columns' THEN columns'[k]
                             ELSE IF k \in DOMAIN disk' THEN disk'[k] ELSE EmptyColumn
<1>1. EmptyColumn' = EmptyColumn
  BY DEF EmptyColumn, Height
<1> QED BY <1>1 DEF Loaded

(* Touching columns loads what is there.                                     *)
LEMMA TouchLoaded ==
  ASSUME TypeOK, UNCHANGED <<params, disk>>, NEW ks, columns' = With(ks) \/ UNCHANGED columns
  PROVE  /\ \A k : Loaded(k)' = Loaded(k)
         /\ \A k \in DOMAIN columns' : columns'[k] \in Column
<1>1. CASE UNCHANGED columns
  BY <1>1, LoadedPrimed DEF Loaded, TypeOK
<1>2. CASE columns' = With(ks)
  BY <1>2, LoadedPrimed, WithTypes DEF Loaded
<1> QED BY <1>1, <1>2

LEMMA SetVoxelLoaded ==
  ASSUME TypeOK, NEW p \in Points, NEW b \in Blocks, SetVoxel(p, b)
  PROVE  /\ \A k : Loaded(k)' =
              IF InBounds(params, p) /\ HasRow(p[2]) /\ k = ColumnOf(p)
              THEN [Loaded(k) EXCEPT ![RowOf(p[2])[1]][LocalOf(p)] = b] ELSE Loaded(k)
         /\ \A k \in DOMAIN columns' : columns'[k] \in Column
<1> DEFINE k0 == ColumnOf(p)
           ci == RowOf(p[2])[1]
           l == LocalOf(p)
<1>1. UNCHANGED <<params, disk>>
  BY DEF SetVoxel, Unmanaged
<1>2. CASE ~InBounds(params, p)
  BY <1>1, <1>2, TouchLoaded DEF SetVoxel
<1>3. CASE InBounds(params, p) /\ ~HasRow(p[2])
  BY <1>1, <1>3, TouchLoaded DEF SetVoxel
<1>4. CASE InBounds(params, p) /\ HasRow(p[2])
  <2>1. columns' = [With({k0}) EXCEPT ![k0][ci][l] = b]
    BY <1>4 DEF SetVoxel
  <2>2. ci \in 0..Height(params) - 1 /\ l \in Locals
    BY <1>4, PositionFacts, WorldAssumption
  <2> HIDE DEF k0, ci, l
  <2>3. /\ DOMAIN With({k0}) = DOMAIN columns \union {k0}
        /\ \A k \in DOMAIN With({k0}) : With({k0})[k] = Loaded(k) /\ With({k0})[k] \in Column
    BY WithTypes
  <2>4. /\ DOMAIN columns' = DOMAIN columns \union {k0}
        /\ columns'[k0] = [Loaded(k0) EXCEPT ![ci][l] = b]
        /\ \A k \in DOMAIN columns \ {k0} : columns'[k] = Loaded(k)
    <3>1. DOMAIN columns' = DOMAIN With({k0})
      BY <2>1 DEF With
    <3>2. columns'[k0] = [With({k0})[k0] EXCEPT ![ci][l] = b]
      BY <2>1, <2>3 DEF With
    <3>3. \A k \in DOMAIN columns \ {k0} : columns'[k] = With({k0})[k]
      BY <2>1, <2>3 DEF With
    <3> QED BY <2>3, <3>1, <3>2, <3>3
  <2>5. \A k : Loaded(k)' = IF k = k0 THEN [Loaded(k) EXCEPT ![ci][l] = b] ELSE Loaded(k)
    BY <1>1, <2>4, LoadedPrimed DEF Loaded
  <2>6. \A k \in DOMAIN columns' : columns'[k] \in Column
    BY <2>2, <2>4, ColumnTypes, SetInColumn
  <2> QED BY <1>4, <2>5, <2>6 DEF k0, ci, l
<1> QED BY <1>2, <1>3, <1>4

(* The corners of a box, put in order.                                       *)
Low(p, q) == [i \in 1..3 |-> Lower(p[i], q[i])]
High(p, q) == [i \in 1..3 |-> Upper(p[i], q[i])]

LEMMA FillBoxLoaded ==
  ASSUME TypeOK, NEW p, NEW q, NEW b \in Blocks, FillBox(p, q, b)
  PROVE  LET lo == Low(p, q)
             hi == High(p, q)
         IN /\ \A k : Loaded(k)' =
                 IF (\A i \in 1..3 : lo[i] # hi[i]) /\ k \in ColumnsOf(lo, hi)
                 THEN FilledColumn(Loaded(k), lo, hi, k, b) ELSE Loaded(k)
            /\ \A k \in DOMAIN columns' : columns'[k] \in Column
<1> DEFINE lo == Low(p, q)
           hi == High(p, q)
           ks == ColumnsOf(lo, hi)
<1>1. UNCHANGED <<params, disk>>
  BY DEF FillBox, Unmanaged
<1>2. IF \E i \in 1..3 : lo[i] = hi[i]
      THEN UNCHANGED columns
      ELSE columns' = [k \in DOMAIN With(ks) |->
                         IF k \in ks THEN FilledColumn(With(ks)[k], lo, hi, k, b)
                         ELSE With(ks)[k]]
  BY DEF FillBox, Low, High
<1> HIDE DEF lo, hi, ks
<1>3. CASE \E i \in 1..3 : lo[i] = hi[i]
  BY <1>1, <1>2, <1>3, TouchLoaded DEF lo, hi
<1>4. CASE ~\E i \in 1..3 : lo[i] = hi[i]
  <2>1. /\ DOMAIN columns' = DOMAIN columns \union ks
        /\ \A k \in DOMAIN columns' :
             columns'[k] = IF k \in ks THEN FilledColumn(Loaded(k), lo, hi, k, b) ELSE Loaded(k)
    BY <1>2, <1>4, WithTypes
  <2>2. \A k : Loaded(k)' = IF k \in ks THEN FilledColumn(Loaded(k), lo, hi, k, b) ELSE Loaded(k)
    BY <1>1, <2>1, LoadedPrimed DEF Loaded
  <2>3. \A k \in DOMAIN columns' : columns'[k] \in Column
    BY <2>1, ColumnTypes, FillInColumn
  <2> QED BY <1>4, <2>2, <2>3 DEF lo, hi, ks
<1> QED BY <1>3, <1>4

(* The calls that write no voxel load the same columns before and after.      *)
LEMMA KeepingLoaded ==
  ASSUME TypeOK, Next,
         ~\E p \in Points, b \in Blocks : SetVoxel(p, b),
         ~\E box \in Boxes, b \in Blocks : FillBox(box[1], box[2], b)
  PROVE  /\ \A k : Loaded(k)' = Loaded(k)
         /\ \A k \in DOMAIN columns' : columns'[k] \in Column
         /\ \A k \in DOMAIN disk' : disk'[k] \in Column
         /\ UNCHANGED <<params, edits>>
<1>1. CASE \E p \in Points : GetVoxel(p) \/ GetColumnCell(p)
  <2>1. PICK p \in Points : GetVoxel(p) \/ GetColumnCell(p)
    BY <1>1
  <2>2. columns' = With({ColumnOf(p)}) \/ UNCHANGED columns
    BY <2>1 DEF GetVoxel, GetColumnCell
  <2>3. UNCHANGED <<params, disk, edits>>
    BY <2>1 DEF GetVoxel, GetColumnCell, Unmanaged
  <2> QED BY <2>2, <2>3, TouchLoaded DEF TypeOK
<1>2. CASE \E r \in Ranges : CopyColumnsBulk(r[1], r[2])
  <2>1. PICK r \in Ranges : CopyColumnsBulk(r[1], r[2])
    BY <1>2
  <2>2. PICK ks : columns' = With(ks) \/ UNCHANGED columns
    BY <2>1 DEF CopyColumnsBulk
  <2>3. UNCHANGED <<params, disk, edits>>
    BY <2>1 DEF CopyColumnsBulk, Unmanaged
  <2> QED BY <2>2, <2>3, TouchLoaded DEF TypeOK
<1>3. CASE \E c \in Chunks : ChunkAcquire(c)
  <2>1. PICK c \in Chunks : ChunkAcquire(c)
    BY <1>3
  <2>2. columns' = With({<<c[1], c[3]>>}) /\ UNCHANGED <<params, disk, edits>>
    BY <2>1 DEF ChunkAcquire
  <2> QED BY <2>2, TouchLoaded DEF TypeOK
<1>4. CASE StaleCall \/ \E h \in DOMAIN handles : ChunkRelease(h) \/ CopyVoxels(h)
  <2>1. UNCHANGED <<params, columns, disk, edits>>
    BY <1>4 DEF StaleCall, ChunkRelease, CopyVoxels
  <2> QED BY <2>1, TouchLoaded DEF TypeOK
<1>5. CASE Flush \/ Close
  <2>1. disk' = Saved /\ UNCHANGED <<params, edits>> /\ (UNCHANGED columns \/ columns' = << >>)
    BY <1>5 DEF Flush, Close
  <2>2. /\ DOMAIN Saved = DOMAIN disk \union DOMAIN columns
        /\ \A k \in DOMAIN Saved : Saved[k] = Loaded(k)
    BY DEF Saved, Loaded
  <2>3. \A k \in DOMAIN disk' : disk'[k] \in Column
    BY <2>1, <2>2, ColumnTypes
  <2>4. CASE UNCHANGED columns
    BY <2>1, <2>2, <2>3, <2>4, LoadedPrimed DEF Loaded, TypeOK
  <2>5. CASE columns' = << >>
    <3>1. DOMAIN columns' = {}
      BY <2>5
    <3> QED BY <2>1, <2>2, <2>3, <3>1, LoadedPrimed DEF Loaded
  <2> QED BY <2>1, <2>4, <2>5
<1>6. CASE Open
  <2>1. columns = << >> /\ UNCHANGED <<columns, params, disk, edits>>
    BY <1>6 DEF Open, TypeOK
  <2> QED BY <2>1, TouchLoaded DEF TypeOK
<1> QED BY <1>1, <1>2, <1>3, <1>4, <1>5, <1>6 DEF Next

(* Who is open, and what the handles stand for.                              *)
LEMMA ManagedTypes ==
  ASSUME TypeOK, HandlesInOrder, Next
  PROVE  /\ world' \in 0..MaxWorlds
         /\ nextId'.world \in 2..MaxWorlds + 1 /\ nextId'.chunk \in 1..MaxChunkHandles + 1
         /\ \A h \in DOMAIN handles' :
              handles'[h].world \in 1..MaxWorlds /\ handles'[h].chunk \in Chunks
         /\ world' = 0 => columns' = << >>
<1>1. /\ world \in 0..MaxWorlds /\ MaxWorlds \in Nat /\ MaxChunkHandles \in Nat
      /\ nextId.world \in 2..MaxWorlds + 1 /\ nextId.chunk \in 1..MaxChunkHandles + 1
      /\ nextId \in [world : Nat \ {0}, chunk : Nat \ {0}]
      /\ \A h \in DOMAIN handles :
           handles[h].world \in 1..MaxWorlds /\ handles[h].chunk \in Chunks
      /\ world = 0 => columns = << >>
  BY WorldAssumption DEF TypeOK, HandlesInOrder
<1>2. CASE \E c \in Chunks : ChunkAcquire(c)
  <2>1. PICK c \in Chunks : ChunkAcquire(c)
    BY <1>2
  <2>2. /\ nextId'.world = nextId.world /\ nextId'.chunk = nextId.chunk + 1
        /\ nextId.chunk =< MaxChunkHandles /\ world # 0 /\ world' = world
    BY <1>1, <2>1 DEF ChunkAcquire
  <2>3. \A h \in DOMAIN handles' :
          \/ handles'[h] = [world |-> world, chunk |-> c]
          \/ h \in DOMAIN handles /\ handles'[h] = handles[h]
    BY <2>1 DEF ChunkAcquire
  <2>4. world \in 1..MaxWorlds
    BY <1>1, <2>2
  <2>5. nextId'.chunk \in 1..MaxChunkHandles + 1
    BY <1>1, <2>2
  <2> QED BY <1>1, <2>2, <2>3, <2>4, <2>5
<1>3. CASE Open
  <2>1. /\ nextId'.world = nextId.world + 1 /\ nextId'.chunk = nextId.chunk
        /\ nextId.world =< MaxWorlds /\ world' = nextId.world /\ UNCHANGED handles
        /\ columns' = << >>
    BY <1>1, <1>3 DEF Open
  <2>2. world' \in 0..MaxWorlds /\ nextId'.world \in 2..MaxWorlds + 1
    BY <1>1, <2>1
  <2> QED BY <1>1, <2>1, <2>2
<1>4. CASE Close
  BY <1>1, <1>4 DEF Close
<1>5. CASE \E h \in DOMAIN handles : ChunkRelease(h)
  BY <1>1, <1>5 DEF ChunkRelease
<1>6. CASE /\ ~Open /\ ~Close /\ ~\E c \in Chunks : ChunkAcquire(c)
           /\ ~\E h \in DOMAIN handles : ChunkRelease(h)
  <2>1. UNCHANGED <<world, handles, nextId>> /\ (world # 0 \/ UNCHANGED columns)
    BY <1>6 DEF Next, SetVoxel, GetVoxel, GetColumnCell, FillBox, CopyColumnsBulk,
                CopyVoxels, Flush, StaleCall, Unmanaged
  <2> QED BY <1>1, <2>1
<1> QED BY <1>2, <1>3, <1>4, <1>5, <1>6

LEMMA TypesNext == TypeOK /\ HandlesInOrder /\ [Next]_vars => TypeOK'
<1> SUFFICES ASSUME TypeOK, HandlesInOrder, [Next]_vars PROVE TypeOK'
  OBVIOUS
<1>1. CASE UNCHANGED vars
  BY <1>1 DEF vars, TypeOK, Column, Height
<1>2. CASE Next
  <2>1. /\ world' \in 0..MaxWorlds
        /\ nextId'.world \in 2..MaxWorlds + 1 /\ nextId'.chunk \in 1..MaxChunkHandles + 1
        /\ \A h \in DOMAIN handles' :
             handles'[h].world \in 1..MaxWorlds /\ handles'[h].chunk \in Chunks
        /\ world' = 0 => columns' = << >>
    BY <1>2, ManagedTypes
  <2>2. CASE \E p \in Points, b \in Blocks : SetVoxel(p, b)
    <3>1. PICK p \in Points, b \in Blocks : SetVoxel(p, b)
      BY <2>2
    <3>2. \A k \in DOMAIN columns' : columns'[k] \in Column
      BY <3>1, SetVoxelLoaded
    <3>3. edits' \in 0..MaxEdits /\ Unmanaged /\ world # 0
      BY <3>1, EditedFacts DEF SetVoxel
    <3> QED BY <3>2, <3>3, TypedCall
  <2>3. CASE \E box \in Boxes, b \in Blocks : FillBox(box[1], box[2], b)
    <3>1. PICK box \in Boxes, b \in Blocks : FillBox(box[1], box[2], b)
      BY <2>3
    <3>2. \A k \in DOMAIN columns' : columns'[k] \in Column
      BY <3>1, FillBoxLoaded
    <3>3. edits' \in 0..MaxEdits /\ Unmanaged /\ world # 0
      BY <3>1, EditedFacts DEF FillBox
    <3> QED BY <3>2, <3>3, TypedCall
  <2>4. CASE /\ ~\E p \in Points, b \in Blocks : SetVoxel(p, b)
             /\ ~\E box \in Boxes, b \in Blocks : FillBox(box[1], box[2], b)
    <3>1. /\ \A k \in DOMAIN columns' : columns'[k] \in Column
          /\ \A k \in DOMAIN disk' : disk'[k] \in Column
          /\ UNCHANGED <<params, edits>>
      BY <1>2, <2>4, KeepingLoaded
    <3>2. Column' = Column
      BY <3>1 DEF Column, Height
    <3> QED BY <2>1, <3>1, <3>2 DEF TypeOK
  <2> QED BY <2>2, <2>3, <2>4
<1> QED BY <1>1, <1>2

(* Every column, in memory or in a file, is of the height of the world, and   *)
(* a closed world has none in memory.                                        *)
THEOREM WorldTyping == Spec => [](TypeOK /\ HandlesInv)
<1>1. Init => TypeOK /\ HandlesInv
  BY TypesInit, HandlesInit
<1>2. TypeOK /\ HandlesInv /\ [Next]_vars => (TypeOK /\ HandlesInv)'
  BY TypesNext, HandlesNext DEF HandlesInv
<1> QED BY <1>1, <1>2, PTL DEF Spec
-----------------------------------------------------------------------------
(* The space.                                                                *)
Positions == Int \X Int \X Int

LEMMA TripleFacts ==
  ASSUME NEW q \in Positions
  PROVE  q[1] \in Int /\ q[2] \in Int /\ q[3] \in Int /\ q = <<q[1], q[2], q[3]>>
BY DEF Positions

LEMMA PlacedFacts ==
  ASSUME TypeOK, NEW k \in Int \X Int, NEW q
  PROVE  q \in Placed(k) <=>
           /\ q \in Positions
           /\ q[1] \div Edge = k[1] /\ q[3] \div Edge = k[2]
           /\ (q[2] \div Edge) - params.minY \in 0..Height(params) - 1
<1>1. /\ Edge \in Nat \ {0} /\ params.minY \in Int /\ Height(params) \in Nat
      /\ k[1] \in Int /\ k[2] \in Int
  BY SizeFacts DEF TypeOK
<1>2. ASSUME q \in Placed(k)
      PROVE  /\ q \in Positions
             /\ q[1] \div Edge = k[1] /\ q[3] \div Edge = k[2]
             /\ (q[2] \div Edge) - params.minY \in 0..Height(params) - 1
  <2>1. PICK ci \in 0..Height(params) - 1, l \in Locals :
          q = <<k[1] * Edge + l[1], (params.minY + ci) * Edge + l[2], k[2] * Edge + l[3]>>
    BY <1>2 DEF Placed
  <2>2. l[1] \in 0..Edge - 1 /\ l[2] \in 0..Edge - 1 /\ l[3] \in 0..Edge - 1
    BY DEF Locals, Local
  <2>3. ci \in Int /\ params.minY + ci \in Int /\ (params.minY + ci) - params.minY = ci
    BY <1>1
  <2>4. /\ k[1] * Edge + l[1] \in Int /\ (k[1] * Edge + l[1]) \div Edge = k[1]
        /\ k[2] * Edge + l[3] \in Int /\ (k[2] * Edge + l[3]) \div Edge = k[2]
        /\ (params.minY + ci) * Edge + l[2] \in Int
        /\ ((params.minY + ci) * Edge + l[2]) \div Edge = params.minY + ci
    BY <1>1, <2>2, <2>3, PlaceAndOffset
  <2> QED BY <2>1, <2>3, <2>4 DEF Positions
<1>3. ASSUME /\ q \in Positions
             /\ q[1] \div Edge = k[1] /\ q[3] \div Edge = k[2]
             /\ (q[2] \div Edge) - params.minY \in 0..Height(params) - 1
      PROVE  q \in Placed(k)
  <2> DEFINE ci == (q[2] \div Edge) - params.minY
             l == <<q[1] % Edge, q[2] % Edge, q[3] % Edge>>
  <2>1. q[1] \in Int /\ q[2] \in Int /\ q[3] \in Int /\ q = <<q[1], q[2], q[3]>>
    BY <1>3, TripleFacts
  <2>2. \A a \in Int : a \div Edge \in Int /\ a % Edge \in Local /\ a = (a \div Edge) * Edge + (a % Edge)
    BY <1>1, DivisionFacts DEF Local
  <2>3. l \in Locals
    BY <2>1, <2>2 DEF Locals
  <2>4. params.minY + ci = q[2] \div Edge
    BY <1>1, <2>1, <2>2
  <2>5. q = <<k[1] * Edge + l[1], (params.minY + ci) * Edge + l[2], k[2] * Edge + l[3]>>
    <3>1. q[1] = k[1] * Edge + l[1] /\ q[3] = k[2] * Edge + l[3]
      BY <1>3, <2>1, <2>2
    <3>2. q[2] = (params.minY + ci) * Edge + l[2]
      BY <2>1, <2>2, <2>4
    <3> HIDE DEF ci, l
    <3> QED BY <2>1, <3>1, <3>2
  <2>6. ci \in 0..Height(params) - 1
    BY <1>3
  <2> HIDE DEF ci, l
  <2> QED BY <2>3, <2>5, <2>6 DEF Placed
<1> QED BY <1>2, <1>3

LEMMA SpaceDomain ==
  ASSUME TypeOK, NEW q
  PROVE  q \in DOMAIN Space <=>
           /\ q \in Positions
           /\ <<q[1] \div Edge, q[3] \div Edge>> \in Grid
           /\ ColumnInBounds(params, <<q[1] \div Edge, q[3] \div Edge>>)
           /\ (q[2] \div Edge) - params.minY \in 0..Height(params) - 1
<1>1. DOMAIN Space = UNION {Placed(k) : k \in {g \in Grid : ColumnInBounds(params, g)}}
  BY DEF Space
<1>2. Grid \subseteq Int \X Int
  BY WorldAssumption
<1>3. q \in DOMAIN Space <=>
        \E k \in Grid : ColumnInBounds(params, k) /\ q \in Placed(k)
  BY <1>1
<1>4. \A k \in Grid :
        q \in Placed(k) <=>
           /\ q \in Positions
           /\ q[1] \div Edge = k[1] /\ q[3] \div Edge = k[2]
           /\ (q[2] \div Edge) - params.minY \in 0..Height(params) - 1
  BY <1>2, PlacedFacts
<1>5. \A k \in Grid : k = <<k[1], k[2]>>
  BY <1>2
<1> QED BY <1>3, <1>4, <1>5

(* The voxel of a position, in its column as it would be loaded.              *)
PlaceOf(q) == <<q[1] \div Edge, q[3] \div Edge>>
Offset(q) == <<q[1] % Edge, q[2] % Edge, q[3] % Edge>>
Row(q) == (q[2] \div Edge) - params.minY

LEMMA SpaceValue ==
  ASSUME TypeOK, NEW q \in DOMAIN Space
  PROVE  Space[q] = Loaded(PlaceOf(q))[Row(q)][Offset(q)]
BY DEF Space, PlaceOf, Row, Offset

(* A step that changes the columns as a write changes the space.             *)
LEMMA WriteStep ==
  ASSUME TypeOK, UNCHANGED params, NEW S, NEW b,
         \A q \in DOMAIN Space :
           Loaded(PlaceOf(q))'[Row(q)][Offset(q)] =
             IF q \in S THEN b ELSE Loaded(PlaceOf(q))[Row(q)][Offset(q)]
  PROVE  Promise!Write(S, b)
<1>1. DOMAIN Space' = DOMAIN Space
  BY DEF Space, Placed, ColumnInBounds, Height
<1>2. ASSUME NEW q \in DOMAIN Space
      PROVE  Space'[q] = Loaded(PlaceOf(q))'[Row(q)][Offset(q)]
  BY <1>1, <1>2 DEF Space, PlaceOf, Row, Offset
<1>3. \A q \in DOMAIN Space : Space[q] = Loaded(PlaceOf(q))[Row(q)][Offset(q)]
  BY SpaceValue
<1>4. Space' = [q \in DOMAIN Space |-> Space'[q]]
  BY <1>1 DEF Space
<1>5. Space' = [q \in DOMAIN Space |-> IF q \in S THEN b ELSE Space[q]]
  BY <1>2, <1>3, <1>4
<1> QED BY <1>5 DEF Promise!Write

LEMMA SpaceKept ==
  ASSUME TypeOK, UNCHANGED params, \A k : Loaded(k)' = Loaded(k)
  PROVE  Space' = Space
<1>1. DOMAIN Space' = DOMAIN Space
  BY DEF Space, Placed, ColumnInBounds, Height
<1>2. ASSUME NEW q \in DOMAIN Space PROVE Space'[q] = Space[q]
  <2>1. Space'[q] = Loaded(PlaceOf(q))'[Row(q)][Offset(q)]
    BY <1>1, <1>2 DEF Space, PlaceOf, Row, Offset
  <2> QED BY <2>1, SpaceValue
<1>3. Space' = [q \in DOMAIN Space |-> Space'[q]] /\ Space = [q \in DOMAIN Space |-> Space[q]]
  BY <1>1 DEF Space
<1>4. [q \in DOMAIN Space |-> Space'[q]] = [q \in DOMAIN Space |-> Space[q]]
  BY <1>2
<1> QED BY <1>3, <1>4

(* The bounds, by division and by the borders of the grid.                   *)
LEMMA AcceptedIsInBounds ==
  ASSUME TypeOK, NEW p \in Points
  PROVE  p \in Accepted <=> InBounds(params, p)
<1>1. /\ p[1] \in Int /\ p[2] \in Int /\ p[3] \in Int /\ Edge \in Nat \ {0}
      /\ params.minX \in Int /\ params.maxX \in Int /\ params.minZ \in Int
      /\ params.maxZ \in Int /\ params.minY \in Int /\ params.maxY \in Int
  BY SizeFacts, WorldAssumption DEF TypeOK
<1>2. p[2] \in params.minY * Edge..(params.maxY + 1) * Edge - 1
        <=> p[2] \div Edge \in params.minY..params.maxY
  BY <1>1, BetweenBorders
<1>3. p[1] \in params.minX * Edge..(params.maxX + 1) * Edge - 1
        <=> p[1] \div Edge \in params.minX..params.maxX
  BY <1>1, BetweenBorders
<1>4. p[3] \in params.minZ * Edge..(params.maxZ + 1) * Edge - 1
        <=> p[3] \div Edge \in params.minZ..params.maxZ
  BY <1>1, BetweenBorders
<1>5. FloorDiv(p[2], Edge) = p[2] \div Edge /\ ColumnOf(p) = <<p[1] \div Edge, p[3] \div Edge>>
  BY <1>1, FloorDivIsFloor DEF ColumnOf
<1> QED BY <1>2, <1>3, <1>4, <1>5 DEF Accepted, InBounds, ColumnInBounds

(* Column, row and offset tell positions apart.                              *)
LEMMA PlacesApart ==
  ASSUME TypeOK, NEW p \in Positions, NEW q \in Positions,
         PlaceOf(p) = PlaceOf(q), Row(p) = Row(q), Offset(p) = Offset(q)
  PROVE  p = q
<1>1. Edge \in Nat \ {0} /\ params.minY \in Int
  BY SizeFacts DEF TypeOK
<1>2. \A a \in Int : a \div Edge \in Int /\ a = (a \div Edge) * Edge + (a % Edge)
  BY <1>1, DivisionFacts
<1>3. \A a, b \in Int : a \div Edge = b \div Edge /\ a % Edge = b % Edge => a = b
  <2> SUFFICES ASSUME NEW a \in Int, NEW b \in Int, a \div Edge = b \div Edge, a % Edge = b % Edge
               PROVE  a = b
    OBVIOUS
  <2>1. a = (a \div Edge) * Edge + (a % Edge) /\ b = (b \div Edge) * Edge + (b % Edge)
    BY <1>2
  <2> QED BY <2>1
<1>4. /\ p[1] \in Int /\ p[2] \in Int /\ p[3] \in Int /\ p = <<p[1], p[2], p[3]>>
      /\ q[1] \in Int /\ q[2] \in Int /\ q[3] \in Int /\ q = <<q[1], q[2], q[3]>>
  BY TripleFacts
<1>5. p[1] \div Edge = q[1] \div Edge /\ p[3] \div Edge = q[3] \div Edge
  BY DEF PlaceOf
<1>6. p[2] \div Edge = q[2] \div Edge
  <2>1. p[2] \div Edge \in Int /\ q[2] \div Edge \in Int
    BY <1>2, <1>4
  <2> QED BY <1>1, <2>1 DEF Row
<1>7. p[1] % Edge = q[1] % Edge /\ p[2] % Edge = q[2] % Edge /\ p[3] % Edge = q[3] % Edge
  BY DEF Offset
<1>8. p[1] = q[1] /\ p[2] = q[2] /\ p[3] = q[3]
  BY <1>3, <1>4, <1>5, <1>6, <1>7
<1> QED BY <1>4, <1>8

LEMMA OffsetType ==
  ASSUME TypeOK, NEW q \in Positions
  PROVE  Offset(q) \in Locals
<1>1. \A a \in Int : a % Edge \in Local
  BY SizeFacts, DivisionFacts DEF Local
<1> QED BY <1>1, TripleFacts DEF Offset, Locals

(* A write reaches its voxel and no other, and none where there is no row.    *)
LEMMA SetKeepsPromise ==
  ASSUME TypeOK, NEW p \in Points, NEW b \in Blocks, SetVoxel(p, b)
  PROVE  Promise!Set(p, b)
<1>1. UNCHANGED params
  BY DEF SetVoxel, Unmanaged
<1>2. p \in Accepted <=> InBounds(params, p)
  BY AcceptedIsInBounds
<1>3. \A k : Loaded(k)' =
         IF InBounds(params, p) /\ HasRow(p[2]) /\ k = ColumnOf(p)
         THEN [Loaded(k) EXCEPT ![RowOf(p[2])[1]][LocalOf(p)] = b] ELSE Loaded(k)
  BY SetVoxelLoaded
<1>4. CASE ~InBounds(params, p)
  <2>1. Space' = Space
    BY <1>1, <1>3, <1>4, SpaceKept
  <2>2. answer' = OutOfBounds
    BY <1>4 DEF SetVoxel
  <2> QED BY <1>2, <1>4, <2>1, <2>2 DEF Promise!Set
<1>5. CASE InBounds(params, p)
  <2>1. p \in Positions
    BY WorldAssumption DEF Positions
  <2>2. /\ ColumnOf(p) = PlaceOf(p) /\ RowOf(p[2])[1] = Row(p) /\ LocalOf(p) = Offset(p)
        /\ HasRow(p[2]) <=> Row(p) \in 0..Height(params) - 1
    BY PositionFacts, WorldAssumption DEF PlaceOf, Row, Offset
  <2>3. ASSUME NEW q \in DOMAIN Space
        PROVE  Loaded(PlaceOf(q))'[Row(q)][Offset(q)] =
                 IF q \in {p} THEN b ELSE Loaded(PlaceOf(q))[Row(q)][Offset(q)]
    <3>1. q \in Positions /\ Row(q) \in 0..Height(params) - 1 /\ Offset(q) \in Locals
      BY <2>3, SpaceDomain, OffsetType DEF Row
    <3>2. Loaded(PlaceOf(q)) \in Column
      BY ColumnTypes
    <3>3. CASE HasRow(p[2]) /\ PlaceOf(q) = PlaceOf(p)
      <4>1. Loaded(PlaceOf(q))' = [Loaded(PlaceOf(q)) EXCEPT ![Row(p)][Offset(p)] = b]
        BY <1>3, <1>5, <2>2, <3>3
      <4>2. q = p <=> Row(q) = Row(p) /\ Offset(q) = Offset(p)
        BY <2>1, <3>1, <3>3, PlacesApart
      <4> QED BY <3>1, <3>2, <4>1, <4>2 DEF Column
    <3>4. CASE ~(HasRow(p[2]) /\ PlaceOf(q) = PlaceOf(p))
      <4>1. q # p
        BY <2>2, <3>1, <3>4
      <4>2. Loaded(PlaceOf(q))' = Loaded(PlaceOf(q))
        BY <1>3, <2>2, <3>4
      <4> QED BY <4>1, <4>2
    <3> QED BY <3>3, <3>4
  <2>4. Promise!Write({p}, b)
    BY <1>1, <2>3, WriteStep
  <2>5. answer' = Ok
    BY <1>5 DEF SetVoxel
  <2> QED BY <1>2, <1>5, <2>4, <2>5 DEF Promise!Set
<1> QED BY <1>4, <1>5

(* A read returns the voxel, and air where there is no row.                   *)
LEMMA GetKeepsPromise ==
  ASSUME TypeOK, NEW p \in Points, GetVoxel(p)
  PROVE  Promise!Get(p)
<1>1. p \in Accepted <=> InBounds(params, p)
  BY AcceptedIsInBounds
<1>2. CASE ~InBounds(params, p)
  BY <1>1, <1>2 DEF GetVoxel, Promise!Get
<1>3. CASE InBounds(params, p)
  <2>1. p \in Positions
    BY WorldAssumption DEF Positions
  <2>2. /\ ColumnOf(p) = PlaceOf(p) /\ RowOf(p[2])[1] = Row(p) /\ LocalOf(p) = Offset(p)
        /\ HasRow(p[2]) <=> Row(p) \in 0..Height(params) - 1
    BY PositionFacts, WorldAssumption DEF PlaceOf, Row, Offset
  <2>3. p \in DOMAIN Space <=> HasRow(p[2])
    BY <1>3, <2>1, <2>2, SpaceDomain, GridAssumption DEF InBounds, PlaceOf, Row
  <2>4. answer' = IF HasRow(p[2]) THEN Loaded(PlaceOf(p))[Row(p)][Offset(p)] ELSE Air
    BY <1>3, <2>2 DEF GetVoxel
  <2>5. answer' = IF p \in DOMAIN Space THEN Space[p] ELSE Air
    BY <2>3, <2>4, SpaceValue
  <2> QED BY <1>1, <1>3, <2>5 DEF Promise!Get, Promise!At
<1> QED BY <1>2, <1>3

(* A chunk handle of the live world copies out the voxels of its chunk.       *)
LEMMA CopyKeepsPromise ==
  ASSUME TypeOK, HandlesFindColumns, NEW h \in DOMAIN handles,
         CopyVoxels(h), ~Dangling(h), answer' # OutOfBounds,
         ColumnInBounds(params, <<handles[h].chunk[1], handles[h].chunk[3]>>)
  PROVE  Promise!Copy(handles[h].chunk)
<1> DEFINE c == handles[h].chunk
           k == <<c[1], c[3]>>
           ci == c[2] - params.minY
           at(l) == <<c[1] * Edge + l[1], c[2] * Edge + l[2], c[3] * Edge + l[3]>>
<1>1. /\ c \in Chunks /\ c[1] \in Int /\ c[2] \in Int /\ c[3] \in Int /\ k \in Grid
      /\ Edge \in Nat \ {0} /\ params.minY \in Int
  BY SizeFacts, WorldAssumption, GridAssumption DEF TypeOK
<1>2. ci \in 0..Height(params) - 1 /\ answer' = columns[k][ci]
  BY DEF CopyVoxels
<1>3. k \in DOMAIN columns /\ columns[k] \in Column
  BY DEF HandlesFindColumns, TypeOK
<1>4. answer' \in [Locals -> Blocks] /\ answer' = Loaded(k)[ci]
  BY <1>2, <1>3 DEF Column, Loaded
<1>5. ColumnInBounds(params, k)
  OBVIOUS
<1> HIDE DEF c, k, ci
<1>6. ASSUME NEW l \in Locals
      PROVE  at(l) \in DOMAIN Space /\ Space[at(l)] = answer'[l]
  <2>1. l[1] \in 0..Edge - 1 /\ l[2] \in 0..Edge - 1 /\ l[3] \in 0..Edge - 1 /\ l = <<l[1], l[2], l[3]>>
    BY <1>6 DEF Locals, Local
  <2>2. /\ c[1] * Edge + l[1] \in Int /\ (c[1] * Edge + l[1]) \div Edge = c[1]
        /\ (c[1] * Edge + l[1]) % Edge = l[1]
    BY <1>1, <2>1, PlaceAndOffset
  <2>3. /\ c[2] * Edge + l[2] \in Int /\ (c[2] * Edge + l[2]) \div Edge = c[2]
        /\ (c[2] * Edge + l[2]) % Edge = l[2]
    BY <1>1, <2>1, PlaceAndOffset
  <2>4. /\ c[3] * Edge + l[3] \in Int /\ (c[3] * Edge + l[3]) \div Edge = c[3]
        /\ (c[3] * Edge + l[3]) % Edge = l[3]
    BY <1>1, <2>1, PlaceAndOffset
  <2>5. at(l) \in Positions /\ PlaceOf(at(l)) = k /\ Row(at(l)) = ci /\ Offset(at(l)) = l
    BY <2>1, <2>2, <2>3, <2>4 DEF Positions, PlaceOf, Row, Offset, k, ci
  <2> HIDE DEF at
  <2>6. at(l) \in DOMAIN Space
    BY <1>1, <1>2, <1>5, <2>5, SpaceDomain DEF PlaceOf, Row
  <2> QED BY <1>4, <2>5, <2>6, SpaceValue
<1>7. answer' = [l \in Locals |-> Promise!At(at(l))]
  <2>1. \A l \in Locals : Promise!At(at(l)) = answer'[l]
    BY <1>6 DEF Promise!At
  <2> HIDE DEF at
  <2> QED BY <1>4, <2>1
<1> QED BY <1>7 DEF Promise!Copy, Locals, Local, c

(* The box of two corners, axis by axis.                                     *)
LEMMA BetweenIs ==
  ASSUME NEW a \in Int, NEW b \in Int, NEW i
  PROVE  i \in Promise!Between(a, b) <=> i \in Int /\ Lower(a, b) =< i /\ i < Upper(a, b)
BY DEF Promise!Between, Lower, Upper

LEMMA PartIs ==
  ASSUME NEW lo \in Int, NEW hi \in Int, NEW x \in Int
  PROVE  x % Edge \in Part(lo, hi, x \div Edge) <=> lo =< x /\ x < hi
<1> DEFINE d == x \div Edge
           r == x % Edge
           m == d * Edge
<1>1. /\ Edge \in Nat \ {0} /\ d \in Int /\ r \in Int /\ m \in Int
      /\ 0 =< r /\ r < Edge /\ x = m + r
  BY SizeFacts, DivisionFacts
<1>2. Part(lo, hi, d) = Upper(lo - m, 0)..Lower(hi - m, Edge) - 1
  BY DEF Part
<1> HIDE DEF d, r, m
<1>3. r \in Upper(lo - m, 0)..Lower(hi - m, Edge) - 1 <=> lo =< x /\ x < hi
  BY <1>1 DEF Upper, Lower
<1> QED BY <1>2, <1>3 DEF d, r

LEMMA RowsIs ==
  ASSUME TypeOK, params.minY =< params.maxY, NEW lo \in Int, NEW hi \in Int,
         NEW y \in Int, (y \div Edge) - params.minY \in 0..Height(params) - 1
  PROVE  y % Edge \in Rows(lo, hi, (y \div Edge) - params.minY) <=> lo =< y /\ y < hi
<1> DEFINE d == y \div Edge
           r == y % Edge
           m == d * Edge
           bottom == params.minY * Edge
           top == (params.maxY + 1) * Edge
<1>1. /\ Edge \in Nat \ {0} /\ d \in Int /\ r \in Int /\ m \in Int
      /\ 0 =< r /\ r < Edge /\ y = m + r
      /\ params.minY \in Int /\ params.maxY \in Int /\ Height(params) \in Nat
      /\ Height(params) =< params.maxY - params.minY + 1
      /\ bottom \in Int /\ top \in Int
  <2>1. /\ Edge \in Nat \ {0} /\ params.minY \in Int /\ params.maxY \in Int
        /\ Height(params) \in Nat /\ Height(params) =< params.maxY - params.minY + 1
    BY SizeFacts DEF TypeOK
  <2>2. d \in Int /\ r \in Int /\ 0 =< r /\ r < Edge /\ y = d * Edge + r
    BY <2>1, DivisionFacts
  <2>3. m \in Int /\ bottom \in Int /\ top \in Int
    BY <2>1, <2>2
  <2> HIDE DEF d, r, bottom, top
  <2> QED BY <2>1, <2>2, <2>3
<1>2. d >= params.minY /\ ~(d >= params.maxY + 1)
  BY <1>1
<1>3. bottom =< y /\ y < top
  <2>1. y >= bottom
    BY <1>1, <1>2, AboveBorder
  <2>2. ~(y >= top)
    BY <1>1, <1>2, AboveBorder
  <2> QED BY <1>1, <2>1, <2>2
<1>4. params.minY + (d - params.minY) = d
  BY <1>1
<1>5. Rows(lo, hi, d - params.minY) =
        Upper(Upper(lo, bottom) - m, 0)..Lower(Lower(hi, top) - m, Edge) - 1
  BY <1>4 DEF Rows
<1> HIDE DEF d, r, m, bottom, top
<1>6. r \in Upper(Upper(lo, bottom) - m, 0)..Lower(Lower(hi, top) - m, Edge) - 1
        <=> lo =< y /\ y < hi
  BY <1>1, <1>3 DEF Upper, Lower
<1> QED BY <1>5, <1>6 DEF d, r

(* Column by column, layer by layer and clamped to the world, a fill reaches  *)
(* the voxels of its box and no other.                                       *)
LEMMA FillKeepsPromise ==
  ASSUME TypeOK, params.minY =< params.maxY, NEW p \in Positions, NEW q \in Positions,
         NEW b \in Blocks, FillBox(p, q, b)
  PROVE  Promise!Fill(p, q, b)
<1> DEFINE lo == Low(p, q)
           hi == High(p, q)
           S == Promise!Between(p[1], q[1]) \X Promise!Between(p[2], q[2])
                  \X Promise!Between(p[3], q[3])
<1>1. UNCHANGED params /\ answer' = Ok
  BY DEF FillBox, Unmanaged
<1>2. \A k : Loaded(k)' = IF (\A i \in 1..3 : lo[i] # hi[i]) /\ k \in ColumnsOf(lo, hi)
                          THEN FilledColumn(Loaded(k), lo, hi, k, b) ELSE Loaded(k)
  BY FillBoxLoaded
<1>3. /\ p[1] \in Int /\ p[2] \in Int /\ p[3] \in Int
      /\ q[1] \in Int /\ q[2] \in Int /\ q[3] \in Int
  BY TripleFacts
<1>4. /\ lo[1] = Lower(p[1], q[1]) /\ lo[2] = Lower(p[2], q[2]) /\ lo[3] = Lower(p[3], q[3])
      /\ hi[1] = Upper(p[1], q[1]) /\ hi[2] = Upper(p[2], q[2]) /\ hi[3] = Upper(p[3], q[3])
  BY DEF Low, High
<1>5. \A i \in 1..3 : lo[i] \in Int /\ hi[i] \in Int
  BY <1>3, <1>4 DEF Lower, Upper
<1>6. ASSUME NEW r \in Positions
      PROVE  r \in S <=> /\ lo[1] =< r[1] /\ r[1] < hi[1]
                         /\ lo[2] =< r[2] /\ r[2] < hi[2]
                         /\ lo[3] =< r[3] /\ r[3] < hi[3]
  <2>1. r[1] \in Int /\ r[2] \in Int /\ r[3] \in Int /\ r = <<r[1], r[2], r[3]>>
    BY <1>6, TripleFacts
  <2>2. r \in S <=> /\ r[1] \in Promise!Between(p[1], q[1])
                    /\ r[2] \in Promise!Between(p[2], q[2])
                    /\ r[3] \in Promise!Between(p[3], q[3])
    BY <2>1
  <2> HIDE DEF S, lo, hi
  <2> QED BY <1>3, <1>4, <2>1, <2>2, BetweenIs
<1> HIDE DEF lo, hi, S
<1>7. ASSUME NEW r \in DOMAIN Space
      PROVE  Loaded(PlaceOf(r))'[Row(r)][Offset(r)] =
               IF r \in S THEN b ELSE Loaded(PlaceOf(r))[Row(r)][Offset(r)]
  <2> DEFINE k == PlaceOf(r)
  <2>1. /\ r \in Positions /\ r[1] \in Int /\ r[2] \in Int /\ r[3] \in Int
        /\ Row(r) \in 0..Height(params) - 1 /\ Offset(r) \in Locals
        /\ ColumnInBounds(params, k)
    BY <1>7, SpaceDomain, TripleFacts, OffsetType DEF Row, PlaceOf
  <2>2. /\ k[1] = r[1] \div Edge /\ k[2] = r[3] \div Edge /\ k = <<k[1], k[2]>>
        /\ k[1] \in Int /\ k[2] \in Int
    BY <2>1, SizeFacts, DivisionFacts DEF PlaceOf
  <2>3. Loaded(k) \in Column
    BY ColumnTypes
  <2> HIDE DEF k
  <2>4. CASE (\A i \in 1..3 : lo[i] # hi[i]) /\ k \in ColumnsOf(lo, hi)
    <3>1. Loaded(k)'[Row(r)][Offset(r)] =
            IF /\ Offset(r)[1] \in Part(lo[1], hi[1], k[1])
               /\ Offset(r)[2] \in Rows(lo[2], hi[2], Row(r))
               /\ Offset(r)[3] \in Part(lo[3], hi[3], k[2])
            THEN b ELSE Loaded(k)[Row(r)][Offset(r)]
      BY <1>2, <2>1, <2>3, <2>4 DEF FilledColumn, Column
    <3>2. Offset(r)[1] \in Part(lo[1], hi[1], k[1]) <=> lo[1] =< r[1] /\ r[1] < hi[1]
      BY <1>5, <2>1, <2>2, PartIs DEF Offset
    <3>3. Offset(r)[2] \in Rows(lo[2], hi[2], Row(r)) <=> lo[2] =< r[2] /\ r[2] < hi[2]
      BY <1>5, <2>1, RowsIs DEF Offset, Row
    <3>4. Offset(r)[3] \in Part(lo[3], hi[3], k[2]) <=> lo[3] =< r[3] /\ r[3] < hi[3]
      BY <1>5, <2>1, <2>2, PartIs DEF Offset
    <3> QED BY <1>6, <2>1, <3>1, <3>2, <3>3, <3>4 DEF k
  <2>5. CASE ~((\A i \in 1..3 : lo[i] # hi[i]) /\ k \in ColumnsOf(lo, hi))
    <3>1. r \notin S
      <4> SUFFICES ASSUME r \in S PROVE FALSE
        OBVIOUS
      <4>1. /\ lo[1] =< r[1] /\ r[1] < hi[1] /\ lo[2] =< r[2] /\ r[2] < hi[2]
            /\ lo[3] =< r[3] /\ r[3] < hi[3]
        BY <1>6, <2>1
      <4>2. \A i \in 1..3 : lo[i] # hi[i]
        BY <1>5, <2>1, <4>1
      <4>3. /\ lo[1] \in Int /\ hi[1] - 1 \in Int /\ r[1] =< hi[1] - 1
            /\ lo[3] \in Int /\ hi[3] - 1 \in Int /\ r[3] =< hi[3] - 1
        BY <1>5, <2>1, <4>1
      <4>4. /\ lo[1] \div Edge =< k[1] /\ k[1] =< (hi[1] - 1) \div Edge
            /\ lo[3] \div Edge =< k[2] /\ k[2] =< (hi[3] - 1) \div Edge
        BY <2>1, <2>2, <4>1, <4>3, SizeFacts, DivisionGrows
      <4>5. /\ FloorDiv(lo[1], Edge) = lo[1] \div Edge
            /\ FloorDiv(hi[1] - 1, Edge) = (hi[1] - 1) \div Edge
            /\ FloorDiv(lo[3], Edge) = lo[3] \div Edge
            /\ FloorDiv(hi[3] - 1, Edge) = (hi[3] - 1) \div Edge
        BY <4>3, SizeFacts, FloorDivIsFloor
      <4>6. /\ k[1] \in FloorDiv(lo[1], Edge)..FloorDiv(hi[1] - 1, Edge)
            /\ k[2] \in FloorDiv(lo[3], Edge)..FloorDiv(hi[3] - 1, Edge)
        <5>1. /\ lo[1] \div Edge \in Int /\ (hi[1] - 1) \div Edge \in Int
              /\ lo[3] \div Edge \in Int /\ (hi[3] - 1) \div Edge \in Int
          BY <4>3, SizeFacts, DivisionFacts
        <5> QED BY <2>2, <4>4, <4>5, <5>1
      <4>7. k \in ColumnsOf(lo, hi)
        BY <2>1, <2>2, <4>6 DEF ColumnsOf
      <4> QED BY <2>5, <4>2, <4>7
    <3>2. Loaded(k)' = Loaded(k)
      BY <1>2, <2>5
    <3> QED BY <3>1, <3>2 DEF k
  <2> QED BY <2>4, <2>5
<1>8. Promise!Write(S, b)
  BY <1>1, <1>7, WriteStep
<1> QED BY <1>1, <1>8 DEF Promise!Fill, S

(* No world has its layers upside down: such a world would store one layer,   *)
(* which fills do not reach.                                                 *)
LayersInOrder == \A pa \in Params : pa.minY =< pa.maxY

(* Split into columns, chunks and voxels on both sides of zero, loaded when   *)
(* touched, saved and loaded again (world.cpp:27-214, voxel_store_abi.cpp),   *)
(* the world is one space of voxels, for every size, bounds and set of calls. *)
THEOREM WorldKeepsPromise ==
  ASSUME LayersInOrder
  PROVE  Spec => CallsKeepPromise
<1> DEFINE Kept == /\ \A p \in Points, b \in Blocks : SetVoxel(p, b) => Promise!Set(p, b)
                   /\ \A p \in Points : GetVoxel(p) => Promise!Get(p)
                   /\ \A box \in Boxes, b \in Blocks :
                        FillBox(box[1], box[2], b) => Promise!Fill(box[1], box[2], b)
                   /\ \A h \in DOMAIN handles :
                        /\ CopyVoxels(h) /\ ~Dangling(h) /\ answer' # OutOfBounds
                        /\ ColumnInBounds(params, <<handles[h].chunk[1], handles[h].chunk[3]>>)
                        => Promise!Copy(handles[h].chunk)
                   /\ edits' = edits => Space' = Space
<1>1. ASSUME TypeOK, HandlesInv, Next PROVE Kept
  <2>1. ASSUME NEW p \in Points, NEW b \in Blocks, SetVoxel(p, b) PROVE Promise!Set(p, b)
    BY <1>1, <2>1, SetKeepsPromise
  <2>2. ASSUME NEW p \in Points, GetVoxel(p) PROVE Promise!Get(p)
    BY <1>1, <2>2, GetKeepsPromise
  <2>3. ASSUME NEW box \in Boxes, NEW b \in Blocks, FillBox(box[1], box[2], b)
        PROVE  Promise!Fill(box[1], box[2], b)
    <3>1. box[1] \in Positions /\ box[2] \in Positions
      BY WorldAssumption DEF Positions
    <3>2. params.minY =< params.maxY
      BY <1>1 DEF TypeOK, LayersInOrder
    <3> QED BY <1>1, <2>3, <3>1, <3>2, FillKeepsPromise
  <2>4. ASSUME NEW h \in DOMAIN handles,
               CopyVoxels(h), ~Dangling(h), answer' # OutOfBounds,
               ColumnInBounds(params, <<handles[h].chunk[1], handles[h].chunk[3]>>)
        PROVE  Promise!Copy(handles[h].chunk)
    BY <1>1, <2>4, CopyKeepsPromise DEF HandlesInv
  <2>5. ASSUME edits' = edits PROVE Space' = Space
    <3>1. ~\E p \in Points, b \in Blocks : SetVoxel(p, b)
      BY <1>1, <2>5, EditedFacts DEF SetVoxel
    <3>2. ~\E box \in Boxes, b \in Blocks : FillBox(box[1], box[2], b)
      BY <1>1, <2>5, EditedFacts DEF FillBox
    <3>3. UNCHANGED params /\ \A k : Loaded(k)' = Loaded(k)
      BY <1>1, <3>1, <3>2, KeepingLoaded
    <3> QED BY <1>1, <3>3, SpaceKept
  <2> QED BY <2>1, <2>2, <2>3, <2>4, <2>5
<1>2. TypeOK /\ HandlesInv /\ [Next]_vars => [Kept]_vars
  BY <1>1
<1> QED BY <1>2, WorldTyping, PTL DEF Spec, CallsKeepPromise
=============================================================================
