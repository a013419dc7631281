---------------------------- MODULE HeightField ----------------------------
(***************************************************************************)
(* What a chunk column promises its readers (DESIGN.md 2.3.1): a field of  *)
(* voxels edited box by box, and for every (x, z) cell the height of the   *)
(* topmost solid voxel and of the topmost water voxel, both of them the    *)
(* truth about the voxels after every edit.  ChunkColumn implements it.    *)
(***************************************************************************)
EXTENDS Integers

CONSTANTS
  Cells,    \* the (lx, lz) pairs of the column
  Rects,    \* the sets of cells one edit may cover
  Ys,       \* the world heights the column spans
  Air, Water, Solids,
  NoTop     \* what a cell without such a voxel reports

Blocks == {Air, Water} \cup Solids

VARIABLES voxels, terrainTop, waterTop

fieldVars == <<voxels, terrainTop, waterTop>>

\* The greatest member of a set of heights, or NoTop when there is none.
Highest(S) ==
  IF S = {} THEN NoTop ELSE CHOOSE y \in S : \A z \in S : z <= y

SolidTop(col) == Highest({y \in Ys : col[y] \in Solids})
WaterTop(col) == Highest({y \in Ys : col[y] = Water})

Init ==
  /\ voxels = [c \in Cells |-> [y \in Ys |-> Air]]
  /\ terrainTop = [c \in Cells |-> NoTop]
  /\ waterTop = [c \in Cells |-> NoTop]

\* Every voxel of the box becomes block b, and both maps follow at once.
Edit(rect, y0, y1, b) ==
  /\ voxels' = [c \in Cells |-> [y \in Ys |->
                  IF c \in rect /\ y0 <= y /\ y < y1 THEN b ELSE voxels[c][y]]]
  /\ terrainTop' = [c \in Cells |-> SolidTop(voxels'[c])]
  /\ waterTop' = [c \in Cells |-> WaterTop(voxels'[c])]

Next ==
  \E rect \in Rects, y0 \in Ys, y1 \in {y + 1 : y \in Ys}, b \in Blocks :
    Edit(rect, y0, y1, b)

Spec == Init /\ [][Next]_fieldVars
=============================================================================
