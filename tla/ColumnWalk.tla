----------------------------- MODULE ColumnWalk -----------------------------
(***************************************************************************)
(* rescan_cell as the code computes it: one walk down the stack that looks *)
(* for both tops at once, counts water on the way and stops early.         *)
(* ChunkColumn uses what the walk computes, as set expressions; here the   *)
(* two are compared on every content a column can have.                    *)
(***************************************************************************)
EXTENDS ChunkColumn

\* Mutant of WalkStep: the walk stops at the first solid voxel.
WalkStepToTerrain(col, y, w) ==
  LET b    == col[y]
      surf == IF b = Water /\ w.surf = Int16Min THEN Narrow(y) ELSE w.surf
  IN [top |-> IF b \in Solids THEN Narrow(y) ELSE Int16Min, surf |-> surf,
      depth |-> IF b = Water THEN w.depth + 1 ELSE w.depth,
      done |-> b \in Solids]

\* One iteration of the walk at height y, from the locals of rescan_cell.
WalkStep(col, y, w) ==
  LET b    == col[y]
      top  == IF b \in Solids /\ w.top = Int16Min THEN Narrow(y) ELSE w.top
      surf == IF b = Water /\ w.surf = Int16Min THEN Narrow(y) ELSE w.surf
  IN [top |-> top, surf |-> surf,
      depth |-> IF b = Water /\ w.top = Int16Min THEN w.depth + 1 ELSE w.depth,
      done |-> top # Int16Min /\ surf # Int16Min /\ b \in Solids]

MaxY == MinY + NChunks * Edge - 1

\* The locals before the loop.
WalkStart == [top |-> Int16Min, surf |-> Int16Min, depth |-> 0, done |-> FALSE]

\* The loop from the top of the stack down, or to the goto: after[y] is what
\* the locals hold once height y has been passed.
Walk(col) ==
  LET after[y \in MinY .. MaxY + 1] ==
        IF y = MaxY + 1 THEN WalkStart
        ELSE LET w == after[y + 1] IN IF w.done THEN w ELSE WalkStep(col, y, w)
  IN after[MinY]

\* In every reachable state the early-exit walk of every cell returns what a
\* full look at the stack returns: stopping at the first solid voxel after
\* both tops are known loses no water that counts.
WalkAgreesWithRescan ==
  \A c \in Cells :
    LET w == Walk(voxels[c])
        r == Rescan(cells[c], voxels[c])
    IN /\ w.top = r.terrain_top_y
       /\ w.surf = r.water_surface_y
       /\ w.depth = r.water_depth_voxels
=============================================================================
