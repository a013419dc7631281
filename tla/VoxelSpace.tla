----------------------------- MODULE VoxelSpace -----------------------------
(* What the voxel calls of the store promise: one space of voxels.  A read    *)
(* returns what was last written, a box writes exactly its voxels, a position *)
(* outside the bounds is refused and nothing is written there.  Each operator *)
(* is the promise of one call, over the space before and after it.           *)
EXTENDS Integers

CONSTANTS Air, Edge, Ok, OutOfBounds

VARIABLES inBounds,  \* the positions <<x, y, z>> the calls accept
          space,     \* what is stored, position by position
          answer     \* what the last call returned

(* A position that is not stored reads as air.                               *)
At(p) == IF p \in DOMAIN space THEN space[p] ELSE Air

Write(S, b) == space' = [p \in DOMAIN space |-> IF p \in S THEN b ELSE space[p]]

Set(p, b) == \/ p \in inBounds /\ Write({p}, b) /\ answer' = Ok
             \/ p \notin inBounds /\ UNCHANGED space /\ answer' = OutOfBounds

Get(p) == answer' = IF p \in inBounds THEN At(p) ELSE OutOfBounds

(* A box is given by two corners, in any order; the upper one is outside.     *)
Between(a, b) == {i \in a..b : i < b} \union {i \in b..a : i < a}

Fill(p, q, b) ==
  /\ Write(Between(p[1], q[1]) \X Between(p[2], q[2]) \X Between(p[3], q[3]), b)
  /\ answer' = Ok

(* The voxels of a chunk, each where it is in the chunk.                     *)
Copy(c) ==
  answer' = [l \in (0..Edge - 1) \X (0..Edge - 1) \X (0..Edge - 1) |->
               At(<<c[1] * Edge + l[1], c[2] * Edge + l[2], c[3] * Edge + l[3]>>)]
=============================================================================
