----------------------------- MODULE VoxelArray -----------------------------
(***************************************************************************)
(* What a chunk promises the column that owns it: an array of block ids    *)
(* with writes of one voxel and of a box, an answer to "did anything       *)
(* change", and a flag that tells a chunk held as a single value.  This is *)
(* all ChunkColumn knows of its chunks; PalettedChunk implements it.       *)
(***************************************************************************)
CONSTANTS
  Voxels,   \* voxel positions of the chunk
  Boxes,    \* the sub-boxes a fill may name, as sets of positions
  Blocks, Air,
  Packed    \* "not a single value"

VARIABLES
  content,  \* [Voxels -> Blocks]
  uniform,  \* the value of a chunk held as one value, else Packed
  changed   \* what the last write returned

arrayVars == <<content, uniform, changed>>

Init ==
  /\ content = [i \in Voxels |-> Air]
  /\ uniform = Air
  /\ changed = FALSE

\* The voxels of box, a part of the chunk, become b; the answer is exact.
Write(box, b) ==
  /\ content' = [i \in Voxels |-> IF i \in box THEN b ELSE content[i]]
  /\ changed' = (\E i \in box : content[i] # b)
  /\ uniform' = IF uniform = b THEN b ELSE Packed

\* The whole chunk becomes b and is held as one value again; the answer is
\* about the representation, and TRUE whenever that was anything else.
FillWhole(b) ==
  /\ content' = [i \in Voxels |-> b]
  /\ changed' = (uniform # b)
  /\ uniform' = b

Next ==
  \E b \in Blocks :
    \/ \E i \in Voxels : Write({i}, b)
    \/ \E box \in Boxes \ {Voxels} : Write(box, b)
    \/ FillWhole(b)

Spec == Init /\ [][Next]_arrayVars
=============================================================================
