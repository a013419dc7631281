---------------------------- MODULE MCVoxelWorld ----------------------------
(* Two columns of one chunk of two voxels a side, on both sides of zero, with *)
(* rows above that are accepted and not stored.                              *)
EXTENDS VoxelWorld

MCParams == {[scale |-> s, minX |-> -1, maxX |-> 0, minZ |-> 0, maxZ |-> 0,
              minY |-> -1, maxY |-> 0] : s \in {"FINITE_BOUNDED", "STREAMING"}}

(* Stored on both sides of zero, above the stored rows, outside in z, outside *)
(* upwards.                                                                  *)
MCPoints == {<<-1, -1, 0>>, <<0, 0, 0>>, <<0, -2, -1>>, <<0, 2, 0>>}

(* Across two columns and above the stored rows, reaching outside with its    *)
(* corners swapped, empty.                                                   *)
MCBoxes == {<< <<-1, -2, 0>>, <<1, 1, 1>> >>,
            << <<0, 0, 2>>, <<-3, -1, 0>> >>,
            << <<0, -2, 0>>, <<2, -2, 2>> >>}

MCChunks == {<<-1, -1, 0>>, <<1, 0, 0>>}
MCRanges == {<< <<0, 0>>, <<1, 0>> >>, << <<0, 0>>, <<-1, 0>> >>}
MCGrid == {<<-2, 0>>, <<-1, 0>>, <<0, 0>>, <<1, 0>>, <<0, -1>>}

(* All of the state but the last answer, on which no step depends.           *)
Lasting == <<params, world, columns, disk, handles, nextId, edits>>
=============================================================================
