---------------------------- MODULE GreedyMesher ----------------------------
(***************************************************************************)
(* Building the opaque mesh of a chunk: its voxels are copied out and laid *)
(* into a view with an apron of air, and six passes, one for each face     *)
(* direction, go through the view slice by slice.  A slice becomes a mask  *)
(* of visible faces, the mask is cut into rectangles of equal cells, and   *)
(* every rectangle is a quad.                                              *)
(*                                                                         *)
(* A position is <<x, y, z>>, a cell of a slice <<u, v>>.  Every face has  *)
(* atlas slot 0 (default_slot_cb), so that a mask cell is its occlusion.   *)
(***************************************************************************)
EXTENDS Integers, Sequences, FiniteSets

CONSTANTS
  Edge,       \* kEdge, 32: voxels along a side of the chunk
  Blocks,     \* the block ids
  Air, Water, \* the two ids that hide nothing
  Fillings,   \* the contents the chunk may have at first
  Edited      \* the voxels edited between two builds

Coords == 0 .. Edge - 1
Cube   == Coords \X Coords \X Coords
Plane  == Coords \X Coords

ASSUME MesherAssumption ==
  /\ Edge \in Nat \ {0}
  /\ Air \in Blocks
  /\ Fillings \subseteq [Cube -> Blocks]
  /\ Edited \subseteq Cube

VARIABLES
  chunk,      \* the voxels of the chunk
  view,       \* the ChunkView of the build
  phase,      \* "mask", "grow", or "done"
  pass,       \* which of kPasses runs
  slice,      \* s
  mask,       \* the mask of the slice
  cursor,     \* uu and vv of the growth
  quads       \* the quads emitted so far

vars == <<chunk, view, phase, pass, slice, mask, cursor, quads>>

-----------------------------------------------------------------------------
(* The view.                                                               *)

\* copy_voxels: the voxels in the order the chunk stores them, x fastest,
\* then z, then y.
CopyVoxels(ch) ==
  [i \in 0 .. Edge * Edge * Edge - 1 |->
     ch[<<i % Edge, i \div (Edge * Edge), (i \div Edge) % Edge>>]]

Apron == -1 .. Edge

\* fill_view_from_interior_only: the buffer read as x fastest, then y, then
\* z; the apron stays air.
FillView(buf) ==
  [c \in Apron \X Apron \X Apron |->
     IF c \in Cube THEN buf[(c[3] * Edge + c[2]) * Edge + c[1]] ELSE Air]

\* is_opaque_solid
Opaque(b) == b \notin {Air, Water}

-----------------------------------------------------------------------------
(* The passes.                                                             *)

\* kPasses: the axis a face looks along, its sign, and the axes that span
\* it.  The faces are in the order of demen_mesh_face.
Passes ==
  << [axis |-> 1, dir |-> -1, u |-> 3, v |-> 2],
     [axis |-> 1, dir |->  1, u |-> 3, v |-> 2],
     [axis |-> 2, dir |-> -1, u |-> 1, v |-> 3],
     [axis |-> 2, dir |->  1, u |-> 1, v |-> 3],
     [axis |-> 3, dir |-> -1, u |-> 1, v |-> 2],
     [axis |-> 3, dir |->  1, u |-> 1, v |-> 2] >>

At(p, s, c) ==
  LET on(i) == IF i = p.axis THEN s ELSE IF i = p.u THEN c[1] ELSE c[2]
  IN <<on(1), on(2), on(3)>>

Step(pos, axis, k) ==
  LET on(i) == IF i = axis THEN pos[i] + k ELSE pos[i]
  IN <<on(1), on(2), on(3)>>

\* The voxel a face of slice s belongs to: the one of the slice, or, looking
\* down, the one before it.
Inside(p, s, c) ==
  IF p.dir = 1 THEN At(p, s, c) ELSE Step(At(p, s, c), p.axis, p.dir)

Outside(p, s, c) == Step(Inside(p, s, c), p.axis, p.dir)

\* The second voxel is asked for only when the first is opaque, and so in
\* the chunk: of the read before the array (looking down, slice 0) the code
\* makes nothing.
Visible(vw, p, s, c) ==
  /\ Opaque(vw[Inside(p, s, c)])
  /\ ~Opaque(vw[Outside(p, s, c)])

Empty == 0

\* corner_ao: how dark the face is, by the neighbours of one of its corners.
CornerAo(vw, p, out) ==
  LET side   == {Step(out, p.u, 1), Step(out, p.v, 1), Step(Step(out, p.u, 1), p.v, 1)}
      blocked == Cardinality({n \in side : Opaque(vw[n])})
  IN CASE blocked = 0 -> 255 [] blocked = 1 -> 200 [] blocked = 2 -> 150 [] OTHER -> 120

\* The mask of a slice.
MaskOf(vw, p, s) ==
  [c \in Plane |-> IF Visible(vw, p, s, c) THEN CornerAo(vw, p, Outside(p, s, c))
                   ELSE Empty]

-----------------------------------------------------------------------------
(* Greedy growth.                                                          *)

Rectangle(u, v, w, h) == (u .. u + w - 1) \X (v .. v + h - 1)

Same(m, u, v, w, h) == \A c \in Rectangle(u, v, w, h) : m[c] = m[<<u, v>>]

\* As far along the row as the cells are equal.
GrowWidth(m, u, v) ==
  CHOOSE w \in 1 .. Edge - u :
    /\ Same(m, u, v, w, 1)
    /\ w = Edge - u \/ ~Same(m, u, v, w + 1, 1)

\* As many rows of that width as are equal.
GrowHeight(m, u, v, w) ==
  CHOOSE h \in 1 .. Edge - v :
    /\ Same(m, u, v, w, h)
    /\ h = Edge - v \/ ~Same(m, u, v, w, h + 1)

\* Mutant of Cleared: only the first row of the rectangle is cleared.
ClearedRow(m, u, v, w, h) ==
  [c \in Plane |-> IF c \in Rectangle(u, v, w, 1) THEN Empty ELSE m[c]]

\* The consumed rectangle is zeroed out.
Cleared(m, u, v, w, h) ==
  [c \in Plane |-> IF c \in Rectangle(u, v, w, h) THEN Empty ELSE m[c]]

\* Mutant of PlaneOf: the planes of the two directions exchanged.
PlaneOfOther(p, s) == IF p.dir = 1 THEN s ELSE s + 1

\* The plane a quad of slice s is anchored on.
PlaneOf(p, s) == IF p.dir = 1 THEN s + 1 ELSE s

\* The corners of a quad, in the order emit_quad pushes them.
Corners(q) ==
  LET at(u, v) == At(Passes[q.pass], q.plane, <<u, v>>)
  IN <<at(q.u, q.v), at(q.u + q.w, q.v), at(q.u + q.w, q.v + q.h), at(q.u, q.v + q.h)>>

\* Mutant of Flipped: the rule for x applied to every axis.
FlippedUp(q) == Passes[q.pass].dir = 1

\* The faces whose triangles run the other way: +x, -y and +z.
Flipped(q) == q.pass \in {2, 3, 6}

\* The two triangles of a quad, as corner numbers.
Triangles(q) ==
  IF Flipped(q) THEN {<<1, 3, 2>>, <<1, 4, 3>>} ELSE {<<1, 2, 3>>, <<1, 3, 4>>}

-----------------------------------------------------------------------------
(* A build.                                                                *)

Origin == [u |-> 0, v |-> 0]

Init ==
  /\ chunk \in Fillings
  /\ view = FillView(CopyVoxels(chunk))
  /\ phase = "mask"
  /\ pass = 1
  /\ slice = 0
  /\ mask = [c \in Plane |-> Empty]
  /\ cursor = Origin
  /\ quads = <<>>

BuildMask ==
  /\ phase = "mask"
  /\ mask' = MaskOf(view, Passes[pass], slice)
  /\ cursor' = Origin
  /\ phase' = "grow"
  /\ UNCHANGED <<chunk, view, pass, slice, quads>>

Growing == phase = "grow" /\ cursor.v < Edge

SkipCell ==
  /\ Growing
  /\ cursor.u < Edge
  /\ mask[<<cursor.u, cursor.v>>] = Empty
  /\ cursor' = [cursor EXCEPT !.u = @ + 1]
  /\ UNCHANGED <<chunk, view, phase, pass, slice, mask, quads>>

\* emit_quad, and what the loop does around it.
EmitQuad ==
  LET u == cursor.u
      v == cursor.v
      w == GrowWidth(mask, u, v)
      h == GrowHeight(mask, u, v, w)
  IN /\ Growing
     /\ u < Edge
     /\ mask[<<u, v>>] # Empty
     /\ quads' = Append(quads, [pass |-> pass, plane |-> PlaneOf(Passes[pass], slice),
                                u |-> u, v |-> v, w |-> w, h |-> h,
                                ao |-> mask[<<u, v>>]])
     /\ mask' = Cleared(mask, u, v, w, h)
     /\ cursor' = [cursor EXCEPT !.u = @ + w]
     /\ UNCHANGED <<chunk, view, phase, pass, slice>>

NextRow ==
  /\ Growing
  /\ cursor.u >= Edge
  /\ cursor' = [u |-> 0, v |-> cursor.v + 1]
  /\ UNCHANGED <<chunk, view, phase, pass, slice, mask, quads>>

SliceDone == phase = "grow" /\ cursor.v = Edge

NextSlice ==
  /\ SliceDone
  /\ slice + 1 < Edge
  /\ slice' = slice + 1
  /\ phase' = "mask"
  /\ UNCHANGED <<chunk, view, pass, mask, cursor, quads>>

NextPass ==
  /\ SliceDone
  /\ slice + 1 = Edge
  /\ pass < Len(Passes)
  /\ pass' = pass + 1
  /\ slice' = 0
  /\ phase' = "mask"
  /\ UNCHANGED <<chunk, view, mask, cursor, quads>>

Finish ==
  /\ SliceDone
  /\ slice + 1 = Edge
  /\ pass = Len(Passes)
  /\ phase' = "done"
  /\ UNCHANGED <<chunk, view, pass, slice, mask, cursor, quads>>

\* Mutant of Rebuild: the buffer of the record is not emptied.
RebuildOnto(c, b) ==
  /\ phase = "done"
  /\ chunk' = [chunk EXCEPT ![c] = b]
  /\ view' = FillView(CopyVoxels(chunk'))
  /\ phase' = "mask" /\ pass' = 1 /\ slice' = 0
  /\ UNCHANGED <<mask, cursor, quads>>

\* A voxel is edited and the mesh built again into its record.
Rebuild(c, b) ==
  /\ phase = "done"
  /\ chunk' = [chunk EXCEPT ![c] = b]
  /\ view' = FillView(CopyVoxels(chunk'))
  /\ phase' = "mask" /\ pass' = 1 /\ slice' = 0
  /\ quads' = <<>>
  /\ UNCHANGED <<mask, cursor>>

Next ==
  \/ BuildMask
  \/ SkipCell
  \/ EmitQuad
  \/ NextRow
  \/ NextSlice
  \/ NextPass
  \/ Finish
  \/ \E c \in Edited : \E b \in Blocks \ {chunk[c]} : Rebuild(c, b)

Spec == Init /\ [][Next]_vars

-----------------------------------------------------------------------------
(* Properties.                                                             *)

\* The members have the types of the code.
TypeOK ==
  /\ chunk \in [Cube -> Blocks]
  /\ view \in [Apron \X Apron \X Apron -> Blocks]
  /\ phase \in {"mask", "grow", "done"}
  /\ pass \in 1 .. Len(Passes)
  /\ slice \in Coords
  /\ mask \in [Plane -> {Empty, 255, 200, 150, 120}]
  /\ cursor \in [u : 0 .. Edge, v : 0 .. Edge]
  /\ quads \in Seq([pass : 1 .. Len(Passes), plane : 0 .. Edge, u : Coords, v : Coords,
                     w : 1 .. Edge, h : 1 .. Edge, ao : {255, 200, 150, 120}])

\* The quads that cover cell c of slice s of pass n.
Covering(n, s, c) ==
  {i \in DOMAIN quads :
     LET q == quads[i]
     IN q.pass = n /\ q.plane = PlaneOf(Passes[n], s) /\ c \in Rectangle(q.u, q.v, q.w, q.h)}

\* The build is past slice s of pass n.
Meshed(n, s) == phase = "done" \/ n < pass \/ (n = pass /\ s < slice)

\* Cell c of slice s of pass n is covered as its mask m asks: by one quad of
\* its occlusion if there is a face, by none if there is not.
CoveredOnce(n, s, c, m) ==
  IF m = Empty THEN Covering(n, s, c) = {}
  ELSE \E i \in DOMAIN quads : Covering(n, s, c) = {i} /\ quads[i].ao = m

\* However the rectangles fall, the quads of a finished slice are a
\* partition of its visible faces (greedy_mesher.cpp:205-245): the growth
\* skips none, emits none twice, and never merges two of different shade.
CellsMeshedOnce ==
  \A n \in DOMAIN Passes, s \in Coords :
    Meshed(n, s) =>
      LET m == MaskOf(view, Passes[n], s)
      IN \A c \in Plane : CoveredOnce(n, s, c, m[c])

\* A face of a voxel of the chunk, with y and z for each other: the block is
\* opaque, and what it looks at is not, or is outside the chunk.
MirrorFace(k, p) ==
  LET solid(pos) == pos \in Cube /\ Opaque(chunk[<<pos[1], pos[3], pos[2]>>])
  IN solid(k) /\ ~solid(Step(k, p.axis, p.dir))

\* What a finished mesh shows: the chunk with y and z exchanged
\* (meshing_abi.cpp:79), every face on the upper plane of its voxel,
\* whichever way it looks, and no downward face of the last layer
\* (greedy_mesher.cpp:172-174).
FacesDrawn ==
  phase = "done" =>
    /\ \A n \in DOMAIN Passes, s \in Coords, c \in Plane :
         (\E i \in DOMAIN quads :
            /\ quads[i].pass = n /\ quads[i].plane = s + 1
            /\ c \in Rectangle(quads[i].u, quads[i].v, quads[i].w, quads[i].h))
         <=> /\ MirrorFace(At(Passes[n], s, c), Passes[n])
             /\ Passes[n].dir = 1 \/ s + 1 < Edge
    /\ \A i \in DOMAIN quads : quads[i].plane > 0

\* The direction a triangle of a quad looks in along the quad's axis, by the
\* cross product of its first two sides.
Looks(q, t) ==
  LET i == Passes[q.pass].axis
      j == (i % 3) + 1
      k == (j % 3) + 1
      side(a) == LET b == Corners(q)[t[a]]
                     o == Corners(q)[t[1]]
                 IN [x \in 1 .. 3 |-> b[x] - o[x]]
  IN side(2)[j] * side(3)[k] - side(2)[k] * side(3)[j]

\* The triangles of the x faces are wound to look outward, those of the y and
\* z faces to look inward (greedy_mesher.cpp:104-121): the order of u and v is
\* not the same for the three axes, and the rule for flipping forgets it.
OnlyXFacesOutward ==
  \A i \in DOMAIN quads : \A t \in Triangles(quads[i]) :
    LET p == Passes[quads[i].pass]
    IN IF p.axis = 1 THEN Looks(quads[i], t) * p.dir > 0
       ELSE Looks(quads[i], t) * p.dir < 0

\* greedy_mesher.cpp:5-8: there is a quad "for every face whose voxel on the
\* +d side of the slice is opaque-solid AND the voxel on the -d side is NOT";
\* here for the voxels of the view, each face where its voxel ends.
VisibleFacesDrawn ==
  phase = "done" =>
    \A n \in DOMAIN Passes, s \in Coords, c \in Plane :
      LET p == Passes[n]
          k == At(p, s, c)
      IN Opaque(view[k]) /\ ~Opaque(view[Step(k, p.axis, p.dir)]) =>
           \E i \in DOMAIN quads :
             /\ quads[i].pass = n
             /\ quads[i].plane = IF p.dir = 1 THEN s + 1 ELSE s
             /\ c \in Rectangle(quads[i].u, quads[i].v, quads[i].w, quads[i].h)
=============================================================================
