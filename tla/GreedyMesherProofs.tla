------------------------ MODULE GreedyMesherProofs ------------------------
(***************************************************************************)
(* What holds of the mesher for chunks of any size: however the rectangles *)
(* fall, the quads of a finished slice are a partition of its faces.       *)
(***************************************************************************)
EXTENDS GreedyMesher, FiniteSetTheorems, WellFoundedInduction, TLAPS

-----------------------------------------------------------------------------
(* The passes, the shades and the sequence of quads.                       *)

Shades == {255, 200, 150, 120}

Quad == [pass : 1 .. Len(Passes), plane : 0 .. Edge, u : Coords, v : Coords,
         w : 1 .. Edge, h : 1 .. Edge, ao : Shades]

LEMMA PassFacts ==
  /\ Len(Passes) = 6 /\ DOMAIN Passes = 1 .. 6
  /\ \A n \in 1 .. 6 : Passes[n].dir \in {-1, 1}
BY DEF Passes

LEMMA EdgeFacts == Edge \in Nat /\ Edge > 0 /\ 0 \in Coords /\ Coords \subseteq Nat
BY MesherAssumption DEF Coords

LEMMA CellFacts ==
  ASSUME NEW c \in Plane
  PROVE  c[1] \in Coords /\ c[2] \in Coords /\ c = <<c[1], c[2]>>
BY DEF Plane

\* The planes of a pass tell its slices apart.
LEMMA PlaneFacts ==
  ASSUME NEW n \in 1 .. 6, NEW s \in Coords
  PROVE  /\ PlaneOf(Passes[n], s) \in 0 .. Edge
         /\ \A r \in Coords : PlaneOf(Passes[n], r) = PlaneOf(Passes[n], s) => r = s
BY PassFacts, EdgeFacts DEF PlaneOf, Coords

LEMMA AppendFacts ==
  ASSUME NEW S, NEW q \in Seq(S), NEW e \in S
  PROVE  /\ Append(q, e) \in Seq(S)
         /\ DOMAIN Append(q, e) = (DOMAIN q) \cup {Len(q) + 1}
         /\ Len(q) + 1 \notin DOMAIN q
         /\ \A i \in DOMAIN q : Append(q, e)[i] = q[i]
         /\ Append(q, e)[Len(q) + 1] = e
  OBVIOUS

\* A mask holds the shade of a face, or nothing.
LEMMA MaskType ==
  ASSUME NEW vw, NEW p, NEW s
  PROVE  /\ MaskOf(vw, p, s) \in [Plane -> {Empty} \cup Shades]
         /\ Empty \notin Shades
<1>1. \A out : CornerAo(vw, p, out) \in Shades
  BY DEF CornerAo, Shades
<1> QED BY <1>1 DEF MaskOf, Empty, Shades

-----------------------------------------------------------------------------
(* The growth.                                                             *)

\* Going on while the next size is allowed stops at one that is: the tails
\* y..n of the sizes, y allowed, are well-founded by inclusion.
LEMMA GrowthStops ==
  ASSUME NEW n \in Nat, NEW S, S \subseteq 1 .. n, 1 \in S
  PROVE  \E w \in S : w = n \/ w + 1 \notin S
<1> DEFINE U == {X \in SUBSET (1 .. n) : \E y \in S : X = y .. n}
<1>1. IsWellFoundedOn(StrictSubsetOrdering(1 .. n), SUBSET (1 .. n))
  <2>1. IsFiniteSet(1 .. n)
    BY FS_Interval
  <2> QED BY <2>1, FS_StrictSubsetOrderingWellFounded, FS_FiniteSubsetsOfFinite
<1>2. U \subseteq SUBSET (1 .. n) /\ 1 .. n \in U
  OBVIOUS
<1> HIDE DEF U
<1>3. PICK X \in U : \A Y \in U : ~ (<<Y, X>> \in StrictSubsetOrdering(1 .. n))
  BY <1>1, <1>2, WFMin
<1>4. PICK w \in S : X = w .. n
  BY <1>3 DEF U
<1>5. ASSUME w + 1 \in S PROVE FALSE
  <2>1. w \in 1 .. n /\ w + 1 \in 1 .. n
    BY <1>5
  <2>2. w \in w .. n /\ w \notin w + 1 .. n /\ w + 1 .. n \subseteq w .. n
    BY <2>1
  <2>3. w + 1 .. n \in U
    BY <1>5, <2>1 DEF U
  <2>4. <<w + 1 .. n, w .. n>> \in StrictSubsetOrdering(1 .. n)
    BY <2>2, <2>3, <1>2, <1>3, <1>4 DEF StrictSubsetOrdering
  <2> QED BY <2>3, <2>4, <1>3, <1>4
<1> QED BY <1>5

\* The width found is one the mask allows and the row has room for.
LEMMA WidthFacts ==
  ASSUME NEW m, NEW u \in Coords, NEW v \in Coords
  PROVE  GrowWidth(m, u, v) \in 1 .. Edge - u /\ Same(m, u, v, GrowWidth(m, u, v), 1)
<1> DEFINE W == {w \in 1 .. Edge - u : Same(m, u, v, w, 1)}
<1>1. Edge \in Nat /\ u \in Nat /\ v \in Nat /\ u < Edge
  BY EdgeFacts DEF Coords
<1>2. Rectangle(u, v, 1, 1) = {<<u, v>>}
  BY <1>1 DEF Rectangle
<1>3. 1 \in W
  BY <1>1, <1>2 DEF Same
<1>4. W \subseteq 1 .. Edge - u /\ Edge - u \in Nat
  BY <1>1
<1> HIDE DEF W
<1>5. PICK w \in W : w = Edge - u \/ w + 1 \notin W
  BY <1>3, <1>4, GrowthStops
<1>6. w \in 1 .. Edge - u /\ Same(m, u, v, w, 1)
  BY <1>5 DEF W
<1>7. w = Edge - u \/ ~Same(m, u, v, w + 1, 1)
  <2> SUFFICES ASSUME w # Edge - u, Same(m, u, v, w + 1, 1) PROVE FALSE
    OBVIOUS
  <2>1. w + 1 \in W
    BY <1>1, <1>6 DEF W
  <2> QED BY <2>1, <1>5, <1>6, <1>1
<1> QED BY <1>6, <1>7 DEF GrowWidth

\* The height found is one the mask allows and the slice has room for.
LEMMA HeightFacts ==
  ASSUME NEW m, NEW u \in Coords, NEW v \in Coords, NEW w, Same(m, u, v, w, 1)
  PROVE  GrowHeight(m, u, v, w) \in 1 .. Edge - v /\ Same(m, u, v, w, GrowHeight(m, u, v, w))
<1> DEFINE H == {h \in 1 .. Edge - v : Same(m, u, v, w, h)}
<1>1. Edge \in Nat /\ v \in Nat /\ v < Edge
  BY EdgeFacts DEF Coords
<1>2. 1 \in H
  BY <1>1
<1>3. H \subseteq 1 .. Edge - v /\ Edge - v \in Nat
  BY <1>1
<1> HIDE DEF H
<1>4. PICK h \in H : h = Edge - v \/ h + 1 \notin H
  BY <1>2, <1>3, GrowthStops
<1>5. h \in 1 .. Edge - v /\ Same(m, u, v, w, h)
  BY <1>4 DEF H
<1>6. h = Edge - v \/ ~Same(m, u, v, w, h + 1)
  <2> SUFFICES ASSUME h # Edge - v, Same(m, u, v, w, h + 1) PROVE FALSE
    OBVIOUS
  <2>1. h + 1 \in H
    BY <1>1, <1>5 DEF H
  <2> QED BY <2>1, <1>4, <1>5, <1>1
<1> QED BY <1>5, <1>6 DEF GrowHeight

-----------------------------------------------------------------------------
(* The invariant.                                                          *)

\* The members the growth reads and writes have their types.
GrowthTypeOK ==
  /\ phase \in {"mask", "grow", "done"}
  /\ pass \in 1 .. 6
  /\ slice \in Coords
  /\ mask \in [Plane -> {Empty} \cup Shades]
  /\ cursor \in [u : 0 .. Edge, v : 0 .. Edge]
  /\ quads \in Seq(Quad)

\* A slice the build has not come to has no quads.
UnmeshedBare ==
  phase # "done" =>
    \A n \in 1 .. 6, s \in Coords :
      ~Meshed(n, s) /\ ~(n = pass /\ s = slice /\ phase = "grow") =>
        \A c \in Plane : Covering(n, s, c) = {}

\* A cell of the mask that is still set is as it was and not covered; one
\* that is not set is covered as it should be.
MaskIsTheRest ==
  phase = "grow" =>
    \A c \in Plane :
      LET m == MaskOf(view, Passes[pass], slice)
      IN IF mask[c] = Empty THEN CoveredOnce(pass, slice, c, m[c])
         ELSE mask[c] = m[c] /\ Covering(pass, slice, c) = {}

\* Behind the cursor nothing is left.
BehindCursorEmpty ==
  phase = "grow" =>
    \A c \in Plane :
      c[2] < cursor.v \/ (c[2] = cursor.v /\ c[1] < cursor.u) => mask[c] = Empty

GrowthInv ==
  GrowthTypeOK /\ CellsMeshedOnce /\ UnmeshedBare /\ MaskIsTheRest /\ BehindCursorEmpty

\* Covering and CoveredOnce, of any sequence of quads.
CoverOf(qs, n, s, c) ==
  {i \in DOMAIN qs :
     /\ qs[i].pass = n /\ qs[i].plane = PlaneOf(Passes[n], s)
     /\ c \in Rectangle(qs[i].u, qs[i].v, qs[i].w, qs[i].h)}

OnceOf(qs, n, s, c, m) ==
  IF m = Empty THEN CoverOf(qs, n, s, c) = {}
  ELSE \E i \in DOMAIN qs : CoverOf(qs, n, s, c) = {i} /\ qs[i].ao = m

LEMMA CoverDef ==
  /\ \A n, s, c : Covering(n, s, c) = CoverOf(quads, n, s, c)
  /\ \A n, s, c, m : CoveredOnce(n, s, c, m) <=> OnceOf(quads, n, s, c, m)
BY DEF Covering, CoverOf, CoveredOnce, OnceOf

LEMMA CoverDefPrimed ==
  /\ \A n, s, c : Covering(n, s, c)' = CoverOf(quads', n, s, c)
  /\ \A n, s, c, m : CoveredOnce(n, s, c, m)' <=> OnceOf(quads', n, s, c, m)
BY DEF Covering, CoverOf, CoveredOnce, OnceOf

\* A quad appended covers the cells of its rectangle once more, and no other.
LEMMA AppendCovers ==
  ASSUME NEW qs \in Seq(Quad), NEW q \in Quad, NEW n, NEW s, NEW c
  PROVE  LET hit == /\ q.pass = n /\ q.plane = PlaneOf(Passes[n], s)
                    /\ c \in Rectangle(q.u, q.v, q.w, q.h)
         IN /\ hit => CoverOf(Append(qs, q), n, s, c) = CoverOf(qs, n, s, c) \cup {Len(qs) + 1}
            /\ ~hit => CoverOf(Append(qs, q), n, s, c) = CoverOf(qs, n, s, c)
BY AppendFacts DEF CoverOf

\* What is covered as it should be stays so when the new quad is elsewhere.
LEMMA AppendElsewhere ==
  ASSUME NEW qs \in Seq(Quad), NEW q \in Quad, NEW n, NEW s, NEW c, NEW m,
         ~(/\ q.pass = n /\ q.plane = PlaneOf(Passes[n], s)
           /\ c \in Rectangle(q.u, q.v, q.w, q.h))
  PROVE  OnceOf(Append(qs, q), n, s, c, m) <=> OnceOf(qs, n, s, c, m)
<1>1. CoverOf(Append(qs, q), n, s, c) = CoverOf(qs, n, s, c)
  BY AppendCovers
<1>2. CoverOf(qs, n, s, c) \subseteq DOMAIN qs
  BY DEF CoverOf
<1>3. /\ \A i \in DOMAIN qs : Append(qs, q)[i] = qs[i]
      /\ DOMAIN Append(qs, q) = (DOMAIN qs) \cup {Len(qs) + 1}
  BY AppendFacts
<1>4. ASSUME NEW i, CoverOf(qs, n, s, c) = {i} PROVE i \in DOMAIN qs
  BY <1>2, <1>4
<1> QED BY <1>1, <1>3, <1>4 DEF OnceOf

-----------------------------------------------------------------------------
(* The steps.                                                              *)

LEMMA InitGrowth == Init => GrowthInv
<1> SUFFICES ASSUME Init PROVE GrowthInv
  OBVIOUS
<1>1. GrowthTypeOK
  BY EdgeFacts, MaskType DEF Init, GrowthTypeOK, Origin
<1>2. CellsMeshedOnce
  BY PassFacts, EdgeFacts DEF Init, CellsMeshedOnce, Meshed, Coords
<1>3. UnmeshedBare
  BY DEF Init, UnmeshedBare, Covering
<1> QED BY <1>1, <1>2, <1>3 DEF Init, GrowthInv, MaskIsTheRest, BehindCursorEmpty

\* A slice's mask is built when the slice has no quads.
LEMMA BuildMaskStep == GrowthInv /\ BuildMask => GrowthInv'
<1> SUFFICES ASSUME GrowthInv, BuildMask PROVE GrowthInv'
  OBVIOUS
<1> USE DEF GrowthInv
<1>1. GrowthTypeOK'
  BY MaskType, EdgeFacts DEF BuildMask, GrowthTypeOK, Origin
<1>2. \A n, s : Meshed(n, s)' <=> Meshed(n, s)
  BY DEF BuildMask, Meshed
<1>3. CellsMeshedOnce'
  BY <1>2, CoverDef, CoverDefPrimed DEF BuildMask, CellsMeshedOnce
<1>4. UnmeshedBare'
  BY <1>2, CoverDef, CoverDefPrimed DEF BuildMask, UnmeshedBare
<1>5. MaskIsTheRest'
  <2>1. \A c \in Plane : Covering(pass, slice, c) = {}
    <3>1. ~Meshed(pass, slice)
      BY EdgeFacts DEF BuildMask, GrowthTypeOK, Meshed, Coords
    <3> QED BY <3>1 DEF UnmeshedBare, BuildMask, GrowthTypeOK
  <2>2. \A c \in Plane : CoverOf(quads', pass, slice, c) = {}
    BY <2>1, CoverDef DEF BuildMask
  <2>3. \A c : Covering(pass, slice, c)' = CoverOf(quads', pass, slice, c)
    BY CoverDefPrimed DEF BuildMask
  <2>4. \A c, m : CoveredOnce(pass, slice, c, m)' <=> OnceOf(quads', pass, slice, c, m)
    BY CoverDefPrimed DEF BuildMask
  <2>5. pass' = pass /\ slice' = slice /\ view' = view /\ mask' = MaskOf(view, Passes[pass], slice)
    BY DEF BuildMask
  <2> SUFFICES ASSUME NEW c \in Plane
               PROVE  LET m == MaskOf(view, Passes[pass], slice)
                      IN IF m[c] = Empty THEN OnceOf(quads', pass, slice, c, m[c])
                         ELSE CoverOf(quads', pass, slice, c) = {}
    BY <2>5, CoverDefPrimed DEF MaskIsTheRest
  <2> QED BY <2>2 DEF OnceOf
<1>6. BehindCursorEmpty'
  <2> SUFFICES ASSUME NEW c \in Plane PROVE ~(c[2] < 0 \/ (c[2] = 0 /\ c[1] < 0))
    BY DEF BuildMask, BehindCursorEmpty, Origin
  <2> QED BY EdgeFacts DEF Plane, Coords
<1> QED BY <1>1, <1>3, <1>4, <1>5, <1>6

\* Where only the cursor moves, the rest of the invariant stands.
LEMMA CursorStep ==
  ASSUME GrowthInv, UNCHANGED <<chunk, view, phase, pass, slice, mask, quads>>
  PROVE  CellsMeshedOnce' /\ UnmeshedBare' /\ MaskIsTheRest'
<1> USE DEF GrowthInv
<1>1. \A n, s : Meshed(n, s)' <=> Meshed(n, s)
  BY DEF Meshed
<1>2. CellsMeshedOnce'
  BY <1>1, CoverDef, CoverDefPrimed DEF CellsMeshedOnce
<1>3. UnmeshedBare'
  BY <1>1, CoverDef, CoverDefPrimed DEF UnmeshedBare
<1>4. MaskIsTheRest'
  BY CoverDef, CoverDefPrimed DEF MaskIsTheRest
<1> QED BY <1>2, <1>3, <1>4

LEMMA SkipCellStep == GrowthInv /\ SkipCell => GrowthInv'
<1> SUFFICES ASSUME GrowthInv, SkipCell PROVE GrowthInv'
  OBVIOUS
<1>1. CellsMeshedOnce' /\ UnmeshedBare' /\ MaskIsTheRest'
  BY CursorStep DEF SkipCell
<1>2. GrowthTypeOK'
  BY EdgeFacts DEF SkipCell, Growing, GrowthInv, GrowthTypeOK
<1>3. BehindCursorEmpty'
  <2>1. cursor.u \in Nat /\ cursor.v \in Nat /\ cursor'.u = cursor.u + 1 /\ cursor'.v = cursor.v
    BY EdgeFacts DEF SkipCell, GrowthInv, GrowthTypeOK
  <2> SUFFICES ASSUME NEW c \in Plane,
                      c[2] < cursor.v \/ (c[2] = cursor.v /\ c[1] < cursor.u + 1)
               PROVE  mask[c] = Empty
    BY <2>1 DEF SkipCell, BehindCursorEmpty
  <2>2. c[1] \in Nat /\ c[2] \in Nat /\ c = <<c[1], c[2]>>
    BY CellFacts, EdgeFacts
  <2>3. CASE c = <<cursor.u, cursor.v>>
    BY <2>3 DEF SkipCell
  <2>4. CASE c # <<cursor.u, cursor.v>>
    <3>1. c[2] < cursor.v \/ (c[2] = cursor.v /\ c[1] < cursor.u)
      BY <2>1, <2>2, <2>4
    <3> QED BY <3>1 DEF GrowthInv, BehindCursorEmpty, SkipCell, Growing
  <2> QED BY <2>3, <2>4
<1> QED BY <1>1, <1>2, <1>3 DEF GrowthInv

LEMMA NextRowStep == GrowthInv /\ NextRow => GrowthInv'
<1> SUFFICES ASSUME GrowthInv, NextRow PROVE GrowthInv'
  OBVIOUS
<1>1. CellsMeshedOnce' /\ UnmeshedBare' /\ MaskIsTheRest'
  BY CursorStep DEF NextRow
<1>2. GrowthTypeOK'
  BY EdgeFacts DEF NextRow, Growing, GrowthInv, GrowthTypeOK
<1>3. BehindCursorEmpty'
  <2>1. cursor.u \in Nat /\ cursor.v \in Nat /\ cursor'.u = 0 /\ cursor'.v = cursor.v + 1
    BY EdgeFacts DEF NextRow, GrowthInv, GrowthTypeOK
  <2> SUFFICES ASSUME NEW c \in Plane,
                      c[2] < cursor.v + 1 \/ (c[2] = cursor.v + 1 /\ c[1] < 0)
               PROVE  mask[c] = Empty
    BY <2>1 DEF NextRow, BehindCursorEmpty
  <2>2. c[1] \in Nat /\ c[2] \in Nat /\ c[1] < Edge /\ cursor.u >= Edge
    BY EdgeFacts DEF Plane, Coords, NextRow
  <2>3. c[2] < cursor.v \/ (c[2] = cursor.v /\ c[1] < cursor.u)
    BY <2>1, <2>2, EdgeFacts
  <2> QED BY <2>3 DEF GrowthInv, BehindCursorEmpty, NextRow, Growing
<1> QED BY <1>1, <1>2, <1>3 DEF GrowthInv

\* The quad an emission appends, and what it knows of the mask.
NewQuad ==
  LET w == GrowWidth(mask, cursor.u, cursor.v)
      h == GrowHeight(mask, cursor.u, cursor.v, w)
  IN [pass |-> pass, plane |-> PlaneOf(Passes[pass], slice),
      u |-> cursor.u, v |-> cursor.v, w |-> w, h |-> h, ao |-> mask[<<cursor.u, cursor.v>>]]

NewCells == Rectangle(NewQuad.u, NewQuad.v, NewQuad.w, NewQuad.h)

LEMMA EmitFacts ==
  ASSUME GrowthTypeOK, EmitQuad
  PROVE  /\ NewQuad \in Quad /\ quads' = Append(quads, NewQuad)
         /\ cursor.u \in Coords /\ cursor.v \in Coords /\ phase = "grow"
         /\ NewQuad.pass = pass /\ NewQuad.plane = PlaneOf(Passes[pass], slice)
         /\ NewQuad.u = cursor.u /\ NewQuad.v = cursor.v
         /\ NewQuad.w \in 1 .. Edge - cursor.u /\ NewQuad.h \in 1 .. Edge - cursor.v
         /\ NewQuad.ao \in Shades
         /\ \A c \in NewCells : mask[c] = NewQuad.ao
         /\ mask' = [c \in Plane |-> IF c \in NewCells THEN Empty ELSE mask[c]]
         /\ cursor' = [u |-> cursor.u + NewQuad.w, v |-> cursor.v]
         /\ UNCHANGED <<view, phase, pass, slice>>
<1> DEFINE u == cursor.u
           v == cursor.v
           w == GrowWidth(mask, u, v)
           h == GrowHeight(mask, u, v, w)
<1>1. /\ u \in Coords /\ v \in Coords /\ phase = "grow" /\ <<u, v>> \in Plane
      /\ cursor = [u |-> u, v |-> v]
  BY EdgeFacts DEF EmitQuad, Growing, GrowthTypeOK, Coords, Plane
<1>2. w \in 1 .. Edge - u /\ Same(mask, u, v, w, 1)
  BY <1>1, WidthFacts
<1>3. h \in 1 .. Edge - v /\ Same(mask, u, v, w, h)
  BY <1>1, <1>2, HeightFacts
<1>4. mask[<<u, v>>] \in Shades
  BY <1>1 DEF EmitQuad, GrowthTypeOK
<1>5. /\ quads' = Append(quads, [pass |-> pass, plane |-> PlaneOf(Passes[pass], slice),
                                 u |-> u, v |-> v, w |-> w, h |-> h, ao |-> mask[<<u, v>>]])
      /\ mask' = Cleared(mask, u, v, w, h)
      /\ cursor' = [cursor EXCEPT !.u = @ + w]
      /\ UNCHANGED <<view, phase, pass, slice>>
  BY DEF EmitQuad
<1>6. NewQuad = [pass |-> pass, plane |-> PlaneOf(Passes[pass], slice),
                 u |-> u, v |-> v, w |-> w, h |-> h, ao |-> mask[<<u, v>>]]
  BY DEF NewQuad
<1>7. PlaneOf(Passes[pass], slice) \in 0 .. Edge /\ pass \in 1 .. Len(Passes)
  BY PlaneFacts, PassFacts DEF GrowthTypeOK
<1>8. cursor' = [u |-> u + w, v |-> v]
  BY <1>1, <1>5
<1> HIDE DEF u, v, w, h
<1>9. w \in 1 .. Edge /\ h \in 1 .. Edge
  BY <1>1, <1>2, <1>3, EdgeFacts
<1>10. NewQuad \in Quad
  BY <1>1, <1>4, <1>6, <1>7, <1>9 DEF Quad
<1>11. NewCells = Rectangle(u, v, w, h)
  BY <1>6 DEF NewCells
<1>12. \A c \in NewCells : mask[c] = mask[<<u, v>>]
  BY <1>3, <1>11 DEF Same
<1>13. mask' = [c \in Plane |-> IF c \in NewCells THEN Empty ELSE mask[c]]
  BY <1>5, <1>11 DEF Cleared
<1>14. /\ NewQuad.pass = pass /\ NewQuad.plane = PlaneOf(Passes[pass], slice)
       /\ NewQuad.u = u /\ NewQuad.v = v /\ NewQuad.w = w /\ NewQuad.h = h
       /\ NewQuad.ao = mask[<<u, v>>]
  BY <1>6
<1>15. u = cursor.u /\ v = cursor.v
  BY DEF u, v
<1> HIDE DEF NewQuad, NewCells
<1>16. quads' = Append(quads, NewQuad)
  BY <1>5, <1>6
<1>17. /\ NewQuad.w \in 1 .. Edge - cursor.u /\ NewQuad.h \in 1 .. Edge - cursor.v
       /\ NewQuad.ao \in Shades /\ \A c \in NewCells : mask[c] = NewQuad.ao
  BY <1>2, <1>3, <1>4, <1>12, <1>14, <1>15
<1>18. cursor' = [u |-> cursor.u + NewQuad.w, v |-> cursor.v]
  BY <1>8, <1>14, <1>15
<1>19. cursor.u \in Coords /\ cursor.v \in Coords /\ phase = "grow"
  BY <1>1, <1>15
<1>20. NewQuad.u = cursor.u /\ NewQuad.v = cursor.v
  BY <1>14, <1>15
<1>21. UNCHANGED <<view, phase, pass, slice>>
  BY <1>5
<1> QED BY <1>10, <1>13, <1>14, <1>16, <1>17, <1>18, <1>19, <1>20, <1>21

\* An emission covers cells of the slice at hand, and those only.
LEMMA EmitCovers ==
  ASSUME GrowthTypeOK, EmitQuad, NEW n \in 1 .. 6, NEW s \in Coords, NEW c
  PROVE  LET hit == n = pass /\ s = slice /\ c \in NewCells
         IN /\ hit => CoverOf(quads', n, s, c) = CoverOf(quads, n, s, c) \cup {Len(quads) + 1}
            /\ ~hit => CoverOf(quads', n, s, c) = CoverOf(quads, n, s, c)
            /\ ~hit => \A m : OnceOf(quads', n, s, c, m) <=> OnceOf(quads, n, s, c, m)
<1>1. quads \in Seq(Quad) /\ pass \in 1 .. 6 /\ slice \in Coords
  BY DEF GrowthTypeOK
<1>2. /\ NewQuad \in Quad /\ quads' = Append(quads, NewQuad)
      /\ NewQuad.pass = pass /\ NewQuad.plane = PlaneOf(Passes[pass], slice)
  BY EmitFacts
<1>3. (/\ NewQuad.pass = n /\ NewQuad.plane = PlaneOf(Passes[n], s)
       /\ c \in Rectangle(NewQuad.u, NewQuad.v, NewQuad.w, NewQuad.h))
      <=> (n = pass /\ s = slice /\ c \in NewCells)
  BY <1>1, <1>2, PlaneFacts DEF NewCells
<1> HIDE DEF NewQuad, NewCells
<1>4. CASE n = pass /\ s = slice /\ c \in NewCells
  BY <1>1, <1>2, <1>3, <1>4, AppendCovers
<1>5. CASE ~(n = pass /\ s = slice /\ c \in NewCells)
  BY <1>1, <1>2, <1>3, <1>5, AppendCovers, AppendElsewhere
<1> QED BY <1>4, <1>5

LEMMA EmitQuadStep == GrowthInv /\ EmitQuad => GrowthInv'
<1> SUFFICES ASSUME GrowthInv, EmitQuad PROVE GrowthInv'
  OBVIOUS
<1>0. GrowthTypeOK /\ CellsMeshedOnce /\ UnmeshedBare /\ MaskIsTheRest /\ BehindCursorEmpty
  BY DEF GrowthInv
<1>1. /\ NewQuad \in Quad /\ quads' = Append(quads, NewQuad)
      /\ cursor.u \in Coords /\ cursor.v \in Coords /\ phase = "grow"
      /\ NewQuad.u = cursor.u /\ NewQuad.v = cursor.v
      /\ NewQuad.w \in 1 .. Edge - cursor.u /\ NewQuad.h \in 1 .. Edge - cursor.v
      /\ NewQuad.ao \in Shades
      /\ \A c \in NewCells : mask[c] = NewQuad.ao
      /\ mask' = [c \in Plane |-> IF c \in NewCells THEN Empty ELSE mask[c]]
      /\ cursor' = [u |-> cursor.u + NewQuad.w, v |-> cursor.v]
      /\ UNCHANGED <<view, phase, pass, slice>>
  BY <1>0, EmitFacts
<1>2. pass \in 1 .. 6 /\ slice \in Coords /\ quads \in Seq(Quad)
  BY <1>0 DEF GrowthTypeOK
<1>3. \A n, s : Meshed(n, s)' <=> Meshed(n, s)
  BY <1>1 DEF Meshed
<1>4. ~Meshed(pass, slice)
  BY <1>1, <1>2, EdgeFacts DEF Meshed, Coords
<1>5. /\ quads' \in Seq(Quad) /\ Len(quads) + 1 \in DOMAIN quads'
      /\ quads'[Len(quads) + 1] = NewQuad
  BY <1>1, <1>2, AppendFacts
<1>6. \A n \in 1 .. 6, s \in Coords, c \in Plane :
        LET hit == n = pass /\ s = slice /\ c \in NewCells
        IN /\ hit => CoverOf(quads', n, s, c) = CoverOf(quads, n, s, c) \cup {Len(quads) + 1}
           /\ ~hit => CoverOf(quads', n, s, c) = CoverOf(quads, n, s, c)
           /\ ~hit => \A m : OnceOf(quads', n, s, c, m) <=> OnceOf(quads, n, s, c, m)
  BY <1>0, EmitCovers
<1> HIDE DEF NewQuad, NewCells
<1>7. GrowthTypeOK'
  BY <1>0, <1>1, <1>5, EdgeFacts DEF GrowthTypeOK, Coords
<1>8. CellsMeshedOnce'
  <2> SUFFICES ASSUME NEW n \in 1 .. 6, NEW s \in Coords, Meshed(n, s), NEW c \in Plane
               PROVE  OnceOf(quads', n, s, c, MaskOf(view, Passes[n], s)[c])
    BY <1>1, <1>3, CoverDefPrimed, PassFacts DEF CellsMeshedOnce
  <2>1. ~(n = pass /\ s = slice)
    BY <1>4
  <2>2. OnceOf(quads, n, s, c, MaskOf(view, Passes[n], s)[c])
    BY <1>0, CoverDef, PassFacts DEF CellsMeshedOnce
  <2> QED BY <2>1, <2>2, <1>6
<1>9. UnmeshedBare'
  <2> SUFFICES ASSUME NEW n \in 1 .. 6, NEW s \in Coords, ~Meshed(n, s),
                      ~(n = pass /\ s = slice), NEW c \in Plane
               PROVE  CoverOf(quads', n, s, c) = {}
    BY <1>1, <1>3, CoverDefPrimed DEF UnmeshedBare
  <2>1. CoverOf(quads, n, s, c) = {}
    BY <1>0, <1>1, CoverDef DEF UnmeshedBare
  <2> QED BY <2>1, <1>6
<1>10. MaskIsTheRest'
  <2> DEFINE m == MaskOf(view, Passes[pass], slice)
  <2> SUFFICES ASSUME NEW c \in Plane
               PROVE  IF mask'[c] = Empty THEN OnceOf(quads', pass, slice, c, m[c])
                      ELSE mask'[c] = m[c] /\ CoverOf(quads', pass, slice, c) = {}
    BY <1>1, CoverDefPrimed DEF MaskIsTheRest
  <2> HIDE DEF m
  <2>1. IF mask[c] = Empty THEN OnceOf(quads, pass, slice, c, m[c])
        ELSE mask[c] = m[c] /\ CoverOf(quads, pass, slice, c) = {}
    BY <1>0, <1>1, CoverDef DEF MaskIsTheRest, m
  <2>2. CASE c \in NewCells
    <3>1. mask[c] = NewQuad.ao /\ mask[c] # Empty /\ mask'[c] = Empty
      BY <1>1, <2>2, MaskType
    <3>2. m[c] = NewQuad.ao /\ CoverOf(quads, pass, slice, c) = {}
      BY <3>1, <2>1
    <3>3. CoverOf(quads', pass, slice, c) = {Len(quads) + 1}
      BY <3>2, <2>2, <1>2, <1>6
    <3>4. OnceOf(quads', pass, slice, c, m[c])
      BY <3>1, <3>2, <3>3, <1>5 DEF OnceOf
    <3> QED BY <3>1, <3>4
  <2>3. CASE c \notin NewCells
    <3>1. mask'[c] = mask[c]
      BY <1>1, <2>3
    <3>2. /\ CoverOf(quads', pass, slice, c) = CoverOf(quads, pass, slice, c)
          /\ OnceOf(quads', pass, slice, c, m[c]) <=> OnceOf(quads, pass, slice, c, m[c])
      BY <2>3, <1>2, <1>6
    <3> QED BY <2>1, <3>1, <3>2
  <2> QED BY <2>2, <2>3
<1>11. BehindCursorEmpty'
  <2>1. cursor.u \in Nat /\ cursor.v \in Nat /\ NewQuad.w \in Nat /\ NewQuad.h \in Nat /\ NewQuad.h > 0
    BY <1>1, EdgeFacts DEF Coords
  <2>2. cursor'.u = cursor.u + NewQuad.w /\ cursor'.v = cursor.v
    BY <1>1
  <2> SUFFICES ASSUME NEW c \in Plane,
                      c[2] < cursor.v \/ (c[2] = cursor.v /\ c[1] < cursor.u + NewQuad.w)
               PROVE  mask'[c] = Empty
    BY <2>2 DEF BehindCursorEmpty
  <2>3. c[1] \in Nat /\ c[2] \in Nat /\ c = <<c[1], c[2]>>
    BY CellFacts, EdgeFacts
  <2>4. CASE c[2] < cursor.v \/ (c[2] = cursor.v /\ c[1] < cursor.u)
    <3>1. mask[c] = Empty
      BY <2>4, <1>0, <1>1 DEF BehindCursorEmpty
    <3> QED BY <3>1, <1>1
  <2>5. CASE c[2] = cursor.v /\ cursor.u <= c[1] /\ c[1] < cursor.u + NewQuad.w
    <3>1. c[1] \in cursor.u .. cursor.u + NewQuad.w - 1
      BY <2>1, <2>3, <2>5
    <3>2. c[2] \in cursor.v .. cursor.v + NewQuad.h - 1
      BY <2>1, <2>3, <2>5
    <3>3. c \in NewCells
      BY <3>1, <3>2, <2>3, <1>1 DEF NewCells, Rectangle
    <3> QED BY <3>3, <1>1
  <2> QED BY <2>1, <2>3, <2>4, <2>5
<1> QED BY <1>7, <1>8, <1>9, <1>10, <1>11 DEF GrowthInv

\* When the cursor has left the slice, all its cells are covered.
LEMMA SliceCovered ==
  ASSUME GrowthInv, SliceDone, NEW c \in Plane
  PROVE  CoveredOnce(pass, slice, c, MaskOf(view, Passes[pass], slice)[c])
<1>1. c[2] < cursor.v
  BY CellFacts, EdgeFacts DEF SliceDone, Coords
<1>2. mask[c] = Empty
  BY <1>1 DEF SliceDone, GrowthInv, BehindCursorEmpty
<1> QED BY <1>2 DEF SliceDone, GrowthInv, MaskIsTheRest

\* A step that goes on from a finished slice keeps the invariant when it adds
\* to the finished slices that one and no other.
LEMMA AdvanceStep ==
  ASSUME GrowthInv, SliceDone, UNCHANGED <<view, quads>>, GrowthTypeOK', phase' # "grow",
         \A n \in 1 .. 6, s \in Coords :
           Meshed(n, s)' <=> Meshed(n, s) \/ (n = pass /\ s = slice)
  PROVE  GrowthInv'
<1> USE DEF GrowthInv
<1>1. CellsMeshedOnce'
  <2> SUFFICES ASSUME NEW n \in 1 .. 6, NEW s \in Coords,
                      Meshed(n, s) \/ (n = pass /\ s = slice), NEW c \in Plane
               PROVE  CoveredOnce(n, s, c, MaskOf(view, Passes[n], s)[c])
    BY CoverDef, CoverDefPrimed, PassFacts DEF CellsMeshedOnce
  <2> QED BY SliceCovered, PassFacts DEF CellsMeshedOnce
<1>2. UnmeshedBare'
  <2> SUFFICES ASSUME phase' # "done", NEW n \in 1 .. 6, NEW s \in Coords,
                      ~Meshed(n, s), ~(n = pass /\ s = slice), NEW c \in Plane
               PROVE  Covering(n, s, c) = {}
    BY CoverDef, CoverDefPrimed DEF UnmeshedBare
  <2> QED BY DEF UnmeshedBare, SliceDone
<1> QED BY <1>1, <1>2 DEF MaskIsTheRest, BehindCursorEmpty

LEMMA NextSliceStep == GrowthInv /\ NextSlice => GrowthInv'
<1> SUFFICES ASSUME GrowthInv, NextSlice PROVE GrowthInv'
  OBVIOUS
<1>1. GrowthTypeOK'
  BY EdgeFacts DEF NextSlice, GrowthInv, GrowthTypeOK, Coords
<1>2. \A n \in 1 .. 6, s \in Coords :
        Meshed(n, s)' <=> Meshed(n, s) \/ (n = pass /\ s = slice)
  BY EdgeFacts DEF NextSlice, SliceDone, GrowthInv, GrowthTypeOK, Coords, Meshed
<1> QED BY <1>1, <1>2, AdvanceStep DEF NextSlice

LEMMA NextPassStep == GrowthInv /\ NextPass => GrowthInv'
<1> SUFFICES ASSUME GrowthInv, NextPass PROVE GrowthInv'
  OBVIOUS
<1>1. GrowthTypeOK'
  BY EdgeFacts, PassFacts DEF NextPass, GrowthInv, GrowthTypeOK
<1>2. \A n \in 1 .. 6, s \in Coords :
        Meshed(n, s)' <=> Meshed(n, s) \/ (n = pass /\ s = slice)
  BY EdgeFacts DEF NextPass, SliceDone, GrowthInv, GrowthTypeOK, Coords, Meshed
<1> QED BY <1>1, <1>2, AdvanceStep DEF NextPass

LEMMA FinishStep == GrowthInv /\ Finish => GrowthInv'
<1> SUFFICES ASSUME GrowthInv, Finish PROVE GrowthInv'
  OBVIOUS
<1>1. GrowthTypeOK'
  BY DEF Finish, GrowthInv, GrowthTypeOK
<1>2. \A n \in 1 .. 6, s \in Coords :
        Meshed(n, s)' <=> Meshed(n, s) \/ (n = pass /\ s = slice)
  BY EdgeFacts, PassFacts DEF Finish, SliceDone, GrowthInv, GrowthTypeOK, Coords, Meshed
<1> QED BY <1>1, <1>2, AdvanceStep DEF Finish

\* A new build begins with no quads.
LEMMA RebuildStep ==
  ASSUME GrowthInv, NEW c, NEW b, Rebuild(c, b)
  PROVE  GrowthInv'
<1>1. quads' = <<>> /\ phase' = "mask" /\ pass' = 1 /\ slice' = 0
  BY DEF Rebuild
<1>2. GrowthTypeOK'
  BY EdgeFacts DEF Rebuild, GrowthInv, GrowthTypeOK
<1>3. CellsMeshedOnce'
  BY <1>1, PassFacts, EdgeFacts DEF CellsMeshedOnce, Meshed, Coords
<1>4. UnmeshedBare'
  BY <1>1, CoverDefPrimed DEF UnmeshedBare, CoverOf
<1> QED BY <1>1, <1>2, <1>3, <1>4 DEF GrowthInv, MaskIsTheRest, BehindCursorEmpty

\* The invariant of the growth is inductive.
THEOREM GrowthInvariant == Spec => []GrowthInv
<1>1. ASSUME GrowthInv, [Next]_vars PROVE GrowthInv'
  <2> USE <1>1
  <2>1. CASE BuildMask
    BY <2>1, BuildMaskStep
  <2>2. CASE SkipCell
    BY <2>2, SkipCellStep
  <2>3. CASE EmitQuad
    BY <2>3, EmitQuadStep
  <2>4. CASE NextRow
    BY <2>4, NextRowStep
  <2>5. CASE NextSlice
    BY <2>5, NextSliceStep
  <2>6. CASE NextPass
    BY <2>6, NextPassStep
  <2>7. CASE Finish
    BY <2>7, FinishStep
  <2>8. CASE \E c \in Edited : \E b \in Blocks \ {chunk[c]} : Rebuild(c, b)
    BY <2>8, RebuildStep
  <2>9. CASE UNCHANGED vars
    <3>1. CellsMeshedOnce' /\ UnmeshedBare' /\ MaskIsTheRest'
      BY <2>9, CursorStep DEF vars
    <3> QED BY <2>9, <3>1 DEF vars, GrowthInv, GrowthTypeOK, BehindCursorEmpty
  <2> QED BY <2>1, <2>2, <2>3, <2>4, <2>5, <2>6, <2>7, <2>8, <2>9 DEF Next
<1> QED BY <1>1, InitGrowth, PTL DEF Spec

\* However the rectangles fall, the quads of every finished slice are a
\* partition of its visible faces, each of the shade of its cells
\* (greedy_mesher.cpp:205-245).
THEOREM PartitionIsInvariant == Spec => []CellsMeshedOnce
<1>1. GrowthInv => CellsMeshedOnce
  BY DEF GrowthInv
<1> QED BY <1>1, GrowthInvariant, PTL

-----------------------------------------------------------------------------
(* The winding of the quads.                                               *)

\* A quad has an area.
LEMMA QuadFacts ==
  ASSUME NEW q \in Quad
  PROVE  /\ q.plane \in Int /\ q.u \in Nat /\ q.v \in Nat /\ q.w \in Nat /\ q.h \in Nat
         /\ q.w > 0 /\ q.h > 0 /\ q.pass \in 1 .. 6
<1>1. /\ q.pass \in 1 .. Len(Passes) /\ q.plane \in 0 .. Edge /\ q.u \in Coords
      /\ q.v \in Coords /\ q.w \in 1 .. Edge /\ q.h \in 1 .. Edge
  BY DEF Quad
<1>2. Len(Passes) = 6 /\ Edge \in Nat
  BY PassFacts, EdgeFacts
<1>3. q.u \in Nat /\ q.v \in Nat
  BY <1>1, EdgeFacts
<1>4. q.pass \in 1 .. 6
  BY <1>1, <1>2
<1>5. q.w \in Nat /\ q.h \in Nat /\ q.w > 0 /\ q.h > 0 /\ q.plane \in Int
  BY <1>1, <1>2
<1> QED BY <1>3, <1>4, <1>5

LEMMA AreaPositive ==
  ASSUME NEW w \in Nat, NEW h \in Nat, w > 0, h > 0
  PROVE  w * h > 0 /\ h * w > 0
OBVIOUS

\* The corners of a quad on an x plane, a y plane and a z plane.
LEMMA CornersAre ==
  ASSUME NEW q \in Quad
  PROVE  /\ q.pass \in {1, 2} =>
              Corners(q) = << <<q.plane, q.v, q.u>>, <<q.plane, q.v, q.u + q.w>>,
                              <<q.plane, q.v + q.h, q.u + q.w>>, <<q.plane, q.v + q.h, q.u>> >>
         /\ q.pass \in {3, 4} =>
              Corners(q) = << <<q.u, q.plane, q.v>>, <<q.u + q.w, q.plane, q.v>>,
                              <<q.u + q.w, q.plane, q.v + q.h>>, <<q.u, q.plane, q.v + q.h>> >>
         /\ q.pass \in {5, 6} =>
              Corners(q) = << <<q.u, q.v, q.plane>>, <<q.u + q.w, q.v, q.plane>>,
                              <<q.u + q.w, q.v + q.h, q.plane>>, <<q.u, q.v + q.h, q.plane>> >>
<1>1. CASE q.pass \in {1, 2}
  <2>1. Passes[q.pass].axis = 1 /\ Passes[q.pass].u = 3 /\ Passes[q.pass].v = 2
    BY <1>1 DEF Passes
  <2> QED BY <1>1, <2>1 DEF Corners, At
<1>2. CASE q.pass \in {3, 4}
  <2>1. Passes[q.pass].axis = 2 /\ Passes[q.pass].u = 1 /\ Passes[q.pass].v = 3
    BY <1>2 DEF Passes
  <2> QED BY <1>2, <2>1 DEF Corners, At
<1>3. CASE q.pass \in {5, 6}
  <2>1. Passes[q.pass].axis = 3 /\ Passes[q.pass].u = 1 /\ Passes[q.pass].v = 2
    BY <1>3 DEF Passes
  <2> QED BY <1>3, <2>1 DEF Corners, At
<1> QED BY <1>1, <1>2, <1>3, PassFacts DEF Quad

\* The cross product of the sides of a triangle is the area of the quad, up
\* to its sign.
LEMMA LooksAre ==
  ASSUME NEW q \in Quad, NEW t \in Triangles(q)
  PROVE  LET p == Passes[q.pass]
         IN IF p.axis = 1 THEN Looks(q, t) * p.dir > 0 ELSE Looks(q, t) * p.dir < 0
<1>1. /\ q.plane \in Int /\ q.u \in Nat /\ q.v \in Nat /\ q.w \in Nat /\ q.h \in Nat
      /\ q.w > 0 /\ q.h > 0 /\ q.pass \in 1 .. 6
  BY QuadFacts
<1>2. q.w * q.h > 0 /\ q.h * q.w > 0
  BY <1>1, AreaPositive
<1>3. CASE q.pass = 1
  <2>1. t \in {<<1, 2, 3>>, <<1, 3, 4>>} /\ Passes[1].axis = 1 /\ Passes[1].dir = -1
    BY <1>3 DEF Triangles, Flipped, Passes
  <2>2. Corners(q) = << <<q.plane, q.v, q.u>>, <<q.plane, q.v, q.u + q.w>>,
                        <<q.plane, q.v + q.h, q.u + q.w>>, <<q.plane, q.v + q.h, q.u>> >>
    BY <1>3, CornersAre
  <2>3. (1 % 3) + 1 = 2 /\ (2 % 3) + 1 = 3
    OBVIOUS
  <2>4. Looks(q, t) = 0 - q.w * q.h
    BY <1>1, <1>3, <2>1, <2>2, <2>3 DEF Looks
  <2> QED BY <1>1, <1>2, <1>3, <2>1, <2>4
<1>4. CASE q.pass = 2
  <2>1. t \in {<<1, 3, 2>>, <<1, 4, 3>>} /\ Passes[2].axis = 1 /\ Passes[2].dir = 1
    BY <1>4 DEF Triangles, Flipped, Passes
  <2>2. Corners(q) = << <<q.plane, q.v, q.u>>, <<q.plane, q.v, q.u + q.w>>,
                        <<q.plane, q.v + q.h, q.u + q.w>>, <<q.plane, q.v + q.h, q.u>> >>
    BY <1>4, CornersAre
  <2>3. (1 % 3) + 1 = 2 /\ (2 % 3) + 1 = 3
    OBVIOUS
  <2>4. Looks(q, t) = q.w * q.h
    BY <1>1, <1>4, <2>1, <2>2, <2>3 DEF Looks
  <2> QED BY <1>1, <1>2, <1>4, <2>1, <2>4
<1>5. CASE q.pass = 3
  <2>1. t \in {<<1, 3, 2>>, <<1, 4, 3>>} /\ Passes[3].axis = 2 /\ Passes[3].dir = -1
    BY <1>5 DEF Triangles, Flipped, Passes
  <2>2. Corners(q) = << <<q.u, q.plane, q.v>>, <<q.u + q.w, q.plane, q.v>>,
                        <<q.u + q.w, q.plane, q.v + q.h>>, <<q.u, q.plane, q.v + q.h>> >>
    BY <1>5, CornersAre
  <2>3. (2 % 3) + 1 = 3 /\ (3 % 3) + 1 = 1
    OBVIOUS
  <2>4. Looks(q, t) = q.w * q.h
    BY <1>1, <1>5, <2>1, <2>2, <2>3 DEF Looks
  <2> QED BY <1>1, <1>2, <1>5, <2>1, <2>4
<1>6. CASE q.pass = 4
  <2>1. t \in {<<1, 2, 3>>, <<1, 3, 4>>} /\ Passes[4].axis = 2 /\ Passes[4].dir = 1
    BY <1>6 DEF Triangles, Flipped, Passes
  <2>2. Corners(q) = << <<q.u, q.plane, q.v>>, <<q.u + q.w, q.plane, q.v>>,
                        <<q.u + q.w, q.plane, q.v + q.h>>, <<q.u, q.plane, q.v + q.h>> >>
    BY <1>6, CornersAre
  <2>3. (2 % 3) + 1 = 3 /\ (3 % 3) + 1 = 1
    OBVIOUS
  <2>4. Looks(q, t) = 0 - q.w * q.h
    BY <1>1, <1>6, <2>1, <2>2, <2>3 DEF Looks
  <2> QED BY <1>1, <1>2, <1>6, <2>1, <2>4
<1>7. CASE q.pass = 5
  <2>1. t \in {<<1, 2, 3>>, <<1, 3, 4>>} /\ Passes[5].axis = 3 /\ Passes[5].dir = -1
    BY <1>7 DEF Triangles, Flipped, Passes
  <2>2. Corners(q) = << <<q.u, q.v, q.plane>>, <<q.u + q.w, q.v, q.plane>>,
                        <<q.u + q.w, q.v + q.h, q.plane>>, <<q.u, q.v + q.h, q.plane>> >>
    BY <1>7, CornersAre
  <2>3. (3 % 3) + 1 = 1 /\ (1 % 3) + 1 = 2
    OBVIOUS
  <2>4. Looks(q, t) = q.w * q.h
    BY <1>1, <1>7, <2>1, <2>2, <2>3 DEF Looks
  <2> QED BY <1>1, <1>2, <1>7, <2>1, <2>4
<1>8. CASE q.pass = 6
  <2>1. t \in {<<1, 3, 2>>, <<1, 4, 3>>} /\ Passes[6].axis = 3 /\ Passes[6].dir = 1
    BY <1>8 DEF Triangles, Flipped, Passes
  <2>2. Corners(q) = << <<q.u, q.v, q.plane>>, <<q.u + q.w, q.v, q.plane>>,
                        <<q.u + q.w, q.v + q.h, q.plane>>, <<q.u, q.v + q.h, q.plane>> >>
    BY <1>8, CornersAre
  <2>3. (3 % 3) + 1 = 1 /\ (1 % 3) + 1 = 2
    OBVIOUS
  <2>4. Looks(q, t) = 0 - q.w * q.h
    BY <1>1, <1>8, <2>1, <2>2, <2>3 DEF Looks
  <2> QED BY <1>1, <1>2, <1>8, <2>1, <2>4
<1> QED BY <1>1, <1>3, <1>4, <1>5, <1>6, <1>7, <1>8

\* The triangles of the x faces look outward, those of the y and z faces
\* inward, wherever the growth put the quad (greedy_mesher.cpp:104-121).
THEOREM WindingIsInvariant == Spec => []OnlyXFacesOutward
<1>1. GrowthInv => OnlyXFacesOutward
  <2> SUFFICES ASSUME GrowthInv, NEW i \in DOMAIN quads
               PROVE  \A t \in Triangles(quads[i]) :
                        LET p == Passes[quads[i].pass]
                        IN IF p.axis = 1 THEN Looks(quads[i], t) * p.dir > 0
                           ELSE Looks(quads[i], t) * p.dir < 0
    BY DEF OnlyXFacesOutward
  <2>1. quads[i] \in Quad
    BY DEF GrowthInv, GrowthTypeOK
  <2> QED BY <2>1, LooksAre
<1> QED BY <1>1, GrowthInvariant, PTL

-----------------------------------------------------------------------------
(* The order of the voxels in the buffer.                                  *)

LEMMA TimesGrows ==
  ASSUME NEW e \in Nat, NEW a \in Int, NEW b \in Int, a <= b
  PROVE  a * e <= b * e
OBVIOUS

LEMMA DivMod ==
  ASSUME NEW e \in Nat, e > 0, NEW x \in Nat
  PROVE  x \div e \in Int /\ x % e \in 0 .. e - 1 /\ x = (x \div e) * e + (x % e)
OBVIOUS

LEMMA QuotientUnique ==
  ASSUME NEW e \in Nat, e > 0, NEW p \in Int, NEW q \in Int,
         NEW r \in 0 .. e - 1, NEW s \in 0 .. e - 1, q * e + r = p * e + s
  PROVE  q = p /\ r = s
<1>1. ASSUME q < p PROVE FALSE
  <2>1. (q + 1) * e <= p * e
    BY <1>1, TimesGrows
  <2>2. (q + 1) * e = q * e + e
    OBVIOUS
  <2> QED BY <2>1, <2>2
<1>2. ASSUME p < q PROVE FALSE
  <2>1. (p + 1) * e <= q * e
    BY <1>2, TimesGrows
  <2>2. (p + 1) * e = p * e + e
    OBVIOUS
  <2> QED BY <2>1, <2>2
<1>3. q = p
  BY <1>1, <1>2
<1> QED BY <1>3

LEMMA DivOf ==
  ASSUME NEW e \in Nat, e > 0, NEW q \in Nat, NEW r \in 0 .. e - 1
  PROVE  q * e + r \in Nat /\ (q * e + r) \div e = q /\ (q * e + r) % e = r
<1> DEFINE x == q * e + r
<1>1. x \in Nat /\ x = q * e + r
  OBVIOUS
<1> HIDE DEF x
<1>2. x \div e \in Int /\ x % e \in 0 .. e - 1 /\ x = (x \div e) * e + (x % e)
  BY <1>1, DivMod
<1>3. x \div e = q /\ x % e = r
  BY <1>1, <1>2, QuotientUnique
<1> QED BY <1>1, <1>3 DEF x

\* The index (d * e + b) * e + a of a cube of edge e gives a, b and d back.
LEMMA CubeIndex ==
  ASSUME NEW e \in Nat, e > 0,
         NEW a \in 0 .. e - 1, NEW b \in 0 .. e - 1, NEW d \in 0 .. e - 1
  PROVE  LET i == (d * e + b) * e + a
         IN /\ i \in 0 .. e * e * e - 1
            /\ i % e = a /\ (i \div e) % e = b /\ i \div (e * e) = d
<1> DEFINE j == d * e + b
           i == j * e + a
<1>1. j \in Nat /\ j \div e = d /\ j % e = b
  BY DivOf
<1> HIDE DEF j
<1>2. i \in Nat /\ i \div e = j /\ i % e = a
  BY <1>1, DivOf
<1>3. b * e + a \in 0 .. e * e - 1
  <2>1. b * e <= (e - 1) * e
    BY TimesGrows
  <2>2. (e - 1) * e = e * e - e /\ b * e \in Nat /\ e * e \in Nat
    OBVIOUS
  <2> QED BY <2>1, <2>2
<1>4. i = d * (e * e) + (b * e + a)
  <2>1. (d * e + b) * e = d * (e * e) + b * e
    OBVIOUS
  <2> QED BY <2>1 DEF j
<1>5. e * e \in Nat /\ e * e > 0
  OBVIOUS
<1> HIDE DEF i
<1>6. i \div (e * e) = d
  BY <1>3, <1>4, <1>5, DivOf
<1>7. i <= e * e * e - 1
  <2>1. d * (e * e) <= (e - 1) * (e * e)
    BY <1>5, TimesGrows
  <2>2. (e - 1) * (e * e) = e * e * e - e * e
    OBVIOUS
  <2>3. d * (e * e) \in Int /\ e * e * e \in Int
    OBVIOUS
  <2> QED BY <2>1, <2>2, <2>3, <1>3, <1>4, <1>5
<1>8. i \in 0 .. e * e * e - 1
  <2>1. e * e * e \in Int
    OBVIOUS
  <2> QED BY <2>1, <1>2, <1>7
<1>9. i = (d * e + b) * e + a
  BY DEF i, j
<1> QED BY <1>1, <1>2, <1>6, <1>8, <1>9

\* The view is the chunk with y and z exchanged, and air around it.
LEMMA ViewIsMirror ==
  ASSUME NEW ch, NEW k \in Apron \X Apron \X Apron
  PROVE  FillView(CopyVoxels(ch))[k] =
           IF k \in Cube THEN ch[<<k[1], k[3], k[2]>>] ELSE Air
<1>1. CASE k \in Cube
  <2> DEFINE i == (k[3] * Edge + k[2]) * Edge + k[1]
  <2>1. k[1] \in 0 .. Edge - 1 /\ k[2] \in 0 .. Edge - 1 /\ k[3] \in 0 .. Edge - 1
    BY <1>1 DEF Cube, Coords
  <2>2. Edge \in Nat /\ Edge > 0
    BY EdgeFacts
  <2>3. /\ i \in 0 .. Edge * Edge * Edge - 1
        /\ i % Edge = k[1] /\ (i \div Edge) % Edge = k[2] /\ i \div (Edge * Edge) = k[3]
    BY <2>1, <2>2, CubeIndex
  <2>4. FillView(CopyVoxels(ch))[k] = CopyVoxels(ch)[i]
    BY <1>1 DEF FillView
  <2> HIDE DEF i
  <2>5. CopyVoxels(ch)[i] = ch[<<i % Edge, i \div (Edge * Edge), (i \div Edge) % Edge>>]
    BY <2>3 DEF CopyVoxels
  <2> QED BY <1>1, <2>3, <2>4, <2>5
<1>2. CASE k \notin Cube
  BY <1>2 DEF FillView
<1> QED BY <1>1, <1>2

-----------------------------------------------------------------------------
(* The faces a finished mesh shows.                                        *)

Space == Apron \X Apron \X Apron

LEMMA ApronFacts ==
  /\ Coords \subseteq Apron /\ -1 \in Apron /\ -1 \notin Coords
  /\ \A x \in Coords : x + 1 \in Apron /\ x - 1 \in Apron /\ x + 1 - 1 = x
  /\ \A x \in Coords : x + (-1) = x - 1 /\ (x + 1) + (-1) = x
  /\ 0 + (-1) = -1
BY EdgeFacts DEF Apron, Coords

\* Where a cell of a slice is, and what it looks at, along each axis.
LEMMA AtAre ==
  ASSUME NEW n \in 1 .. 6, NEW s, NEW c, NEW k
  PROVE  LET p == Passes[n]
         IN /\ n \in {1, 2} => At(p, s, c) = <<s, c[2], c[1]>>
                               /\ Step(At(p, s, c), p.axis, k) = <<s + k, c[2], c[1]>>
            /\ n \in {3, 4} => At(p, s, c) = <<c[1], s, c[2]>>
                               /\ Step(At(p, s, c), p.axis, k) = <<c[1], s + k, c[2]>>
            /\ n \in {5, 6} => At(p, s, c) = <<c[1], c[2], s>>
                               /\ Step(At(p, s, c), p.axis, k) = <<c[1], c[2], s + k>>
<1>1. CASE n \in {1, 2}
  <2>1. Passes[n].axis = 1 /\ Passes[n].u = 3 /\ Passes[n].v = 2
    BY <1>1 DEF Passes
  <2>2. At(Passes[n], s, c) = <<s, c[2], c[1]>>
    BY <2>1 DEF At
  <2> QED BY <1>1, <2>1, <2>2 DEF Step
<1>2. CASE n \in {3, 4}
  <2>1. Passes[n].axis = 2 /\ Passes[n].u = 1 /\ Passes[n].v = 3
    BY <1>2 DEF Passes
  <2>2. At(Passes[n], s, c) = <<c[1], s, c[2]>>
    BY <2>1 DEF At
  <2> QED BY <1>2, <2>1, <2>2 DEF Step
<1>3. CASE n \in {5, 6}
  <2>1. Passes[n].axis = 3 /\ Passes[n].u = 1 /\ Passes[n].v = 2
    BY <1>3 DEF Passes
  <2>2. At(Passes[n], s, c) = <<c[1], c[2], s>>
    BY <2>1 DEF At
  <2> QED BY <1>3, <2>1, <2>2 DEF Step
<1> QED BY <1>1, <1>2, <1>3

LEMMA AtFacts ==
  ASSUME NEW n \in 1 .. 6, NEW s \in Coords, NEW c \in Plane
  PROVE  LET p == Passes[n]
         IN /\ At(p, s, c) \in Cube /\ At(p, s, c) \in Space
            /\ Step(At(p, s, c), p.axis, 1) \in Space
            /\ Step(At(p, s, c), p.axis, -1) \in Space
            /\ Step(At(p, s + 1, c), p.axis, -1) = At(p, s, c)
            /\ Step(At(p, 0, c), p.axis, -1) \in Space \ Cube
<1>1. c[1] \in Coords /\ c[2] \in Coords /\ c[1] \in Apron /\ c[2] \in Apron
  BY CellFacts, ApronFacts
<1>2. /\ s \in Apron /\ s + 1 \in Apron /\ s + (-1) \in Apron /\ (s + 1) + (-1) = s
      /\ 0 + (-1) \in Apron /\ 0 + (-1) \notin Coords
  BY ApronFacts
<1>3. CASE n \in {1, 2}
  <2>1. /\ At(Passes[n], s, c) = <<s, c[2], c[1]>>
        /\ Step(At(Passes[n], s, c), Passes[n].axis, 1) = <<s + 1, c[2], c[1]>>
        /\ Step(At(Passes[n], s, c), Passes[n].axis, -1) = <<s + (-1), c[2], c[1]>>
        /\ Step(At(Passes[n], s + 1, c), Passes[n].axis, -1) = <<(s + 1) + (-1), c[2], c[1]>>
        /\ Step(At(Passes[n], 0, c), Passes[n].axis, -1) = <<0 + (-1), c[2], c[1]>>
    BY <1>3, AtAre
  <2> QED BY <1>1, <1>2, <2>1 DEF Cube, Space
<1>4. CASE n \in {3, 4}
  <2>1. /\ At(Passes[n], s, c) = <<c[1], s, c[2]>>
        /\ Step(At(Passes[n], s, c), Passes[n].axis, 1) = <<c[1], s + 1, c[2]>>
        /\ Step(At(Passes[n], s, c), Passes[n].axis, -1) = <<c[1], s + (-1), c[2]>>
        /\ Step(At(Passes[n], s + 1, c), Passes[n].axis, -1) = <<c[1], (s + 1) + (-1), c[2]>>
        /\ Step(At(Passes[n], 0, c), Passes[n].axis, -1) = <<c[1], 0 + (-1), c[2]>>
    BY <1>4, AtAre
  <2> QED BY <1>1, <1>2, <2>1 DEF Cube, Space
<1>5. CASE n \in {5, 6}
  <2>1. /\ At(Passes[n], s, c) = <<c[1], c[2], s>>
        /\ Step(At(Passes[n], s, c), Passes[n].axis, 1) = <<c[1], c[2], s + 1>>
        /\ Step(At(Passes[n], s, c), Passes[n].axis, -1) = <<c[1], c[2], s + (-1)>>
        /\ Step(At(Passes[n], s + 1, c), Passes[n].axis, -1) = <<c[1], c[2], (s + 1) + (-1)>>
        /\ Step(At(Passes[n], 0, c), Passes[n].axis, -1) = <<c[1], c[2], 0 + (-1)>>
    BY <1>5, AtAre
  <2> QED BY <1>1, <1>2, <2>1 DEF Cube, Space
<1> QED BY <1>3, <1>4, <1>5

\* The view shows the chunk as it is.
ViewFresh == view = FillView(CopyVoxels(chunk))

LEMMA ViewSolid ==
  ASSUME ViewFresh, NEW k \in Space
  PROVE  Opaque(view[k]) <=> k \in Cube /\ Opaque(chunk[<<k[1], k[3], k[2]>>])
BY ViewIsMirror DEF ViewFresh, Space, Opaque

\* A face is visible to the pass up in the slice of its voxel, to the pass
\* down in the slice above it, and to no pass down in the first slice.
LEMMA VisibleIs ==
  ASSUME ViewFresh, NEW n \in 1 .. 6, NEW s \in Coords, NEW c \in Plane
  PROVE  LET p == Passes[n]
         IN /\ p.dir = 1 => (Visible(view, p, s, c) <=> MirrorFace(At(p, s, c), p))
            /\ p.dir = -1 => (Visible(view, p, s + 1, c) <=> MirrorFace(At(p, s, c), p))
            /\ p.dir = -1 => ~Visible(view, p, 0, c)
<1> DEFINE p == Passes[n]
           k == At(p, s, c)
           up == Step(k, p.axis, 1)
           down == Step(k, p.axis, -1)
           below == Step(At(p, 0, c), p.axis, -1)
<1>1. /\ k \in Space /\ up \in Space /\ down \in Space
      /\ Step(At(p, s + 1, c), p.axis, -1) = k
      /\ below \in Space \ Cube
  BY AtFacts
<1>2. MirrorFace(k, p) <=>
        /\ k \in Cube /\ Opaque(chunk[<<k[1], k[3], k[2]>>])
        /\ LET f == Step(k, p.axis, p.dir)
           IN ~(f \in Cube /\ Opaque(chunk[<<f[1], f[3], f[2]>>]))
  BY DEF MirrorFace
<1>3. CASE p.dir = 1
  <2>1. Visible(view, p, s, c) <=> Opaque(view[k]) /\ ~Opaque(view[up])
    BY <1>3 DEF Visible, Inside, Outside
  <2>2. Step(k, p.axis, p.dir) = up
    BY <1>3
  <2> HIDE DEF p, k, up, down, below
  <2>3. /\ Opaque(view[k]) <=> k \in Cube /\ Opaque(chunk[<<k[1], k[3], k[2]>>])
        /\ Opaque(view[up]) <=> up \in Cube /\ Opaque(chunk[<<up[1], up[3], up[2]>>])
    BY <1>1, ViewSolid
  <2>4. Visible(view, p, s, c) <=> MirrorFace(k, p)
    BY <1>2, <2>1, <2>2, <2>3
  <2> QED BY <1>3, <2>4 DEF p, k
<1>4. CASE p.dir = -1
  <2>1. Visible(view, p, s + 1, c) <=> Opaque(view[k]) /\ ~Opaque(view[down])
    BY <1>1, <1>4 DEF Visible, Inside, Outside
  <2>2. Visible(view, p, 0, c) => Opaque(view[below])
    BY <1>4 DEF Visible, Inside
  <2>3. Step(k, p.axis, p.dir) = down
    BY <1>4
  <2> HIDE DEF p, k, up, down, below
  <2>4. /\ Opaque(view[k]) <=> k \in Cube /\ Opaque(chunk[<<k[1], k[3], k[2]>>])
        /\ Opaque(view[down]) <=> down \in Cube /\ Opaque(chunk[<<down[1], down[3], down[2]>>])
        /\ ~Opaque(view[below])
    BY <1>1, ViewSolid
  <2>5. Visible(view, p, s + 1, c) <=> MirrorFace(k, p)
    BY <1>2, <2>1, <2>3, <2>4
  <2>6. ~Visible(view, p, 0, c)
    BY <2>2, <2>4
  <2> QED BY <1>4, <2>5, <2>6 DEF p, k
<1> QED BY <1>3, <1>4, PassFacts

\* Every quad lies on a plane of some slice of its pass.
Anchored ==
  \A i \in DOMAIN quads :
    IF Passes[quads[i].pass].dir = 1 THEN quads[i].plane \in 1 .. Edge
    ELSE quads[i].plane \in 0 .. Edge - 1

LEMMA FaceInit == Init => ViewFresh /\ Anchored
BY DEF Init, ViewFresh, Anchored

LEMMA FaceStep == GrowthInv /\ ViewFresh /\ Anchored /\ [Next]_vars => (ViewFresh /\ Anchored)'
<1> SUFFICES ASSUME GrowthInv, ViewFresh, Anchored, [Next]_vars
             PROVE  (ViewFresh /\ Anchored)'
  OBVIOUS
<1>1. CASE EmitQuad
  <2>1. GrowthTypeOK
    BY DEF GrowthInv
  <2>2. /\ NewQuad \in Quad /\ quads' = Append(quads, NewQuad) /\ quads \in Seq(Quad)
        /\ NewQuad.pass = pass /\ NewQuad.plane = PlaneOf(Passes[pass], slice)
        /\ pass \in 1 .. 6 /\ slice \in Coords
    BY <1>1, <2>1, EmitFacts DEF GrowthTypeOK
  <2> HIDE DEF NewQuad
  <2>3. IF Passes[NewQuad.pass].dir = 1 THEN NewQuad.plane \in 1 .. Edge
        ELSE NewQuad.plane \in 0 .. Edge - 1
    BY <2>2, EdgeFacts DEF PlaneOf, Coords
  <2>4. /\ DOMAIN quads' = (DOMAIN quads) \cup {Len(quads) + 1}
        /\ \A i \in DOMAIN quads : quads'[i] = quads[i]
        /\ quads'[Len(quads) + 1] = NewQuad
    BY <2>2, AppendFacts
  <2>5. Anchored'
    BY <2>3, <2>4 DEF Anchored
  <2>6. ViewFresh'
    BY <1>1 DEF EmitQuad, ViewFresh
  <2> QED BY <2>5, <2>6
<1>2. CASE \E c \in Edited : \E b \in Blocks \ {chunk[c]} : Rebuild(c, b)
  BY <1>2 DEF Rebuild, ViewFresh, Anchored
<1>3. CASE UNCHANGED <<chunk, view, quads>>
  BY <1>3 DEF ViewFresh, Anchored
<1>4. \/ EmitQuad
      \/ \E c \in Edited : \E b \in Blocks \ {chunk[c]} : Rebuild(c, b)
      \/ UNCHANGED <<chunk, view, quads>>
  BY DEF Next, BuildMask, SkipCell, NextRow, NextSlice, NextPass, Finish, vars
<1> QED BY <1>1, <1>2, <1>3, <1>4

\* A cell of a finished slice has a quad if its face is visible.
LEMMA CoveredIffVisible ==
  ASSUME CellsMeshedOnce, NEW n \in 1 .. 6, NEW s \in Coords, NEW c \in Plane, Meshed(n, s)
  PROVE  Covering(n, s, c) # {} <=> Visible(view, Passes[n], s, c)
<1> DEFINE m == MaskOf(view, Passes[n], s)
<1>1. CoveredOnce(n, s, c, m[c])
  BY PassFacts DEF CellsMeshedOnce
<1>2. m[c] # Empty <=> Visible(view, Passes[n], s, c)
  <2>1. \A out : CornerAo(view, Passes[n], out) # Empty
    BY DEF CornerAo, Empty
  <2> QED BY <2>1 DEF MaskOf
<1> HIDE DEF m
<1> QED BY <1>1, <1>2 DEF CoveredOnce

\* What a finished mesh shows, of a chunk of any size: the chunk with y and z
\* exchanged, every face on the upper plane of its voxel, and no downward
\* face of the last layer (meshing_abi.cpp:79, greedy_mesher.cpp:172-174).
THEOREM FacesAreInvariant == Spec => []FacesDrawn
<1>1. GrowthInv /\ ViewFresh /\ Anchored => FacesDrawn
  <2> SUFFICES ASSUME GrowthInv, ViewFresh, Anchored, phase = "done" PROVE FacesDrawn
    BY DEF FacesDrawn
  <2>1. CellsMeshedOnce /\ \A n, s : Meshed(n, s)
    BY DEF GrowthInv, Meshed
  <2>2. \A n \in 1 .. 6, s \in Coords, c \in Plane :
          Covering(n, s, c) # {} <=> Visible(view, Passes[n], s, c)
    BY <2>1, CoveredIffVisible
  <2>3. \A i \in DOMAIN quads : quads[i] \in Quad
    BY DEF GrowthInv, GrowthTypeOK
  <2>4. ASSUME NEW n \in 1 .. 6, NEW s \in Coords, NEW c \in Plane
        PROVE  (\E i \in DOMAIN quads :
                  /\ quads[i].pass = n /\ quads[i].plane = s + 1
                  /\ c \in Rectangle(quads[i].u, quads[i].v, quads[i].w, quads[i].h))
               <=> /\ MirrorFace(At(Passes[n], s, c), Passes[n])
                   /\ Passes[n].dir = 1 \/ s + 1 < Edge
    <3> DEFINE Drawn == \E i \in DOMAIN quads :
                  /\ quads[i].pass = n /\ quads[i].plane = s + 1
                  /\ c \in Rectangle(quads[i].u, quads[i].v, quads[i].w, quads[i].h)
    <3>1. CASE Passes[n].dir = 1
      <4>1. Drawn <=> Covering(n, s, c) # {}
        BY <3>1 DEF Covering, PlaneOf
      <4> QED BY <3>1, <4>1, <2>2, VisibleIs
    <3>2. CASE Passes[n].dir = -1 /\ s + 1 < Edge
      <4>1. s + 1 \in Coords /\ PlaneOf(Passes[n], s + 1) = s + 1
        BY <3>2, EdgeFacts DEF Coords, PlaneOf
      <4>2. Drawn <=> Covering(n, s + 1, c) # {}
        BY <4>1 DEF Covering
      <4>3. Covering(n, s + 1, c) # {} <=> Visible(view, Passes[n], s + 1, c)
        BY <4>1, <2>2
      <4> QED BY <3>2, <4>2, <4>3, VisibleIs
    <3>3. CASE Passes[n].dir = -1 /\ ~(s + 1 < Edge)
      <4>1. \A i \in DOMAIN quads : quads[i].pass = n => quads[i].plane \in 0 .. Edge - 1
        BY <3>3 DEF Anchored
      <4>2. s + 1 \notin 0 .. Edge - 1
        BY <3>3, EdgeFacts DEF Coords
      <4>3. ~Drawn
        BY <4>1, <4>2
      <4> QED BY <3>3, <4>3
    <3> QED BY <3>1, <3>2, <3>3, PassFacts
  <2>5. ASSUME NEW i \in DOMAIN quads PROVE quads[i].plane > 0
    <3> DEFINE q == quads[i]
    <3>1. /\ q.pass \in 1 .. 6 /\ q.plane \in 0 .. Edge
          /\ q.u \in Coords /\ q.v \in Coords /\ q.w \in 1 .. Edge /\ q.h \in 1 .. Edge
      BY <2>3, PassFacts DEF Quad
    <3>2. CASE q.plane = 0
      <4>1. Passes[q.pass].dir = -1
        <5>1. Passes[q.pass].dir = 1 => q.plane \in 1 .. Edge
          BY DEF Anchored
        <5> QED BY <5>1, <3>1, <3>2, PassFacts
      <4>2. PlaneOf(Passes[q.pass], 0) = 0 /\ 0 \in Coords
        BY <4>1, EdgeFacts DEF PlaneOf
      <4>3. <<q.u, q.v>> \in Rectangle(q.u, q.v, q.w, q.h) /\ <<q.u, q.v>> \in Plane
        <5>1. q.u \in Nat /\ q.v \in Nat /\ q.w \in Nat /\ q.h \in Nat /\ q.w > 0 /\ q.h > 0
          BY <2>3, QuadFacts
        <5> HIDE DEF q
        <5>2. q.u \in q.u .. q.u + q.w - 1 /\ q.v \in q.v .. q.v + q.h - 1
          BY <5>1
        <5> QED BY <5>2, <3>1 DEF Rectangle, Plane
      <4>4. i \in Covering(q.pass, 0, <<q.u, q.v>>)
        BY <3>2, <4>2, <4>3 DEF Covering
      <4>5. Visible(view, Passes[q.pass], 0, <<q.u, q.v>>)
        BY <4>2, <4>3, <4>4, <3>1, <2>2
      <4>6. ~Visible(view, Passes[q.pass], 0, <<q.u, q.v>>)
        BY <4>1, <4>2, <4>3, <3>1, VisibleIs
      <4> QED BY <4>5, <4>6
    <3>3. q.plane # 0 => q.plane > 0
      <4> HIDE DEF q
      <4> QED BY <3>1, EdgeFacts
    <3> QED BY <3>2, <3>3
  <2> QED BY <2>4, <2>5, PassFacts DEF FacesDrawn
<1>2. ViewFresh /\ Anchored /\ GrowthInv /\ [Next]_vars => (ViewFresh /\ Anchored)'
  BY FaceStep
<1> QED BY <1>1, <1>2, FaceInit, GrowthInvariant, PTL DEF Spec
=============================================================================
