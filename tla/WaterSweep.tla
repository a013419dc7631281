----------------------------- MODULE WaterSweep -----------------------------
(* One pass of the bulk water automaton, water_ca_step of fluid/water_ca.cpp, *)
(* as the loop it is: the cursor visits the voxels of a region row by row     *)
(* from the bottom up, and the water found at the cursor falls, spreads or    *)
(* stays before the next voxel is looked at.                                  *)
EXTENDS Integers, FiniteSets

CONSTANTS World,      \* the positions <<x, y, z>> that in_bounds accepts
          Blocks,     \* the block ids
          Air, Water  \* ids 0 and 2

ASSUME WorldAssumption == /\ IsFiniteSet(World)
                          /\ World \subseteq Int \X Int \X Int

ASSUME BlocksAssumption == Air \in Blocks /\ Water \in Blocks /\ Air # Water

VARIABLES voxels,  \* what demen_world_get_voxel answers
          sweep,   \* the pass in progress: its region, its step, its cursor
          moved    \* history: where this pass has put water
-----------------------------------------------------------------------------
\* Mutant of Below: y taken to grow downwards.
BelowIsUp(p) == <<p[1], p[2] + 1, p[3]>>

Below(p) == <<p[1], p[2] - 1, p[3]>>
Beside(p, dx) == <<p[1] + dx, p[2], p[3]>>

IsWater(v, p) == p \in World /\ v[p] = Water
IsAir(v, p) == p \in World /\ v[p] = Air

\* Mutant of Flow: the source is not cleared.
FlowFillsOnly(v, s, t) == [v EXCEPT ![t] = Water]

(* try_flow: the source is cleared, then the target is filled.               *)
Flow(v, s, t) == [[v EXCEPT ![s] = Air] EXCEPT ![t] = Water]

Falls(v, p) == {q \in {Below(p)} : IsAir(v, q)}

(* An air neighbour on the same level that has air or water below.           *)
Spreads(v, p, dx) ==
  {q \in {Beside(p, dx)} : IsAir(v, q) /\ (IsAir(v, Below(q)) \/ IsWater(v, Below(q)))}

SpreadsElse(v, p, step) ==
  IF Spreads(v, p, step) # {} THEN Spreads(v, p, step) ELSE Spreads(v, p, -step)

\* Mutant of Targets: water never falls.
TargetsBeside(v, p, step) == SpreadsElse(v, p, step)

(* Where the water at p goes, if anywhere: down, else along the sweep, else   *)
(* against it.                                                               *)
Targets(v, p, step) ==
  IF Falls(v, p) # {} THEN Falls(v, p) ELSE SpreadsElse(v, p, step)
-----------------------------------------------------------------------------
(* A region holds the first and last coordinates, inclusive.                 *)
Region == [x0 : Int, x1 : Int, y0 : Int, y1 : Int, z0 : Int, z1 : Int]

Idle == [busy |-> FALSE]

FirstX(r, step) == IF step = 1 THEN r.x0 ELSE r.x1
LastX(r, step) == IF step = 1 THEN r.x1 ELSE r.x0

(* Even ticks sweep towards greater x, odd ticks towards smaller x.          *)
StepOf(tick) == IF tick % 2 = 0 THEN 1 ELSE -1

Start(r, tick) ==
  [busy |-> TRUE, region |-> r, step |-> StepOf(tick),
   at |-> <<FirstX(r, StepOf(tick)), r.y0, r.z0>>]

(* The last turn of the three loops.                                          *)
AtEnd(s) == s.at = <<LastX(s.region, s.step), s.region.y1, s.region.z1>>

\* Mutant of Following: the rows from the top down.
FollowingTopDown(s) ==
  LET r == s.region
      p == s.at IN
  IF p[2] # r.y0 THEN <<p[1], p[2] - 1, p[3]>>
  ELSE IF p[3] # r.z1 THEN <<p[1], r.y1, p[3] + 1>>
  ELSE <<p[1] + s.step, r.y1, r.z0>>

(* The next turn: x first, then z, then y upwards.                            *)
Following(s) ==
  LET r == s.region
      p == s.at IN
  IF p[1] # LastX(r, s.step) THEN <<p[1] + s.step, p[2], p[3]>>
  ELSE IF p[3] # r.z1 THEN <<FirstX(r, s.step), p[2], p[3] + 1>>
  ELSE <<FirstX(r, s.step), p[2] + 1, r.z0>>

Advanced(s) == [s EXCEPT !.at = Following(s)]
-----------------------------------------------------------------------------
(* One turn of the loop's body.                                              *)
Settled == /\ IsWater(voxels, sweep.at) => Targets(voxels, sweep.at, sweep.step) = {}
           /\ UNCHANGED <<voxels, moved>>

Flows == /\ IsWater(voxels, sweep.at)
         /\ \E t \in Targets(voxels, sweep.at, sweep.step) :
              /\ voxels' = Flow(voxels, sweep.at, t)
              /\ moved' = (moved \ {sweep.at}) \union {t}

Visit == sweep.busy /\ (Settled \/ Flows)
=============================================================================
