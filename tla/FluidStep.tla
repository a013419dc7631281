------------------------------ MODULE FluidStep ------------------------------
(* demen_fluid_step of fluid/fluid_abi.cpp: three clocks decide which solver  *)
(* runs, and the middle one runs the water automaton twice, once over one row *)
(* of the chunk at the origin and once around the player.  The grids of       *)
(* floating-point numbers the other two clocks drive are left out.            *)
EXTENDS WaterSweep

CONSTANTS Edge,          \* DEMEN_CHUNK_EDGE
          Reach,         \* cr, in chunks
          YMax,          \* the last row around the player, DEMEN_CHUNK_EDGE * 2
          PlayerChunks,  \* the chunks <<cx, cz>> the player is ever in
          Dts,           \* the dt a frame may pass
          NearDt, MidDt, FarDt,  \* kNearDt, kMidDt, kFarDt in units of time
          TickRange      \* how many values ca_tick has, 2^32

ASSUME StepAssumption ==
  /\ Edge \in Nat \ {0} /\ Reach \in Nat /\ YMax \in Nat
  /\ PlayerChunks \subseteq Int \X Int
  /\ Dts \subseteq Nat \ {0}
  /\ {NearDt, MidDt, FarDt} \subseteq Nat \ {0}
  /\ TickRange \in Nat \ {0} /\ TickRange % 2 = 0

VARIABLES clock,   \* t_near, t_mid, t_far
          caTick,  \* the static ca_tick
          player,  \* the chunk of px and pz
          phase    \* where in demen_fluid_step the process is

vars == <<voxels, sweep, moved, clock, caTick, player, phase>>
-----------------------------------------------------------------------------
(* The collapsed arguments of the first call: chunk (0, 0), row 0.           *)
OriginRegion == [x0 |-> 0, x1 |-> Edge - 1, y0 |-> 0, y1 |-> 0,
                 z0 |-> 0, z1 |-> Edge - 1]

(* The chunks within cr of the player's; y_max is inclusive.                 *)
PlayerRegion(c) ==
  [x0 |-> (c[1] - Reach) * Edge, x1 |-> (c[1] + Reach + 1) * Edge - 1,
   y0 |-> 0, y1 |-> YMax,
   z0 |-> (c[2] - Reach) * Edge, z1 |-> (c[2] + Reach + 1) * Edge - 1]

NextTick == (caTick + 1) % TickRange

Init == /\ voxels \in [World -> Blocks]
        /\ sweep = Idle /\ moved = {}
        /\ clock = [near |-> 0, mid |-> 0, far |-> 0]
        /\ caTick = 0
        /\ player \in PlayerChunks
        /\ phase = "game"
-----------------------------------------------------------------------------
(* A clock that has reached its period starts again from zero.               *)
Ticked(t, dt, period) == IF t + dt >= period THEN 0 ELSE t + dt

(* The part of the call up to the first pass.                                *)
Call(dt, c) ==
  /\ phase = "game"
  /\ player' = c
  /\ clock' = [near |-> Ticked(clock.near, dt, NearDt),
               mid  |-> Ticked(clock.mid, dt, MidDt),
               far  |-> Ticked(clock.far, dt, FarDt)]
  /\ UNCHANGED voxels
  /\ \/ /\ clock.mid + dt < MidDt
        /\ UNCHANGED <<sweep, moved, caTick, phase>>
     \/ /\ clock.mid + dt >= MidDt
        /\ sweep' = Start(OriginRegion, caTick) /\ moved' = {}
        /\ caTick' = NextTick
        /\ phase' = "origin"

(* A turn of the loop that is not the last.                                  *)
Sweep == /\ Visit /\ ~AtEnd(sweep)
         /\ sweep' = Advanced(sweep)
         /\ UNCHANGED <<clock, caTick, player, phase>>

EndOrigin == /\ phase = "origin" /\ Visit /\ AtEnd(sweep)
             /\ sweep' = Idle
             /\ phase' = "between"
             /\ UNCHANGED <<clock, caTick, player>>

\* Mutant of CallPlayer: both passes of a step share a tick.
CallPlayerInSameTick ==
  /\ phase = "between"
  /\ sweep' = Start(PlayerRegion(player), caTick) /\ moved' = {}
  /\ phase' = "player"
  /\ UNCHANGED <<voxels, clock, caTick, player>>

(* The second call of water_ca_step, with a tick of its own.                 *)
CallPlayer == /\ phase = "between"
              /\ sweep' = Start(PlayerRegion(player), caTick) /\ moved' = {}
              /\ caTick' = NextTick
              /\ phase' = "player"
              /\ UNCHANGED <<voxels, clock, player>>

EndPlayer == /\ phase = "player" /\ Visit /\ AtEnd(sweep)
             /\ sweep' = Idle
             /\ phase' = "game"
             /\ UNCHANGED <<clock, caTick, player>>

Next == \/ \E dt \in Dts, c \in PlayerChunks : Call(dt, c)
        \/ Sweep \/ EndOrigin \/ CallPlayer \/ EndPlayer

Spec == Init /\ [][Next]_vars

(* The game calls the step every frame, and the step runs to its end.        *)
FairSpec == Spec /\ WF_vars(Next)
-----------------------------------------------------------------------------
TypeOK ==
  /\ voxels \in [World -> Blocks]
  /\ \/ sweep = Idle
     \/ sweep \in [busy : {TRUE}, region : Region, step : {1, -1},
                    at : Int \X Int \X Int]
  /\ moved \subseteq World
  /\ clock \in [near : 0..NearDt - 1, mid : 0..MidDt - 1, far : 0..FarDt - 1]
  /\ caTick \in 0..TickRange - 1
  /\ player \in PlayerChunks
  /\ phase \in {"game", "origin", "between", "player"}
  /\ sweep.busy <=> phase \in {"origin", "player"}

WaterIn(v, h) == {p \in World : v[p] = Water /\ p[2] <= h}

(* No turn of the automaton makes or loses water, whatever lies around it:   *)
(* try_flow clears one voxel of water and fills one of air.                  *)
WaterConserved ==
  [][Cardinality({p \in World : voxels'[p] = Water})
       = Cardinality({p \in World : voxels[p] = Water})]_vars

(* Water only goes downhill: up to any height, the water below never becomes *)
(* less, although a spread may move it sideways many times.                  *)
OnlyDownhill ==
  [][\A h \in {p[2] : p \in World} :
       Cardinality(WaterIn(voxels', h)) >= Cardinality(WaterIn(voxels, h))]_vars

InRegion(p, r) == /\ p[1] \in r.x0..r.x1
                  /\ p[2] \in r.y0..r.y1
                  /\ p[3] \in r.z0..r.z1

(* The cursor has p yet to visit: it is in a later row, or line, or voxel.    *)
Ahead(p) ==
  /\ sweep.busy /\ InRegion(p, sweep.region)
  /\ LET a == sweep.at IN
     \/ p[2] > a[2]
     \/ p[2] = a[2] /\ p[3] > a[3]
     \/ p[2] = a[2] /\ p[3] = a[3] /\ (p[1] - a[1]) * sweep.step >= 0

(* The scan from the bottom up keeps moved water out of the cursor's way,     *)
(* save for water that spread along the sweep: that is the very next voxel.   *)
MovedIsBehind == \A p \in moved : Ahead(p) => p = sweep.at

(* Water over air: what the automaton is there to bring down.                *)
Hanging(p) == IsWater(voxels, p) /\ IsAir(voxels, Below(p))

(* No water hangs for ever: a voxel the passes keep coming back to is again    *)
(* and again without water over air.  (It may hang again and again, too: two  *)
(* voxels of water on a flat surface change places for ever.)                *)
NoneHangsForever ==
  \A p \in World : []<>(sweep.busy /\ InRegion(p, sweep.region)) => []<>~Hanging(p)

(* Each of the two passes of a step sweeps from the same side every time: the  *)
(* tick that is to turn the direction goes up twice in a step (fluid_abi.cpp:  *)
(* 152, 161), so that around the player it never alternates as appendix B and *)
(* water_ca.hpp:5 say it does.                                               *)
PassesKeepTheirSides ==
  /\ phase = "origin" => sweep.step = 1
  /\ phase = "player" => sweep.step = -1
=============================================================================
