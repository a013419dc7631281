--------------------------- MODULE FluidStepProofs ---------------------------
(* What a fluid step keeps, for every world, region, clock and player.        *)
EXTENDS FluidStep, FiniteSetTheorems, TLAPS

-----------------------------------------------------------------------------
(* Where water can go: to air, one down or one beside.                       *)
LEMMA TargetFacts ==
  ASSUME NEW v, NEW p \in World, NEW step \in {1, -1}, NEW t \in Targets(v, p, step)
  PROVE  /\ t \in World /\ v[t] = Air
         /\ t = Below(p) \/ t = Beside(p, step) \/ t = Beside(p, -step)
<1>1. CASE t \in Falls(v, p)
  BY <1>1 DEF Falls, IsAir
<1>2. CASE t \in Spreads(v, p, step)
  BY <1>2 DEF Spreads, IsAir
<1>3. CASE t \in Spreads(v, p, -step)
  BY <1>3 DEF Spreads, IsAir
<1> QED
  BY <1>1, <1>2, <1>3 DEF Targets, SpreadsElse

LEMMA PositionsAreTriples ==
  \A p \in World : /\ p \in Int \X Int \X Int
                   /\ p[1] \in Int /\ p[2] \in Int /\ p[3] \in Int
  BY WorldAssumption

(* The water up to a height, seen as a set, loses the source and gains the    *)
(* target, as far as they are that low.                                      *)
WaterOf(v) == {p \in World : v[p] = Water}

LEMMA FlowMovesOne ==
  ASSUME NEW v \in [World -> Blocks], NEW s \in World, NEW t \in World,
         v[s] = Water, v[t] = Air
  PROVE  /\ Flow(v, s, t) \in [World -> Blocks]
         /\ \A p \in World : Flow(v, s, t)[p] = IF p = t THEN Water
                                                ELSE IF p = s THEN Air ELSE v[p]
  BY BlocksAssumption DEF Flow

LEMMA ExchangeKeepsSize ==
  ASSUME NEW S, IsFiniteSet(S), NEW s \in S, NEW t, t \notin S
  PROVE  /\ IsFiniteSet((S \ {s}) \union {t})
         /\ Cardinality((S \ {s}) \union {t}) = Cardinality(S)
<1>1. /\ IsFiniteSet(S \ {s})
      /\ Cardinality(S \ {s}) = Cardinality(S) - 1
  BY FS_RemoveElement
<1>2. /\ IsFiniteSet((S \ {s}) \union {t})
      /\ Cardinality((S \ {s}) \union {t}) = Cardinality(S \ {s}) + 1
  BY <1>1, FS_AddElement
<1>3. Cardinality(S) \in Int
  BY FS_CardinalityType
<1> QED
  BY <1>1, <1>2, <1>3

LEMMA FlowConserves ==
  ASSUME NEW v \in [World -> Blocks], NEW s \in World, NEW t \in World,
         v[s] = Water, v[t] = Air
  PROVE  Cardinality(WaterOf(Flow(v, s, t))) = Cardinality(WaterOf(v))
<1>1. IsFiniteSet(WaterOf(v))
  BY WorldAssumption, FS_Subset DEF WaterOf
<1>2. WaterOf(Flow(v, s, t)) = (WaterOf(v) \ {s}) \union {t}
  BY FlowMovesOne, BlocksAssumption DEF WaterOf
<1>3. s \in WaterOf(v) /\ t \notin WaterOf(v)
  BY BlocksAssumption DEF WaterOf
<1> QED
  BY <1>1, <1>2, <1>3, ExchangeKeepsSize

LEMMA FlowGoesDown ==
  ASSUME NEW v \in [World -> Blocks], NEW s \in World, NEW t \in World, NEW h \in Int,
         v[s] = Water, v[t] = Air, t[2] =< s[2]
  PROVE  Cardinality(WaterIn(Flow(v, s, t), h)) >= Cardinality(WaterIn(v, h))
<1> DEFINE W == WaterIn(v, h)
           W2 == WaterIn(Flow(v, s, t), h)
<1>1. IsFiniteSet(W) /\ IsFiniteSet(W2)
  BY WorldAssumption, FS_Subset DEF WaterIn
<1>2. Cardinality(W) \in Nat /\ Cardinality(W2) \in Nat
  BY <1>1, FS_CardinalityType
<1>3. s[2] \in Int /\ t[2] \in Int
  BY PositionsAreTriples
<1>4. CASE s[2] =< h
  <2>1. t[2] =< h
    BY <1>3, <1>4
  <2>2. W2 = (W \ {s}) \union {t}
    BY FlowMovesOne, BlocksAssumption, <1>4, <2>1 DEF WaterIn
  <2>3. s \in W /\ t \notin W
    BY BlocksAssumption, <1>4 DEF WaterIn
  <2> HIDE DEF W, W2
  <2>4. Cardinality(W2) = Cardinality(W)
    BY <1>1, <2>2, <2>3, ExchangeKeepsSize
  <2> QED
    BY <1>2, <2>4 DEF W, W2
<1>5. CASE ~(s[2] =< h)
  <2>1. W \subseteq W2
    BY FlowMovesOne, BlocksAssumption, <1>5 DEF WaterIn
  <2> HIDE DEF W, W2
  <2>2. Cardinality(W) =< Cardinality(W2)
    BY <1>1, <2>1, FS_Subset
  <2> QED
    BY <1>2, <2>2 DEF W, W2
<1> QED
  BY <1>4, <1>5
-----------------------------------------------------------------------------
Sweeps == [busy : {TRUE}, region : Region, step : {1, -1}, at : Int \X Int \X Int]

LEMMA BusyIsSweep ==
  ASSUME TypeOK, sweep.busy
  PROVE  sweep \in Sweeps
<1>1. Idle.busy = FALSE
  BY DEF Idle
<1>2. sweep # Idle
  BY <1>1
<1> QED
  BY <1>2 DEF TypeOK, Sweeps

(* Every turn of the loop either leaves the voxels alone or moves the water   *)
(* at the cursor to one of its targets.                                      *)
LEMMA VisitFacts ==
  ASSUME TypeOK, Visit
  PROVE  \/ /\ UNCHANGED <<voxels, moved>>
         \/ /\ sweep.at \in World /\ voxels[sweep.at] = Water
            /\ \E t \in World :
                 /\ voxels[t] = Air
                 /\ \/ t = Below(sweep.at)
                    \/ t = Beside(sweep.at, sweep.step)
                    \/ t = Beside(sweep.at, -sweep.step)
                 /\ voxels' = Flow(voxels, sweep.at, t)
                 /\ moved' = (moved \ {sweep.at}) \union {t}
<1>1. CASE Settled
  BY <1>1 DEF Settled
<1>2. CASE Flows
  <2>1. sweep.at \in World /\ voxels[sweep.at] = Water
    BY <1>2 DEF Flows, IsWater
  <2>2. sweep.step \in {1, -1}
    BY BusyIsSweep DEF Visit, Sweeps
  <2>3. PICK t \in Targets(voxels, sweep.at, sweep.step) :
          /\ voxels' = Flow(voxels, sweep.at, t)
          /\ moved' = (moved \ {sweep.at}) \union {t}
    BY <1>2 DEF Flows
  <2> QED
    BY <2>1, <2>2, <2>3, TargetFacts
<1> QED
  BY <1>1, <1>2 DEF Visit

LEMMA VisitTyping ==
  ASSUME TypeOK, Visit
  PROVE  voxels' \in [World -> Blocks] /\ moved' \subseteq World
<1>1. CASE UNCHANGED <<voxels, moved>>
  BY <1>1 DEF TypeOK
<1>2. CASE ~UNCHANGED <<voxels, moved>>
  <2>1. PICK t \in World :
          /\ sweep.at \in World /\ voxels[sweep.at] = Water /\ voxels[t] = Air
          /\ voxels' = Flow(voxels, sweep.at, t)
          /\ moved' = (moved \ {sweep.at}) \union {t}
    BY <1>2, VisitFacts
  <2>2. voxels' \in [World -> Blocks]
    BY <2>1, FlowMovesOne DEF TypeOK
  <2> QED
    BY <2>1, <2>2 DEF TypeOK
<1> QED
  BY <1>1, <1>2

LEMMA RegionsAreTyped ==
  /\ OriginRegion \in Region
  /\ \A c \in PlayerChunks : PlayerRegion(c) \in Region
<1>1. OriginRegion \in Region
  BY StepAssumption DEF OriginRegion, Region
<1>2. ASSUME NEW c \in PlayerChunks PROVE PlayerRegion(c) \in Region
  <2>1. c[1] \in Int /\ c[2] \in Int
    BY StepAssumption
  <2>2. /\ (c[1] - Reach) * Edge \in Int /\ (c[1] + Reach + 1) * Edge - 1 \in Int
        /\ (c[2] - Reach) * Edge \in Int /\ (c[2] + Reach + 1) * Edge - 1 \in Int
    BY <2>1, StepAssumption
  <2> QED
    BY <2>2, StepAssumption DEF PlayerRegion, Region
<1> QED
  BY <1>1, <1>2

LEMMA StartIsTyped ==
  ASSUME NEW r \in Region, NEW tick
  PROVE  Start(r, tick) \in Sweeps
<1>1. StepOf(tick) \in {1, -1}
  BY DEF StepOf
<1>2. FirstX(r, StepOf(tick)) \in Int
  BY DEF FirstX, Region
<1>3. r.y0 \in Int /\ r.z0 \in Int
  BY DEF Region
<1> QED
  BY <1>1, <1>2, <1>3 DEF Start, Sweeps

LEMMA AdvancedIsTyped ==
  ASSUME NEW s \in Sweeps
  PROVE  Advanced(s) \in Sweeps
<1>1. /\ s.at[1] \in Int /\ s.at[2] \in Int /\ s.at[3] \in Int
      /\ s.step \in {1, -1} /\ s.region \in Region
  BY DEF Sweeps
<1>2. Following(s) \in Int \X Int \X Int
  BY <1>1 DEF Following, FirstX, LastX, Region
<1> QED
  BY <1>2 DEF Advanced, Sweeps

LEMMA TickedIsBelow ==
  ASSUME NEW period \in Nat \ {0}, NEW t \in 0..period - 1, NEW dt \in Nat
  PROVE  Ticked(t, dt, period) \in 0..period - 1
  BY DEF Ticked

(* The type invariant holds in every state, for every world and every clock.  *)
THEOREM Typing == Spec => []TypeOK
<1>1. Init => TypeOK
  BY StepAssumption DEF Init, TypeOK, Idle
<1>2. TypeOK /\ [Next]_vars => TypeOK'
  <2> SUFFICES ASSUME TypeOK, [Next]_vars PROVE TypeOK'
    OBVIOUS
  <2>1. NextTick \in 0..TickRange - 1
    BY StepAssumption DEF NextTick, TypeOK
  <2>2. CASE \E dt \in Dts, c \in PlayerChunks : Call(dt, c)
    <3> PICK dt \in Dts, c \in PlayerChunks : Call(dt, c)
      BY <2>2
    <3>1. clock' \in [near : 0..NearDt - 1, mid : 0..MidDt - 1, far : 0..FarDt - 1]
      <4>1. /\ clock.near \in 0..NearDt - 1 /\ clock.mid \in 0..MidDt - 1
            /\ clock.far \in 0..FarDt - 1
        BY DEF TypeOK
      <4>2. dt \in Nat /\ NearDt \in Nat \ {0} /\ MidDt \in Nat \ {0} /\ FarDt \in Nat \ {0}
        BY StepAssumption
      <4>3. /\ Ticked(clock.near, dt, NearDt) \in 0..NearDt - 1
            /\ Ticked(clock.mid, dt, MidDt) \in 0..MidDt - 1
            /\ Ticked(clock.far, dt, FarDt) \in 0..FarDt - 1
        BY <4>1, <4>2, TickedIsBelow
      <4> QED
        BY <4>3 DEF Call
    <3>2. CASE UNCHANGED <<sweep, moved, caTick, phase>>
      BY <3>1, <3>2 DEF Call, TypeOK
    <3>3. CASE sweep' = Start(OriginRegion, caTick) /\ moved' = {}
               /\ caTick' = NextTick /\ phase' = "origin"
      <4>1. sweep' \in Sweeps
        BY <3>3, RegionsAreTyped, StartIsTyped
      <4>2. sweep'.busy = TRUE
        BY <3>3 DEF Start
      <4> QED
        BY <2>1, <3>1, <3>3, <4>1, <4>2 DEF Call, TypeOK, Sweeps
    <3> QED
      BY <3>2, <3>3 DEF Call
  <2>3. CASE Sweep
    <3>1. sweep \in Sweeps
      BY <2>3, BusyIsSweep DEF Sweep, Visit
    <3>2. sweep' \in Sweeps
      BY <2>3, <3>1, AdvancedIsTyped DEF Sweep
    <3>3. voxels' \in [World -> Blocks] /\ moved' \subseteq World
      BY <2>3, VisitTyping DEF Sweep
    <3>4. sweep.busy /\ sweep'.busy
      BY <3>1, <3>2 DEF Sweeps
    <3> QED
      BY <2>3, <3>2, <3>3, <3>4 DEF Sweep, TypeOK, Sweeps
  <2>4. CASE EndOrigin
    <3>1. voxels' \in [World -> Blocks] /\ moved' \subseteq World
      BY <2>4, VisitTyping DEF EndOrigin
    <3> QED
      BY <2>4, <3>1 DEF EndOrigin, TypeOK, Idle
  <2>5. CASE CallPlayer
    <3>1. sweep' \in Sweeps
      BY <2>5, RegionsAreTyped, StartIsTyped DEF CallPlayer, TypeOK
    <3>2. sweep'.busy = TRUE
      BY <2>5 DEF CallPlayer, Start
    <3> QED
      BY <2>1, <2>5, <3>1, <3>2 DEF CallPlayer, TypeOK, Sweeps
  <2>6. CASE EndPlayer
    <3>1. voxels' \in [World -> Blocks] /\ moved' \subseteq World
      BY <2>6, VisitTyping DEF EndPlayer
    <3> QED
      BY <2>6, <3>1 DEF EndPlayer, TypeOK, Idle
  <2>7. CASE UNCHANGED vars
    BY <2>7 DEF vars, TypeOK
  <2> QED
    BY <2>2, <2>3, <2>4, <2>5, <2>6, <2>7 DEF Next
<1> QED
  BY <1>1, <1>2, PTL DEF Spec
-----------------------------------------------------------------------------
(* A step of the system leaves the voxels alone or is a turn of the loop.     *)
LEMMA StepFacts ==
  ASSUME TypeOK, [Next]_vars
  PROVE  \/ UNCHANGED voxels
         \/ Visit
  BY DEF Next, vars, Call, Sweep, EndOrigin, CallPlayer, EndPlayer

LEMMA WaterMoves ==
  ASSUME TypeOK, [Next]_vars
  PROVE  \/ UNCHANGED voxels
         \/ \E s, t \in World : /\ voxels[s] = Water /\ voxels[t] = Air
                                /\ t[2] =< s[2]
                                /\ voxels' = Flow(voxels, s, t)
<1>1. CASE UNCHANGED voxels
  BY <1>1
<1>2. CASE Visit /\ ~UNCHANGED voxels
  <2>1. PICK t \in World :
          /\ sweep.at \in World /\ voxels[sweep.at] = Water /\ voxels[t] = Air
          /\ \/ t = Below(sweep.at)
             \/ t = Beside(sweep.at, sweep.step)
             \/ t = Beside(sweep.at, -sweep.step)
          /\ voxels' = Flow(voxels, sweep.at, t)
    BY <1>2, VisitFacts
  <2>2. sweep.at[2] \in Int
    BY <2>1, PositionsAreTriples
  <2>3. t[2] =< sweep.at[2]
    BY <2>1, <2>2 DEF Below, Beside
  <2> QED
    BY <2>1, <2>3
<1> QED
  BY <1>1, <1>2, StepFacts

(* Water is neither made nor lost, in any world and under any schedule.       *)
THEOREM WaterIsConserved == Spec => WaterConserved
<1>1. TypeOK /\ [Next]_vars =>
        [Cardinality({p \in World : voxels'[p] = Water})
           = Cardinality({p \in World : voxels[p] = Water})]_vars
  <2> SUFFICES ASSUME TypeOK, [Next]_vars
               PROVE  Cardinality({p \in World : voxels'[p] = Water})
                        = Cardinality({p \in World : voxels[p] = Water})
    OBVIOUS
  <2>1. CASE UNCHANGED voxels
    BY <2>1
  <2>2. CASE ~UNCHANGED voxels
    <3>1. PICK s, t \in World : /\ voxels[s] = Water /\ voxels[t] = Air
                               /\ voxels' = Flow(voxels, s, t)
      BY <2>2, WaterMoves
    <3>2. Cardinality(WaterOf(Flow(voxels, s, t))) = Cardinality(WaterOf(voxels))
      BY <3>1, FlowConserves DEF TypeOK
    <3> QED
      BY <3>1, <3>2 DEF WaterOf
  <2> QED
    BY <2>1, <2>2
<1> QED
  BY <1>1, Typing, PTL DEF Spec, WaterConserved

(* Up to any height, the water below only grows.                             *)
THEOREM WaterGoesDownhill == Spec => OnlyDownhill
<1>1. TypeOK /\ [Next]_vars =>
        [\A h \in {p[2] : p \in World} :
           Cardinality(WaterIn(voxels', h)) >= Cardinality(WaterIn(voxels, h))]_vars
  <2> SUFFICES ASSUME TypeOK, [Next]_vars, NEW h \in {p[2] : p \in World}
               PROVE  Cardinality(WaterIn(voxels', h)) >= Cardinality(WaterIn(voxels, h))
    OBVIOUS
  <2>1. h \in Int
    BY PositionsAreTriples
  <2>2. CASE UNCHANGED voxels
    <3>1. IsFiniteSet(WaterIn(voxels, h))
      BY WorldAssumption, FS_Subset DEF WaterIn
    <3>2. Cardinality(WaterIn(voxels, h)) \in Nat
      BY <3>1, FS_CardinalityType
    <3>3. WaterIn(voxels', h) = WaterIn(voxels, h)
      BY <2>2 DEF WaterIn
    <3> QED
      BY <3>2, <3>3
  <2>3. CASE ~UNCHANGED voxels
    <3>1. PICK s, t \in World : /\ voxels[s] = Water /\ voxels[t] = Air
                               /\ t[2] =< s[2]
                               /\ voxels' = Flow(voxels, s, t)
      BY <2>3, WaterMoves
    <3> QED
      BY <2>1, <3>1, FlowGoesDown DEF TypeOK
  <2> QED
    BY <2>2, <2>3
<1> QED
  BY <1>1, Typing, PTL DEF Spec, OnlyDownhill
-----------------------------------------------------------------------------
(* The cursor's order, on its own: Later(p, s) is Ahead(p) without the        *)
(* region.                                                                   *)
Later(p, s) == \/ p[2] > s.at[2]
               \/ p[2] = s.at[2] /\ p[3] > s.at[3]
               \/ p[2] = s.at[2] /\ p[3] = s.at[3] /\ (p[1] - s.at[1]) * s.step >= 0

LEMMA CursorOnlyAdvances ==
  ASSUME NEW s \in Sweeps, NEW p \in Int \X Int \X Int
  PROVE  /\ Later(p, Advanced(s)) => Later(p, s)
         /\ p = s.at => ~Later(p, Advanced(s))
         /\ p = Below(s.at) => ~Later(p, Advanced(s))
         /\ p = Beside(s.at, -s.step) => ~Later(p, Advanced(s))
         /\ p = Beside(s.at, s.step) => \/ ~Later(p, Advanced(s))
                                       \/ p = Advanced(s).at
<1> DEFINE a == s.at
           b == Following(s)
<1>1. /\ a \in Int \X Int \X Int
      /\ a[1] \in Int /\ a[2] \in Int /\ a[3] \in Int
      /\ s.region \in Region
  BY DEF Sweeps
<1>2. p[1] \in Int /\ p[2] \in Int /\ p[3] \in Int
  OBVIOUS
<1>3. Advanced(s).at = b /\ Advanced(s).step = s.step
  BY DEF Advanced, Sweeps
<1>4. \/ b = <<a[1] + s.step, a[2], a[3]>>
      \/ \E x \in Int : b = <<x, a[2], a[3] + 1>>
      \/ \E x, z \in Int : b = <<x, a[2] + 1, z>>
  <2>1. /\ FirstX(s.region, s.step) \in Int /\ s.region.z0 \in Int
    BY <1>1 DEF FirstX, Region
  <2> QED
    BY <2>1 DEF Following
<1>5. s.step = 1 \/ s.step = -1
  BY DEF Sweeps
<1>6. ASSUME NEW step \in {1, -1}, s.step = step,
             b = <<a[1] + step, a[2], a[3]>>
      PROVE  /\ Later(p, Advanced(s)) => Later(p, s)
             /\ p = a => ~Later(p, Advanced(s))
             /\ p = Below(a) => ~Later(p, Advanced(s))
             /\ p = Beside(a, -step) => ~Later(p, Advanced(s))
             /\ p = Beside(a, step) => p = Advanced(s).at
  <2> HIDE DEF a, b
  <2>1. CASE step = 1
    BY <1>1, <1>2, <1>3, <1>6, <2>1 DEF Later, Below, Beside, a
  <2>2. CASE step = -1
    BY <1>1, <1>2, <1>3, <1>6, <2>2 DEF Later, Below, Beside, a
  <2> QED
    BY <2>1, <2>2
<1>7. ASSUME \/ \E x \in Int : b = <<x, a[2], a[3] + 1>>
             \/ \E x, z \in Int : b = <<x, a[2] + 1, z>>
      PROVE  /\ Later(p, Advanced(s)) => Later(p, s)
             /\ p \in {a, Below(a), Beside(a, s.step), Beside(a, -s.step)}
                  => ~Later(p, Advanced(s))
  <2> HIDE DEF a, b
  <2>1. Later(p, Advanced(s)) => p[2] > a[2] \/ (p[2] = a[2] /\ p[3] > a[3])
    <3>1. CASE \E x \in Int : b = <<x, a[2], a[3] + 1>>
      BY <1>1, <1>2, <1>3, <3>1 DEF Later
    <3>2. CASE \E x, z \in Int : b = <<x, a[2] + 1, z>>
      BY <1>1, <1>2, <1>3, <3>2 DEF Later
    <3> QED
      BY <1>7, <3>1, <3>2
  <2>2. Later(p, Advanced(s)) => Later(p, s)
    BY <2>1 DEF Later, a
  <2>3. p \in {a, Below(a), Beside(a, s.step), Beside(a, -s.step)}
          => p[2] =< a[2] /\ p[3] = a[3]
    BY <1>1 DEF Below, Beside
  <2> QED
    BY <1>1, <1>2, <2>1, <2>2, <2>3
<1> QED
  BY <1>3, <1>4, <1>5, <1>6, <1>7

LEMMA AheadIsLater ==
  ASSUME NEW p
  PROVE  Ahead(p) <=> sweep.busy /\ InRegion(p, sweep.region) /\ Later(p, sweep)
  BY DEF Ahead, Later

(* The scan from the bottom up never meets water it has moved, but for the    *)
(* voxel it moved along the sweep and meets next.                            *)
THEOREM MovedStaysBehind == Spec => []MovedIsBehind
<1>1. Init => MovedIsBehind
  BY DEF Init, MovedIsBehind
<1>2. TypeOK /\ MovedIsBehind /\ [Next]_vars => MovedIsBehind'
  <2> SUFFICES ASSUME TypeOK, MovedIsBehind, [Next]_vars, NEW p \in moved', Ahead(p)'
               PROVE  p = sweep'.at
    BY DEF MovedIsBehind
  <2>1. CASE UNCHANGED <<sweep, moved>>
    BY <2>1 DEF MovedIsBehind, Ahead
  <2>2. CASE moved' = {}
    BY <2>2
  <2>3. CASE sweep' = Idle
    BY <2>3 DEF Ahead, Idle
  <2>4. CASE Sweep
    <3>1. sweep \in Sweeps /\ sweep' = Advanced(sweep) /\ sweep'.region = sweep.region
      BY <2>4, BusyIsSweep DEF Sweep, Visit, Advanced, Sweeps
    <3>2. sweep.busy
      BY <2>4 DEF Sweep, Visit
    <3>3. InRegion(p, sweep.region) /\ Later(p, Advanced(sweep))
      BY <3>1, AheadIsLater DEF Ahead, Later
    <3>4. p \in World
      BY <2>4, VisitTyping DEF Sweep
    <3>5. p \in Int \X Int \X Int
      BY <3>4, PositionsAreTriples
    <3>6. Later(p, sweep) /\ p # sweep.at
      BY <3>1, <3>3, <3>5, CursorOnlyAdvances
    <3>7. p \notin moved
      BY <3>2, <3>3, <3>6, AheadIsLater DEF MovedIsBehind
    <3>8. p \in {Below(sweep.at), Beside(sweep.at, sweep.step), Beside(sweep.at, -sweep.step)}
      BY <2>4, <3>7, VisitFacts DEF Sweep
    <3> QED
      BY <3>1, <3>3, <3>5, <3>8, CursorOnlyAdvances
  <2> QED
    BY <2>1, <2>2, <2>3, <2>4 DEF Next, vars, Call, EndOrigin, CallPlayer, EndPlayer
<1> QED
  BY <1>1, <1>2, Typing, PTL DEF Spec
-----------------------------------------------------------------------------
(* The sides the passes sweep from.                                           *)
LEMMA NextTickTurns ==
  ASSUME caTick \in 0..TickRange - 1
  PROVE  (NextTick % 2 = 0) <=> (caTick % 2 = 1)
<1>1. /\ caTick \in Nat /\ TickRange \in Nat \ {0} /\ (TickRange % 2) = 0
      /\ caTick + 1 =< TickRange
  BY StepAssumption
<1>2. CASE caTick + 1 = TickRange
  <2>1. NextTick = 0
    BY <1>1, <1>2 DEF NextTick
  <2>2. ((caTick + 1) % 2) = 0
    BY <1>1, <1>2
  <2> QED
    BY <2>1, <2>2, <1>1
<1>3. CASE caTick + 1 < TickRange
  <2>1. NextTick = caTick + 1
    BY <1>1, <1>3 DEF NextTick
  <2> QED
    BY <2>1, <1>1
<1> QED
  BY <1>1, <1>2, <1>3

(* The tick is even between two steps, and odd between the two passes of one. *)
SidesInv ==
  /\ PassesKeepTheirSides
  /\ (caTick % 2 = 0) <=> phase \in {"game", "player"}

LEMMA SidesNext ==
  ASSUME TypeOK, SidesInv, [Next]_vars
  PROVE  SidesInv'
<1> USE DEF SidesInv, PassesKeepTheirSides
<1>1. caTick \in 0..TickRange - 1 /\ phase \in {"game", "origin", "between", "player"}
  BY DEF TypeOK
<1>2. caTick \in Int /\ caTick >= 0
  BY <1>1, StepAssumption
<1>3. caTick % 2 \in {0, 1}
  BY <1>2
<1>4. \A t : (caTick' = NextTick) => ((caTick' % 2 = 0) <=> (caTick % 2 = 1))
  BY <1>1, NextTickTurns
<1>5. ASSUME NEW dt \in Dts, NEW c \in PlayerChunks, Call(dt, c)
      PROVE  SidesInv'
  <2>1. CASE UNCHANGED <<sweep, moved, caTick, phase>>
    BY <2>1
  <2>2. CASE /\ phase = "game" /\ sweep' = Start(OriginRegion, caTick)
             /\ caTick' = NextTick /\ phase' = "origin"
    <3>1. sweep'.step = 1
      BY <2>2, <1>3 DEF Start, StepOf
    <3> QED
      BY <2>2, <3>1, <1>3, <1>4
  <2> QED
    BY <1>5, <2>1, <2>2 DEF Call
<1>6. CASE CallPlayer
  <2>1. /\ phase = "between" /\ sweep' = Start(PlayerRegion(player), caTick)
        /\ caTick' = NextTick /\ phase' = "player"
    BY <1>6 DEF CallPlayer
  <2>2. sweep'.step = -1
    BY <2>1, <1>3 DEF Start, StepOf
  <2> QED
    BY <2>1, <2>2, <1>3, <1>4
<1>7. CASE Sweep
  <2>1. sweep'.step = sweep.step
    BY <1>7, BusyIsSweep DEF Sweep, Visit, Advanced, Sweeps
  <2> QED
    BY <1>7, <2>1 DEF Sweep
<1>8. CASE EndOrigin
  BY <1>8 DEF EndOrigin
<1>9. CASE EndPlayer
  BY <1>9 DEF EndPlayer
<1>10. CASE UNCHANGED vars
  BY <1>10 DEF vars
<1> QED
  BY <1>5, <1>6, <1>7, <1>8, <1>9, <1>10 DEF Next

\* Each pass of a step sweeps from the same side every time (fluid_abi.cpp:
\* 152, 161), whatever the periods, the world and the player's way.
THEOREM SidesAreKept == Spec => []PassesKeepTheirSides
<1>1. Init => SidesInv
  BY DEF Init, SidesInv, PassesKeepTheirSides
<1>2. TypeOK /\ SidesInv /\ [Next]_vars => SidesInv'
  BY SidesNext
<1>3. SidesInv => PassesKeepTheirSides
  BY DEF SidesInv
<1> QED
  BY <1>1, <1>2, <1>3, Typing, PTL DEF Spec
=============================================================================
