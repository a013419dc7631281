----------------------------- MODULE AtlasProofs -----------------------------
(* The atlas for every set of materials and every limit: the two tables stay   *)
(* in step, slots keep their names, and a call that answers OK leaves a whole  *)
(* atlas.                                                                    *)
EXTENDS Atlas, FiniteSetTheorems, TLAPS

(* The tables are each other's inverse, in the dead slots too.                *)
TablesMatch ==
  /\ \A n \in DOMAIN slotOf : slots[slotOf[n]].name = n
  /\ \A i \in DOMAIN slots :
       IF slots[i].name = NoName THEN ~slots[i].live
       ELSE slots[i].name \in DOMAIN slotOf /\ slotOf[slots[i].name] = i

(* What a call has still to do is kept by the call alone; the tiles it will    *)
(* load are those of live slots.                                             *)
ToDo ==
  /\ pc \in {"none", "idle"} => toScan = {} /\ toFill = {}
  /\ pc = "fill" => toScan = {}
  /\ \A n \in toFill : slots[slotOf[n]].live

(* While the directory is scanned the live slots are those of to_fill; while   *)
(* tiles are loaded, those that are not in it any more show their material.    *)
Composed ==
  /\ pc = "scan" => \A i \in DOMAIN slots : slots[i].live => slots[i].name \in toFill
  /\ pc = "fill" =>
       /\ Len(pixels) = Len(slots)
       /\ \A i \in DOMAIN slots :
            IF slots[i].live THEN slots[i].name \in toFill \/ pixels[i] = slots[i].name
            ELSE pixels[i] = Black

AtlasInv == TypeOK /\ TablesMatch /\ ToDo /\ Composed /\ WholeWhenOk

-----------------------------------------------------------------------------
(* There are no more live slots than slots.                                   *)
LEMMA CountIsBounded ==
  ASSUME TypeOK
  PROVE  Cardinality(LiveSlots) \in 0..MaxMaterials
<1>1. Len(slots) \in Nat /\ DOMAIN slots = 1..Len(slots) /\ Len(slots) <= MaxMaterials
  BY DEF TypeOK
<1>2. IsFiniteSet(1..Len(slots)) /\ Cardinality(1..Len(slots)) = Len(slots)
  <2>1. 1 \in Int /\ Len(slots) \in Int
    BY <1>1
  <2>2. /\ IsFiniteSet(1..Len(slots))
        /\ Cardinality(1..Len(slots)) = IF 1 > Len(slots) THEN 0 ELSE Len(slots) - 1 + 1
    BY <2>1, FS_Interval
  <2> QED BY <1>1, <2>2
<1>3. LiveSlots \in SUBSET (1..Len(slots))
  BY <1>1 DEF LiveSlots
<1>4. IsFiniteSet(LiveSlots) /\ Cardinality(LiveSlots) <= Len(slots)
  BY <1>2, <1>3, FS_Subset
<1>5. Cardinality(LiveSlots) \in Nat
  BY <1>4, FS_CardinalityType
<1> QED BY <1>1, <1>4, <1>5, AtlasAssumption

(* Marking a slot.                                                           *)
LEMMA MarkedDead ==
  ASSUME NEW r \in Slot
  PROVE  LET d == [r EXCEPT !.live = FALSE] IN d \in Slot /\ d.name = r.name /\ ~d.live
BY DEF Slot

LEMMA MarkedLive ==
  ASSUME NEW r \in Slot
  PROVE  LET d == [r EXCEPT !.live = TRUE] IN d \in Slot /\ d.name = r.name /\ d.live
BY DEF Slot

(* What the type invariant says of the table of slots.                        *)
LEMMA SlotsOf ==
  ASSUME TypeOK
  PROVE  /\ Len(slots) \in Nat /\ DOMAIN slots = 1..Len(slots)
         /\ \A i \in DOMAIN slots : slots[i] \in Slot
BY DEF TypeOK

(* A table of slots, made slot by slot.                                      *)
LEMMA TableOfSlots ==
  ASSUME NEW n \in Nat, NEW g \in [1..n -> Slot]
  PROVE  g \in Seq(Slot) /\ Len(g) = n
OBVIOUS

(* Each step keeps the invariant.                                            *)
LEMMA InitAtlasInv == Init => AtlasInv
<1> SUFFICES ASSUME Init PROVE AtlasInv
  OBVIOUS
<1>1. slots = << >> /\ pixels = << >> /\ slotOf = << >> /\ toFill = {} /\ toScan = {} /\ pc = "none"
  BY DEF Init
<1>2. DOMAIN slots = {} /\ DOMAIN slotOf = {} /\ Len(slots) = 0 /\ Len(pixels) = 0
  BY <1>1
<1>3. TypeOK
  BY <1>1, <1>2, AtlasAssumption DEF Init, TypeOK
<1> QED BY <1>1, <1>2, <1>3 DEF AtlasInv, TablesMatch, ToDo, Composed, WholeWhenOk

LEMMA ChangeFileKeeps ==
  ASSUME AtlasInv, NEW n \in Materials, ChangeFile(n)
  PROVE  AtlasInv'
<1>1. DOMAIN files' \subseteq Materials /\ \A m \in DOMAIN files' : files'[m] \in {"good", "corrupt"}
  BY DEF AtlasInv, TypeOK, ChangeFile
<1> QED BY <1>1 DEF AtlasInv, TypeOK, ChangeFile, TablesMatch, ToDo, Composed, WholeWhenOk, LiveSlots

LEMMA FailKeeps ==
  ASSUME AtlasInv, NEW code \in {CorruptFile, BufferSize},
         Fail(code, slots, slotOf, pixels)
  PROVE  AtlasInv'
<1> USE DEF AtlasInv
<1>1. CASE call = "create"
  <2>1. slots' = << >> /\ pixels' = << >> /\ slotOf' = << >> /\ toFill' = {} /\ toScan' = {} /\ pc' = "none"
    BY <1>1 DEF Fail
  <2>2. DOMAIN slots' = {} /\ DOMAIN slotOf' = {} /\ Len(slots') = 0 /\ Len(pixels') = 0
    BY <2>1
  <2>3. TypeOK'
    BY <1>1, <2>1, <2>2, AtlasAssumption DEF Fail, TypeOK
  <2> QED BY <2>1, <2>2, <2>3 DEF TablesMatch, ToDo, Composed, WholeWhenOk
<1>2. CASE call # "create"
  <2>1. /\ pc' = "idle" /\ toFill' = {} /\ toScan' = {} /\ answer' = code
        /\ UNCHANGED <<slots, slotOf, pixels, nLive, files, call>>
    BY <1>2 DEF Fail
  <2>2. TypeOK'
    BY <2>1 DEF TypeOK
  <2> QED BY <2>1, <2>2, AtlasAssumption DEF TablesMatch, ToDo, Composed, WholeWhenOk
<1> QED BY <1>1, <1>2

LEMMA BeginKeeps ==
  ASSUME AtlasInv, NEW c \in {"create", "reload"}, Begin(c)
  PROVE  AtlasInv'
<1> USE DEF AtlasInv
<1>1. toScan = {} /\ toFill = {} /\ toFill' = {}
  BY DEF Begin, ToDo, TypeOK
<1>2. CASE DOMAIN files = {}
  <2>1. answer' = NoMaterials /\ toScan' = {} /\ UNCHANGED <<pc, slots, slotOf, pixels, nLive, files>>
    BY <1>1, <1>2 DEF Begin
  <2> QED BY <1>1, <2>1, AtlasAssumption DEF TypeOK, TablesMatch, ToDo, Composed, WholeWhenOk, Begin
<1>3. CASE DOMAIN files # {}
  <2>1. /\ pc' = "scan" /\ toScan' = DOMAIN files /\ DOMAIN slots' = DOMAIN slots
        /\ UNCHANGED <<files, answer, slotOf, pixels, nLive>>
    BY <1>3 DEF Begin
  <2>2. \A i \in DOMAIN slots :
          slots'[i] \in Slot /\ slots'[i].name = slots[i].name /\ ~slots'[i].live
    <3> TAKE i \in DOMAIN slots
    <3>1. slots'[i] = [slots[i] EXCEPT !.live = FALSE]
      BY <1>3 DEF Begin
    <3> QED BY <3>1, SlotsOf, MarkedDead
  <2>3. slots' \in Seq(Slot) /\ Len(slots') = Len(slots)
    <3>1. slots' \in [1..Len(slots) -> Slot]
      BY <1>3, <2>2, SlotsOf DEF Begin
    <3> QED BY <3>1, SlotsOf, TableOfSlots
  <2>4. TypeOK'
    BY <1>1, <2>1, <2>3 DEF TypeOK, Begin
  <2>5. TablesMatch'
    BY <2>1, <2>2 DEF TablesMatch, TypeOK
  <2> QED BY <1>1, <2>1, <2>2, <2>4, <2>5 DEF ToDo, Composed, WholeWhenOk
<1> QED BY <1>2, <1>3

-----------------------------------------------------------------------------
(* A name of the directory gets a slot: its own, one without a name, or a new  *)
(* one.                                                                      *)
LEMMA SeatKeeps ==
  ASSUME AtlasInv, pc = "scan", NEW n \in Materials, NEW i,
         toScan' = toScan \ {n}, toFill' = toFill \union {n},
         slots' \in Seq(Slot), Len(slots') <= MaxMaterials,
         Len(slots) <= Len(slots'),
         DOMAIN slots' = DOMAIN slots \union {i},
         slots'[i].name = n, slots'[i].live,
         \A j \in DOMAIN slots : j # i => slots'[j] = slots[j],
         i \in DOMAIN slots => slots[i].name \in {NoName, n},
         DOMAIN slotOf' = DOMAIN slotOf \union {n}, slotOf'[n] = i,
         \A m \in DOMAIN slotOf : slotOf'[m] = IF m = n THEN i ELSE slotOf[m],
         n \in DOMAIN slotOf => slotOf[n] = i,
         UNCHANGED <<files, pc, call, pixels, nLive, answer>>
  PROVE  AtlasInv'
<1> USE DEF AtlasInv
<1>1. n # NoName
  BY AtlasAssumption
<1>2. TypeOK'
  <2>1. Len(pixels) <= Len(slots) /\ Len(pixels) \in Nat /\ Len(slots) \in Nat /\ Len(slots') \in Nat
    BY DEF TypeOK
  <2>2. Len(pixels) <= Len(slots')
    BY <2>1
  <2>3. \A m \in DOMAIN slotOf' : slotOf'[m] \in DOMAIN slots'
    BY DEF TypeOK
  <2> QED BY <2>2, <2>3 DEF TypeOK
<1>3. \A m \in DOMAIN slotOf : m # n => slotOf[m] # i
  BY AtlasAssumption DEF TypeOK, TablesMatch
<1>4. TablesMatch'
  <2>1. \A m \in DOMAIN slotOf' : slots'[slotOf'[m]].name = m
    BY <1>3 DEF TablesMatch, TypeOK
  <2>2. ASSUME NEW j \in DOMAIN slots', j # i
        PROVE  IF slots'[j].name = NoName THEN ~slots'[j].live
               ELSE slots'[j].name \in DOMAIN slotOf' /\ slotOf'[slots'[j].name] = j
    BY <2>2, <1>1 DEF TablesMatch
  <2> QED BY <1>1, <2>1, <2>2 DEF TablesMatch
<1>5. ToDo'
  BY <1>3 DEF ToDo, TypeOK
<1>6. Composed'
  BY DEF Composed
<1> QED BY <1>2, <1>4, <1>5, <1>6 DEF WholeWhenOk

LEMMA KeepSlotKeeps ==
  ASSUME AtlasInv, KeepSlot
  PROVE  AtlasInv'
<1> USE DEF AtlasInv
<1>1. PICK n \in DOMAIN slotOf :
        /\ IsFirst(n, toScan)
        /\ toScan' = toScan \ {n} /\ toFill' = toFill \union {n}
        /\ slots' = [slots EXCEPT ![slotOf[n]].live = TRUE]
  BY DEF KeepSlot
<1>2. slotOf[n] \in DOMAIN slots /\ n \in Materials /\ slots[slotOf[n]].name = n
  BY DEF TypeOK, TablesMatch
<1>3. slots' = [slots EXCEPT ![slotOf[n]] = [slots[slotOf[n]] EXCEPT !.live = TRUE]]
  BY <1>1
<1>4. /\ slots'[slotOf[n]] = [slots[slotOf[n]] EXCEPT !.live = TRUE]
      /\ \A j \in DOMAIN slots : j # slotOf[n] => slots'[j] = slots[j]
      /\ DOMAIN slots' = DOMAIN slots
  BY <1>2, <1>3
<1>5. slots'[slotOf[n]] \in Slot /\ slots'[slotOf[n]].name = n /\ slots'[slotOf[n]].live
  BY <1>2, <1>4, MarkedLive, SlotsOf
<1>6. slots' \in Seq(Slot) /\ Len(slots') = Len(slots)
  <2>1. slots' \in [1..Len(slots) -> Slot]
    BY <1>3, <1>4, <1>5, SlotsOf
  <2> QED BY <2>1, SlotsOf, TableOfSlots
<1>7. Len(slots') <= MaxMaterials /\ Len(slots) <= Len(slots') /\ pc = "scan"
  BY <1>6, SlotsOf DEF TypeOK, KeepSlot
<1>8. UNCHANGED <<files, pc, call, slotOf, pixels, nLive, answer>>
  BY DEF KeepSlot
<1>9. /\ DOMAIN slots' = DOMAIN slots \union {slotOf[n]}
      /\ DOMAIN slotOf' = DOMAIN slotOf \union {n} /\ slotOf'[n] = slotOf[n]
      /\ \A m \in DOMAIN slotOf : slotOf'[m] = IF m = n THEN slotOf[n] ELSE slotOf[m]
  BY <1>2, <1>4, <1>8
<1>10. slots[slotOf[n]].name \in {NoName, n}
  BY <1>2
<1> DEFINE i == slotOf[n]
<1>11. /\ \A j \in DOMAIN slots : j # i => slots'[j] = slots[j]
       /\ DOMAIN slots' = DOMAIN slots \union {i}
       /\ slots'[i].name = n /\ slots'[i].live
       /\ i \in DOMAIN slots => slots[i].name \in {NoName, n}
       /\ slotOf'[n] = i /\ slotOf[n] = i
       /\ \A m \in DOMAIN slotOf : slotOf'[m] = IF m = n THEN i ELSE slotOf[m]
       /\ UNCHANGED <<files, pc, call, pixels, nLive, answer>>
  BY <1>4, <1>5, <1>8, <1>9, <1>10
<1>12. toScan' = toScan \ {n} /\ toFill' = toFill \union {n}
  BY <1>1
<1> HIDE DEF AtlasInv, i
<1> QED BY <1>2, <1>6, <1>7, <1>9, <1>11, <1>12, SeatKeeps

(* The same for a name that has no slot yet.                                  *)
LEMMA GiveSlotKeeps ==
  ASSUME AtlasInv, pc = "scan", NEW n \in toScan, n \notin DOMAIN slotOf,
         NEW i, NEW sl, GiveSlot(n, i, sl),
         sl \in Seq(Slot), Len(sl) <= MaxMaterials, Len(slots) <= Len(sl),
         DOMAIN sl = DOMAIN slots \union {i},
         sl[i].name = n, sl[i].live,
         \A j \in DOMAIN slots : j # i => sl[j] = slots[j],
         i \in DOMAIN slots => slots[i].name = NoName
  PROVE  AtlasInv'
<1>1. n \in Materials
  BY DEF AtlasInv, TypeOK
<1>2. /\ toScan' = toScan \ {n} /\ toFill' = toFill \union {n} /\ slots' = sl
      /\ DOMAIN slotOf' = DOMAIN slotOf \union {n} /\ slotOf'[n] = i
      /\ \A m \in DOMAIN slotOf : slotOf'[m] = IF m = n THEN i ELSE slotOf[m]
      /\ UNCHANGED <<files, pc, call, pixels, nLive, answer>>
  BY DEF GiveSlot
<1> QED BY <1>1, <1>2, SeatKeeps

LEMMA NamedSlot ==
  ASSUME NEW n \in Materials
  PROVE  LET r == [name |-> n, live |-> TRUE] IN r \in Slot /\ r.name = n /\ r.live
BY DEF Slot

LEMMA ReuseSlotKeeps ==
  ASSUME AtlasInv, ReuseSlot
  PROVE  AtlasInv'
<1> DEFINE Named(n) == [name |-> n, live |-> TRUE]
<1>1. PICK n \in toScan \ DOMAIN slotOf, i \in DOMAIN slots :
        /\ IsFree(i)
        /\ GiveSlot(n, i, [slots EXCEPT ![i] = Named(n)])
  BY DEF ReuseSlot, IsFirst
<1>2. Named(n) \in Slot /\ Named(n).name = n /\ Named(n).live
  BY NamedSlot DEF AtlasInv, TypeOK
<1> DEFINE sl == [slots EXCEPT ![i] = Named(n)]
<1> HIDE DEF Named
<1>3. DOMAIN sl = DOMAIN slots /\ sl[i] = Named(n) /\ \A j \in DOMAIN slots : j # i => sl[j] = slots[j]
  OBVIOUS
<1>4. sl \in Seq(Slot) /\ Len(sl) = Len(slots)
  <2>1. TypeOK
    BY DEF AtlasInv
  <2>2. sl \in [1..Len(slots) -> Slot]
    BY <1>2, <2>1, SlotsOf
  <2> HIDE DEF sl
  <2> QED BY <2>1, <2>2, SlotsOf, TableOfSlots
<1>5. Len(sl) <= MaxMaterials /\ Len(slots) <= Len(sl)
  BY <1>4 DEF AtlasInv, TypeOK
<1>6. GiveSlot(n, i, sl) /\ slots[i].name = NoName /\ pc = "scan"
  BY <1>1 DEF IsFree, ReuseSlot
<1> HIDE DEF sl
<1> QED BY <1>2, <1>3, <1>4, <1>5, <1>6, GiveSlotKeeps

LEMMA AppendSlotKeeps ==
  ASSUME AtlasInv, AppendSlot
  PROVE  AtlasInv'
<1> DEFINE Named(n) == [name |-> n, live |-> TRUE]
<1>1. PICK n \in toScan \ DOMAIN slotOf :
        GiveSlot(n, Len(slots) + 1, Append(slots, Named(n)))
  BY DEF AppendSlot, IsFirst
<1>2. Named(n) \in Slot /\ Named(n).name = n /\ Named(n).live
  BY NamedSlot DEF AtlasInv, TypeOK
<1> DEFINE i == Len(slots) + 1
           sl == Append(slots, Named(n))
<1> HIDE DEF Named
<1>3. slots \in Seq(Slot) /\ Len(slots) < MaxMaterials /\ Len(slots) \in Nat /\ pc = "scan"
  BY DEF AtlasInv, TypeOK, AppendSlot, HasRoom
<1>4. /\ sl \in Seq(Slot) /\ Len(sl) = Len(slots) + 1
      /\ DOMAIN sl = DOMAIN slots \union {i} /\ sl[i] = Named(n)
      /\ \A j \in DOMAIN slots : j # i => sl[j] = slots[j]
  BY <1>2, <1>3
<1>5. Len(sl) <= MaxMaterials /\ Len(slots) <= Len(sl) /\ i \notin DOMAIN slots
  BY <1>3, <1>4, AtlasAssumption
<1>6. GiveSlot(n, i, sl)
  BY <1>1
<1>7. sl[i].name = n /\ sl[i].live /\ (i \in DOMAIN slots => slots[i].name = NoName)
  BY <1>2, <1>4, <1>5
<1> HIDE DEF sl, i
<1> QED BY <1>1, <1>3, <1>4, <1>5, <1>6, <1>7, GiveSlotKeeps

-----------------------------------------------------------------------------
LEMMA DeadSlot ==
  LET r == [name |-> NoName, live |-> FALSE] IN r \in Slot /\ r.name = NoName /\ ~r.live
BY DEF Slot

LEMMA PurgeKeeps ==
  ASSUME AtlasInv, Purge
  PROVE  AtlasInv'
<1> DEFINE dead == [name |-> NoName, live |-> FALSE]
<1>1. dead \in Slot /\ dead.name = NoName /\ ~dead.live
  BY DeadSlot
<1>2. slots' = [i \in DOMAIN slots |-> IF slots[i].live THEN slots[i] ELSE dead]
  BY DEF Purge, Purged
<1> HIDE DEF dead
<1>3. TypeOK /\ TablesMatch /\ ToDo /\ Composed
  BY DEF AtlasInv
<1>4. /\ DOMAIN slots' = DOMAIN slots
      /\ \A i \in DOMAIN slots : IF slots[i].live THEN slots'[i] = slots[i] ELSE slots'[i] = dead
  BY <1>2
<1>5. slots' \in Seq(Slot) /\ Len(slots') = Len(slots)
  <2>1. slots' \in [1..Len(slots) -> Slot]
    BY <1>1, <1>2, <1>3, SlotsOf
  <2> QED BY <1>3, <2>1, SlotsOf, TableOfSlots
<1>6. /\ pc = "scan" /\ toScan = {} /\ toScan' = {} /\ pc' = "fill"
      /\ toFill' = toFill
      /\ UNCHANGED <<files, call, nLive, answer>>
  BY DEF Purge
<1>7. /\ DOMAIN slotOf' = {m \in DOMAIN slotOf : slots[slotOf[m]].live}
      /\ \A m \in DOMAIN slotOf' : slotOf'[m] = slotOf[m]
  BY DEF Purge, Purged
<1>8. pixels' = [i \in 1..Len(slots) |-> Black]
  BY DEF Purge, Blank
<1>9. /\ pixels' \in Seq(Materials \union {Black}) /\ Len(pixels') = Len(slots)
      /\ \A i \in DOMAIN slots : pixels'[i] = Black
  BY <1>3, <1>8, SlotsOf
<1>10. TypeOK'
  <2>1. toFill' \subseteq DOMAIN slotOf'
    BY <1>3, <1>6, <1>7 DEF TypeOK, ToDo
  <2>2. \A n \in DOMAIN slotOf' : slotOf'[n] \in DOMAIN slots'
    BY <1>3, <1>4, <1>7 DEF TypeOK
  <2>3. Len(slots') <= MaxMaterials /\ Len(pixels') <= Len(slots')
    BY <1>3, <1>5, <1>9, SlotsOf DEF TypeOK
  <2> QED BY <1>3, <1>5, <1>6, <1>7, <1>9, <2>1, <2>2, <2>3 DEF TypeOK
<1>11. TablesMatch'
  <2>1. \A n \in DOMAIN slotOf' : slots'[slotOf'[n]].name = n
    BY <1>3, <1>4, <1>7 DEF TypeOK, TablesMatch
  <2>2. ASSUME NEW i \in DOMAIN slots'
        PROVE  IF slots'[i].name = NoName THEN ~slots'[i].live
               ELSE slots'[i].name \in DOMAIN slotOf' /\ slotOf'[slots'[i].name] = i
    BY <1>1, <1>3, <1>4, <1>7, <2>2 DEF TablesMatch
  <2> QED BY <2>1, <2>2 DEF TablesMatch
<1>12. ToDo'
  <2>1. \A n \in toFill' : slots'[slotOf'[n]].live
    BY <1>3, <1>4, <1>6, <1>7 DEF TypeOK, ToDo
  <2> QED BY <1>6, <2>1 DEF ToDo
<1>13. Composed'
  BY <1>1, <1>3, <1>4, <1>5, <1>6, <1>9 DEF Composed
<1> QED BY <1>6, <1>10, <1>11, <1>12, <1>13 DEF AtlasInv, WholeWhenOk

LEMMA LoadTileKeeps ==
  ASSUME AtlasInv, LoadTile
  PROVE  AtlasInv'
<1>1. TypeOK /\ TablesMatch /\ ToDo /\ Composed
  BY DEF AtlasInv
<1>2. /\ pc = "fill" /\ pc' = "fill" /\ toScan = {}
      /\ UNCHANGED <<files, pc, call, toScan, slots, slotOf, nLive, answer>>
  BY <1>1 DEF LoadTile, ToDo
<1>3. PICK n \in toFill :
        /\ toFill' = toFill \ {n}
        /\ pixels' = [pixels EXCEPT ![slotOf[n]] = n]
  BY DEF LoadTile, IsFirst
<1>4. n \in DOMAIN slotOf /\ slotOf[n] \in DOMAIN slots /\ slots[slotOf[n]].name = n
      /\ slots[slotOf[n]].live
  BY <1>1 DEF TypeOK, TablesMatch, ToDo
<1>5. n \in Materials
  BY <1>1, <1>4 DEF TypeOK
<1>6. Len(pixels) = Len(slots) /\ DOMAIN pixels = DOMAIN slots
  BY <1>1, <1>2 DEF TypeOK, Composed
<1>7. /\ pixels' \in Seq(Materials \union {Black}) /\ Len(pixels') = Len(slots)
      /\ pixels'[slotOf[n]] = n
      /\ \A i \in DOMAIN slots : i # slotOf[n] => pixels'[i] = pixels[i]
  BY <1>1, <1>3, <1>4, <1>5, <1>6 DEF TypeOK
<1>8. TypeOK'
  <2>1. Len(pixels') <= Len(slots')
    BY <1>1, <1>2, <1>7, SlotsOf
  <2> QED BY <1>1, <1>2, <1>3, <1>7, <2>1 DEF TypeOK
<1>9. Composed'
  <2>1. ASSUME NEW i \in DOMAIN slots'
        PROVE  IF slots'[i].live THEN slots'[i].name \in toFill' \/ pixels'[i] = slots'[i].name
               ELSE pixels'[i] = Black
    <3>1. CASE i = slotOf[n]
      BY <1>2, <1>4, <1>5, <1>7, <3>1
    <3>2. CASE i # slotOf[n]
      <4>1. slots[i].live => slots[i].name # n
        BY <1>1, <1>2, <1>4, <2>1, <3>2, AtlasAssumption DEF TablesMatch, TypeOK
      <4> QED BY <1>1, <1>2, <1>3, <1>7, <2>1, <3>2, <4>1 DEF Composed
    <3> QED BY <3>1, <3>2
  <2> QED BY <1>2, <1>7, <2>1 DEF Composed
<1> QED BY <1>1, <1>2, <1>3, <1>8, <1>9 DEF AtlasInv, TablesMatch, ToDo, WholeWhenOk

LEMMA FinishKeeps ==
  ASSUME AtlasInv, Finish
  PROVE  AtlasInv'
<1>1. /\ TypeOK /\ TablesMatch /\ ToDo /\ Composed
      /\ pc = "fill" /\ toFill = {} /\ toScan = {} /\ pc' = "idle"
      /\ nLive' = Cardinality(LiveSlots) /\ answer' = Ok
      /\ UNCHANGED <<files, call, toScan, toFill, slots, slotOf, pixels>>
  BY DEF AtlasInv, Finish, ToDo
<1>2. TypeOK'
  BY <1>1, CountIsBounded DEF TypeOK
<1>3. LiveSlots' = LiveSlots
  BY <1>1 DEF LiveSlots
<1>4. WholeWhenOk'
  BY <1>1, <1>3 DEF Composed, WholeWhenOk
<1> QED BY <1>1, <1>2, <1>4 DEF AtlasInv, TablesMatch, ToDo, Composed

LEMMA ReleaseKeeps ==
  ASSUME AtlasInv, Release
  PROVE  AtlasInv'
<1>1. /\ slots' = << >> /\ pixels' = << >> /\ slotOf' = << >> /\ nLive' = 0
      /\ toFill' = {} /\ toScan' = {} /\ pc' = "none" /\ answer' = Ok
      /\ UNCHANGED <<files, call>>
  BY DEF Release, AtlasInv, ToDo
<1>2. DOMAIN slots' = {} /\ DOMAIN slotOf' = {} /\ Len(slots') = 0 /\ Len(pixels') = 0
  BY <1>1
<1>3. TypeOK'
  BY <1>1, <1>2, AtlasAssumption DEF AtlasInv, TypeOK
<1> QED BY <1>1, <1>2, <1>3 DEF AtlasInv, TablesMatch, ToDo, Composed, WholeWhenOk

-----------------------------------------------------------------------------
(* The inductive invariant: the tables in step, and what a call has composed   *)
(* so far.                                                                   *)
THEOREM AtlasInvariant == Spec => []AtlasInv
<1>1. AtlasInv /\ [Next]_vars => AtlasInv'
  <2> SUFFICES ASSUME AtlasInv, [Next]_vars PROVE AtlasInv'
    OBVIOUS
  <2>1. CASE \E n \in Materials : ChangeFile(n)
    BY <2>1, ChangeFileKeeps
  <2>2. CASE Begin("create") \/ Begin("reload")
    BY <2>2, BeginKeeps
  <2>3. CASE KeepSlot
    BY <2>3, KeepSlotKeeps
  <2>4. CASE ReuseSlot
    BY <2>4, ReuseSlotKeeps
  <2>5. CASE AppendSlot
    BY <2>5, AppendSlotKeeps
  <2>6. CASE RefuseFull
    <3>1. Fail(BufferSize, slots, slotOf, pixels)
      BY <2>6 DEF RefuseFull
    <3> QED BY <3>1, FailKeeps
  <2>7. CASE Purge
    BY <2>7, PurgeKeeps
  <2>8. CASE LoadTile
    BY <2>8, LoadTileKeeps
  <2>9. CASE RefuseCorrupt
    <3>1. Fail(CorruptFile, slots, slotOf, pixels)
      BY <2>9 DEF RefuseCorrupt
    <3> QED BY <3>1, FailKeeps
  <2>10. CASE Finish
    BY <2>10, FinishKeeps
  <2>11. CASE Release
    BY <2>11, ReleaseKeeps
  <2>12. CASE UNCHANGED vars
    BY <2>12 DEF vars, AtlasInv, TypeOK, TablesMatch, ToDo, Composed, WholeWhenOk, LiveSlots
  <2> QED BY <2>1, <2>2, <2>3, <2>4, <2>5, <2>6, <2>7, <2>8, <2>9, <2>10, <2>11, <2>12 DEF Next
<1> QED BY <1>1, InitAtlasInv, PTL DEF Spec

(* The members of the atlas keep their types, and its count stays in bounds,   *)
(* for every set of materials and every limit.                               *)
THEOREM AtlasTyping == Spec => []TypeOK
<1>1. AtlasInv => TypeOK
  BY DEF AtlasInv
<1> QED BY <1>1, AtlasInvariant, PTL

(* The two lookups of the ABI are each other's inverse in every state, after   *)
(* any sequence of reloads, refused ones included.                           *)
THEOREM LookupsAlwaysAgree == Spec => []LookupsAgree
<1>1. AtlasInv => LookupsAgree
  <2> SUFFICES ASSUME AtlasInv, NEW n \in Materials \union {NoName}, NEW i \in 1..MaxMaterials
               PROVE  FindsSlot(n, i) <=> FindsName(i, n)
    BY DEF LookupsAgree
  <2>1. FindsSlot(n, i) => FindsName(i, n)
    BY DEF AtlasInv, TypeOK, TablesMatch, FindsSlot, FindsName
  <2>2. FindsName(i, n) => FindsSlot(n, i)
    BY DEF AtlasInv, TablesMatch, FindsSlot, FindsName
  <2> QED BY <2>1, <2>2
<1> QED BY <1>1, AtlasInvariant, PTL

(* The atlas of a call that answered OK is whole.                             *)
THEOREM OkIsAlwaysWhole == Spec => []WholeWhenOk
<1>1. AtlasInv => WholeWhenOk
  BY DEF AtlasInv
<1> QED BY <1>1, AtlasInvariant, PTL

(* A slot never goes from one name to another in one step.                     *)
THEOREM SlotsAreAlwaysStable == Spec => SlotsAreNeverRenamed
<1> DEFINE Stable == \A i \in DOMAIN slots \intersect DOMAIN slots' :
       slots[i].name # NoName /\ slots'[i].name # NoName => slots'[i].name = slots[i].name
<1>1. AtlasInv /\ [Next]_vars => [Stable]_vars
  <2> SUFFICES ASSUME AtlasInv, Next PROVE Stable
    BY DEF vars
  <2> SUFFICES ASSUME NEW i \in DOMAIN slots \intersect DOMAIN slots',
                      slots[i].name # NoName, slots'[i].name # NoName
               PROVE  slots'[i].name = slots[i].name
    OBVIOUS
  <2>0. slots[i] \in Slot
    BY SlotsOf DEF AtlasInv
  <2>1. CASE UNCHANGED slots
    BY <2>1
  <2>2. ASSUME NEW c, Begin(c) PROVE slots'[i].name = slots[i].name
    <3>1. CASE DOMAIN files # {}
      <4>1. slots'[i] = [slots[i] EXCEPT !.live = FALSE]
        BY <2>2, <3>1 DEF Begin
      <4> QED BY <2>0, <4>1, MarkedDead
    <3>2. CASE DOMAIN files = {}
      BY <2>2, <3>2 DEF Begin
    <3> QED BY <3>1, <3>2
  <2>3. CASE KeepSlot
    <3>1. PICK n \in DOMAIN slotOf : slots' = [slots EXCEPT ![slotOf[n]].live = TRUE]
      BY <2>3 DEF KeepSlot
    <3>2. slots'[i] = slots[i] \/ slots'[i] = [slots[i] EXCEPT !.live = TRUE]
      BY <3>1
    <3> QED BY <2>0, <3>2, MarkedLive
  <2>4. CASE ReuseSlot
    <3>1. PICK n \in toScan \ DOMAIN slotOf, k \in DOMAIN slots :
            IsFree(k) /\ slots' = [slots EXCEPT ![k] = [name |-> n, live |-> TRUE]]
      BY <2>4 DEF ReuseSlot, GiveSlot, IsFirst
    <3>2. i # k
      BY <3>1 DEF IsFree
    <3> QED BY <3>1, <3>2
  <2>5. CASE AppendSlot
    <3>1. PICK n : slots' = Append(slots, [name |-> n, live |-> TRUE])
      BY <2>5 DEF AppendSlot, GiveSlot
    <3> DEFINE r == [name |-> n, live |-> TRUE]
    <3> HIDE DEF r
    <3>2. slots' = Append(slots, r)
      BY <3>1 DEF r
    <3>3. slots'[i] = slots[i]
      BY <3>2 DEF AtlasInv, TypeOK
    <3> QED BY <3>3
  <2>6. ASSUME NEW code, Fail(code, slots, slotOf, pixels)
        PROVE  slots'[i].name = slots[i].name
    <3>1. UNCHANGED slots \/ slots' = << >>
      BY <2>6 DEF Fail
    <3> QED BY <3>1
  <2>7. CASE Purge
    <3>1. slots'[i] = slots[i] \/ slots'[i] = [name |-> NoName, live |-> FALSE]
      BY <2>7 DEF Purge, Purged
    <3> QED BY <3>1, DeadSlot
  <2>8. CASE Release
    <3>1. slots' = << >>
      BY <2>8 DEF Release
    <3> QED BY <3>1
  <2>9. CASE (\E n \in Materials : ChangeFile(n)) \/ LoadTile \/ Finish
    BY <2>9, <2>1 DEF ChangeFile, LoadTile, Finish
  <2> QED BY <2>2, <2>3, <2>4, <2>5, <2>6, <2>7, <2>8, <2>9 DEF Next, RefuseFull, RefuseCorrupt
<1> QED BY <1>1, AtlasInvariant, PTL DEF Spec, SlotsAreNeverRenamed

(* An atlas that refuses a material as one too many has a name in every slot.  *)
THEOREM FullIsAlwaysOfNames == Spec => FullOnlyOfNames
<1>1. AtlasInv /\ RefuseFull => Cardinality(toScan \union DOMAIN slotOf) > MaxMaterials
  <2> SUFFICES ASSUME AtlasInv, RefuseFull
               PROVE  Cardinality(toScan \union DOMAIN slotOf) > MaxMaterials
    OBVIOUS
  <2>1. PICK n \in toScan \ DOMAIN slotOf : ~\E j \in DOMAIN slots : IsFree(j)
    BY DEF RefuseFull, IsFirst
  <2>2. \A i \in DOMAIN slots : slots[i].name \in DOMAIN slotOf /\ slotOf[slots[i].name] = i
    BY <2>1 DEF AtlasInv, TablesMatch, IsFree
  <2>3. Len(slots) \in Nat /\ DOMAIN slots = 1..Len(slots) /\ Len(slots) >= MaxMaterials
    BY AtlasAssumption DEF AtlasInv, TypeOK, RefuseFull, HasRoom
  <2> DEFINE f == [i \in 1..Len(slots) |-> slots[i].name]
             S == toScan \union DOMAIN slotOf
  <2>4. S \subseteq Materials /\ IsFiniteSet(S)
    BY AtlasAssumption, FS_Subset DEF AtlasInv, TypeOK
  <2>5. IsFiniteSet(DOMAIN slotOf) /\ DOMAIN slotOf \in SUBSET S
    BY <2>4, FS_Subset
  <2>6. f \in [1..Len(slots) -> DOMAIN slotOf] /\ \A i, j \in 1..Len(slots) : f[i] = f[j] => i = j
    BY <2>2, <2>3
  <2>7. Cardinality(1..Len(slots)) <= Cardinality(DOMAIN slotOf)
    <3>1. f \in Injection(1..Len(slots), DOMAIN slotOf)
      BY <2>6 DEF Injection, IsInjective
    <3> QED BY <2>5, <3>1, FS_Injection
  <2>8. Cardinality(1..Len(slots)) = Len(slots)
    <3>1. 1 \in Int /\ Len(slots) \in Int
      BY <2>3
    <3>2. Cardinality(1..Len(slots)) = IF 1 > Len(slots) THEN 0 ELSE Len(slots) - 1 + 1
      BY <3>1, FS_Interval
    <3> QED BY <2>3, <3>2
  <2>9. Cardinality(DOMAIN slotOf) < Cardinality(S)
    <3>1. Cardinality(DOMAIN slotOf) <= Cardinality(S) /\ DOMAIN slotOf # S
      BY <2>1, <2>4, <2>5, FS_Subset
    <3>2. Cardinality(DOMAIN slotOf) \in Nat /\ Cardinality(S) \in Nat
      BY <2>4, <2>5, FS_CardinalityType
    <3> QED BY <2>4, <2>5, <3>1, <3>2, FS_Subset
  <2>10. Cardinality(DOMAIN slotOf) \in Nat /\ Cardinality(S) \in Nat
    BY <2>4, <2>5, FS_CardinalityType
  <2> HIDE DEF f, S
  <2>11. Cardinality(S) > MaxMaterials
    BY <2>3, <2>7, <2>8, <2>9, <2>10, AtlasAssumption
  <2> QED BY <2>11 DEF S
<1> DEFINE A == RefuseFull => Cardinality(toScan \union DOMAIN slotOf) > MaxMaterials
<1>2. AtlasInv /\ [Next]_vars => [A]_vars
  BY <1>1
<1> QED BY <1>2, AtlasInvariant, PTL DEF Spec, FullOnlyOfNames

=============================================================================
