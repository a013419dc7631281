------------------------------- MODULE Atlas -------------------------------
(* The texture atlas: texture_composition/atlas.cpp behind the handle of      *)
(* texture_composition_abi.cpp.  The materials of a directory have slots,     *)
(* which a hot reload keeps: meshes carry slot numbers.  The loops of         *)
(* scan_and_compose are taken one material at a time, as files may change     *)
(* between the scan and the loading of a file.                               *)
EXTENDS Integers, Sequences, FiniteSets

CONSTANTS Materials,     \* file stems, in alphabetical order
          MaxMaterials,  \* kMaxMaterials
          Black,         \* a tile of zeroes
          NoName,        \* the empty name of a dead slot
          Ok, NoMaterials, CorruptFile, BufferSize  \* result codes

ASSUME AtlasAssumption ==
  /\ Materials \subseteq Nat /\ IsFiniteSet(Materials)
  /\ MaxMaterials \in Nat
  /\ NoName \notin Materials
  /\ Black \notin Materials
  /\ Ok \notin {NoMaterials, CorruptFile, BufferSize}

VARIABLES files,   \* the directory: "good" or "corrupt" for each .texraw file
          pc,      \* "none" without an atlas, "idle", "scan" or "fill" in a call
          call,    \* the call in progress, "create" or "reload"
          toScan,  \* stems: those the scan has still to look at
          toFill,  \* to_fill: those whose files are still to be loaded
          slots,   \* slots_: name and liveness by slot
          slotOf,  \* name_to_slot_
          pixels,  \* pixels_: for each allocated slot the material shown, or Black
          nLive,   \* n_slots_live_
          answer   \* the result of the last call

vars == <<files, pc, call, toScan, toFill, slots, slotOf, pixels, nLive, answer>>

(* The first of a set of names, in alphabetical order.                       *)
IsFirst(n, S) == n \in S /\ \A m \in S : n <= m

Init == /\ files = [n \in Materials |-> "good"]
        /\ pc = "none" /\ call = "create" /\ toScan = {} /\ toFill = {}
        /\ slots = << >> /\ slotOf = << >> /\ pixels = << >> /\ nLive = 0
        /\ answer = Ok

(* Somebody writes, spoils or removes a file of the directory.               *)
ChangeFile(n) ==
  /\ \/ \E c \in {"good", "corrupt"} :
          files' = [m \in DOMAIN files \union {n} |-> IF m = n THEN c ELSE files[m]]
     \/ files' = [m \in DOMAIN files \ {n} |-> files[m]]
  /\ UNCHANGED <<pc, call, toScan, toFill, slots, slotOf, pixels, nLive, answer>>

(* A call fails: create drops the atlas it was making, a reload leaves it as  *)
(* far as it has come.                                                       *)
Fail(code, sl, so, px) ==
  /\ answer' = code /\ toScan' = {} /\ toFill' = {}
  /\ IF call = "create"
     THEN /\ pc' = "none" /\ slots' = << >> /\ slotOf' = << >> /\ pixels' = << >>
          /\ nLive' = 0
     ELSE /\ pc' = "idle" /\ slots' = sl /\ slotOf' = so /\ pixels' = px
          /\ UNCHANGED nLive
  /\ UNCHANGED <<files, call>>

(* demen_atlas_create and demen_atlas_reload.  Every slot is marked dead.     *)
Begin(c) ==
  /\ pc = IF c = "create" THEN "none" ELSE "idle"
  /\ call' = c
  /\ \/ /\ DOMAIN files = {}
        /\ answer' = NoMaterials
        /\ UNCHANGED <<pc, toScan, slots>>
     \/ /\ DOMAIN files # {}
        /\ pc' = "scan" /\ toScan' = DOMAIN files
        /\ slots' = [i \in DOMAIN slots |-> [slots[i] EXCEPT !.live = FALSE]]
        /\ UNCHANGED answer
  /\ UNCHANGED <<files, toFill, slotOf, pixels, nLive>>

(* A name that has a slot keeps it.                                          *)
KeepSlot ==
  /\ pc = "scan"
  /\ \E n \in DOMAIN slotOf :
       /\ IsFirst(n, toScan)
       /\ toScan' = toScan \ {n} /\ toFill' = toFill \union {n}
       /\ slots' = [slots EXCEPT ![slotOf[n]].live = TRUE]
  /\ UNCHANGED <<files, pc, call, slotOf, pixels, nLive, answer>>

\* Mutant of IsFree: a dead slot that still has a name will do.
IsFreeDead(i) == ~slots[i].live

IsFree(i) == ~slots[i].live /\ slots[i].name = NoName

(* A new name gets the first free slot, or else one more.                     *)
GiveSlot(n, i, sl) ==
  /\ toScan' = toScan \ {n} /\ toFill' = toFill \union {n}
  /\ slots' = sl
  /\ slotOf' = [m \in DOMAIN slotOf \union {n} |-> IF m = n THEN i ELSE slotOf[m]]
  /\ UNCHANGED <<files, pc, call, pixels, nLive, answer>>

ReuseSlot ==
  /\ pc = "scan"
  /\ \E n \in toScan \ DOMAIN slotOf, i \in DOMAIN slots :
       /\ IsFirst(n, toScan) /\ IsFirst(i, {j \in DOMAIN slots : IsFree(j)})
       /\ GiveSlot(n, i, [slots EXCEPT ![i] = [name |-> n, live |-> TRUE]])

\* Mutant of HasRoom: one slot is never used.
HasRoomLess == Len(slots) < MaxMaterials - 1

HasRoom == Len(slots) < MaxMaterials

AppendSlot ==
  /\ pc = "scan" /\ HasRoom
  /\ \E n \in toScan \ DOMAIN slotOf :
       /\ IsFirst(n, toScan) /\ ~\E j \in DOMAIN slots : IsFree(j)
       /\ GiveSlot(n, Len(slots) + 1, Append(slots, [name |-> n, live |-> TRUE]))

(* A full atlas: the vanished names are not purged.                           *)
RefuseFull ==
  /\ pc = "scan" /\ ~HasRoom
  /\ \E n \in toScan \ DOMAIN slotOf :
       IsFirst(n, toScan) /\ ~\E j \in DOMAIN slots : IsFree(j)
  /\ Fail(BufferSize, slots, slotOf, pixels)

\* Mutant of Blank: the tiles there already are left as they were.
BlankNew(n) == [i \in 1..n |-> IF i \in DOMAIN pixels THEN pixels[i] ELSE Black]

Blank(n) == [i \in 1..n |-> Black]

\* Mutant of Purged: the names stay in the lookup table.
PurgedSlotsOnly ==
  /\ slots' = [i \in DOMAIN slots |->
                 IF slots[i].live THEN slots[i] ELSE [name |-> NoName, live |-> FALSE]]
  /\ UNCHANGED slotOf

(* Slots whose names were not seen lose them.                                *)
Purged ==
  /\ slots' = [i \in DOMAIN slots |->
                 IF slots[i].live THEN slots[i] ELSE [name |-> NoName, live |-> FALSE]]
  /\ slotOf' = [n \in {m \in DOMAIN slotOf : slots[slotOf[m]].live} |-> slotOf[n]]

Purge ==
  /\ pc = "scan" /\ toScan = {}
  /\ Purged
  /\ pixels' = Blank(Len(slots))
  /\ pc' = "fill"
  /\ UNCHANGED <<files, call, toScan, toFill, nLive, answer>>

IsGood(n) == n \in DOMAIN files /\ files[n] = "good"

LoadTile ==
  /\ pc = "fill"
  /\ \E n \in toFill :
       /\ IsFirst(n, toFill) /\ IsGood(n)
       /\ toFill' = toFill \ {n}
       /\ pixels' = [pixels EXCEPT ![slotOf[n]] = n]
  /\ UNCHANGED <<files, pc, call, toScan, slots, slotOf, nLive, answer>>

(* A file that is bad by now, or gone.                                       *)
RefuseCorrupt ==
  /\ pc = "fill"
  /\ \E n \in toFill : IsFirst(n, toFill) /\ ~IsGood(n)
  /\ Fail(CorruptFile, slots, slotOf, pixels)

LiveSlots == {i \in DOMAIN slots : slots[i].live}

Finish ==
  /\ pc = "fill" /\ toFill = {}
  /\ nLive' = Cardinality(LiveSlots)
  /\ answer' = Ok /\ pc' = "idle"
  /\ UNCHANGED <<files, call, toScan, toFill, slots, slotOf, pixels>>

Release ==
  /\ pc = "idle"
  /\ pc' = "none" /\ slots' = << >> /\ slotOf' = << >> /\ pixels' = << >> /\ nLive' = 0
  /\ answer' = Ok
  /\ UNCHANGED <<files, call, toScan, toFill>>

(* demen_atlas_material_slot finds slot i for the name n.                     *)
FindsSlot(n, i) == n \in DOMAIN slotOf /\ slots[slotOf[n]].live /\ i = slotOf[n]

(* demen_atlas_material_name finds the name n for slot i.                     *)
FindsName(i, n) == i \in DOMAIN slots /\ slots[i].live /\ n = slots[i].name

Next == \/ \E n \in Materials : ChangeFile(n)
        \/ Begin("create") \/ Begin("reload")
        \/ KeepSlot \/ ReuseSlot \/ AppendSlot \/ RefuseFull
        \/ Purge \/ LoadTile \/ RefuseCorrupt \/ Finish
        \/ Release

Spec == Init /\ [][Next]_vars
-----------------------------------------------------------------------------
Slot == [name : Materials \union {NoName}, live : BOOLEAN]

TypeOK ==
  /\ DOMAIN files \subseteq Materials /\ \A n \in DOMAIN files : files[n] \in {"good", "corrupt"}
  /\ pc \in {"none", "idle", "scan", "fill"} /\ call \in {"create", "reload"}
  /\ toScan \subseteq Materials /\ toFill \subseteq DOMAIN slotOf
  /\ slots \in Seq(Slot) /\ Len(slots) <= MaxMaterials
  /\ DOMAIN slotOf \subseteq Materials
  /\ \A n \in DOMAIN slotOf : slotOf[n] \in DOMAIN slots
  /\ pixels \in Seq(Materials \union {Black}) /\ Len(pixels) <= Len(slots)
  /\ nLive \in 0..MaxMaterials
  /\ answer \in {Ok, NoMaterials, CorruptFile, BufferSize}

(* demen_atlas_material_slot and demen_atlas_material_name are each other's   *)
(* inverse at any time, after a refused reload too: they read two tables,     *)
(* which adding, retiring and reusing slots must keep in step.               *)
LookupsAgree ==
  \A n \in Materials \union {NoName}, i \in 1..MaxMaterials :
    FindsSlot(n, i) <=> FindsName(i, n)

(* A slot that has a name never gets another one in a single step: it is      *)
(* retired first, by a reload that did not find its material.  What a mesh    *)
(* draws with a slot is thus its own material's, or black, until the next     *)
(* whole reload.                                                             *)
SlotsAreNeverRenamed ==
  [][\A i \in DOMAIN slots \intersect DOMAIN slots' :
       slots[i].name # NoName /\ slots'[i].name # NoName => slots'[i].name = slots[i].name]_vars

(* Of a call that answered OK the atlas is whole: every live slot shows the   *)
(* pixels of the material it is named for, every dead one is black, and       *)
(* n_tiles counts the live ones.                                             *)
WholeWhenOk ==
  pc = "idle" /\ answer = Ok =>
    /\ Len(pixels) = Len(slots) /\ nLive = Cardinality(LiveSlots)
    /\ \A i \in DOMAIN slots : pixels[i] = IF slots[i].live THEN slots[i].name ELSE Black

(* A material is refused only when those of the directory, together with      *)
(* those vanished since the last whole reload, are more than the atlas holds. *)
FullOnlyOfNames ==
  [][RefuseFull => Cardinality(toScan \union DOMAIN slotOf) > MaxMaterials]_vars
=============================================================================
