---------------------------- MODULE RegionStore ----------------------------
(***************************************************************************)
(* The persistence of one world directory: demen_world_create, open, close *)
(* and flush (voxel_store_abi.cpp), the lazy loading of columns            *)
(* (world.cpp) and the region files with their temp-and-rename protocol    *)
(* (region_io.cpp), file operation by file operation, with crashes between *)
(* any two of them.  The code is single-threaded: one call at a time, but  *)
(* calls on different handles to the same directory interleave.            *)
(*                                                                         *)
(* A column's content is the set of edits in it; ColumnCodec is about the  *)
(* bytes.  A region file is what a reader gets from it, or Torn when it    *)
(* is not one (too short, no magic).  The world's own parameters give its  *)
(* columns another height or base than the all-zero ones a handle falls    *)
(* back on, so a column stored under the one is refused under the other.   *)
(***************************************************************************)
EXTENDS Integers, FiniteSets

CONSTANTS
  Columns, Regions,   \* region keys, in the order of RegionKey::operator<
  RegionOf,           \* [Columns -> Regions]: region_key_of_column
  Root,               \* region (0, 0), whose header holds the parameters
  Handles,            \* world handles that may be open on the directory
  Faults,             \* what can fail: a subset of AllFaults
  MaxEdits,           \* bound on the edits of a behaviour
  MaxCrashes,         \* bound on its crashes
  Absent, Torn,       \* no such file; a file that is not a region file
  Closed              \* no handle

AllFaults == {"read", "write", "rename", "power"}

ASSUME StoreShape ==
  /\ Regions \subseteq Int /\ IsFiniteSet(Regions) /\ Root \in Regions
  /\ RegionOf \in [Columns -> Regions]
  /\ Faults \subseteq AllFaults
  /\ MaxEdits \in Nat /\ MaxCrashes \in Nat

Edits    == 1 .. MaxEdits
Contents == SUBSET Edits

ASSUME StoreMarkers ==
  /\ \A S \in SUBSET Columns : Closed \notin [S -> Contents]
  /\ Absent # Torn
  /\ {Absent, Torn} \cap [params : BOOLEAN,
                         slots : [Columns -> [own : BOOLEAN, edits : Contents]]] = {}

\* A region file: whether its header carries the world's parameters (the
\* DEMROOT block), and its slots: the content of a column, and whether it
\* was stored under the world's own parameters.
Slot == [own : BOOLEAN, edits : Contents]
RegionFile == [params : BOOLEAN, slots : [Columns -> Slot]]

VARIABLES
  final,     \* r.<rx>.<rz>.dem, per region
  tmp,       \* r.<rx>.<rz>.dem.tmp, per region
  unsynced,  \* regions whose file the system has not yet written to disk
  mem,       \* per handle: Closed, or columns_: the columns in memory
  own,       \* per handle: params_ are the world's own, not the fallback
  op,        \* the call in progress
  edits, crashes

vars == <<final, tmp, unsynced, mem, own, op, edits, crashes>>

\* new_empty_region; only region_write_root_header adds the parameters.
EmptyRegion(params) ==
  [params |-> params, slots |-> [c \in Columns |-> [own |-> TRUE, edits |-> {}]]]

\* What a handle reads of column c; region_load_column_if_exists refuses a
\* slot stored under other parameters.
SlotFor(file, c, o) ==
  IF file \in RegionFile /\ file.slots[c].own = o THEN file.slots[c].edits ELSE {}

OnDisk(c) == SlotFor(final[RegionOf[c]], c, TRUE)

Loaded(h) == DOMAIN mem[h]
NoColumns == [c \in {} |-> {}]

\* columns_ with column c holding v, there before or not.
Put(cols, c, v) == [d \in DOMAIN cols \cup {c} |-> IF d = c THEN v ELSE cols[d]]

\* A call: what it is for, on which handle, where it stands in the protocol,
\* the regions still to be written, and the file write_atomic is writing.
Idle == [kind |-> "idle"]
Call(kind, h, pc, todo, r, file) ==
  [kind |-> kind, h |-> h, pc |-> pc, todo |-> todo, r |-> r, file |-> file]

Init ==
  /\ final = [r \in Regions |-> Absent]
  /\ tmp = [r \in Regions |-> Absent]
  /\ unsynced = {}
  /\ mem = [h \in Handles |-> Closed]
  /\ own = [h \in Handles |-> TRUE]
  /\ op = Idle
  /\ edits = 0 /\ crashes = 0

-----------------------------------------------------------------------------
(* Calls that touch no file, or only read.                                 *)

\* demen_world_create goes on only in an empty directory.
Create(h) ==
  /\ op = Idle /\ mem[h] = Closed
  /\ \A r \in Regions : final[r] = Absent /\ tmp[r] = Absent
  /\ op' = Call("create", h, "open", {}, Root, EmptyRegion(TRUE))
  /\ own' = [own EXCEPT ![h] = TRUE]
  /\ UNCHANGED <<final, tmp, unsynced, mem, edits, crashes>>

\* demen_world_open: the root header is read first, and only then are stale
\* temporaries removed.
Open(h) ==
  /\ op = Idle /\ mem[h] = Closed
  /\ final[Root] \in RegionFile
  /\ tmp' = [r \in Regions |-> Absent]
  /\ mem' = [mem EXCEPT ![h] = NoColumns]
  /\ own' = [own EXCEPT ![h] = final[Root].params]
  /\ UNCHANGED <<final, unsynced, op, edits, crashes>>

\* Mutant of LoadResults: a column is created without a look at its file.
LoadResultsAir(h, c) == {{}}

\* What load_or_create_column may put in memory: the slot on disk, or air
\* when it cannot be read or is refused; the failure is ignored.
LoadResults(h, c) ==
  {SlotFor(final[RegionOf[c]], c, own[h])} \cup (IF "read" \in Faults THEN {{}} ELSE {})

ColumnChoices(h, c) == IF c \in Loaded(h) THEN {mem[h][c]} ELSE LoadResults(h, c)

\* Any read access to a column that is not in memory.
Read(h, c) ==
  /\ op = Idle /\ mem[h] # Closed /\ c \notin Loaded(h)
  /\ \E v \in LoadResults(h, c) : mem' = [mem EXCEPT ![h] = Put(@, c, v)]
  /\ UNCHANGED <<final, tmp, unsynced, own, op, edits, crashes>>

\* Any write access, loading the column first when needed.
Edit(h, c) ==
  /\ op = Idle /\ mem[h] # Closed /\ edits < MaxEdits
  /\ edits' = edits + 1
  /\ \E v \in ColumnChoices(h, c) :
       mem' = [mem EXCEPT ![h] = Put(@, c, v \cup {edits + 1})]
  /\ UNCHANGED <<final, tmp, unsynced, own, op, crashes>>

-----------------------------------------------------------------------------
(* region_write_all_dirty_columns.                                         *)

\* Mutant of RegionsOf: a region without a file is passed over.
RegionsOfExisting(h) == {RegionOf[c] : c \in Loaded(h)} \ {r \in Regions : final[r] = Absent}

\* Every loaded column is written, dirty or not.
RegionsOf(h) == {RegionOf[c] : c \in Loaded(h)}

\* The call at its start: a missing root is written first, as "root".
StartFlush(kind, h) ==
  IF final[Root] = Absent
  THEN Call(kind, h, "root", RegionsOf(h), Root, EmptyRegion(own[h]))
  ELSE Call(kind, h, "next", RegionsOf(h), Root, EmptyRegion(FALSE))

\* demen_world_flush, or demen_world_close, which flushes twice: once itself
\* and once from ~World.
BeginFlush(h, kind) ==
  /\ op = Idle /\ mem[h] # Closed
  /\ op' = StartFlush(kind, h)
  /\ UNCHANGED <<final, tmp, unsynced, mem, own, edits, crashes>>

\* region_write_root_header removes stale temporaries before it writes.
RootHeader ==
  /\ op # Idle /\ op.pc = "root"
  /\ tmp' = [r \in Regions |-> Absent]
  /\ op' = [op EXCEPT !.pc = "rootopen"]
  /\ UNCHANGED <<final, unsynced, mem, own, edits, crashes>>

\* The region's file as read back, or an empty one if that fails.
OldRegions(r) ==
  (IF final[r] \in RegionFile THEN {final[r]} ELSE {EmptyRegion(FALSE)})
    \cup (IF "read" \in Faults THEN {EmptyRegion(FALSE)} ELSE {})

\* Mutants of Rewritten: the slots not in memory are dropped; the header is
\* made anew.
RewrittenLoadedOnly(h, r, old) ==
  [old EXCEPT !.slots =
     [c \in Columns |-> [own |-> own[h],
                         edits |-> IF RegionOf[c] = r /\ c \in Loaded(h)
                                   THEN mem[h][c] ELSE {}]]]

RewrittenNewHeader(h, r, old) ==
  [EmptyRegion(FALSE) EXCEPT !.slots =
     [c \in Columns |-> IF RegionOf[c] = r /\ c \in Loaded(h)
                        THEN [own |-> own[h], edits |-> mem[h][c]]
                        ELSE old.slots[c]]]

\* The loaded columns replace their slots, the other slots are kept.
Rewritten(h, r, old) ==
  [old EXCEPT !.slots =
     [c \in Columns |-> IF RegionOf[c] = r /\ c \in Loaded(h)
                        THEN [own |-> own[h], edits |-> mem[h][c]]
                        ELSE old.slots[c]]]

\* Mutant of NextRegion: the region stays on the list.
NextRegionAgain ==
  /\ op # Idle /\ op.pc = "next"
  /\ \E r \in op.todo : \E old \in OldRegions(r) :
       op' = [op EXCEPT !.pc = "open", !.r = r, !.file = Rewritten(op.h, r, old)]
  /\ UNCHANGED <<final, tmp, unsynced, mem, own, edits, crashes>>

\* One turn of the loop, in key order.
NextRegion ==
  /\ op # Idle /\ op.pc = "next"
  /\ \E r \in op.todo :
       /\ \A q \in op.todo : r <= q
       /\ \E old \in OldRegions(r) :
            op' = [op EXCEPT !.pc = "open", !.todo = @ \ {r}, !.r = r,
                             !.file = Rewritten(op.h, r, old)]
  /\ UNCHANGED <<final, tmp, unsynced, mem, own, edits, crashes>>

\* The end of a flush, whatever it returned: World::flush drops the code.
\* After its own flush close runs the destructor's; then the handle is gone.
AfterFlush ==
  IF op.kind = "close" THEN StartFlush("dtor", op.h) ELSE Idle
MemAfterFlush ==
  IF op.kind = "dtor" THEN [mem EXCEPT ![op.h] = Closed] ELSE mem

EndFlush ==
  /\ op # Idle /\ op.pc = "next" /\ op.todo = {}
  /\ op' = AfterFlush
  /\ mem' = MemAfterFlush
  /\ UNCHANGED <<final, tmp, unsynced, own, edits, crashes>>

-----------------------------------------------------------------------------
(* write_atomic, one file operation at a time.  For the root header of a   *)
(* flush the steps have names of their own: its result is ignored.         *)

Opening  == op # Idle /\ op.pc \in {"open", "rootopen"}
Writing  == op # Idle /\ op.pc \in {"write", "rootwrite"}
Renaming == op # Idle /\ op.pc \in {"rename", "rootrename"}
Retrying == op # Idle /\ op.pc \in {"retry", "rootretry"}
ForRoot  == op.pc \in {"rootopen", "rootwrite", "rootrename", "rootretry"}

Step(pc, rootpc) == [op EXCEPT !.pc = IF ForRoot THEN rootpc ELSE pc]

\* The file is in place: create returns a handle, a flush goes on.
Succeed ==
  IF op.kind = "create"
  THEN op' = Idle /\ mem' = [mem EXCEPT ![op.h] = NoColumns]
  ELSE op' = [op EXCEPT !.pc = "next"] /\ UNCHANGED mem

\* write_atomic returns an error: create returns it, the root header's is
\* ignored, and a region's ends the flush with the later regions unwritten.
Fail ==
  IF op.kind = "create" THEN op' = Idle /\ UNCHANGED mem
  ELSE IF ForRoot THEN op' = [op EXCEPT !.pc = "next"] /\ UNCHANGED mem
  ELSE op' = AfterFlush /\ mem' = MemAfterFlush

\* Mutant of OpenTmp: the file in place is truncated and written.
OpenInPlace ==
  /\ Opening
  /\ final' = [final EXCEPT ![op.r] = Torn]
  /\ op' = Step("write", "rootwrite")
  /\ UNCHANGED <<tmp, unsynced, mem, own, edits, crashes>>

OpenTmp ==
  /\ Opening
  /\ tmp' = [tmp EXCEPT ![op.r] = Torn]
  /\ op' = Step("write", "rootwrite")
  /\ UNCHANGED <<final, unsynced, mem, own, edits, crashes>>

WriteTmp ==
  /\ Writing
  /\ tmp' = [tmp EXCEPT ![op.r] = op.file]
  /\ op' = Step("rename", "rootrename")
  /\ UNCHANGED <<final, unsynced, mem, own, edits, crashes>>

\* The temporary cannot be opened, or not be written in full.
WriteError ==
  /\ "write" \in Faults /\ (Opening \/ Writing)
  /\ Fail
  /\ UNCHANGED <<final, tmp, unsynced, own, edits, crashes>>

\* The rename, at the first attempt or after the fallback's remove.  There
\* is no fsync: until the system writes the data back, it is in memory only.
Rename ==
  /\ Renaming \/ Retrying
  /\ final' = [final EXCEPT ![op.r] = tmp[op.r]]
  /\ tmp' = [tmp EXCEPT ![op.r] = Absent]
  /\ unsynced' = IF "power" \in Faults THEN unsynced \cup {op.r} ELSE unsynced
  /\ Succeed
  /\ UNCHANGED <<own, edits, crashes>>

\* Mutant of RemoveFinal: both files are removed.
RemoveFinalAndTmp ==
  /\ "rename" \in Faults /\ Renaming
  /\ final' = [final EXCEPT ![op.r] = Absent]
  /\ tmp' = [tmp EXCEPT ![op.r] = Absent]
  /\ Fail
  /\ UNCHANGED <<unsynced, own, edits, crashes>>

\* The rename fails: the fallback removes the file that is in the way, if it
\* can, and tries again.
RemoveFinal ==
  /\ "rename" \in Faults /\ Renaming
  /\ \/ final' = [final EXCEPT ![op.r] = Absent]
     \/ UNCHANGED final
  /\ op' = Step("retry", "rootretry")
  /\ UNCHANGED <<tmp, unsynced, mem, own, edits, crashes>>

RetryError ==
  /\ "rename" \in Faults /\ Retrying
  /\ Fail
  /\ UNCHANGED <<final, tmp, unsynced, own, edits, crashes>>

-----------------------------------------------------------------------------
(* The environment.                                                        *)

\* The process dies: handles and the call in progress are gone, files stay.
Crash ==
  /\ crashes < MaxCrashes
  /\ crashes' = crashes + 1
  /\ mem' = [h \in Handles |-> Closed]
  /\ op' = Idle
  /\ UNCHANGED <<final, tmp, unsynced, own, edits>>

\* The machine dies: files whose data was not written back may be torn.
PowerLoss ==
  /\ "power" \in Faults /\ crashes < MaxCrashes
  /\ crashes' = crashes + 1
  /\ mem' = [h \in Handles |-> Closed]
  /\ op' = Idle
  /\ \E lost \in SUBSET unsynced :
       final' = [r \in Regions |-> IF r \in lost THEN Torn ELSE final[r]]
  /\ unsynced' = {}
  /\ UNCHANGED <<tmp, own, edits>>

WriteBack(r) ==
  /\ r \in unsynced
  /\ unsynced' = unsynced \ {r}
  /\ UNCHANGED <<final, tmp, mem, own, op, edits, crashes>>

\* The steps of a call in progress.
Proceed ==
  \/ RootHeader \/ NextRegion \/ EndFlush
  \/ OpenTmp \/ WriteTmp \/ WriteError \/ Rename \/ RemoveFinal \/ RetryError

Next ==
  \/ \E h \in Handles :
       \/ Create(h) \/ Open(h)
       \/ BeginFlush(h, "flush") \/ BeginFlush(h, "close")
       \/ \E c \in Columns : Read(h, c) \/ Edit(h, c)
  \/ Proceed
  \/ Crash \/ PowerLoss \/ \E r \in Regions : WriteBack(r)

Spec == Init /\ [][Next]_vars

\* A call runs on to its end: the engine does nothing else meanwhile.
FairSpec == Spec /\ WF_vars(Proceed)

-----------------------------------------------------------------------------
(* Properties.                                                             *)

Pcs == {"root", "rootopen", "rootwrite", "rootrename", "rootretry",
        "next", "open", "write", "rename", "retry"}

CallType ==
  [kind : {"create", "flush", "close", "dtor"}, h : Handles, pc : Pcs,
   todo : SUBSET Regions, r : Regions, file : RegionFile]

\* Files, copies and the call in progress are what the code can hold.
TypeOK ==
  /\ final \in [Regions -> RegionFile \cup {Absent, Torn}]
  /\ tmp \in [Regions -> RegionFile \cup {Absent, Torn}]
  /\ unsynced \in SUBSET Regions
  /\ DOMAIN mem = Handles
  /\ \A h \in Handles : \/ mem[h] = Closed
                        \/ /\ Loaded(h) \subseteq Columns
                           /\ mem[h] \in [Loaded(h) -> Contents]
  /\ own \in [Handles -> BOOLEAN]
  /\ op = Idle \/ op \in CallType
  /\ edits \in 0 .. MaxEdits /\ crashes \in 0 .. MaxCrashes

\* An edit that has reached a region file stays there: no later flush, of
\* this handle or of one opened after a crash, by way of loaded and unloaded
\* columns, interrupted or failing halfway, takes it away again.
SavedEditsStay == [][\A c \in Columns : OnDisk(c) \subseteq OnDisk(c)']_vars

\* A copy in memory is never behind the file it will be written over.
CopiesNeverBehind ==
  \A h \in Handles : mem[h] # Closed =>
    \A c \in Loaded(h) : OnDisk(c) \subseteq mem[h][c]

\* A directory that has once held a complete root header can be opened, with
\* its parameters, ever after.
WorldStaysOpenable ==
  [][final[Root] \in RegionFile /\ final[Root].params =>
       final'[Root] \in RegionFile /\ final'[Root].params]_vars

\* Nothing of what write_atomic was still writing is ever put in place: a
\* file is torn only by a loss of power before it was written back.
TornOnlyByPower ==
  [][\A r \in Regions : final'[r] = Torn => final[r] = Torn \/ r \in unsynced]_vars

\* When renames fail and power is lost there are three ways, and no other,
\* for saved edits to leave a region file: the fallback removes the file,
\* and then its complete successor is in the temporary (which the next root
\* header or open sweeps away); the file was not written back yet when the
\* power went; or a handle had to do without the world's parameters, since
\* the root was lost in the first way.  No flush after any of them takes
\* more.
OnlyKnownLosses ==
  [][\A c \in Columns :
       \/ OnDisk(c) \subseteq OnDisk(c)'
       \/ OnDisk(c) \subseteq SlotFor(tmp'[RegionOf[c]], c, TRUE)
       \/ RegionOf[c] \in unsynced /\ final'[RegionOf[c]] = Torn
       \/ op # Idle /\ ~own[op.h]]_vars

EveryCopySaved(h) == \A c \in Loaded(h) : OnDisk(c)' = mem[h][c]

FlushReturns ==
  op # Idle /\ op' = Idle /\ op.kind \in {"flush", "dtor"} /\ crashes' = crashes

\* A flush or a close that came to the end of its loop over the regions has
\* every column the handle had in memory on disk, as it was in memory, even
\* when an earlier write of the call had failed.
FlushedIsSaved ==
  [][FlushReturns /\ op.pc = "next" => EveryCopySaved(op.h)]_vars

\* Every call comes to an end, whatever fails on the way, unless the process
\* dies: no flush goes round its regions for ever.
CallsReturn == op # Idle ~> op = Idle

-----------------------------------------------------------------------------
(* The region files implement the durable map.                             *)
Store == INSTANCE DurableStore WITH
  disk <- [c \in Columns |-> OnDisk(c)],
  crashed <- crashes

\* Every file operation of every call is one atomic step of the map of
\* columns, or invisible there.
ImplementsDurableStore == Store!Spec
=============================================================================
