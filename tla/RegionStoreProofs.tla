-------------------------- MODULE RegionStoreProofs --------------------------
(* What a world directory keeps when temporaries cannot be opened or written   *)
(* and the process dies between any two file operations, and what it can lose *)
(* when renames fail and the power goes: for every set of columns, regions    *)
(* and handles, and any number of edits and crashes.                          *)
EXTENDS RegionStore, TLAPS

(* The faults and handles of the claims.  Steady: files are read and renamed  *)
(* as asked.  WritesFail: nor is anything lost with the power.  Quiet: and    *)
(* one handle at a time is open.                                             *)
Steady == Faults \subseteq {"write", "power"}
WritesFail == Faults \subseteq {"write"}
Quiet == WritesFail /\ \A g, h \in Handles : g = h

-----------------------------------------------------------------------------
(* Types.                                                                    *)
LEMMA MarkersDiffer ==
  /\ Absent # Torn /\ Absent \notin RegionFile /\ Torn \notin RegionFile
  BY StoreMarkers DEF RegionFile, Slot

LEMMA CallIsBusy ==
  ASSUME NEW p \in CallType
  PROVE  p # Idle
<1>1. p.kind # "idle"
  BY DEF CallType
<1>2. Idle.kind = "idle"
  BY DEF Idle
<1> QED BY <1>1, <1>2

LEMMA EmptyRegionType ==
  ASSUME NEW b \in BOOLEAN
  PROVE  EmptyRegion(b) \in RegionFile
<1>1. {} \in Contents
  BY DEF Contents
<1>2. [own |-> TRUE, edits |-> {}] \in Slot
  BY <1>1, Zenon DEF Slot
<1>3. [c \in Columns |-> [own |-> TRUE, edits |-> {}]] \in [Columns -> Slot]
  BY <1>2
<1> QED BY <1>3, Zenon DEF EmptyRegion, RegionFile

LEMMA SlotForType ==
  ASSUME NEW f, NEW c \in Columns, NEW o
  PROVE  SlotFor(f, c, o) \in Contents
<1>1. {} \in Contents
  BY DEF Contents
<1>2. ASSUME f \in RegionFile PROVE f.slots[c].edits \in Contents
  <2>1. f.slots \in [Columns -> Slot]
    BY <1>2 DEF RegionFile
  <2>2. f.slots[c] \in Slot
    BY <2>1
  <2> QED BY <2>2 DEF Slot
<1> QED BY <1>1, <1>2 DEF SlotFor

(* A handle that is open has a function from columns to contents.            *)
OpenHandle(h) == Loaded(h) \subseteq Columns /\ mem[h] \in [Loaded(h) -> Contents]

LEMMA PutType ==
  ASSUME NEW S \in SUBSET Columns, NEW m \in [S -> Contents],
         NEW c \in Columns, NEW v \in Contents
  PROVE  /\ DOMAIN Put(m, c, v) \subseteq Columns
         /\ Put(m, c, v) \in [DOMAIN Put(m, c, v) -> Contents]
  BY DEF Put

LEMMA NotClosed ==
  ASSUME NEW S \in SUBSET Columns, NEW m \in [S -> Contents]
  PROVE  m # Closed
  BY StoreMarkers

LEMMA ReplacedField ==
  ASSUME NEW P, NEW Q, NEW f \in [params : P, slots : Q], NEW S
  PROVE  [f EXCEPT !.slots = S] = [params |-> f.params, slots |-> S]
  OBVIOUS

LEMMA RewrittenType ==
  ASSUME NEW h \in Handles, NEW r \in Regions, NEW old \in RegionFile,
         OpenHandle(h), own[h] \in BOOLEAN
  PROVE  /\ Rewritten(h, r, old) \in RegionFile
         /\ Rewritten(h, r, old).params = old.params
         /\ \A c \in Columns :
              Rewritten(h, r, old).slots[c] =
                IF RegionOf[c] = r /\ c \in Loaded(h)
                THEN [own |-> own[h], edits |-> mem[h][c]]
                ELSE old.slots[c]
<1> DEFINE S == [c \in Columns |-> IF RegionOf[c] = r /\ c \in Loaded(h)
                                   THEN [own |-> own[h], edits |-> mem[h][c]]
                                   ELSE old.slots[c]]
<1>1. \A c \in Loaded(h) : [own |-> own[h], edits |-> mem[h][c]] \in Slot
  <2>1. \A c \in Loaded(h) : mem[h][c] \in Contents
    BY DEF OpenHandle
  <2> QED BY <2>1, Zenon DEF Slot
<1>2. old.slots \in [Columns -> Slot] /\ old.params \in BOOLEAN
  BY Zenon DEF RegionFile
<1>3. S \in [Columns -> Slot]
  BY <1>1, <1>2, Zenon
<1>4. Rewritten(h, r, old) = [params |-> old.params, slots |-> S]
  <2>1. old \in [params : BOOLEAN, slots : [Columns -> Slot]]
    BY Zenon DEF RegionFile
  <2>2. [old EXCEPT !.slots = S] = [params |-> old.params, slots |-> S]
    BY <2>1, ReplacedField, Zenon
  <2> QED BY <2>2, Zenon DEF Rewritten
<1> HIDE DEF S
<1>5. [params |-> old.params, slots |-> S] \in RegionFile
  BY <1>2, <1>3, Zenon DEF RegionFile
<1>6. /\ [params |-> old.params, slots |-> S].params = old.params
      /\ [params |-> old.params, slots |-> S].slots = S
  BY Zenon
<1>7. \A c \in Columns : S[c] = IF RegionOf[c] = r /\ c \in Loaded(h)
                                THEN [own |-> own[h], edits |-> mem[h][c]]
                                ELSE old.slots[c]
  BY Zenon DEF S
<1> QED BY <1>4, <1>5, <1>6, <1>7, Zenon
-----------------------------------------------------------------------------
LEMMA CallIsTyped ==
  ASSUME NEW k \in {"create", "flush", "close", "dtor"}, NEW h \in Handles, NEW pc \in Pcs,
         NEW todo \in SUBSET Regions, NEW r \in Regions, NEW f \in RegionFile
  PROVE  /\ Call(k, h, pc, todo, r, f) \in CallType
         /\ Call(k, h, pc, todo, r, f).kind = k
         /\ Call(k, h, pc, todo, r, f).h = h
         /\ Call(k, h, pc, todo, r, f).pc = pc
         /\ Call(k, h, pc, todo, r, f).todo = todo
         /\ Call(k, h, pc, todo, r, f).r = r
         /\ Call(k, h, pc, todo, r, f).file = f
  BY DEF Call, CallType

LEMMA CallFields ==
  ASSUME NEW p \in CallType
  PROVE  /\ p.kind \in {"create", "flush", "close", "dtor"} /\ p.h \in Handles
         /\ p.pc \in Pcs /\ p.todo \in SUBSET Regions /\ p.r \in Regions
         /\ p.file \in RegionFile
  BY DEF CallType

LEMMA CallAtPc ==
  ASSUME NEW p \in CallType, NEW pc \in Pcs
  PROVE  /\ [p EXCEPT !.pc = pc] \in CallType
         /\ [p EXCEPT !.pc = pc].kind = p.kind /\ [p EXCEPT !.pc = pc].h = p.h
         /\ [p EXCEPT !.pc = pc].pc = pc /\ [p EXCEPT !.pc = pc].todo = p.todo
         /\ [p EXCEPT !.pc = pc].r = p.r /\ [p EXCEPT !.pc = pc].file = p.file
  BY DEF CallType

(* The call in progress belongs to a handle that is open, unless it is the    *)
(* one that makes it; then it writes one file and no regions.                *)
CallHasHandle ==
  op # Idle => IF op.kind = "create" THEN op.pc \in {"open", "write", "rename", "retry"}
               ELSE mem[op.h] # Closed

TypeInv == TypeOK /\ CallHasHandle

LEMMA TypeInit == Init => TypeInv
<1> SUFFICES ASSUME Init PROVE TypeInv
  OBVIOUS
<1>1. CallHasHandle
  BY DEF Init, CallHasHandle
<1>2. own \in [Handles -> BOOLEAN]
  BY Zenon DEF Init
<1>3. TypeOK
  BY <1>2, StoreShape, SMT DEF Init, TypeOK
<1> QED BY <1>1, <1>3 DEF TypeInv

(* What the parts of a call come to.                                         *)
LEMMA StartFlushType ==
  ASSUME TypeOK, NEW h \in Handles, mem[h] # Closed, NEW k \in {"flush", "close", "dtor"}
  PROVE  /\ StartFlush(k, h) \in CallType
         /\ StartFlush(k, h).kind = k /\ StartFlush(k, h).h = h
         /\ StartFlush(k, h).todo = RegionsOf(h)
         /\ StartFlush(k, h).pc = IF final[Root] = Absent THEN "root" ELSE "next"
<1>1. RegionsOf(h) \in SUBSET Regions
  BY StoreShape DEF TypeOK, RegionsOf
<1>2. own[h] \in BOOLEAN
  BY Zenon DEF TypeOK
<1>3. EmptyRegion(own[h]) \in RegionFile /\ EmptyRegion(FALSE) \in RegionFile
  BY <1>2, EmptyRegionType, Zenon
<1>4. "root" \in Pcs /\ "next" \in Pcs
  BY DEF Pcs
<1>5. k \in {"create", "flush", "close", "dtor"} /\ Root \in Regions
  BY StoreShape
<1>6. PICK f \in RegionFile :
        StartFlush(k, h) = Call(k, h, IF final[Root] = Absent THEN "root" ELSE "next",
                                RegionsOf(h), Root, f)
  BY <1>3, Zenon DEF StartFlush
<1> QED BY <1>1, <1>4, <1>5, <1>6, CallIsTyped

LEMMA EndType ==
  ASSUME TypeInv, op # Idle, op.kind # "create", op' = AfterFlush, mem' = MemAfterFlush
  PROVE  /\ op' = Idle \/ op' \in CallType
         /\ DOMAIN mem' = Handles
         /\ \A h \in Handles : mem'[h] = Closed \/ mem'[h] = mem[h]
         /\ op' # Idle => op'.kind = "dtor" /\ op'.h = op.h /\ mem' = mem
<1>1. op \in CallType /\ op.h \in Handles /\ mem[op.h] # Closed
  BY CallFields DEF TypeInv, TypeOK, CallHasHandle
<1>2. CASE op.kind = "close"
  <2>1. op' = StartFlush("dtor", op.h) /\ mem' = mem
    BY <1>2 DEF AfterFlush, MemAfterFlush
  <2>2. "dtor" \in {"flush", "close", "dtor"}
    OBVIOUS
  <2>3. op' \in CallType /\ op'.kind = "dtor" /\ op'.h = op.h
    BY <1>1, <2>1, <2>2, StartFlushType DEF TypeInv
  <2> QED BY <2>1, <2>3 DEF TypeInv, TypeOK
<1>3. CASE op.kind # "close"
  BY <1>3 DEF AfterFlush, MemAfterFlush, TypeInv, TypeOK
<1> QED BY <1>2, <1>3
(* TypeOK, by the variables an action can disturb.                           *)
FilesType == /\ final \in [Regions -> RegionFile \cup {Absent, Torn}]
             /\ tmp \in [Regions -> RegionFile \cup {Absent, Torn}]
             /\ unsynced \in SUBSET Regions
CopiesType == /\ DOMAIN mem = Handles
              /\ \A h \in Handles : mem[h] = Closed \/ OpenHandle(h)
OwnType == own \in [Handles -> BOOLEAN]
OpType == op = Idle \/ op \in CallType
CountsType == edits \in 0 .. MaxEdits /\ crashes \in 0 .. MaxCrashes

LEMMA TypeParts == TypeOK <=> FilesType /\ CopiesType /\ OwnType /\ OpType /\ CountsType
  BY Zenon DEF TypeOK, FilesType, CopiesType, OwnType, OpType, CountsType, OpenHandle

LEMMA CopyInHandle ==
  ASSUME CopiesType, NEW h \in Handles, mem[h] # Closed, NEW c \in Columns, NEW v \in Contents,
         mem' = [mem EXCEPT ![h] = Put(@, c, v)]
  PROVE  /\ CopiesType'
         /\ \A g \in Handles : mem[g] # Closed => mem'[g] # Closed
<1>1. OpenHandle(h)
  BY DEF CopiesType
<1>2. /\ DOMAIN Put(mem[h], c, v) \subseteq Columns
      /\ Put(mem[h], c, v) \in [DOMAIN Put(mem[h], c, v) -> Contents]
  BY <1>1, PutType DEF OpenHandle
<1>3. Put(mem[h], c, v) # Closed
  BY <1>2, NotClosed
<1>4. mem'[h] = Put(mem[h], c, v) /\ \A g \in Handles \ {h} : mem'[g] = mem[g]
  BY DEF CopiesType
<1> QED BY <1>2, <1>3, <1>4 DEF CopiesType, OpenHandle, Loaded

LEMMA EmptyHandle ==
  ASSUME CopiesType, NEW h \in Handles, mem' = [mem EXCEPT ![h] = NoColumns]
  PROVE  /\ CopiesType'
         /\ \A g \in Handles : mem[g] # Closed => mem'[g] # Closed
         /\ mem'[h] # Closed /\ DOMAIN mem'[h] = {}
<1>1. NoColumns \in [{} -> Contents] /\ DOMAIN NoColumns = {}
  BY DEF NoColumns
<1>2. NoColumns # Closed
  BY <1>1, NotClosed
<1>3. mem'[h] = NoColumns /\ \A g \in Handles \ {h} : mem'[g] = mem[g]
  BY DEF CopiesType
<1> QED BY <1>1, <1>2, <1>3 DEF CopiesType, OpenHandle, Loaded

(* What a handle may read of a column, and what it writes a region over.      *)
LEMMA LoadResultsType ==
  ASSUME TypeOK, NEW h \in Handles, NEW c \in Columns
  PROVE  LoadResults(h, c) \subseteq Contents
<1>1. {} \in Contents
  BY DEF Contents
<1> QED BY <1>1, SlotForType DEF LoadResults

LEMMA OldRegionsType ==
  ASSUME NEW r \in Regions
  PROVE  OldRegions(r) \subseteq RegionFile
  BY EmptyRegionType DEF OldRegions

LEMMA NextRegionFacts ==
  ASSUME TypeInv, NextRegion
  PROVE  /\ op # Idle /\ op.kind # "create" /\ op.pc = "next" /\ mem[op.h] # Closed
         /\ op' \in CallType /\ op'.kind = op.kind /\ op'.h = op.h /\ op'.pc = "open"
         /\ op'.r \in op.todo /\ op'.todo = op.todo \ {op'.r}
         /\ \E old \in OldRegions(op'.r) : op'.file = Rewritten(op.h, op'.r, old)
<1>1. /\ op # Idle /\ op.pc = "next" /\ op.kind # "create" /\ mem[op.h] # Closed
      /\ op \in CallType /\ op.h \in Handles
  BY CallFields DEF NextRegion, TypeInv, TypeOK, CallHasHandle
<1>2. PICK r \in op.todo : \E old \in OldRegions(r) :
        op' = [op EXCEPT !.pc = "open", !.todo = @ \ {r}, !.r = r,
                         !.file = Rewritten(op.h, r, old)]
  BY DEF NextRegion
<1>3. PICK old \in OldRegions(r) :
        op' = [op EXCEPT !.pc = "open", !.todo = op.todo \ {r}, !.r = r,
                         !.file = Rewritten(op.h, r, old)]
  BY <1>2
<1>4. OpenHandle(op.h) /\ own[op.h] \in BOOLEAN
  BY <1>1, TypeParts, Zenon DEF TypeInv, CopiesType, OwnType
<1>5. r \in Regions /\ Rewritten(op.h, r, old) \in RegionFile
  <2>1. r \in Regions
    BY <1>1, CallFields
  <2>2. old \in RegionFile
    BY <2>1, OldRegionsType
  <2> QED BY <1>1, <1>4, <2>1, <2>2, RewrittenType
<1>6. PICK f \in RegionFile :
        /\ f = Rewritten(op.h, r, old)
        /\ op' = [op EXCEPT !.pc = "open", !.todo = op.todo \ {r}, !.r = r, !.file = f]
  BY <1>3, <1>5, Zenon
<1>7. /\ op' \in CallType /\ op'.kind = op.kind /\ op'.h = op.h /\ op'.pc = "open"
      /\ op'.todo = op.todo \ {r} /\ op'.r = r /\ op'.file = f
  <2> HIDE <1>2, <1>3
  <2> QED BY <1>1, <1>5, <1>6 DEF CallType, Pcs
<1> QED BY <1>1, <1>6, <1>7

LEMMA TypeNext == TypeInv /\ [Next]_vars => TypeInv'
<1> SUFFICES ASSUME TypeInv, [Next]_vars PROVE TypeInv'
  OBVIOUS
<1>0. TypeOK /\ CallHasHandle /\ FilesType /\ CopiesType /\ OwnType /\ OpType /\ CountsType
  BY TypeParts DEF TypeInv
<1> SUFFICES /\ FilesType' /\ CopiesType' /\ OwnType' /\ OpType' /\ CountsType'
             /\ CallHasHandle'
  BY Zenon DEF TypeInv, TypeOK, FilesType, CopiesType, OwnType, OpType, CountsType, OpenHandle
<1>f. ASSUME UNCHANGED <<final, tmp, unsynced>> PROVE FilesType'
  BY <1>0, <1>f DEF FilesType
<1>m. ASSUME UNCHANGED mem PROVE CopiesType'
  BY <1>0, <1>m DEF CopiesType, OpenHandle, Loaded
<1>o. ASSUME UNCHANGED own PROVE OwnType'
  BY <1>0, <1>o, Zenon DEF OwnType
<1>c. ASSUME UNCHANGED <<edits, crashes>> PROVE CountsType'
  BY <1>0, <1>c DEF CountsType
<1>p. ASSUME UNCHANGED op, \A g \in Handles : mem[g] # Closed => mem'[g] # Closed
      PROVE  OpType' /\ CallHasHandle'
  BY <1>0, <1>p, CallFields DEF OpType, CallHasHandle
<1>i. ASSUME op' = Idle PROVE OpType' /\ CallHasHandle'
  BY <1>i DEF OpType, CallHasHandle
<1>b. op # Idle => op \in CallType
  BY <1>0 DEF OpType
(* A step of the call that only moves on.                                    *)
<1>s. ASSUME op # Idle, UNCHANGED mem, NEW pc \in Pcs, op' = [op EXCEPT !.pc = pc],
             op.kind # "create" \/ pc \in {"open", "write", "rename", "retry"}
      PROVE  OpType' /\ CallHasHandle'
  BY <1>0, <1>b, <1>s, CallAtPc DEF OpType, CallHasHandle
<1>1. CASE \E h \in Handles : Create(h)
  <2>1. PICK h \in Handles : Create(h)
    BY <1>1
  <2>2. /\ EmptyRegion(TRUE) \in RegionFile /\ "open" \in Pcs /\ Root \in Regions
        /\ "create" \in {"create", "flush", "close", "dtor"} /\ {} \in SUBSET Regions
    BY EmptyRegionType, StoreShape DEF Pcs
  <2>3. op' \in CallType /\ op'.kind = "create" /\ op'.pc = "open"
    <3>1. PICK f \in RegionFile : op' = Call("create", h, "open", {}, Root, f)
      BY <2>1, <2>2, Zenon DEF Create
    <3> QED BY <2>2, <3>1, CallIsTyped
  <2>4. OwnType'
    BY <1>0, <2>1, Zenon DEF OwnType, Create
  <2> QED BY <1>f, <1>m, <1>c, <2>1, <2>3, <2>4 DEF Create, OpType, CallHasHandle
<1>2. CASE \E h \in Handles : Open(h)
  <2>1. PICK h \in Handles : Open(h)
    BY <1>2
  <2>2. final[Root].params \in BOOLEAN
    BY <2>1, Zenon DEF Open, RegionFile
  <2>3. OwnType'
    BY <1>0, <2>1, <2>2, Zenon DEF OwnType, Open
  <2>4. FilesType'
    BY <1>0, <2>1 DEF FilesType, Open
  <2>5. CopiesType' /\ \A g \in Handles : mem[g] # Closed => mem'[g] # Closed
    BY <1>0, <2>1, EmptyHandle DEF Open
  <2> QED BY <1>c, <1>p, <2>1, <2>3, <2>4, <2>5 DEF Open
<1>3. CASE \E h \in Handles, c \in Columns : Read(h, c)
  <2>1. PICK h \in Handles, c \in Columns : Read(h, c)
    BY <1>3
  <2>2. PICK v \in Contents : mem' = [mem EXCEPT ![h] = Put(@, c, v)]
    BY <1>0, <2>1, LoadResultsType DEF Read
  <2>3. CopiesType' /\ \A g \in Handles : mem[g] # Closed => mem'[g] # Closed
    BY <1>0, <2>1, <2>2, CopyInHandle DEF Read
  <2> QED BY <1>f, <1>o, <1>c, <1>p, <2>1, <2>3 DEF Read
<1>4. CASE \E h \in Handles, c \in Columns : Edit(h, c)
  <2>1. PICK h \in Handles, c \in Columns : Edit(h, c)
    BY <1>4
  <2>2. edits' = edits + 1 /\ edits + 1 \in Edits /\ CountsType'
    BY <1>0, <2>1, StoreShape DEF Edit, Edits, CountsType
  <2>3. ColumnChoices(h, c) \subseteq Contents
    BY <1>0, <2>1, LoadResultsType DEF ColumnChoices, Edit, CopiesType, OpenHandle
  <2>4. PICK v \in Contents : mem' = [mem EXCEPT ![h] = Put(@, c, v \cup {edits + 1})]
    BY <2>1, <2>3 DEF Edit
  <2>5. v \cup {edits + 1} \in Contents
    BY <2>2 DEF Contents
  <2>6. CopiesType' /\ \A g \in Handles : mem[g] # Closed => mem'[g] # Closed
    BY <1>0, <2>1, <2>4, <2>5, CopyInHandle DEF Edit
  <2> QED BY <1>f, <1>o, <1>p, <2>1, <2>2, <2>6 DEF Edit
<1>5. CASE \E h \in Handles : BeginFlush(h, "flush") \/ BeginFlush(h, "close")
  <2>1. PICK h \in Handles, k \in {"flush", "close", "dtor"} : BeginFlush(h, k)
    BY <1>5
  <2>2. op' \in CallType /\ op'.kind = k /\ op'.h = h
    BY <1>0, <2>1, StartFlushType DEF BeginFlush
  <2> QED BY <1>f, <1>m, <1>o, <1>c, <2>1, <2>2 DEF BeginFlush, OpType, CallHasHandle
<1>6. CASE RootHeader
  <2>1. FilesType'
    BY <1>0, <1>6 DEF FilesType, RootHeader
  <2>2. "rootopen" \in Pcs /\ op.kind # "create"
    BY <1>0, <1>6 DEF Pcs, RootHeader, CallHasHandle
  <2> QED BY <1>6, <1>m, <1>o, <1>c, <1>s, <2>1, <2>2 DEF RootHeader
<1>7. CASE NextRegion
  BY <1>7, <1>f, <1>m, <1>o, <1>c, NextRegionFacts DEF NextRegion, OpType, CallHasHandle
(* The end of a flush, with a result or another.                             *)
<1>e. ASSUME op # Idle, op.kind # "create", op' = AfterFlush, mem' = MemAfterFlush
      PROVE  CopiesType' /\ OpType' /\ CallHasHandle'
  <2>1. /\ op' = Idle \/ op' \in CallType
        /\ DOMAIN mem' = Handles
        /\ \A h \in Handles : mem'[h] = Closed \/ mem'[h] = mem[h]
        /\ op' # Idle => op'.kind = "dtor" /\ op'.h = op.h /\ mem' = mem
    BY <1>e, EndType
  <2> QED BY <1>0, <1>e, <2>1 DEF CopiesType, OpenHandle, Loaded, OpType, CallHasHandle
<1>8. CASE EndFlush
  <2>1. op.kind # "create"
    BY <1>0, <1>8 DEF EndFlush, CallHasHandle
  <2> QED BY <1>8, <1>e, <1>f, <1>o, <1>c, <2>1 DEF EndFlush
(* Where write_atomic returns to.                                            *)
<1>q. ASSUME op # Idle, Succeed PROVE CopiesType' /\ OpType' /\ CallHasHandle'
  <2>1. CASE op.kind = "create"
    BY <1>0, <1>b, <1>i, <1>q, <2>1, CallFields, EmptyHandle DEF Succeed
  <2>2. CASE op.kind # "create"
    <3>1. "next" \in Pcs
      BY DEF Pcs
    <3> QED BY <1>q, <1>m, <1>s, <2>2, <3>1 DEF Succeed
  <2> QED BY <2>1, <2>2
<1>r. ASSUME op # Idle, Fail PROVE CopiesType' /\ OpType' /\ CallHasHandle'
  <2>1. CASE op.kind = "create"
    BY <1>i, <1>m, <1>r, <2>1 DEF Fail
  <2>2. CASE op.kind # "create" /\ ForRoot
    <3>1. "next" \in Pcs
      BY DEF Pcs
    <3> QED BY <1>r, <1>m, <1>s, <2>2, <3>1 DEF Fail
  <2>3. CASE op.kind # "create" /\ ~ForRoot
    BY <1>r, <1>e, <2>3 DEF Fail
  <2> QED BY <2>1, <2>2, <2>3
(* The steps within write_atomic.                                            *)
<1>t. ASSUME op # Idle, UNCHANGED mem,
             NEW pc \in {"write", "rename", "retry"}, NEW rootpc \in Pcs,
             op' = Step(pc, rootpc)
      PROVE  OpType' /\ CallHasHandle'
  <2>1. pc \in Pcs
    BY DEF Pcs
  <2>2. CASE ForRoot
    <3>1. op' = [op EXCEPT !.pc = rootpc] /\ op.kind # "create"
      BY <1>0, <1>t, <2>2 DEF ForRoot, Step, CallHasHandle
    <3> QED BY <1>s, <1>t, <3>1
  <2>3. CASE ~ForRoot
    <3>1. op' = [op EXCEPT !.pc = pc]
      BY <1>t, <2>3 DEF Step
    <3> QED BY <1>s, <1>t, <2>1, <3>1
  <2> QED BY <2>2, <2>3
<1>u. op # Idle => op.r \in Regions /\ op.file \in RegionFile
  BY <1>b, CallFields
<1>9. CASE OpenTmp
  <2>1. FilesType'
    BY <1>0, <1>9, <1>u DEF FilesType, OpenTmp
  <2>2. "rootwrite" \in Pcs
    BY DEF Pcs
  <2> QED BY <1>9, <1>m, <1>o, <1>c, <1>t, <2>1, <2>2 DEF OpenTmp, Opening
<1>10. CASE WriteTmp
  <2>1. FilesType'
    BY <1>0, <1>10, <1>u DEF FilesType, WriteTmp, Writing
  <2>2. "rootrename" \in Pcs
    BY DEF Pcs
  <2> QED BY <1>10, <1>m, <1>o, <1>c, <1>t, <2>1, <2>2 DEF WriteTmp, Writing
<1>11. CASE WriteError \/ RetryError
  BY <1>11, <1>f, <1>o, <1>c, <1>r DEF WriteError, RetryError, Opening, Writing, Retrying
<1>12. CASE Rename
  <2>1. FilesType'
    BY <1>0, <1>12, <1>u DEF FilesType, Rename, Renaming, Retrying
  <2> QED BY <1>12, <1>o, <1>c, <1>q, <2>1 DEF Rename, Renaming, Retrying
<1>13. CASE RemoveFinal
  <2>1. FilesType'
    BY <1>0, <1>13, <1>u DEF FilesType, RemoveFinal, Renaming
  <2>2. "rootretry" \in Pcs
    BY DEF Pcs
  <2> QED BY <1>13, <1>m, <1>o, <1>c, <1>t, <2>1, <2>2 DEF RemoveFinal, Renaming
<1>14. CASE Crash \/ PowerLoss
  <2>1. CopiesType'
    BY <1>14 DEF Crash, PowerLoss, CopiesType
  <2>2. CountsType'
    BY <1>0, <1>14, StoreShape DEF Crash, PowerLoss, CountsType
  <2>3. FilesType'
    BY <1>0, <1>14 DEF Crash, PowerLoss, FilesType
  <2> QED BY <1>14, <1>i, <1>o, <2>1, <2>2, <2>3 DEF Crash, PowerLoss
<1>15. CASE \E r \in Regions : WriteBack(r)
  <2>1. FilesType'
    BY <1>0, <1>15 DEF WriteBack, FilesType
  <2> QED BY <1>15, <1>m, <1>o, <1>c, <1>p, <2>1 DEF WriteBack
<1>16. CASE UNCHANGED vars
  BY <1>16, <1>f, <1>m, <1>o, <1>c, <1>p DEF vars
<1> QED
  BY <1>1, <1>2, <1>3, <1>4, <1>5, <1>6, <1>7, <1>8, <1>9, <1>10, <1>11, <1>12, <1>13,
     <1>14, <1>15, <1>16 DEF Next, Proceed

(* The files, the copies and the call in progress are what the code can hold, *)
(* whatever fails and whenever the process or the machine dies.              *)
THEOREM StoreTyping == Spec => []TypeOK
<1>1. TypeInv => TypeOK
  BY DEF TypeInv
<1> QED BY <1>1, TypeInit, TypeNext, PTL DEF Spec
-----------------------------------------------------------------------------
(* What a reader gets from a file.                                           *)
LEMMA SlotForNoFile ==
  ASSUME NEW f, f \notin RegionFile, NEW c, NEW o
  PROVE  SlotFor(f, c, o) = {}
  BY Zenon DEF SlotFor

LEMMA SlotForEmpty ==
  ASSUME NEW c \in Columns, NEW b \in BOOLEAN
  PROVE  SlotFor(EmptyRegion(b), c, TRUE) = {}
<1>1. EmptyRegion(b).slots[c] = [own |-> TRUE, edits |-> {}]
  BY Zenon DEF EmptyRegion
<1>2. [own |-> TRUE, edits |-> {}].edits = {}
  BY Zenon
<1> QED BY <1>1, <1>2, Zenon DEF SlotFor

LEMMA SlotForRewritten ==
  ASSUME TypeInv, "read" \notin Faults, NEW h \in Handles, mem[h] # Closed, own[h] = TRUE,
         NEW r \in Regions, NEW old \in OldRegions(r)
  PROVE  /\ \A c \in Columns : RegionOf[c] = r =>
              SlotFor(Rewritten(h, r, old), c, TRUE) =
                IF c \in Loaded(h) THEN mem[h][c] ELSE OnDisk(c)
         /\ final[r] \in RegionFile => Rewritten(h, r, old).params = final[r].params
<1>1. OpenHandle(h)
  BY TypeParts DEF TypeInv, CopiesType
<1>2. own[h] \in BOOLEAN
  BY Zenon
<1>3. old = IF final[r] \in RegionFile THEN final[r] ELSE EmptyRegion(FALSE)
  BY DEF OldRegions
<1>4. old \in RegionFile
  BY OldRegionsType
<1>5. /\ Rewritten(h, r, old) \in RegionFile
      /\ Rewritten(h, r, old).params = old.params
      /\ \A c \in Columns :
           Rewritten(h, r, old).slots[c] =
             IF RegionOf[c] = r /\ c \in Loaded(h)
             THEN [own |-> own[h], edits |-> mem[h][c]]
             ELSE old.slots[c]
  BY <1>1, <1>2, <1>4, RewrittenType, Zenon
<1>6. ASSUME NEW c \in Columns, RegionOf[c] = r, c \in Loaded(h)
      PROVE  SlotFor(Rewritten(h, r, old), c, TRUE) = mem[h][c]
  <2>1. Rewritten(h, r, old).slots[c] = [own |-> TRUE, edits |-> mem[h][c]]
    BY <1>5, <1>6, Zenon
  <2>2. /\ [own |-> TRUE, edits |-> mem[h][c]].own = TRUE
        /\ [own |-> TRUE, edits |-> mem[h][c]].edits = mem[h][c]
    BY Zenon
  <2> QED BY <1>5, <2>1, <2>2, Zenon DEF SlotFor
<1>7. ASSUME NEW c \in Columns, RegionOf[c] = r, c \notin Loaded(h)
      PROVE  SlotFor(Rewritten(h, r, old), c, TRUE) = OnDisk(c)
  <2>1. SlotFor(Rewritten(h, r, old), c, TRUE) = SlotFor(old, c, TRUE)
    BY <1>4, <1>5, <1>7, Zenon DEF SlotFor
  <2>2. SlotFor(old, c, TRUE) = SlotFor(final[r], c, TRUE)
    BY <1>3, SlotForEmpty, SlotForNoFile, Zenon
  <2> QED BY <1>7, <2>1, <2>2, Zenon DEF OnDisk
<1> QED BY <1>3, <1>5, <1>6, <1>7, Zenon
-----------------------------------------------------------------------------
(* The invariant.  An open handle has the world's own parameters, because the *)
(* root file, once there, always has them; a call has only steps that can     *)
(* follow when nothing but the writing of temporaries fails.                 *)
RootSteady ==
  /\ final[Root] \in RegionFile => final[Root].params = TRUE
  /\ \A h \in Handles : mem[h] # Closed => own[h] = TRUE /\ final[Root] \in RegionFile

(* The file being written is what the directory holds of its region, with     *)
(* the columns in memory in their places.                                    *)
PendingFile ==
  /\ op.r = Root => op.file.params = TRUE
  /\ \A c \in Columns : RegionOf[c] = op.r =>
       SlotFor(op.file, c, TRUE) = IF op.kind # "create" /\ c \in Loaded(op.h)
                                   THEN mem[op.h][c] ELSE OnDisk(c)

CallSteady ==
  op # Idle =>
    /\ op.pc \in {"next", "open", "write", "rename"}
    /\ op.pc = "rename" => tmp[op.r] = op.file
    /\ op.pc # "next" => PendingFile
    /\ op.kind = "create" => op.r = Root /\ own[op.h] = TRUE /\ mem[op.h] = Closed

(* The columns of the regions a flush is done with are on disk.              *)
SavedBehind ==
  op # Idle /\ op.kind # "create" =>
    \A c \in Loaded(op.h) :
      RegionOf[c] \notin op.todo /\ (op.pc = "next" \/ RegionOf[c] # op.r) =>
        OnDisk(c) = mem[op.h][c]

SteadyInv == TypeInv /\ RootSteady /\ CallSteady /\ SavedBehind

LEMMA SteadyInit == Init => SteadyInv
<1> SUFFICES ASSUME Init PROVE SteadyInv
  OBVIOUS
<1>1. RootSteady
  BY MarkersDiffer, StoreShape DEF Init, RootSteady
<1>2. CallSteady /\ SavedBehind
  BY DEF Init, CallSteady, SavedBehind
<1> QED BY <1>1, <1>2, TypeInit DEF SteadyInv

(* What a rename does to the map of columns.                                 *)
LEMMA RenameSaves ==
  ASSUME SteadyInv, Rename
  PROVE  /\ op # Idle /\ op.pc = "rename"
         /\ \A c \in Columns :
              OnDisk(c)' = IF op.kind # "create" /\ RegionOf[c] = op.r /\ c \in Loaded(op.h)
                           THEN mem[op.h][c] ELSE OnDisk(c)
         /\ final[Root] \in RegionFile => final'[Root] \in RegionFile
         /\ final'[Root] \in RegionFile => final'[Root].params = TRUE
         /\ op.kind = "create" => final'[Root] \in RegionFile
<1>1. /\ op # Idle /\ op.pc = "rename" /\ op \in CallType
      /\ PendingFile /\ tmp[op.r] = op.file
  BY DEF Rename, Renaming, Retrying, SteadyInv, CallSteady, TypeInv, TypeOK
<1>2. op.r \in Regions /\ op.file \in RegionFile
  BY <1>1, CallFields
<1>3. /\ final'[op.r] = op.file
      /\ \A r \in Regions \ {op.r} : final'[r] = final[r]
  BY <1>1, <1>2, TypeParts DEF Rename, SteadyInv, TypeInv, FilesType
<1>4. ASSUME NEW c \in Columns
      PROVE  OnDisk(c)' = IF op.kind # "create" /\ RegionOf[c] = op.r /\ c \in Loaded(op.h)
                          THEN mem[op.h][c] ELSE OnDisk(c)
  <2>1. RegionOf[c] \in Regions
    BY StoreShape
  <2>2. OnDisk(c)' = SlotFor(final'[RegionOf[c]], c, TRUE)
    BY Zenon DEF OnDisk
  <2>3. CASE RegionOf[c] = op.r
    <3>1. OnDisk(c)' = SlotFor(op.file, c, TRUE)
      BY <1>3, <2>2, <2>3, Zenon
    <3> QED BY <1>1, <2>3, <3>1, Zenon DEF PendingFile
  <2>4. CASE RegionOf[c] # op.r
    <3>1. final'[RegionOf[c]] = final[RegionOf[c]]
      BY <1>3, <2>1, <2>4
    <3> QED BY <2>2, <2>4, <3>1, Zenon DEF OnDisk
  <2> QED BY <2>3, <2>4, Zenon
<1>5. /\ final[Root] \in RegionFile => final'[Root] \in RegionFile
      /\ final'[Root] \in RegionFile => final'[Root].params = TRUE
  <2>1. CASE op.r = Root
    BY <1>1, <1>2, <1>3, <2>1, Zenon DEF PendingFile
  <2>2. CASE op.r # Root
    <3>1. final'[Root] = final[Root]
      BY <1>3, <2>2, StoreShape
    <3> QED BY <3>1, Zenon DEF SteadyInv, RootSteady
  <2> QED BY <2>1, <2>2, Zenon
<1>6. op.kind = "create" => final'[Root] \in RegionFile
  BY <1>1, <1>2, <1>3, Zenon DEF SteadyInv, CallSteady
<1> QED BY <1>1, <1>4, <1>5, <1>6, Zenon
(* What a handle reads of a column is what the directory holds.              *)
LEMMA LoadsWhatIsStored ==
  ASSUME SteadyInv, "read" \notin Faults, NEW h \in Handles, mem[h] # Closed, NEW c \in Columns
  PROVE  LoadResults(h, c) = {OnDisk(c)}
<1>1. own[h] = TRUE
  BY DEF SteadyInv, RootSteady
<1>2. SlotFor(final[RegionOf[c]], c, own[h]) = OnDisk(c)
  BY <1>1, Zenon DEF OnDisk
<1> QED BY <1>2 DEF LoadResults

LEMMA SteadyStartFlush ==
  ASSUME SteadyInv, NEW h \in Handles, mem[h] # Closed, NEW k \in {"flush", "close", "dtor"}
  PROVE  /\ StartFlush(k, h) \in CallType
         /\ StartFlush(k, h).kind = k /\ StartFlush(k, h).h = h
         /\ StartFlush(k, h).pc = "next" /\ StartFlush(k, h).todo = RegionsOf(h)
<1>1. final[Root] # Absent
  BY MarkersDiffer DEF SteadyInv, RootSteady
<1> QED BY <1>1, StartFlushType DEF SteadyInv, TypeInv

LEMMA SteadyNext == Steady /\ SteadyInv /\ [Next]_vars => SteadyInv'
<1> SUFFICES ASSUME Steady, SteadyInv, [Next]_vars PROVE SteadyInv'
  OBVIOUS
<1>0. /\ TypeInv /\ RootSteady /\ CallSteady /\ SavedBehind
      /\ FilesType /\ CopiesType
  BY TypeParts DEF SteadyInv, TypeInv
<1>a. TypeInv' /\ CopiesType'
  <2>1. TypeInv'
    BY <1>0, TypeNext
  <2>2. CopiesType'
    BY <2>1, Zenon DEF TypeInv, TypeOK, CopiesType, OpenHandle
  <2> QED BY <2>1, <2>2
<1> SUFFICES RootSteady' /\ CallSteady' /\ SavedBehind'
  BY <1>a DEF SteadyInv
<1>b. op # Idle => op \in CallType /\ op.h \in Handles /\ op.r \in Regions
  BY <1>0, CallFields DEF TypeInv, TypeOK
<1>d. ASSUME UNCHANGED final PROVE \A c \in Columns : OnDisk(c)' = OnDisk(c)
  BY <1>d, Zenon DEF OnDisk
<1>m. ASSUME UNCHANGED <<final, mem, own>> PROVE RootSteady'
  BY <1>0, <1>m, Zenon DEF RootSteady
<1>i. ASSUME op' = Idle PROVE CallSteady' /\ SavedBehind'
  BY <1>i DEF CallSteady, SavedBehind
<1>1. CASE \E h \in Handles : Create(h)
  <2>1. PICK h \in Handles : Create(h)
    BY <1>1
  <2>2. PICK f \in RegionFile :
          f = EmptyRegion(TRUE) /\ op' = Call("create", h, "open", {}, Root, f)
    BY <2>1, EmptyRegionType, Zenon DEF Create
  <2>3. /\ op'.kind = "create" /\ op'.pc = "open" /\ op'.h = h /\ op'.r = Root
        /\ op'.file = f
    <3>1. /\ "create" \in {"create", "flush", "close", "dtor"} /\ "open" \in Pcs
          /\ {} \in SUBSET Regions /\ Root \in Regions
      BY StoreShape DEF Pcs
    <3>2. op' = Call("create", h, "open", {}, Root, f)
      BY <2>2
    <3> HIDE <2>2
    <3> QED BY <3>1, <3>2, CallIsTyped
  <2>4. \A g \in Handles : mem[g] = Closed /\ mem' = mem
    <3>1. final[Root] \notin RegionFile
      BY <2>1, MarkersDiffer, StoreShape DEF Create
    <3> QED BY <1>0, <2>1, <3>1 DEF Create, RootSteady
  <2>5. own'[h] = TRUE
    BY <1>0, <2>1, Zenon DEF Create, TypeInv, TypeOK
  <2>6. \A c \in Columns : OnDisk(c) = {} /\ OnDisk(c)' = OnDisk(c)
    <3>1. UNCHANGED final /\ \A r \in Regions : final[r] \notin RegionFile
      BY <2>1, MarkersDiffer DEF Create
    <3> QED BY <1>d, <3>1, SlotForNoFile, StoreShape DEF OnDisk
  <2>7. PendingFile'
    <3>1. f.params = TRUE
      BY <2>2, Zenon DEF EmptyRegion
    <3>2. \A c \in Columns : SlotFor(f, c, TRUE) = {}
      BY <2>2, SlotForEmpty, Zenon
    <3>3. PendingFile' <=>
            /\ op'.r = Root => op'.file.params = TRUE
            /\ \A c \in Columns : RegionOf[c] = op'.r =>
                 SlotFor(op'.file, c, TRUE) = IF op'.kind # "create" /\ c \in Loaded(op.h)'
                                              THEN mem'[op'.h][c] ELSE OnDisk(c)'
      BY Zenon DEF PendingFile
    <3> QED BY <2>3, <2>6, <3>1, <3>2, <3>3, Zenon
  <2>8. RootSteady'
    <3>1. UNCHANGED <<final, mem>>
      BY <2>1 DEF Create
    <3> QED BY <1>0, <2>4, <3>1, Zenon DEF RootSteady
  <2>9. CallSteady'
    <3>1. op'.h = h /\ op'.r = Root /\ own'[op'.h] = TRUE /\ mem'[op'.h] = Closed
      BY <2>3, <2>4, <2>5, Zenon
    <3> QED BY <2>3, <2>7, <3>1 DEF CallSteady
  <2> QED BY <2>3, <2>8, <2>9 DEF SavedBehind
<1>2. CASE \E h \in Handles : Open(h)
  <2>1. PICK h \in Handles : Open(h)
    BY <1>2
  <2>2. own'[h] = TRUE
    <3>1. own' = [own EXCEPT ![h] = final[Root].params] /\ final[Root].params = TRUE
      BY <1>0, <2>1, Zenon DEF Open, RootSteady
    <3> QED BY <1>0, <3>1, Zenon DEF TypeInv, TypeOK
  <2>3. UNCHANGED final /\ op' = Idle /\ final[Root] \in RegionFile
    BY <2>1 DEF Open
  <2>4. \A g \in Handles : g # h => mem'[g] = mem[g] /\ own'[g] = own[g]
    BY <1>0, <2>1 DEF Open, CopiesType
  <2>5. RootSteady'
    BY <1>0, <2>2, <2>3, <2>4, Zenon DEF RootSteady
  <2> QED BY <1>i, <2>3, <2>5
(* Loading a column, and editing one.                                        *)
<1>l. ASSUME NEW h \in Handles, NEW cols, mem[h] # Closed, mem' = [mem EXCEPT ![h] = cols],
             UNCHANGED <<final, own, op>>, op = Idle
      PROVE  RootSteady' /\ CallSteady' /\ SavedBehind'
  <2>1. \A g \in Handles : g # h => mem'[g] = mem[g]
    BY <1>0, <1>l DEF CopiesType
  <2>2. RootSteady'
    BY <1>0, <1>l, <2>1, Zenon DEF RootSteady
  <2> QED BY <1>i, <1>l, <2>2
<1>3. CASE \E h \in Handles, c \in Columns : Read(h, c)
  <2>1. PICK h \in Handles, c \in Columns : Read(h, c)
    BY <1>3
  <2>2. PICK v \in LoadResults(h, c) : mem' = [mem EXCEPT ![h] = Put(@, c, v)]
    BY <2>1 DEF Read
  <2> QED BY <1>l, <2>1, <2>2 DEF Read
<1>4. CASE \E h \in Handles, c \in Columns : Edit(h, c)
  <2>1. PICK h \in Handles, c \in Columns : Edit(h, c)
    BY <1>4
  <2>2. PICK v \in ColumnChoices(h, c) : mem' = [mem EXCEPT ![h] = Put(@, c, v \cup {edits + 1})]
    BY <2>1 DEF Edit
  <2> QED BY <1>l, <2>1, <2>2 DEF Edit
(* A flush that begins: nothing is claimed of any region yet.                *)
<1>g. ASSUME NEW h \in Handles, NEW k \in {"flush", "close", "dtor"}, mem[h] # Closed,
             op' = StartFlush(k, h), UNCHANGED <<final, mem, own>>
      PROVE  RootSteady' /\ CallSteady' /\ SavedBehind'
  <2>1. op'.kind = k /\ op'.h = h /\ op'.pc = "next" /\ op'.todo = RegionsOf(h)
    BY <1>g, SteadyStartFlush
  <2>2. \A c \in Loaded(h) : RegionOf[c] \in op'.todo
    BY <2>1 DEF RegionsOf
  <2>3. SavedBehind'
    BY <1>g, <2>1, <2>2 DEF SavedBehind, Loaded
  <2>4. CallSteady'
    BY <2>1 DEF CallSteady
  <2> QED BY <1>g, <1>m, <2>3, <2>4
<1>5. CASE \E h \in Handles : BeginFlush(h, "flush") \/ BeginFlush(h, "close")
  <2>1. PICK h \in Handles, k \in {"flush", "close", "dtor"} : BeginFlush(h, k)
    BY <1>5
  <2> QED BY <1>g, <2>1 DEF BeginFlush
<1>6. CASE RootHeader
  BY <1>0, <1>6 DEF RootHeader, CallSteady
<1>7. CASE NextRegion
  <2>1. UNCHANGED <<final, mem, own, tmp>>
    BY <1>7 DEF NextRegion
  <2>2. /\ op # Idle /\ op.kind # "create" /\ op.pc = "next" /\ mem[op.h] # Closed
        /\ op' \in CallType /\ op'.kind = op.kind /\ op'.h = op.h /\ op'.pc = "open"
        /\ op'.r \in op.todo /\ op'.todo = op.todo \ {op'.r}
    BY <1>0, <1>7, NextRegionFacts
  <2>3. PICK old \in OldRegions(op'.r) : op'.file = Rewritten(op.h, op'.r, old)
    BY <1>0, <1>7, NextRegionFacts
  <2>4. op.h \in Handles /\ op'.r \in Regions /\ own[op.h] = TRUE /\ final[Root] \in RegionFile
    <3>1. op.h \in Handles /\ op'.r \in Regions
      BY <1>b, <2>2, CallFields
    <3> QED BY <1>0, <2>2, <3>1, Zenon DEF RootSteady
  <2>5. /\ \A c \in Columns : RegionOf[c] = op'.r =>
             SlotFor(op'.file, c, TRUE) = IF c \in Loaded(op.h) THEN mem[op.h][c] ELSE OnDisk(c)
        /\ final[op'.r] \in RegionFile => op'.file.params = final[op'.r].params
    <3>1. PICK h \in Handles, r \in Regions : h = op.h /\ r = op'.r
      BY <2>4
    <3>2. mem[h] # Closed /\ own[h] = TRUE /\ old \in OldRegions(r)
      BY <2>2, <2>3, <2>4, <3>1, Zenon
    <3>3. /\ \A c \in Columns : RegionOf[c] = r =>
               SlotFor(Rewritten(h, r, old), c, TRUE) =
                 IF c \in Loaded(h) THEN mem[h][c] ELSE OnDisk(c)
          /\ final[r] \in RegionFile => Rewritten(h, r, old).params = final[r].params
      <4>1. "read" \notin Faults
        BY DEF Steady
      <4> QED BY <1>0, <3>2, <4>1, SlotForRewritten, Zenon
    <3> QED BY <2>3, <3>1, <3>3, Zenon
  <2>6. PendingFile'
    <3>1. op'.r = Root => op'.file.params = TRUE
      BY <1>0, <2>4, <2>5, Zenon DEF RootSteady
    <3>2. Loaded(op.h)' = Loaded(op.h) /\ mem' = mem
      BY <2>1, <2>2 DEF Loaded
    <3>3. \A c \in Columns : OnDisk(c)' = OnDisk(c)
      BY <1>d, <2>1
    <3>4. PendingFile' <=>
            /\ op'.r = Root => op'.file.params = TRUE
            /\ \A c \in Columns : RegionOf[c] = op'.r =>
                 SlotFor(op'.file, c, TRUE) = IF op'.kind # "create" /\ c \in Loaded(op.h)'
                                              THEN mem'[op'.h][c] ELSE OnDisk(c)'
      BY Zenon DEF PendingFile
    <3> QED BY <2>2, <2>5, <3>1, <3>2, <3>3, <3>4, Zenon
  <2>7. CallSteady'
    BY <2>2, <2>6 DEF CallSteady
  <2>8. SavedBehind'
    <3>1. \A c \in Loaded(op.h) : c \in Columns
      BY <1>0, <2>2, <2>4 DEF CopiesType, OpenHandle
    <3> QED BY <1>0, <1>d, <2>1, <2>2, <3>1 DEF SavedBehind, Loaded
  <2> QED BY <1>m, <2>1, <2>7, <2>8
(* The end of a flush, and of the one that follows it in a close.             *)
<1>e. ASSUME op # Idle, op.kind # "create", op' = AfterFlush, mem' = MemAfterFlush,
             UNCHANGED <<final, own>>
      PROVE  RootSteady' /\ CallSteady' /\ SavedBehind'
  <2>1. CASE op.kind = "close"
    <3>1. op' = StartFlush("dtor", op.h) /\ mem' = mem /\ mem[op.h] # Closed
      BY <1>0, <1>e, <2>1 DEF AfterFlush, MemAfterFlush, TypeInv, CallHasHandle
    <3>2. "dtor" \in {"flush", "close", "dtor"}
      OBVIOUS
    <3> QED BY <1>b, <1>e, <1>g, <3>1, <3>2
  <2>2. CASE op.kind = "dtor"
    <3>1. op' = Idle /\ mem' = [mem EXCEPT ![op.h] = Closed]
      BY <1>e, <2>2 DEF AfterFlush, MemAfterFlush
    <3>2. \A h \in Handles : mem'[h] = Closed \/ mem'[h] = mem[h]
      BY <1>0, <1>b, <1>e, <3>1 DEF CopiesType
    <3>3. RootSteady'
      BY <1>0, <1>e, <3>2, Zenon DEF RootSteady
    <3> QED BY <1>i, <3>1, <3>3
  <2>3. CASE op.kind # "close" /\ op.kind # "dtor"
    BY <1>e, <1>i, <1>m, <2>3 DEF AfterFlush, MemAfterFlush
  <2> QED BY <2>1, <2>2, <2>3
<1>8. CASE EndFlush
  <2>1. op.kind # "create"
    BY <1>0, <1>8 DEF EndFlush, TypeInv, CallHasHandle
  <2> QED BY <1>8, <1>e, <2>1 DEF EndFlush
(* The steps within write_atomic.                                            *)
<1>t. ASSUME op # Idle, op.pc # "next", UNCHANGED <<final, mem, own>>,
             NEW pc \in {"write", "rename"}, NEW rootpc, op' = Step(pc, rootpc),
             pc = "rename" => tmp'[op.r] = op.file
      PROVE  RootSteady' /\ CallSteady' /\ SavedBehind'
  <2>1. ~ForRoot
    BY <1>0, <1>t DEF CallSteady, ForRoot
  <2>2. pc \in Pcs /\ op' = [op EXCEPT !.pc = pc]
    BY <1>t, <2>1 DEF Step, Pcs
  <2>3. /\ op'.kind = op.kind /\ op'.h = op.h /\ op'.pc = pc /\ op'.todo = op.todo
        /\ op'.r = op.r /\ op'.file = op.file
    BY <1>b, <1>t, <2>2, CallAtPc
  <2>4. PendingFile'
    <3>1. Loaded(op.h)' = Loaded(op.h) /\ mem' = mem
      BY <1>t, <2>3 DEF Loaded
    <3>2. \A c \in Columns : OnDisk(c)' = OnDisk(c)
      BY <1>d, <1>t
    <3>3. PendingFile' <=>
            /\ op'.r = Root => op'.file.params = TRUE
            /\ \A c \in Columns : RegionOf[c] = op'.r =>
                 SlotFor(op'.file, c, TRUE) = IF op'.kind # "create" /\ c \in Loaded(op.h)'
                                              THEN mem'[op'.h][c] ELSE OnDisk(c)'
      BY Zenon DEF PendingFile
    <3>4. PendingFile
      BY <1>0, <1>t DEF CallSteady
    <3> QED BY <2>3, <3>1, <3>2, <3>3, <3>4, Zenon DEF PendingFile
  <2>5. CallSteady'
    <3>1. op.kind = "create" => op'.r = Root /\ own'[op'.h] = TRUE /\ mem'[op'.h] = Closed
      BY <1>0, <1>t, <2>3, Zenon DEF CallSteady
    <3>2. op'.pc = "rename" => tmp'[op'.r] = op'.file
      BY <1>t, <2>3
    <3>3. op'.pc \in {"next", "open", "write", "rename"}
      BY <2>3
    <3> QED BY <2>3, <2>4, <3>1, <3>2, <3>3 DEF CallSteady
  <2>6. SavedBehind'
    <3>1. op.kind # "create" => \A c \in Loaded(op.h) : c \in Columns
      BY <1>0, <1>b, <1>t DEF TypeInv, CallHasHandle, CopiesType, OpenHandle
    <3> QED BY <1>0, <1>d, <1>t, <2>3, <3>1 DEF SavedBehind, Loaded
  <2> QED BY <1>m, <1>t, <2>5, <2>6
<1>9. CASE OpenTmp
  BY <1>9, <1>t DEF OpenTmp, Opening
<1>10. CASE WriteTmp
  <2>1. tmp'[op.r] = op.file
    BY <1>0, <1>10, <1>b DEF WriteTmp, Writing, FilesType
  <2> QED BY <1>10, <1>t, <2>1 DEF WriteTmp, Writing
<1>11. CASE WriteError
  <2>1. op # Idle /\ Fail /\ UNCHANGED <<final, own>> /\ ~ForRoot
    BY <1>0, <1>11 DEF WriteError, Opening, Writing, CallSteady, ForRoot
  <2>2. CASE op.kind = "create"
    BY <1>i, <1>m, <2>1, <2>2 DEF Fail
  <2>3. CASE op.kind # "create"
    BY <1>e, <2>1, <2>3 DEF Fail
  <2> QED BY <2>2, <2>3
<1>12. CASE Rename
  <2>1. /\ op # Idle /\ op.pc = "rename"
        /\ \A c \in Columns :
             OnDisk(c)' = IF op.kind # "create" /\ RegionOf[c] = op.r /\ c \in Loaded(op.h)
                          THEN mem[op.h][c] ELSE OnDisk(c)
        /\ final[Root] \in RegionFile => final'[Root] \in RegionFile
        /\ final'[Root] \in RegionFile => final'[Root].params = TRUE
        /\ op.kind = "create" => final'[Root] \in RegionFile
    BY <1>12, RenameSaves, Zenon
  <2>2. UNCHANGED own /\ Succeed
    BY <1>12 DEF Rename
  <2>4. CASE op.kind = "create"
    <3>1. op' = Idle /\ mem' = [mem EXCEPT ![op.h] = NoColumns]
      BY <2>2, <2>4 DEF Succeed
    <3>2. \A h \in Handles : h # op.h => mem'[h] = mem[h]
      BY <1>0, <3>1 DEF CopiesType
    <3>3. RootSteady'
      BY <1>0, <2>1, <2>2, <2>4, <3>2, Zenon DEF RootSteady, CallSteady
    <3> QED BY <1>i, <3>1, <3>3
  <2>5. CASE op.kind # "create"
    <3>1. op' = [op EXCEPT !.pc = "next"] /\ mem' = mem /\ "next" \in Pcs
      BY <2>2, <2>5 DEF Succeed, Pcs
    <3>2. op'.kind = op.kind /\ op'.h = op.h /\ op'.pc = "next" /\ op'.todo = op.todo
      BY <1>b, <2>1, <3>1, CallAtPc
    <3>3. RootSteady'
      BY <1>0, <2>1, <2>2, <3>1, Zenon DEF RootSteady
    <3>4. \A c \in Loaded(op.h) : c \in Columns
      BY <1>0, <1>b, <2>1, <2>5 DEF TypeInv, CallHasHandle, CopiesType, OpenHandle
    <3>6. SavedBehind'
      BY <1>0, <2>1, <2>5, <3>1, <3>2, <3>4 DEF SavedBehind, Loaded
    <3>7. CallSteady'
      BY <2>5, <3>2 DEF CallSteady
    <3> QED BY <3>3, <3>6, <3>7
  <2> QED BY <2>4, <2>5
<1>13. CASE RemoveFinal \/ RetryError
  BY <1>13 DEF RemoveFinal, RetryError, Steady
<1>14. CASE Crash \/ PowerLoss
  <2>1. op' = Idle /\ \A h \in Handles : mem'[h] = Closed
    BY <1>14 DEF Crash, PowerLoss
  <2>2. final'[Root] = final[Root] \/ final'[Root] = Torn
    BY <1>14, StoreShape DEF Crash, PowerLoss
  <2>3. RootSteady'
    BY <1>0, <2>1, <2>2, MarkersDiffer, Zenon DEF RootSteady
  <2> QED BY <1>i, <2>1, <2>3
(* Steps that leave files, copies and the call alone.                        *)
<1>u. ASSUME UNCHANGED <<final, tmp, mem, own, op>>
      PROVE  RootSteady' /\ CallSteady' /\ SavedBehind'
  BY <1>0, <1>u, Zenon
     DEF RootSteady, CallSteady, PendingFile, SavedBehind, OnDisk, Loaded
<1>15. CASE \E r \in Regions : WriteBack(r)
  BY <1>15, <1>u DEF WriteBack
<1>16. CASE UNCHANGED vars
  BY <1>16, <1>u DEF vars
<1> QED
  BY <1>1, <1>2, <1>3, <1>4, <1>5, <1>6, <1>7, <1>8, <1>9, <1>10, <1>11, <1>12, <1>13,
     <1>14, <1>15, <1>16 DEF Next, Proceed

(* With one handle, and no power lost, its copies lead the files as well.     *)
QuietInv == SteadyInv /\ CopiesNeverBehind

LEMMA CopiesNext == Quiet /\ QuietInv /\ [Next]_vars => CopiesNeverBehind'
<1> SUFFICES ASSUME Quiet, QuietInv, [Next]_vars PROVE CopiesNeverBehind'
  OBVIOUS
<1>0. SteadyInv /\ TypeInv /\ CopiesNeverBehind /\ CopiesType
  BY TypeParts DEF QuietInv, SteadyInv, TypeInv
<1>b. op # Idle => op \in CallType /\ op.h \in Handles /\ op.r \in Regions
  BY <1>0, CallFields DEF TypeInv, TypeOK
<1>d. ASSUME UNCHANGED final PROVE \A c \in Columns : OnDisk(c)' = OnDisk(c)
  BY <1>d, Zenon DEF OnDisk
(* A step that loads nothing.                                                *)
<1>m. ASSUME UNCHANGED final, \A h \in Handles : mem'[h] = mem[h] \/ mem'[h] = Closed
      PROVE  CopiesNeverBehind'
  <2> SUFFICES ASSUME NEW h \in Handles, mem'[h] # Closed, NEW c \in Loaded(h)'
               PROVE  OnDisk(c)' \subseteq mem'[h][c]
    BY DEF CopiesNeverBehind
  <2>1. mem'[h] = mem[h] /\ c \in Loaded(h)
    BY <1>m DEF Loaded
  <2>2. c \in Columns
    BY <1>0, <2>1 DEF CopiesType, OpenHandle, Loaded
  <2> QED BY <1>0, <1>d, <1>m, <2>1, <2>2 DEF CopiesNeverBehind
<1>1. CASE \E h \in Handles : Open(h)
  <2>1. PICK h \in Handles : Open(h)
    BY <1>1
  <2>2. Loaded(h)' = {}
    BY <1>0, <2>1, EmptyHandle DEF Open, Loaded
  <2>3. \A g \in Handles : g = h
    BY DEF Quiet, WritesFail
  <2> QED BY <2>2, <2>3 DEF CopiesNeverBehind, Loaded
(* Loading a column, and editing one.                                        *)
<1>l. ASSUME NEW h \in Handles, NEW c \in Columns, NEW v, mem[h] # Closed,
             OnDisk(c) \subseteq v, mem' = [mem EXCEPT ![h] = Put(@, c, v)], UNCHANGED final
      PROVE  CopiesNeverBehind'
  <2>1. \A g \in Handles : g = h
    BY DEF Quiet, WritesFail
  <2>2. mem'[h] = Put(mem[h], c, v)
    BY <1>0, <1>l DEF CopiesType
  <2>3. /\ Loaded(h)' = Loaded(h) \cup {c}
        /\ \A d \in Loaded(h)' : mem'[h][d] = IF d = c THEN v ELSE mem[h][d]
    BY <2>2 DEF Put, Loaded
  <2>4. Loaded(h) \subseteq Columns
    BY <1>0, <1>l DEF CopiesType, OpenHandle
  <2> QED BY <1>0, <1>d, <1>l, <2>1, <2>3, <2>4 DEF CopiesNeverBehind
<1>r. "read" \notin Faults
  BY DEF Quiet, WritesFail
<1>2. CASE \E h \in Handles, c \in Columns : Read(h, c)
  <2>1. PICK h \in Handles, c \in Columns : Read(h, c)
    BY <1>2
  <2>2. mem' = [mem EXCEPT ![h] = Put(@, c, OnDisk(c))]
    BY <1>0, <1>r, <2>1, LoadsWhatIsStored DEF Read
  <2> QED BY <1>l, <2>1, <2>2 DEF Read
<1>3. CASE \E h \in Handles, c \in Columns : Edit(h, c)
  <2>1. PICK h \in Handles, c \in Columns : Edit(h, c)
    BY <1>3
  <2>2. \A v \in ColumnChoices(h, c) : OnDisk(c) \subseteq v
    BY <1>0, <1>r, <2>1, LoadsWhatIsStored DEF Edit, ColumnChoices, CopiesNeverBehind
  <2>3. PICK v \in ColumnChoices(h, c) : mem' = [mem EXCEPT ![h] = Put(@, c, v \cup {edits + 1})]
    BY <2>1 DEF Edit
  <2>4. OnDisk(c) \subseteq v \cup {edits + 1}
    BY <2>2
  <2> QED BY <1>l, <2>1, <2>3, <2>4 DEF Edit
<1>4. CASE Rename
  <2>1. /\ op # Idle /\ op.pc = "rename"
        /\ \A c \in Columns :
             OnDisk(c)' = IF op.kind # "create" /\ RegionOf[c] = op.r /\ c \in Loaded(op.h)
                          THEN mem[op.h][c] ELSE OnDisk(c)
    BY <1>0, <1>4, RenameSaves, Zenon
  <2>2. Succeed /\ \A h \in Handles : h = op.h
    BY <1>4, <1>b, <2>1 DEF Rename, Quiet, WritesFail
  <2>3. CASE op.kind = "create"
    <3>1. mem' = [mem EXCEPT ![op.h] = NoColumns]
      BY <2>2, <2>3 DEF Succeed
    <3>2. DOMAIN mem'[op.h] = {}
      BY <1>0, <1>b, <2>1, <3>1, EmptyHandle
    <3> QED BY <2>2, <3>2 DEF CopiesNeverBehind, Loaded
  <2>4. CASE op.kind # "create"
    <3>1. mem' = mem
      BY <2>2, <2>4 DEF Succeed
    <3>2. \A c \in Loaded(op.h) : c \in Columns
      BY <1>0, <1>b, <2>1, <2>4 DEF TypeInv, CallHasHandle, CopiesType, OpenHandle
    <3> QED BY <1>0, <2>1, <2>2, <3>1, <3>2 DEF CopiesNeverBehind, Loaded
  <2> QED BY <2>3, <2>4
(* The end of a flush, and a crash, close handles and leave the files alone.  *)
<1>5. CASE EndFlush \/ WriteError
  <2>1. UNCHANGED final /\ op # Idle /\ (mem' = MemAfterFlush \/ mem' = mem)
    BY <1>5 DEF EndFlush, WriteError, Opening, Writing, Fail
  <2>2. \A h \in Handles : mem'[h] = mem[h] \/ mem'[h] = Closed
    BY <1>0, <1>b, <2>1 DEF MemAfterFlush, CopiesType
  <2> QED BY <1>m, <2>1, <2>2
<1>6. CASE Crash
  BY <1>6, <1>m DEF Crash
<1>7. CASE RemoveFinal \/ RetryError \/ PowerLoss
  BY <1>7 DEF RemoveFinal, RetryError, PowerLoss, Quiet, WritesFail
<1>8. CASE UNCHANGED <<final, mem>>
  BY <1>8, <1>m
<1>9. ASSUME \/ \E h \in Handles : Create(h) \/ BeginFlush(h, "flush") \/ BeginFlush(h, "close")
             \/ RootHeader \/ NextRegion \/ OpenTmp \/ WriteTmp
             \/ \E r \in Regions : WriteBack(r)
             \/ UNCHANGED vars
      PROVE  UNCHANGED <<final, mem>>
  BY <1>9 DEF Create, BeginFlush, RootHeader, NextRegion, OpenTmp, WriteTmp, WriteBack, vars
<1> QED
  BY <1>1, <1>2, <1>3, <1>4, <1>5, <1>6, <1>7, <1>8, <1>9 DEF Next, Proceed

LEMMA QuietIsSteady == (Quiet => WritesFail) /\ (WritesFail => Steady)
BY DEF Quiet, WritesFail, Steady

LEMMA SteadyAlways ==
  ASSUME Steady
  PROVE  Spec => []SteadyInv
<1>1. SteadyInv /\ [Next]_vars => SteadyInv'
  BY SteadyNext
<1> QED BY <1>1, SteadyInit, PTL DEF Spec

LEMMA QuietAlways ==
  ASSUME Quiet
  PROVE  Spec => []QuietInv
<1>1. QuietInv /\ [Next]_vars => QuietInv'
  BY QuietIsSteady, SteadyNext, CopiesNext DEF QuietInv, SteadyInv
<1>2. Init => QuietInv
  BY SteadyInit DEF QuietInv, SteadyInv, Init, CopiesNeverBehind
<1> QED BY <1>1, <1>2, PTL DEF Spec
-----------------------------------------------------------------------------
(* Every step, as it is seen in the map of columns.                          *)
SameDisk == \A c \in Columns : OnDisk(c)' = OnDisk(c)

LEMMA OnlyRenameChangesFiles ==
  ASSUME WritesFail, [Next]_vars
  PROVE  Rename \/ UNCHANGED final
<1>1. ~RemoveFinal /\ ~PowerLoss
  BY DEF RemoveFinal, PowerLoss, WritesFail
<1>2. CASE UNCHANGED vars
  BY <1>2 DEF vars
<1>3. CASE Proceed
  BY <1>1, <1>3 DEF Proceed, RootHeader, NextRegion, EndFlush, OpenTmp, WriteTmp, WriteError,
                    RetryError
<1>4. CASE Next /\ ~Proceed
  BY <1>1, <1>4 DEF Next, Create, Open, BeginFlush, Read, Edit, Crash, WriteBack
<1> QED BY <1>2, <1>3, <1>4

LEMMA DiskOrRename ==
  ASSUME WritesFail, [Next]_vars
  PROVE  SameDisk \/ Rename
  BY OnlyRenameChangesFiles, Zenon DEF SameDisk, OnDisk

(* A handle's copy of a column is never behind the region file it will be     *)
(* written over, so no save can take back an edit of an earlier one.         *)
THEOREM CopiesStayAhead ==
  ASSUME Quiet
  PROVE  Spec => []CopiesNeverBehind
<1>1. QuietInv => CopiesNeverBehind
  BY DEF QuietInv, SteadyInv
<1> QED BY <1>1, QuietAlways, PTL

(* What has reached a region file stays there, through any number of edits,   *)
(* failed writes, crashes and recoveries.                                    *)
THEOREM SavedEditsAlwaysStay ==
  ASSUME Quiet
  PROVE  Spec => SavedEditsStay
<1>1. ASSUME QuietInv, [Next]_vars
      PROVE  [\A c \in Columns : OnDisk(c) \subseteq OnDisk(c)']_vars
  <2>1. CASE SameDisk
    BY <2>1 DEF SameDisk
  <2>2. CASE Rename
    <3>1. op # Idle /\ \A c \in Columns :
            OnDisk(c)' = IF op.kind # "create" /\ RegionOf[c] = op.r /\ c \in Loaded(op.h)
                         THEN mem[op.h][c] ELSE OnDisk(c)
      BY <1>1, <2>2, RenameSaves, Zenon DEF QuietInv
    <3>2. op.kind # "create" => op.h \in Handles /\ mem[op.h] # Closed
      BY <1>1, <3>1, CallFields DEF QuietInv, SteadyInv, TypeInv, TypeOK, CallHasHandle
    <3>3. CopiesNeverBehind
      BY <1>1 DEF QuietInv, SteadyInv
    <3> QED BY <3>1, <3>2, <3>3 DEF CopiesNeverBehind
  <2> QED BY <1>1, <2>1, <2>2, DiskOrRename, QuietIsSteady
<1> QED BY <1>1, QuietAlways, PTL DEF Spec, SavedEditsStay

(* A world once created can be opened, with its parameters, ever after,       *)
(* however many handles write its directory.                                 *)
THEOREM WorldAlwaysOpenable ==
  ASSUME WritesFail
  PROVE  Spec => WorldStaysOpenable
<1>1. ASSUME SteadyInv, [Next]_vars
      PROVE  [final[Root] \in RegionFile /\ final[Root].params =>
                final'[Root] \in RegionFile /\ final'[Root].params]_vars
  <2>1. CASE UNCHANGED final
    BY <2>1, Zenon
  <2>2. CASE Rename
    BY <1>1, <2>2, RenameSaves, Zenon
  <2> QED BY <1>1, <2>1, <2>2, OnlyRenameChangesFiles
<1> QED BY <1>1, QuietIsSteady, SteadyAlways, PTL DEF Spec, WorldStaysOpenable

(* A flush or close that reaches the end of its regions has saved every       *)
(* column of its handle, as the handle has it, whatever other handles are     *)
(* open and whenever the power goes.                                         *)
THEOREM FlushedAlwaysSaved ==
  ASSUME Steady
  PROVE  Spec => FlushedIsSaved
<1>1. ASSUME SteadyInv, [Next]_vars
      PROVE  [FlushReturns /\ op.pc = "next" => EveryCopySaved(op.h)]_vars
  <2> SUFFICES ASSUME FlushReturns, op.pc = "next" PROVE EveryCopySaved(op.h)
    OBVIOUS
  <2>1. op # Idle /\ op' = Idle /\ crashes' = crashes /\ op.kind \in {"flush", "dtor"}
    BY DEF FlushReturns
  <2>2. op \in CallType /\ crashes \in Int
    BY <1>1, <2>1 DEF SteadyInv, TypeInv, TypeOK
  <2>3. EndFlush
    <3>1. ~NextRegion
      BY <1>1, <2>1, NextRegionFacts, CallIsBusy DEF SteadyInv
    <3>2. ~Crash /\ ~PowerLoss /\ ~UNCHANGED vars
      BY <2>1, <2>2 DEF Crash, PowerLoss, vars
    <3>3. ~RootHeader /\ ~OpenTmp /\ ~WriteTmp /\ ~WriteError /\ ~Rename /\ ~RemoveFinal
          /\ ~RetryError
      BY DEF RootHeader, OpenTmp, WriteTmp, WriteError, Rename, RemoveFinal, RetryError,
             Opening, Writing, Renaming, Retrying
    <3>4. \A h \in Handles : /\ ~Create(h) /\ ~Open(h)
                             /\ ~BeginFlush(h, "flush") /\ ~BeginFlush(h, "close")
                             /\ \A c \in Columns : ~Read(h, c) /\ ~Edit(h, c)
      BY <2>1 DEF Create, Open, BeginFlush, Read, Edit
    <3>5. \A r \in Regions : ~WriteBack(r)
      BY <2>1 DEF WriteBack
    <3> QED BY <1>1, <3>1, <3>2, <3>3, <3>4, <3>5 DEF Next, Proceed
  <2>4. op.todo = {} /\ UNCHANGED final
    BY <2>3 DEF EndFlush
  <2>5. \A c \in Loaded(op.h) : OnDisk(c) = mem[op.h][c]
    BY <1>1, <2>1, <2>4 DEF SteadyInv, SavedBehind
  <2> QED BY <2>4, <2>5, Zenon DEF EveryCopySaved, OnDisk
<1> QED BY <1>1, SteadyAlways, PTL DEF Spec, FlushedIsSaved
-----------------------------------------------------------------------------
(* Refinement: each step of the code is one step of the durable map, or none.  *)
disk == [c \in Columns |-> OnDisk(c)]

LEMMA SameDiskStutters ==
  ASSUME SameDisk
  PROVE  disk' = disk
  BY DEF SameDisk, disk

LEMMA StoreInit == Init => Store!Init
<1> SUFFICES ASSUME Init PROVE Store!Init
  OBVIOUS
<1>1. \A c \in Columns : OnDisk(c) = {}
  <2>1. \A r \in Regions : final[r] \notin RegionFile
    BY MarkersDiffer DEF Init
  <2> QED BY <2>1, SlotForNoFile, StoreShape DEF OnDisk
<1>2. [c \in Columns |-> OnDisk(c)] = [c \in Columns |-> {}]
  BY <1>1
<1> QED BY <1>2, Zenon DEF Init, Store!Init

(* A flush that ends takes the handle with it, if it is the destructor's.     *)
LEMMA EndIsClose ==
  ASSUME SteadyInv, op # Idle, op.kind # "create", mem' = MemAfterFlush,
         UNCHANGED <<final, crashes>>
  PROVE  Store!Next \/ UNCHANGED Store!storeVars
<1>1. op.h \in Handles /\ mem[op.h] # Closed
  BY CallFields DEF SteadyInv, TypeInv, TypeOK, CallHasHandle
<1>2. disk' = disk
  BY SameDiskStutters, Zenon DEF SameDisk, OnDisk
<1>3. CASE op.kind = "dtor"
  <2>1. Store!Close(op.h)
    BY <1>1, <1>2, <1>3 DEF MemAfterFlush, Store!Close, disk
  <2> QED BY <1>1, <2>1 DEF Store!Next
<1>4. CASE op.kind # "dtor"
  BY <1>2, <1>4 DEF MemAfterFlush, Store!storeVars, disk
<1> QED BY <1>3, <1>4

LEMMA FailStores ==
  ASSUME SteadyInv, op # Idle, Fail, UNCHANGED <<final, crashes>>
  PROVE  Store!Next \/ UNCHANGED Store!storeVars
<1>1. ~ForRoot
  BY DEF SteadyInv, CallSteady, ForRoot
<1>2. disk' = disk
  BY SameDiskStutters, Zenon DEF SameDisk, OnDisk
<1>3. CASE op.kind = "create"
  BY <1>2, <1>3 DEF Fail, Store!storeVars, disk
<1>4. CASE op.kind # "create"
  BY <1>1, <1>4, EndIsClose DEF Fail
<1> QED BY <1>3, <1>4

(* The rename is the save of a region, or the moment a new world is there.    *)
LEMMA RenameStores ==
  ASSUME SteadyInv, Rename
  PROVE  Store!Next \/ UNCHANGED Store!storeVars
<1>1. /\ op # Idle
      /\ \A c \in Columns :
           OnDisk(c)' = IF op.kind # "create" /\ RegionOf[c] = op.r /\ c \in Loaded(op.h)
                        THEN mem[op.h][c] ELSE OnDisk(c)
  BY RenameSaves, Zenon
<1>2. op.h \in Handles /\ op.r \in Regions
  BY <1>1, CallFields DEF SteadyInv, TypeInv, TypeOK
<1>3. Succeed /\ UNCHANGED crashes
  BY DEF Rename
<1>4. CASE op.kind = "create"
  <2>1. disk' = disk
    BY <1>1, <1>4, SameDiskStutters DEF SameDisk
  <2>2. mem[op.h] = Closed /\ mem' = [mem EXCEPT ![op.h] = [c \in {} |-> {}]]
    BY <1>1, <1>3, <1>4 DEF Succeed, NoColumns, SteadyInv, CallSteady
  <2>3. Store!Open(op.h)
    BY <1>3, <2>1, <2>2 DEF Store!Open, disk
  <2> QED BY <1>2, <2>3 DEF Store!Next
<1>5. CASE op.kind # "create"
  <2>1. mem[op.h] # Closed
    BY <1>1, <1>5 DEF SteadyInv, TypeInv, CallHasHandle
  <2>2. disk' = [c \in Columns |-> IF RegionOf[c] = op.r
                                  THEN IF c \in DOMAIN mem[op.h] THEN mem[op.h][c]
                                       ELSE disk[c]
                                  ELSE disk[c]]
    <3>1. \A c \in Columns :
            OnDisk(c)' = IF RegionOf[c] = op.r
                         THEN IF c \in DOMAIN mem[op.h] THEN mem[op.h][c] ELSE OnDisk(c)
                         ELSE OnDisk(c)
      BY <1>1, <1>5 DEF Loaded
    <3> QED BY <3>1 DEF disk
  <2>3. mem' = mem
    BY <1>3, <1>5 DEF Succeed
  <2>4. Store!SaveRegion(op.h, op.r)
    BY <1>3, <2>1, <2>2, <2>3 DEF Store!SaveRegion, Store!Copy, disk
  <2> QED BY <1>2, <2>4 DEF Store!Next
<1> QED BY <1>4, <1>5

LEMMA StepStores ==
  ASSUME WritesFail, SteadyInv, [Next]_vars
  PROVE  [Store!Next]_(Store!storeVars)
<1> SUFFICES Store!Next \/ UNCHANGED Store!storeVars
  OBVIOUS
<1>d. ASSUME UNCHANGED final PROVE disk' = disk
  BY <1>d, SameDiskStutters, Zenon DEF SameDisk, OnDisk
<1>s. ASSUME UNCHANGED <<final, mem, crashes>> PROVE UNCHANGED Store!storeVars
  BY <1>d, <1>s DEF Store!storeVars, disk
<1>r. "read" \notin Faults
  BY DEF WritesFail
<1>1. CASE \E h \in Handles : Open(h)
  <2>1. PICK h \in Handles : Open(h)
    BY <1>1
  <2>2. Store!Open(h)
    BY <1>d, <2>1 DEF Open, NoColumns, Store!Open, disk
  <2> QED BY <2>2 DEF Store!Next
<1>2. CASE \E h \in Handles, c \in Columns : Read(h, c)
  <2>1. PICK h \in Handles, c \in Columns : Read(h, c)
    BY <1>2
  <2>2. mem' = [mem EXCEPT ![h] = Put(@, c, OnDisk(c))]
    BY <1>r, <2>1, LoadsWhatIsStored DEF Read
  <2>3. disk' = disk /\ disk[c] = OnDisk(c)
    BY <1>d, <2>1 DEF Read, disk
  <2>4. Store!Read(h, c)
    BY <2>1, <2>2, <2>3 DEF Read, Put, Loaded, Store!Read, Store!Copy, Store!With, disk
  <2> QED BY <2>4 DEF Store!Next
<1>3. CASE \E h \in Handles, c \in Columns : Edit(h, c)
  <2>1. PICK h \in Handles, c \in Columns : Edit(h, c)
    BY <1>3
  <2>2. PICK v \in ColumnChoices(h, c) : mem' = [mem EXCEPT ![h] = Put(@, c, v \cup {edits + 1})]
    BY <2>1 DEF Edit
  <2>3. v = IF c \in DOMAIN mem[h] THEN mem[h][c] ELSE OnDisk(c)
    BY <1>r, <2>1, <2>2, LoadsWhatIsStored DEF Edit, ColumnChoices, Loaded
  <2>4. disk' = disk /\ disk[c] = OnDisk(c)
    BY <1>d, <2>1 DEF Edit, disk
  <2>5. edits + 1 \in Edits
    BY <2>1, StoreShape DEF Edit, Edits, SteadyInv, TypeInv, TypeOK
  <2>6. Store!Edit(h, c, edits + 1)
    BY <2>1, <2>2, <2>3, <2>4 DEF Edit, Put, Store!Edit, Store!Copy, Store!With, disk
  <2> QED BY <2>5, <2>6 DEF Store!Next
<1>4. CASE EndFlush
  <2>1. op.kind # "create"
    BY <1>4 DEF EndFlush, SteadyInv, TypeInv, CallHasHandle
  <2> QED BY <1>4, <2>1, EndIsClose DEF EndFlush
<1>5. CASE WriteError
  BY <1>5, FailStores DEF WriteError, Opening, Writing
<1>6. CASE Rename
  BY <1>6, RenameStores
<1>7. CASE Crash
  <2>1. Store!Crash
    BY <1>7, <1>d DEF Crash, Store!Crash, disk
  <2> QED BY <2>1 DEF Store!Next
<1>8. CASE \/ \E h \in Handles : \/ Create(h) \/ BeginFlush(h, "flush")
                                 \/ BeginFlush(h, "close")
           \/ RootHeader \/ NextRegion \/ OpenTmp \/ WriteTmp
           \/ \E r \in Regions : WriteBack(r)
           \/ UNCHANGED vars
  BY <1>8, <1>s DEF Create, BeginFlush, RootHeader, NextRegion, OpenTmp, WriteTmp, WriteBack,
                    vars
<1>9. ~RemoveFinal /\ ~RetryError /\ ~PowerLoss
  BY DEF RemoveFinal, RetryError, PowerLoss, WritesFail
<1> QED BY <1>1, <1>2, <1>3, <1>4, <1>5, <1>6, <1>7, <1>8, <1>9 DEF Next, Proceed

(* The region files implement the durable map: the rename is the one moment   *)
(* at which a save is seen, and every other file operation is invisible.  Of   *)
(* several handles on one directory each saves its own copies, old or not.    *)
THEOREM StoreImplementsDurableMap ==
  ASSUME WritesFail
  PROVE  Spec => ImplementsDurableStore
<1>1. SteadyInv /\ [Next]_vars => [Store!Next]_(Store!storeVars)
  BY StepStores
<1> QED
  BY <1>1, StoreInit, QuietIsSteady, SteadyAlways, PTL
     DEF Spec, ImplementsDurableStore, Store!Spec
-----------------------------------------------------------------------------
(* When renames fail and power is lost.                                      *)

(* What is about to be put in place is the whole file, never one that is      *)
(* still being written: whatever fails, and with any number of handles.      *)
WholeTemporary ==
  op # Idle /\ op.pc \in {"rename", "rootrename", "retry", "rootretry"} =>
    tmp[op.r] = op.file

TornInv == TypeInv /\ WholeTemporary

(* A step inside write_atomic changes only where the call stands.             *)
LEMMA StepFields ==
  ASSUME op \in CallType, NEW pc \in Pcs, NEW rootpc \in Pcs, op' = Step(pc, rootpc)
  PROVE  /\ op'.kind = op.kind /\ op'.h = op.h /\ op'.r = op.r /\ op'.file = op.file
         /\ op'.pc = IF ForRoot THEN rootpc ELSE pc
<1>1. CASE ForRoot
  <2>1. op' = [op EXCEPT !.pc = rootpc]
    BY <1>1 DEF Step
  <2> QED BY <1>1, <2>1, CallAtPc
<1>2. CASE ~ForRoot
  <2>1. op' = [op EXCEPT !.pc = pc]
    BY <1>2 DEF Step
  <2> QED BY <1>2, <2>1, CallAtPc
<1> QED BY <1>1, <1>2

LEMMA TornNext == TornInv /\ [Next]_vars => TornInv'
<1> SUFFICES ASSUME TornInv, [Next]_vars PROVE WholeTemporary'
  BY TypeNext DEF TornInv
<1>0. /\ TypeInv /\ WholeTemporary /\ FilesType
      /\ op # Idle => op \in CallType /\ op.r \in Regions
  BY TypeParts, CallFields DEF TornInv, TypeInv, TypeOK
<1>i. ASSUME op' = Idle PROVE WholeTemporary'
  BY <1>i DEF WholeTemporary
(* Where a call goes back to its loop, or starts.                            *)
<1>n. ASSUME op'.pc \in {"root", "rootopen", "next", "open", "write", "rootwrite"}
      PROVE  WholeTemporary'
  BY <1>n DEF WholeTemporary
<1>f. ASSUME NEW h \in Handles, mem[h] # Closed, NEW k \in {"flush", "close", "dtor"},
             op' = StartFlush(k, h)
      PROVE  WholeTemporary'
  BY <1>0, <1>f, <1>n, StartFlushType DEF TypeInv
<1>e. ASSUME op # Idle, op.kind # "create", op' = AfterFlush PROVE WholeTemporary'
  <2>1. op.h \in Handles /\ mem[op.h] # Closed
    BY <1>0, <1>e, CallFields DEF TypeInv, CallHasHandle
  <2> QED BY <1>e, <1>f, <1>i, <2>1 DEF AfterFlush
<1>x. ASSUME op # Idle, op' = [op EXCEPT !.pc = "next"] PROVE WholeTemporary'
  <2>1. "next" \in Pcs
    BY DEF Pcs
  <2> QED BY <1>0, <1>x, <1>n, <2>1, CallAtPc
<1>r. ASSUME op # Idle, Fail \/ Succeed PROVE WholeTemporary'
  BY <1>e, <1>i, <1>r, <1>x DEF Fail, Succeed
<1>1. CASE \E h \in Handles : Create(h)
  BY <1>1, <1>n DEF Create, Call
<1>2. CASE \E h \in Handles : Open(h) \/ \E c \in Columns : Read(h, c) \/ Edit(h, c)
  BY <1>2, <1>i DEF Open, Read, Edit
<1>3. CASE \E h \in Handles : BeginFlush(h, "flush") \/ BeginFlush(h, "close")
  BY <1>3, <1>f DEF BeginFlush
<1>4. CASE RootHeader
  <2>1. "rootopen" \in Pcs
    BY DEF Pcs
  <2> QED BY <1>0, <1>4, <1>n, <2>1, CallAtPc DEF RootHeader
<1>5. CASE NextRegion
  BY <1>0, <1>5, <1>n, NextRegionFacts
<1>6. CASE EndFlush
  BY <1>0, <1>6, <1>e DEF EndFlush, TypeInv, CallHasHandle
<1>7. CASE OpenTmp
  <2>1. op # Idle /\ op' = Step("write", "rootwrite") /\ "write" \in Pcs /\ "rootwrite" \in Pcs
    BY <1>7 DEF OpenTmp, Opening, Pcs
  <2> QED BY <1>0, <1>n, <2>1, StepFields
<1>8. CASE WriteTmp
  <2>1. /\ op # Idle /\ op' = Step("rename", "rootrename")
        /\ "rename" \in Pcs /\ "rootrename" \in Pcs
    BY <1>8 DEF WriteTmp, Writing, Pcs
  <2>2. tmp'[op.r] = op.file
    BY <1>0, <1>8, <2>1 DEF WriteTmp, FilesType
  <2>3. op'.r = op.r /\ op'.file = op.file
    BY <1>0, <2>1, StepFields
  <2> QED BY <2>2, <2>3 DEF WholeTemporary
<1>9. CASE WriteError \/ RetryError \/ Rename
  BY <1>9, <1>r DEF WriteError, RetryError, Rename, Opening, Writing, Renaming, Retrying
<1>10. CASE RemoveFinal
  <2>1. /\ op # Idle /\ op' = Step("retry", "rootretry") /\ tmp' = tmp
        /\ "retry" \in Pcs /\ "rootretry" \in Pcs /\ op.pc \in {"rename", "rootrename"}
    BY <1>10 DEF RemoveFinal, Renaming, Pcs
  <2>2. op'.r = op.r /\ op'.file = op.file
    BY <1>0, <2>1, StepFields
  <2> QED BY <1>0, <2>1, <2>2 DEF WholeTemporary
<1>11. CASE Crash \/ PowerLoss
  BY <1>11, <1>i DEF Crash, PowerLoss
<1>12. CASE UNCHANGED vars \/ \E r \in Regions : WriteBack(r)
  BY <1>0, <1>12 DEF WriteBack, vars, WholeTemporary
<1> QED
  BY <1>1, <1>2, <1>3, <1>4, <1>5, <1>6, <1>7, <1>8, <1>9, <1>10, <1>11, <1>12
     DEF Next, Proceed

LEMMA TornAlways == Spec => []TornInv
<1>1. Init => TornInv
  BY TypeInit DEF Init, TornInv, WholeTemporary
<1> QED BY <1>1, TornNext, PTL DEF Spec

(* How a step may change the files in place.                                 *)
LEMMA FinalChanges ==
  ASSUME [Next]_vars
  PROVE  Rename \/ RemoveFinal \/ PowerLoss \/ UNCHANGED final
<1>1. CASE UNCHANGED vars
  BY <1>1 DEF vars
<1>2. CASE Proceed
  BY <1>2 DEF Proceed, RootHeader, NextRegion, EndFlush, OpenTmp, WriteTmp, WriteError,
              RetryError
<1>3. CASE Next /\ ~Proceed
  BY <1>3 DEF Next, Create, Open, BeginFlush, Read, Edit, Crash, WriteBack
<1> QED BY <1>1, <1>2, <1>3

LEMMA RenamePutsFile ==
  ASSUME TornInv, Rename
  PROVE  /\ op # Idle /\ op \in CallType /\ op.r \in Regions /\ op.file \in RegionFile
         /\ op.pc \in {"rename", "rootrename", "retry", "rootretry"}
         /\ final'[op.r] = op.file
         /\ \A r \in Regions \ {op.r} : final'[r] = final[r]
<1>1. op # Idle /\ op.pc \in {"rename", "rootrename", "retry", "rootretry"}
  BY DEF Rename, Renaming, Retrying
<1>2. op \in CallType /\ op.r \in Regions /\ op.file \in RegionFile
  BY <1>1, CallFields DEF TornInv, TypeInv, TypeOK
<1>3. tmp[op.r] = op.file /\ FilesType
  BY <1>1, TypeParts DEF TornInv, TypeInv, WholeTemporary
<1> QED BY <1>1, <1>2, <1>3 DEF Rename, FilesType

LEMMA RemoveTakesFile ==
  ASSUME TornInv, RemoveFinal
  PROVE  /\ op # Idle /\ op \in CallType /\ op.r \in Regions
         /\ op.pc \in {"rename", "rootrename"} /\ tmp'[op.r] = op.file
         /\ final'[op.r] \in {Absent, final[op.r]}
         /\ \A r \in Regions \ {op.r} : final'[r] = final[r]
<1>1. op # Idle /\ op.pc \in {"rename", "rootrename"} /\ tmp' = tmp
  BY DEF RemoveFinal, Renaming
<1>2. op \in CallType /\ op.r \in Regions /\ FilesType
  BY <1>1, CallFields, TypeParts DEF TornInv, TypeInv, OpType
<1>3. tmp[op.r] = op.file
  BY <1>1 DEF TornInv, WholeTemporary
<1> QED BY <1>1, <1>2, <1>3 DEF RemoveFinal, FilesType

(* A file in place is torn only by a loss of power before it was written      *)
(* back, whatever else fails, and however many handles write the directory.  *)
THEOREM TornOnlyByPowerLoss == Spec => TornOnlyByPower
<1>1. ASSUME TornInv, [Next]_vars, NEW r \in Regions, final'[r] = Torn
      PROVE  final[r] = Torn \/ r \in unsynced
  <2>1. CASE Rename
    <3>1. r # op.r
      BY <1>1, <2>1, RenamePutsFile, MarkersDiffer
    <3> QED BY <1>1, <2>1, <3>1, RenamePutsFile
  <2>2. CASE RemoveFinal
    BY <1>1, <2>2, RemoveTakesFile, MarkersDiffer
  <2>3. CASE PowerLoss
    BY <1>1, <2>3 DEF PowerLoss
  <2>4. CASE UNCHANGED final
    BY <1>1, <2>4
  <2> QED BY <1>1, <2>1, <2>2, <2>3, <2>4, FinalChanges
<1>2. TornInv /\ [Next]_vars =>
        [\A r \in Regions : final'[r] = Torn => final[r] = Torn \/ r \in unsynced]_vars
  BY <1>1
<1> QED BY <1>2, TornAlways, PTL DEF Spec, TornOnlyByPower

(* The faults and handles of the claim about losses: files can be read, and   *)
(* one handle at a time is open; writes and renames fail, the power goes.    *)
Readable == "read" \notin Faults /\ \A g, h \in Handles : g = h

(* The file being written lies between what the directory holds of its region *)
(* and what the handle has in memory of it.                                  *)
PendingBetween ==
  /\ \A c \in Columns : RegionOf[c] = op.r => OnDisk(c) \subseteq SlotFor(op.file, c, TRUE)
  /\ op.kind # "create" =>
       \A c \in Loaded(op.h) :
         RegionOf[c] = op.r => SlotFor(op.file, c, TRUE) \subseteq mem[op.h][c]

CallCovers == op # Idle /\ op.pc # "next" /\ own[op.h] = TRUE => PendingBetween

OwnCopiesAhead ==
  \A h \in Handles : mem[h] # Closed /\ own[h] = TRUE =>
    \A c \in Loaded(h) : OnDisk(c) \subseteq mem[h][c]

LossInv == TornInv /\ CallCovers /\ OwnCopiesAhead

(* The region rewritten from what could be read of it.                       *)
LEMMA SlotForRewrite ==
  ASSUME TypeInv, Readable, NEW h \in Handles, mem[h] # Closed, own[h] = TRUE,
         NEW r \in Regions, NEW old \in OldRegions(r), NEW c \in Columns, RegionOf[c] = r
  PROVE  SlotFor(Rewritten(h, r, old), c, TRUE) =
           IF c \in Loaded(h) THEN mem[h][c] ELSE OnDisk(c)
<1>1. OpenHandle(h) /\ own[h] \in BOOLEAN
  BY TypeParts, Zenon DEF TypeInv, CopiesType
<1>2. old = IF final[r] \in RegionFile THEN final[r] ELSE EmptyRegion(FALSE)
  BY DEF OldRegions, Readable
<1>3. old \in RegionFile
  BY OldRegionsType
<1>4. /\ Rewritten(h, r, old) \in RegionFile
      /\ \A d \in Columns :
           Rewritten(h, r, old).slots[d] =
             IF RegionOf[d] = r /\ d \in Loaded(h)
             THEN [own |-> own[h], edits |-> mem[h][d]]
             ELSE old.slots[d]
  BY <1>1, <1>3, RewrittenType, Zenon
<1>5. CASE c \in Loaded(h)
  <2>1. Rewritten(h, r, old).slots[c] = [own |-> TRUE, edits |-> mem[h][c]]
    BY <1>4, <1>5, Zenon
  <2>2. /\ [own |-> TRUE, edits |-> mem[h][c]].own = TRUE
        /\ [own |-> TRUE, edits |-> mem[h][c]].edits = mem[h][c]
    BY Zenon
  <2> QED BY <1>4, <1>5, <2>1, <2>2, Zenon DEF SlotFor
<1>6. CASE c \notin Loaded(h)
  <2>1. SlotFor(Rewritten(h, r, old), c, TRUE) = SlotFor(old, c, TRUE)
    BY <1>3, <1>4, <1>6, Zenon DEF SlotFor
  <2>2. SlotFor(old, c, TRUE) = SlotFor(final[r], c, TRUE)
    BY <1>2, SlotForEmpty, SlotForNoFile, Zenon
  <2> QED BY <1>6, <2>1, <2>2, Zenon DEF OnDisk
<1> QED BY <1>5, <1>6, Zenon

(* A step that leaves the files in place alone, or takes some away, loses no  *)
(* handle its lead.                                                          *)
LEMMA ShrunkDisk ==
  ASSUME NEW r \in Regions, final'[r] = final[r] \/ final'[r] \in {Absent, Torn},
         NEW c \in Columns, RegionOf[c] = r
  PROVE  OnDisk(c)' \subseteq OnDisk(c)
<1>1. OnDisk(c)' = SlotFor(final'[r], c, TRUE) /\ OnDisk(c) = SlotFor(final[r], c, TRUE)
  BY Zenon DEF OnDisk
<1>2. CASE final'[r] = final[r]
  <2>1. OnDisk(c)' = OnDisk(c)
    BY <1>1, <1>2, Zenon
  <2> QED BY <2>1
<1>3. CASE final'[r] \in {Absent, Torn}
  <2>1. OnDisk(c)' = {}
    BY <1>1, <1>3, MarkersDiffer, SlotForNoFile
  <2> QED BY <2>1
<1> QED BY <1>2, <1>3

Shrinks == \A c \in Columns : OnDisk(c)' \subseteq OnDisk(c)

LEMMA LossNext == Readable /\ LossInv /\ [Next]_vars => LossInv'
<1> SUFFICES ASSUME Readable, LossInv, [Next]_vars PROVE CallCovers' /\ OwnCopiesAhead'
  BY TornNext DEF LossInv
<1>0. /\ TornInv /\ TypeInv /\ CallCovers /\ OwnCopiesAhead /\ CopiesType
      /\ op # Idle => op \in CallType /\ op.h \in Handles /\ op.r \in Regions
  BY TypeParts, CallFields DEF LossInv, TornInv, TypeInv, TypeOK
<1>1. \A g, h \in Handles : g = h
  BY DEF Readable
<1>i. ASSUME op' = Idle PROVE CallCovers'
  BY <1>i DEF CallCovers
(* The copies keep their lead when no file in place gains anything.          *)
<1>m. ASSUME Shrinks, UNCHANGED own, \A h \in Handles : mem'[h] = mem[h] \/ mem'[h] = Closed
      PROVE  OwnCopiesAhead'
  <2> SUFFICES ASSUME NEW h \in Handles, mem'[h] # Closed, own'[h] = TRUE,
                      NEW c \in Loaded(h)'
               PROVE  OnDisk(c)' \subseteq mem'[h][c]
    BY DEF OwnCopiesAhead
  <2>1. mem'[h] = mem[h] /\ own[h] = TRUE /\ c \in Loaded(h)
    BY <1>m DEF Loaded
  <2>2. OnDisk(c) \subseteq mem[h][c] /\ c \in Columns
    BY <1>0, <2>1, <1>m DEF OwnCopiesAhead, CopiesType, OpenHandle
  <2> QED BY <1>m, <2>1, <2>2 DEF Shrinks
(* So does the file being written.                                           *)
<1>c. ASSUME Shrinks, UNCHANGED <<own, mem>>, op # Idle, op.pc # "next",
             op'.kind = op.kind, op'.h = op.h, op'.r = op.r, op'.file = op.file
      PROVE  CallCovers'
  <2> SUFFICES ASSUME own[op.h] = TRUE PROVE PendingBetween'
    BY <1>c DEF CallCovers
  <2>1. PendingBetween
    BY <1>0, <1>c DEF CallCovers
  <2> QED BY <1>c, <2>1 DEF PendingBetween, Shrinks, Loaded
(* A flush that starts writes the root only if there is none.                *)
<1>f. ASSUME NEW h \in Handles, mem[h] # Closed, NEW k \in {"flush", "close", "dtor"},
             op' = StartFlush(k, h), UNCHANGED <<final, mem, own>>
      PROVE  CallCovers'
  <2>0. op'.h = h /\ op'.pc = IF final[Root] = Absent THEN "root" ELSE "next"
    BY <1>0, <1>f, StartFlushType DEF TypeInv
  <2> SUFFICES ASSUME op'.pc # "next", own[h] = TRUE PROVE PendingBetween'
    BY <1>f, <2>0, Zenon DEF CallCovers
  <2>1. final[Root] = Absent
    BY <2>0
  <2>2. PICK f \in RegionFile : f = EmptyRegion(TRUE) /\ op' = Call(k, h, "root", RegionsOf(h), Root, f)
    <3>1. EmptyRegion(TRUE) \in RegionFile
      BY EmptyRegionType
    <3> QED BY <1>f, <2>1, <3>1, Zenon DEF StartFlush
  <2>3. op'.r = Root /\ op'.file = f
    BY <2>2 DEF Call
  <2>4. \A c \in Columns : RegionOf[c] = Root => OnDisk(c)' = {}
    BY <1>f, <2>1, MarkersDiffer, SlotForNoFile DEF OnDisk
  <2>5. \A c \in Columns : SlotFor(f, c, TRUE) = {}
    BY <2>2, SlotForEmpty
  <2>6. \A c \in Loaded(h) : c \in Columns
    BY <1>0, <1>f DEF CopiesType, OpenHandle
  <2> QED BY <1>f, <2>0, <2>3, <2>4, <2>5, <2>6 DEF PendingBetween, Loaded
<1>e. ASSUME op # Idle, op.kind # "create", op' = AfterFlush, mem' = MemAfterFlush,
             UNCHANGED <<final, own>>
      PROVE  CallCovers' /\ OwnCopiesAhead'
  <2>1. op.h \in Handles /\ mem[op.h] # Closed
    BY <1>0, <1>e DEF TypeInv, CallHasHandle
  <2>2. Shrinks
    BY <1>e, ShrunkDisk, StoreShape DEF Shrinks
  <2>3. \A h \in Handles : mem'[h] = mem[h] \/ mem'[h] = Closed
    BY <1>0, <1>e, EndType
  <2>4. CASE op.kind = "close"
    BY <1>e, <1>f, <1>m, <2>1, <2>2, <2>3, <2>4 DEF AfterFlush, MemAfterFlush
  <2>5. CASE op.kind # "close"
    BY <1>e, <1>i, <1>m, <2>2, <2>3, <2>5 DEF AfterFlush
  <2> QED BY <2>4, <2>5
(* Loading a column, and editing one.                                        *)
<1>l. ASSUME NEW h \in Handles, NEW c \in Columns, NEW v, mem[h] # Closed,
             own[h] = TRUE => OnDisk(c) \subseteq v, mem' = [mem EXCEPT ![h] = Put(@, c, v)],
             UNCHANGED <<final, own, op>>, op = Idle
      PROVE  CallCovers' /\ OwnCopiesAhead'
  <2>1. mem'[h] = Put(mem[h], c, v)
    BY <1>0, <1>l DEF CopiesType
  <2>2. /\ Loaded(h)' = Loaded(h) \cup {c}
        /\ \A d \in Loaded(h)' : mem'[h][d] = IF d = c THEN v ELSE mem[h][d]
    BY <2>1 DEF Put, Loaded
  <2>3. \A d \in Columns : OnDisk(d)' = OnDisk(d)
    BY <1>l, Zenon DEF OnDisk
  <2>4. Loaded(h) \subseteq Columns
    BY <1>0, <1>l DEF CopiesType, OpenHandle
  <2>5. OwnCopiesAhead'
    BY <1>0, <1>1, <1>l, <2>2, <2>3, <2>4 DEF OwnCopiesAhead
  <2> QED BY <1>i, <1>l, <2>5
<1>2. CASE \E h \in Handles : Create(h)
  <2>1. PICK h \in Handles : Create(h)
    BY <1>2
  <2>2. \A g \in Handles : mem'[g] = Closed
    BY <1>1, <2>1 DEF Create
  <2>3. \A c \in Columns : OnDisk(c)' = {}
    BY <2>1, MarkersDiffer, SlotForNoFile, StoreShape DEF OnDisk, Create
  <2>4. op'.kind = "create"
    BY <2>1 DEF Create, Call
  <2> QED BY <2>2, <2>3, <2>4 DEF CallCovers, PendingBetween, OwnCopiesAhead
<1>3. CASE \E h \in Handles : Open(h)
  <2>1. PICK h \in Handles : Open(h)
    BY <1>3
  <2>2. Loaded(h)' = {}
    BY <1>0, <2>1, EmptyHandle DEF Open, Loaded
  <2>3. OwnCopiesAhead'
    BY <1>1, <2>2 DEF OwnCopiesAhead
  <2> QED BY <1>i, <2>1, <2>3 DEF Open
<1>4. CASE \E h \in Handles, c \in Columns : Read(h, c)
  <2>1. PICK h \in Handles, c \in Columns : Read(h, c)
    BY <1>4
  <2>2. PICK v \in LoadResults(h, c) : mem' = [mem EXCEPT ![h] = Put(@, c, v)]
    BY <2>1 DEF Read
  <2>3. v = SlotFor(final[RegionOf[c]], c, own[h])
    BY <2>2 DEF LoadResults, Readable
  <2>4. own[h] = TRUE => OnDisk(c) \subseteq v
    BY <2>3, Zenon DEF OnDisk
  <2> QED BY <1>l, <2>1, <2>2, <2>4 DEF Read
<1>5. CASE \E h \in Handles, c \in Columns : Edit(h, c)
  <2>1. PICK h \in Handles, c \in Columns : Edit(h, c)
    BY <1>5
  <2>2. PICK v \in ColumnChoices(h, c) : mem' = [mem EXCEPT ![h] = Put(@, c, v \cup {edits + 1})]
    BY <2>1 DEF Edit
  <2>3. own[h] = TRUE => OnDisk(c) \subseteq v
    <3>1. CASE c \in Loaded(h)
      BY <1>0, <2>1, <2>2, <3>1 DEF ColumnChoices, OwnCopiesAhead, Edit
    <3>2. CASE c \notin Loaded(h)
      <4>1. v = SlotFor(final[RegionOf[c]], c, own[h])
        BY <2>2, <3>2 DEF ColumnChoices, LoadResults, Readable
      <4> QED BY <4>1, Zenon DEF OnDisk
    <3> QED BY <3>1, <3>2
  <2>4. own[h] = TRUE => OnDisk(c) \subseteq v \cup {edits + 1}
    BY <2>3
  <2> QED BY <1>l, <2>1, <2>2, <2>4 DEF Edit
<1>6. CASE \E h \in Handles : BeginFlush(h, "flush") \/ BeginFlush(h, "close")
  <2>1. PICK h \in Handles, k \in {"flush", "close", "dtor"} : BeginFlush(h, k)
    BY <1>6
  <2>2. Shrinks
    BY <2>1, ShrunkDisk, StoreShape DEF BeginFlush, Shrinks
  <2> QED BY <1>f, <1>m, <2>1, <2>2 DEF BeginFlush
(* The steps that leave the files in place and the copies alone.             *)
<1>s. ASSUME UNCHANGED <<final, mem, own>> PROVE Shrinks /\ OwnCopiesAhead'
  <2>1. Shrinks
    BY <1>s, ShrunkDisk, StoreShape DEF Shrinks
  <2> QED BY <1>m, <1>s, <2>1
<1>7. CASE RootHeader
  <2>1. "rootopen" \in Pcs
    BY DEF Pcs
  <2> QED BY <1>0, <1>7, <1>c, <1>s, <2>1, CallAtPc DEF RootHeader
<1>8. CASE NextRegion
  <2>1. UNCHANGED <<final, mem, own>>
    BY <1>8 DEF NextRegion
  <2>2. /\ op # Idle /\ mem[op.h] # Closed /\ op'.h = op.h /\ op'.r \in op.todo
        /\ \E old \in OldRegions(op'.r) : op'.file = Rewritten(op.h, op'.r, old)
    BY <1>0, <1>8, NextRegionFacts
  <2>3. op'.r \in Regions
    BY <1>0, <2>2, CallFields
  <2>4. ASSUME own[op.h] = TRUE PROVE PendingBetween'
    <3>0. PICK r \in Regions : r = op'.r
      BY <2>3
    <3>1. PICK old \in OldRegions(r) : op'.file = Rewritten(op.h, r, old)
      BY <2>2, <3>0
    <3>2. \A c \in Columns : RegionOf[c] = op'.r =>
            SlotFor(op'.file, c, TRUE) = IF c \in Loaded(op.h) THEN mem[op.h][c] ELSE OnDisk(c)
      <4>1. \A c \in Columns : RegionOf[c] = r =>
              SlotFor(Rewritten(op.h, r, old), c, TRUE) =
                IF c \in Loaded(op.h) THEN mem[op.h][c] ELSE OnDisk(c)
        BY <1>0, <2>2, <2>4, SlotForRewrite
      <4> QED BY <3>0, <3>1, <4>1, Zenon
    <3>3. \A c \in Columns : OnDisk(c)' = OnDisk(c)
      BY <2>1, Zenon DEF OnDisk
    <3>4. \A c \in Loaded(op.h) : c \in Columns /\ OnDisk(c) \subseteq mem[op.h][c]
      BY <1>0, <2>2, <2>4 DEF OwnCopiesAhead, CopiesType, OpenHandle
    <3>5. Loaded(op.h)' = Loaded(op.h) /\ mem' = mem /\ op'.h = op.h
      BY <2>1, <2>2 DEF Loaded
    <3>6. PendingBetween' <=>
            /\ \A c \in Columns : RegionOf[c] = op'.r =>
                 OnDisk(c)' \subseteq SlotFor(op'.file, c, TRUE)
            /\ op'.kind # "create" =>
                 \A c \in Loaded(op.h)' :
                   RegionOf[c] = op'.r => SlotFor(op'.file, c, TRUE) \subseteq mem'[op'.h][c]
      BY Zenon DEF PendingBetween
    <3> QED BY <3>2, <3>3, <3>4, <3>5, <3>6
  <2> QED BY <1>s, <2>1, <2>2, <2>4 DEF CallCovers
<1>9. CASE EndFlush
  BY <1>0, <1>9, <1>e DEF EndFlush, TypeInv, CallHasHandle
<1>10. CASE OpenTmp \/ WriteTmp
  <2>1. PICK pc \in Pcs, rootpc \in Pcs : op' = Step(pc, rootpc)
    BY <1>10 DEF OpenTmp, WriteTmp, Pcs
  <2>2. op # Idle /\ op.pc # "next" /\ UNCHANGED <<final, mem, own>>
    BY <1>10 DEF OpenTmp, WriteTmp, Opening, Writing
  <2> QED BY <1>0, <1>c, <1>s, <2>1, <2>2, StepFields
<1>x. ASSUME op # Idle, op' = [op EXCEPT !.pc = "next"] PROVE CallCovers'
  <2>1. "next" \in Pcs
    BY DEF Pcs
  <2> QED BY <1>0, <1>x, <2>1, CallAtPc DEF CallCovers
<1>11. CASE WriteError \/ RetryError
  <2>1. op # Idle /\ Fail /\ UNCHANGED <<final, own>>
    BY <1>11 DEF WriteError, RetryError, Opening, Writing, Retrying
  <2>2. CASE op.kind = "create"
    BY <1>i, <1>s, <2>1, <2>2 DEF Fail
  <2>3. CASE op.kind # "create" /\ ForRoot
    BY <1>x, <1>s, <2>1, <2>3 DEF Fail
  <2>4. CASE op.kind # "create" /\ ~ForRoot
    BY <1>e, <2>1, <2>4 DEF Fail
  <2> QED BY <2>2, <2>3, <2>4
<1>12. CASE Rename
  <2>1. /\ op # Idle /\ op \in CallType /\ op.r \in Regions /\ op.file \in RegionFile
        /\ op.pc # "next" /\ op.h \in Handles
        /\ final'[op.r] = op.file
        /\ \A r \in Regions \ {op.r} : final'[r] = final[r]
    BY <1>0, <1>12, RenamePutsFile
  <2>2. Succeed /\ UNCHANGED own
    BY <1>12 DEF Rename
  <2>3. CASE op.kind = "create"
    <3>1. op' = Idle /\ mem' = [mem EXCEPT ![op.h] = NoColumns]
      BY <2>2, <2>3 DEF Succeed
    <3>2. DOMAIN mem'[op.h] = {}
      BY <1>0, <2>1, <3>1, EmptyHandle
    <3>3. OwnCopiesAhead'
      BY <1>1, <2>1, <3>2 DEF OwnCopiesAhead, Loaded
    <3> QED BY <1>i, <3>1, <3>3
  <2>4. CASE op.kind # "create"
    <3>1. op' = [op EXCEPT !.pc = "next"] /\ mem' = mem
      BY <2>2, <2>4 DEF Succeed
    <3>2. ASSUME own[op.h] = TRUE, mem[op.h] # Closed, NEW c \in Loaded(op.h)
          PROVE  OnDisk(c)' \subseteq mem[op.h][c]
      <4>1. c \in Columns /\ OnDisk(c) \subseteq mem[op.h][c] /\ PendingBetween
        BY <1>0, <2>1, <3>2 DEF OwnCopiesAhead, CopiesType, OpenHandle, CallCovers
      <4>2. RegionOf[c] \in Regions
        BY <4>1, StoreShape
      <4>3. OnDisk(c)' = SlotFor(final'[RegionOf[c]], c, TRUE)
        BY Zenon DEF OnDisk
      <4>4. CASE RegionOf[c] = op.r
        <5>1. OnDisk(c)' = SlotFor(op.file, c, TRUE)
          BY <2>1, <4>3, <4>4, Zenon
        <5> QED BY <2>4, <3>2, <4>1, <4>4, <5>1 DEF PendingBetween
      <4>5. CASE RegionOf[c] # op.r
        <5>1. final'[RegionOf[c]] = final[RegionOf[c]]
          BY <2>1, <4>2, <4>5
        <5>2. OnDisk(c)' = OnDisk(c)
          BY <4>3, <5>1, Zenon DEF OnDisk
        <5> QED BY <4>1, <5>2
      <4> QED BY <4>4, <4>5
    <3>3. OwnCopiesAhead'
      BY <1>1, <2>1, <2>2, <3>1, <3>2 DEF OwnCopiesAhead, Loaded
    <3> QED BY <1>x, <2>1, <3>1, <3>3
  <2> QED BY <2>3, <2>4
<1>13. CASE RemoveFinal
  <2>1. /\ op # Idle /\ op.pc # "next" /\ op' = Step("retry", "rootretry")
        /\ UNCHANGED <<mem, own>> /\ "retry" \in Pcs /\ "rootretry" \in Pcs
    BY <1>13 DEF RemoveFinal, Renaming, Pcs
  <2>2. Shrinks
    BY <1>0, <1>13, RemoveTakesFile, ShrunkDisk, StoreShape DEF Shrinks
  <2> QED BY <1>0, <1>c, <1>m, <2>1, <2>2, StepFields
<1>14. CASE Crash \/ PowerLoss
  BY <1>14, <1>i DEF Crash, PowerLoss, OwnCopiesAhead
<1>15. CASE UNCHANGED vars \/ \E r \in Regions : WriteBack(r)
  <2>1. UNCHANGED <<final, mem, own, op>>
    BY <1>15 DEF WriteBack, vars
  <2>2. op # Idle /\ op.pc # "next" => CallCovers'
    BY <1>c, <1>s, <2>1
  <2>3. op = Idle \/ op.pc = "next" => CallCovers'
    BY <2>1 DEF CallCovers
  <2> QED BY <1>s, <2>1, <2>2, <2>3
<1> QED
  BY <1>2, <1>3, <1>4, <1>5, <1>6, <1>7, <1>8, <1>9, <1>10, <1>11, <1>12, <1>13, <1>14,
     <1>15 DEF Next, Proceed

LEMMA LossAlways ==
  ASSUME Readable
  PROVE  Spec => []LossInv
<1>1. Init => LossInv
  <2> SUFFICES ASSUME Init PROVE LossInv
    OBVIOUS
  <2>1. TornInv /\ CallCovers
    BY TypeInit DEF Init, TornInv, WholeTemporary, CallCovers
  <2>2. OwnCopiesAhead
    BY DEF Init, OwnCopiesAhead
  <2> QED BY <2>1, <2>2 DEF LossInv
<1>2. LossInv /\ [Next]_vars => LossInv'
  BY LossNext
<1> QED BY <1>1, <1>2, PTL DEF Spec

(* Saved edits leave a region file in three ways and no other: the fallback   *)
(* of a failing rename removes the file, and then its complete successor is   *)
(* in the temporary; the power goes before the file was written back; or the  *)
(* handle had to do without the world's parameters.  For any columns and      *)
(* regions and any sequence of failing writes, failing renames, crashes and   *)
(* losses of power.                                                          *)
THEOREM OnlyKnownWaysToLose ==
  ASSUME Readable
  PROVE  Spec => OnlyKnownLosses
<1>1. ASSUME LossInv, [Next]_vars, NEW c \in Columns
      PROVE  \/ OnDisk(c) \subseteq OnDisk(c)'
             \/ OnDisk(c) \subseteq SlotFor(tmp'[RegionOf[c]], c, TRUE)
             \/ RegionOf[c] \in unsynced /\ final'[RegionOf[c]] = Torn
             \/ op # Idle /\ ~own[op.h]
  <2>1. TornInv /\ CallCovers /\ RegionOf[c] \in Regions
    BY <1>1, StoreShape DEF LossInv
  <2>2. OnDisk(c)' = SlotFor(final'[RegionOf[c]], c, TRUE)
    BY Zenon DEF OnDisk
  <2>3. ASSUME final'[RegionOf[c]] = final[RegionOf[c]] PROVE OnDisk(c) \subseteq OnDisk(c)'
    <3>1. OnDisk(c)' = OnDisk(c)
      BY <2>2, <2>3, Zenon DEF OnDisk
    <3> QED BY <3>1
  (* The call whose file is put in place, or removed before it is.           *)
  <2>4. ASSUME op # Idle, op \in CallType, op.pc # "next", RegionOf[c] = op.r
        PROVE  OnDisk(c) \subseteq SlotFor(op.file, c, TRUE) \/ ~own[op.h]
    <3>1. own[op.h] \in BOOLEAN
      BY <2>1, <2>4, CallFields, Zenon DEF TornInv, TypeInv, TypeOK
    <3>2. CASE own[op.h] = TRUE
      BY <2>1, <2>4, <3>2 DEF CallCovers, PendingBetween
    <3> QED BY <3>1, <3>2
  <2>5. CASE Rename
    <3>1. /\ op # Idle /\ op \in CallType /\ op.pc # "next" /\ final'[op.r] = op.file
          /\ \A r \in Regions \ {op.r} : final'[r] = final[r]
      BY <2>1, <2>5, RenamePutsFile
    <3>2. CASE RegionOf[c] = op.r
      <4>1. OnDisk(c)' = SlotFor(op.file, c, TRUE)
        BY <2>2, <3>1, <3>2, Zenon
      <4> QED BY <2>4, <3>1, <3>2, <4>1
    <3>3. CASE RegionOf[c] # op.r
      BY <2>1, <2>3, <3>1, <3>3
    <3> QED BY <3>2, <3>3
  <2>6. CASE RemoveFinal
    <3>1. /\ op # Idle /\ op \in CallType /\ op.pc # "next" /\ tmp'[op.r] = op.file
          /\ \A r \in Regions \ {op.r} : final'[r] = final[r]
      BY <2>1, <2>6, RemoveTakesFile
    <3>2. CASE RegionOf[c] = op.r
      <4>1. SlotFor(tmp'[RegionOf[c]], c, TRUE) = SlotFor(op.file, c, TRUE)
        BY <3>1, <3>2, Zenon
      <4> QED BY <2>4, <3>1, <3>2, <4>1
    <3>3. CASE RegionOf[c] # op.r
      BY <2>1, <2>3, <3>1, <3>3
    <3> QED BY <3>2, <3>3
  <2>7. CASE PowerLoss
    BY <2>1, <2>3, <2>7 DEF PowerLoss
  <2>8. CASE UNCHANGED final
    BY <2>3, <2>8
  <2> QED BY <1>1, <2>5, <2>6, <2>7, <2>8, FinalChanges
<1>2. LossInv /\ [Next]_vars =>
        [\A c \in Columns :
           \/ OnDisk(c) \subseteq OnDisk(c)'
           \/ OnDisk(c) \subseteq SlotFor(tmp'[RegionOf[c]], c, TRUE)
           \/ RegionOf[c] \in unsynced /\ final'[RegionOf[c]] = Torn
           \/ op # Idle /\ ~own[op.h]]_vars
  BY <1>1
<1> QED BY <1>2, LossAlways, PTL DEF Spec, OnlyKnownLosses
=============================================================================
