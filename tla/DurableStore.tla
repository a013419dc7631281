---------------------------- MODULE DurableStore ----------------------------
(***************************************************************************)
(* What the region files promise the users of a world: the directory is a  *)
(* map from columns to contents; a handle works on private copies of the   *)
(* columns it touched, each of them taken from the map; a save replaces    *)
(* the map's entries of one region by the handle's, all of them at once    *)
(* and no others; the end of a handle or of the process loses the copies   *)
(* that were not saved, and nothing else.  RegionStore implements it as    *)
(* long as renames and reads do not fail.                                  *)
(***************************************************************************)
EXTENDS Naturals

CONSTANTS
  Columns, Regions, RegionOf, Handles,
  Edits,               \* a column's content is the set of edits in it
  Closed               \* no handle

VARIABLES
  disk,     \* [Columns -> SUBSET Edits]
  mem,      \* per handle: Closed, or its copies by column
  crashed   \* how many crashes there have been

storeVars == <<disk, mem, crashed>>

Init ==
  /\ disk = [c \in Columns |-> {}]
  /\ mem = [h \in Handles |-> Closed]
  /\ crashed = 0

Copy(h, c) == IF c \in DOMAIN mem[h] THEN mem[h][c] ELSE disk[c]

With(copies, c, v) ==
  [d \in DOMAIN copies \cup {c} |-> IF d = c THEN v ELSE copies[d]]

Open(h) ==
  /\ mem[h] = Closed
  /\ mem' = [mem EXCEPT ![h] = [c \in {} |-> {}]]
  /\ UNCHANGED <<disk, crashed>>

Read(h, c) ==
  /\ mem[h] # Closed
  /\ mem' = [mem EXCEPT ![h] = With(@, c, Copy(h, c))]
  /\ UNCHANGED <<disk, crashed>>

Edit(h, c, e) ==
  /\ mem[h] # Closed
  /\ mem' = [mem EXCEPT ![h] = With(@, c, Copy(h, c) \cup {e})]
  /\ UNCHANGED <<disk, crashed>>

SaveRegion(h, r) ==
  /\ mem[h] # Closed
  /\ disk' = [c \in Columns |-> IF RegionOf[c] = r THEN Copy(h, c) ELSE disk[c]]
  /\ UNCHANGED <<mem, crashed>>

Close(h) ==
  /\ mem[h] # Closed
  /\ mem' = [mem EXCEPT ![h] = Closed]
  /\ UNCHANGED <<disk, crashed>>

Crash ==
  /\ mem' = [h \in Handles |-> Closed]
  /\ crashed' = crashed + 1
  /\ UNCHANGED disk

Next ==
  \/ \E h \in Handles :
       \/ Open(h) \/ Close(h)
       \/ \E c \in Columns : Read(h, c) \/ \E e \in Edits : Edit(h, c, e)
       \/ \E r \in Regions : SaveRegion(h, r)
  \/ Crash

Spec == Init /\ [][Next]_storeVars
=============================================================================
