# A verification development for the Demiurg engine (DemEn)

The engine is a native C++ core behind a C ABI (`src/src/native`), driven by a
C# game (`src/src/managed`).  This directory holds TLA+ models of the core's
own logic, TLC configurations that check them on small instances, and TLAPS
proofs of the theorems that hold for every instance.  Paths below are relative
to `src/src/native` of the repository unless they start with `docs/` or
`DESIGN.md`.

## 1. The system

| Component | State | Operations | Hard behaviour |
|---|---|---|---|
| **Paletted chunk** `voxel_store/palette_chunk.cpp` | palette, index width, packed index buffer | `set`, `fill_box`, `fill_uniform`, `get`, `copy_voxels`, (de)serialise | an append-only palette that changes the width of every stored index; several indices in a byte; "stored as one value" as a fast path others rely on |
| **Chunk column** `voxel_store/column.cpp` | chunks; 1024 `ColumnCell` records | `set_voxel`, `fill_box`, `recompute_cells` | cached records kept incrementally, a rescan only when the code thinks it is needed |
| **World** `voxel_store/world.cpp` | loaded columns, parameters | voxel and box access, bulk reads, `flush` | lazy loading, ignored load failures, bounds against the clamped height |
| **Region files** `voxel_store/region_io.cpp` | files `r.X.Z.dem` and their temporaries | load a column, rewrite a region, write the root header, sweep temporaries | crashes between file operations, failing writes, renames and reads, several regions per flush |
| **Voxel store ABI** `voxel_store/voxel_store_abi.cpp` | registries of world and chunk handles | create, open, close, flush, acquire, release | handles that outlive what they point to, results that are dropped |
| **Fluid** `fluid/` | water automaton, wave, air and weather grids, LOD accumulators | `demen_fluid_step`, queries | sweeps that meet what they just moved; tick parity |
| **Meshing** `meshing/` | mesh table | build, release | greedy merging over a chunk and its apron; axes, directions and winding |
| **Texture composition** `texture_composition/` | atlas slots by name | scan and compose, hot reload | stable slots under add, remove and change; partial failure |
| **Renderer** `renderer/` | frames in flight, swapchain, mesh slots, atlas | poll, upload, drop, set atlas, submit, destroy | resources freed while the GPU uses them; frames given up to a resize; results of Vulkan not looked at |
| **Spatial** `spatial/` | none | sweep, raycast | floating-point geometry |
| **Game** `managed/` | handles, camera, toys | start, frame loop, shutdown | order of start and shutdown |

Interaction: the game calls the ABI; the ABI finds a `World`; a world loads a
`ChunkColumn` from its region file on the first access, through
`deserialize_column` and `PalettedChunk::deserialize_from`, edits it in memory
through `ChunkColumn` and `PalettedChunk`, and writes all loaded columns, region
by region, on `flush` and on `close`.  Fluid and meshing read and write voxels
through the same ABI; the renderer copies the meshes and the atlas to the GPU
and draws them, one frame for each round of the game's loop.  The store is
documented as single-threaded (`voxel_store_abi.cpp:22-26`); its concurrency is
with crashes, with failing file operations, and between handles on one
directory.  The renderer's is with the GPU, which reads what a frame was
recorded with long after the call, and with the window, which changes its size
at any time.

What makes each component correct: a chunk is an array of block ids whatever
its representation; a column is a height field whose cached tops are the truth
after every edit; a column's bytes read back as the column; a world directory
is an atomic durable map from columns to contents; a mesh covers every visible
face of its chunk once; a render graph never records, frees or waits for what
the GPU has, or waits for something that will not come.

## 2. Modules

| Module | What it is | Lines of the code |
|---|---|---|
| `VoxelArray` | abstract: an array of block ids with a truthful "one value" flag | — |
| `PalettedChunk` | the chunk over its indices; implements `VoxelArray` | `palette_chunk.cpp` |
| `PackedChunk` | the same operations over the bytes of `indices_` | `palette_chunk.cpp:25-127` |
| `ColumnCodec` | a column's payload, byte by byte, written and read | `palette_chunk.cpp:229-273`, `region_io.cpp:118-173` |
| `HeightField` | abstract: voxels edited box by box, two exact height maps | — |
| `ChunkColumn` | the column and its `ColumnCell` records; implements `HeightField` | `column.cpp` |
| `ColumnWalk` | `rescan_cell` as the early-exit walk it is, against the set expressions `ChunkColumn` uses | `column.cpp:52-96` |
| `DurableStore` | abstract: a durable map with atomic saves of a region | — |
| `RegionStore` | create, open, load, edit, flush, close, `write_atomic`, crashes; implements `DurableStore` | `region_io.cpp`, `world.cpp`, `voxel_store_abi.cpp` |
| `VoxelSpace` | abstract: what each voxel call promises, over one space of voxels | — |
| `VoxelWorld` | a world behind its handles: coordinates, bounds, lazy loading, boxes, chunk handles, open and close over storage that works; its calls keep the promises of `VoxelSpace` | `world.cpp`, `voxel_store_abi.cpp` |
| `WaterSweep` | one sweep of the water automaton: order, targets, flow | `fluid/water_ca.cpp` |
| `FluidStep` | `demen_fluid_step`: clocks, tick counter, the two passes, voxel by voxel | `fluid/fluid_abi.cpp:72-165` |
| `Atlas` | the texture atlas: slots by name under load, reload and release, one material at a time | `texture_composition/atlas.cpp`, `texture_composition_abi.cpp:34-54,107-112` |
| `GreedyMesher` | a build of a chunk's mesh: the copy of the voxels, the six passes, masks, rectangles, quads | `meshing/greedy_mesher.cpp`, `meshing_abi.cpp:71-133` |
| `FrameLoop` | a render graph beside the GPU and its window: frames in flight, acquisition, resize, mesh slots, the atlas | `renderer/render_graph.cpp:374-873`, `vk_allocator.cpp`, `vk_swapchain.cpp` |
| `ChunkColumnProofs`, `PalettedChunkProofs`, `RegionStoreProofs`, `VoxelWorldProofs`, `FluidStepProofs`, `AtlasProofs`, `FrameLoopProofs`, `GreedyMesherProofs` | proofs | |
| `MC*` | instances for TLC | |

### How state and actions correspond to the code

*`PalettedChunk`.*  `chunk.bits`, `chunk.palette` and `chunk.indices` are
`bits_`, `palette_` and the indices `read_index` finds in `indices_`; `changed`
is the value the last write returned.  `Set`, `FillPart` and `FillWhole` are
`set` and the two branches of `fill_box`; a box is a set of voxel positions.
`PackedChunk` adds `buffer`, the bytes themselves, with every read, mask and
shift of `read_index`, `write_index` and `grow_bits`; its invariant
`BytesHoldIndices` is what entitles `PalettedChunk` to speak of indices.

*`ChunkColumn`.*  `voxels[c][y]` is what `chunks_[ci]->get` returns, `uniform`
the one fact about a chunk's representation the column's results depend on, and
`cells` the records.  `SetVoxel` and `FillBox` carry the whole handler: the
chunk write, the update of the record, the choice to rescan, the rescan.
`int16_t` narrowing is modelled (`Narrow`), with `Int16Min` a parameter.

*`RegionStore`.*  `final` and `tmp` are the files of the directory, `mem` the
columns a handle has loaded, `own` whether its parameters are the world's own,
`op` the one call in progress with its program counter.  `OpenTmp`, `WriteTmp`,
`Rename`, `RemoveFinal`, ... are the file operations of `write_atomic`, each of
them a step of its own so that `Crash` may come between any two.  A column's
content is the set of edits in it: enough to see an edit lost, and to see a
column that nobody touched lose one.

*`VoxelWorld`.*  `columns` is `columns_`, `disk` what the region files hold,
`handles` is `g_chunks`; `answer` is what the last call returned, with the
voxels it copied out.  A column is its chunks of voxels: `ChunkColumn` has the
records, `RegionStore` the storage that fails.  Coordinates go through
`floordiv` and `floormod` built from C's quotient and remainder; the properties
use the plain grid arithmetic of TLA+ instead, so that the two are compared.  A
box is cut into columns, and each part into chunk rows, as the code does it.
`CallsKeepPromise` says of every call what `VoxelSpace` promises of it, over
the space all columns add up to, loaded or stored.

*`FluidStep`.*  One call of `demen_fluid_step` is many steps: `Ticked` advances
the clocks and picks the passes, `Sweep` visits one voxel of a pass at the
cursor, and the first pass (the origin chunk row) and the second (around the
player) are entered and left by actions of their own.  The clocks are counted
in units of time with the code's reset to zero when they fire; `caTick` counts
modulo `TickRange`, of which only the parity matters.  `moved` is history: the
voxels the pass has moved water into.

*`Atlas`.*  `slots` is `slots_`, `slotOf` is `name_to_slot_`, `pixels` names
for each allocated tile the material it shows, or `Black`; `toFill` is the local
`to_fill`.  A call is `Begin` (every slot marked dead), a scan of the names in
order (`KeepSlot`, `ReuseSlot`, `AppendSlot`, `RefuseFull`), `Purge` (names
dropped, buffer blanked), a loading of the tiles (`LoadTile`, `RefuseCorrupt`)
and `Finish`.  The loops are cut into steps not because the code yields there
but because the directory is not the engine's: `ChangeFile` may write, spoil or
remove a file between any two.  A failed create drops its atlas, a failed reload
keeps what it has done so far (`Fail`).

*`GreedyMesher`.*  A build is the loops of `run_pass` cut at every cell, so that
the properties can speak of a mesh half made: `BuildMask` fills the mask of a
slice, `SkipCell`, `EmitQuad` and `NextRow` are the growth over it, `NextSlice`,
`NextPass` and `Finish` what surrounds it.  `view` is the `ChunkView`, filled
from the voxels in the order `copy_voxels` writes them (`CopyVoxels`) and
`fill_view_from_interior_only` reads them (`FillView`); the two orders differ.
`GrowWidth` and `GrowHeight` say where the two `while` loops stop.  A quad
keeps the cell it starts at and its size, from which `Corners` and `Triangles`
give the vertices and indices `emit_quad` pushes.  `Rebuild` is a build into the
record of an earlier mesh.  The slot of a cell is left out: `default_slot_cb`
answers 0 for every block.

*`FrameLoop`.*  `pc` is where the one client thread is, between calls or inside
`demen_render_graph_submit_frame`; `fence`, `ready` and `frame` are the members
of `FrameSync` and `frame_ix`, `gpu` the submissions not finished, each with the
slots it draws and whether the image it waits for will come.  `chain` and
`window` are extents, 0 for none; `held` counts images acquired and not
presented, `kept` those of them whose submission or presentation failed.
`SubmitFails` is the refused `vkQueueSubmit` whose result nothing looks at, after
the fence was reset: `refused` remembers the frame, and `jammed` that the
presentation after it, which waits for a semaphore nothing signals, was queued
all the same; Vulkan does not allow that presentation, so it may also be
answered, with the image or without.  `PresentFails` is a refused presentation
of a frame that was submitted.  A mesh slot is in one of the states an upload, a drop or a failure
in between can leave it in (`Live`, `Dead`); buffers go with the state.  Beside
the client, `Complete` is the GPU and `WindowChanges` the user.  `Drained` is
what `vkQueueWaitIdle` and `vkDeviceWaitIdle` come to.

## 3. Runs

| Run | Shows |
|---|---|
| `column` | two cells, three chunks one voxel high: every mix of single edits, boxes that cover chunks or parts of them, and recoveries. Both tops are exact, the depth is an upper bound and goes stale only by the two edits named, the walk agrees with a full look, and every edit is one edit of the height field |
| `codec` | two voxels, every width up to four bits, bytes of two bits: indices that share a byte, fill it and take two. Palette, width and buffer fit each other, no write changes a voxel that was not written, and a column whose palettes fit the size byte loads as it was saved |
| `store_faults` | two regions, three columns (two in the root region), temporaries that cannot be opened or written, two crashes anywhere: the directory implements `DurableStore`, nothing saved is ever lost, the world stays openable, a completed flush has saved everything, every call ends |
| `store_losses` | failing renames and losses of power: what can be lost, and how |
| `world_space` | a bounded and a streaming world, columns on both sides of zero, boxes across columns and beyond the bounds, chunk handles inside and outside, closing and opening again: every call keeps its promise, handles of the open world find their column, and only two calls make columns out of bounds |
| `fluid_water` | every filling of a world three voxels wide, three high and one deep, every mix of frame times and player moves: water is conserved, only goes down, is not met again by the pass that moved it (but for the one way named), and none hangs for ever; each pass keeps its side |
| `atlas` | three materials for two slots, files written, spoiled and removed at any time: name and slot lookups stay inverse, refused reloads included; no slot passes from one name to another in a step; a call that answers OK leaves every live slot with its material, every dead one black; a full atlas has a name in every slot |
| `mesher` | chunks three voxels a side, every filling of a corner of two voxels a side and of the middle layer, built, edited and built again: the rectangles of a slice partition its visible faces, equal in shade, at every moment of the build; the finished mesh shows exactly the faces named (transposed, a plane up when they look down, none of the last layer), wound outward along x and inward along y and z |
| `frames` | two frames in flight, three images, two slots, two changes of the window, one failure: a command buffer is recorded only when the GPU is done with it; two meshes never share a slot; a frame whose submission was refused is never recorded again; images are given up only while a resize is due or by a failed submission or presentation; only `drop_mesh` and `set_atlas` free what is in use; every submit returns and every resize is followed, but for the five hangs named |
| `codec_palette_claim`, `store_rename_claim`, `mesher_faces_claim` | one statement of the documents each, which the code does not keep (section 6) |

### Bounds

Heights: three chunks one voxel high around height 0 have a voxel above, at and
below every top, on both sides of zero and of a chunk border; chunks of more
than one voxel, and boxes that cover part of one vertically, are covered by the
proofs, which hold for every shape.  Widths:
0, 1, 2 and 4 bits show growing from nothing, from a width that shares bytes,
and to one that does not; the bytes of two bits stand for bytes of eight, so
that an index of two bytes (16 in the code) is reached with five blocks.
`MaxEdits` is two: one edit to be saved and one to be made after, on any
columns; `MaxCrashes` two: the second crash hits the recovery from the first.
Three columns in two regions: a neighbour that is not loaded, and a region
before the root in key order.

World: `MaxEdits`, `MaxWorlds` and `MaxChunkHandles` bound the writes (2), the
world handles (2: the second is opened on what the first saved) and the chunk
handles (1).  Chunks of two voxels a side make a quotient and a remainder that
differ from C's below zero; a height clamped to one chunk leaves accepted rows
that are not stored.  The run's VIEW leaves out the last answer, on which no
step depends.  Fluid: with chunks of two voxels and no reach beyond the
player's own, the two passes cover different parts of the world and overlap,
and the border of the world cuts one of them;
the rows 0 and `YMax` = 1 are swept, and the row below them can be flowed into
and is never swept.  Atlas: three materials are one more than the slots, so that
one reload can meet a name that keeps its slot, one that takes a dead slot, one
that is appended and one that is refused; the same run with four materials for
three slots (5.4 million states) also passes.

Mesher: an edge of three is a first, a middle and a last slice, a rectangle
that stops at the border and one that stops before it; what a cell's mask
depends on reaches one voxel to each side.  Frames: `MaxSlots` (2) bounds the
mesh slots and `MaxFaults` (1) the steps in which Vulkan fails; `MaxChanges` (2)
the changes of the window, minimised and restored or changed again while a
swapchain is made for the first.  One spare image is what three images leave of
a surface that needs two; with two frames in flight, a third submission waits
for the first.  With three failures and no mesh slot, so that hangs meet, the
same properties hold (170,000 states).

The runs of the region store and of the frame loop turn the deadlock check off:
a create that crashed leaves a directory
in which no call does anything (section 6), and the frame loop may end, crash or
wait for ever.

### Fairness

`CallsReturn` (region files) needs weak fairness of the steps of the call in
progress: the store is single-threaded and its calls do not wait, so a call
runs on unless the process dies.  `NoneHangsForever` (fluid) needs weak
fairness of `Next`: the game calls the step every frame
(`managed/DemEn.Game/Program.cs`), and a call runs to its end.
`SubmitReturns` and `ChainFollowsWindow` (frames) need weak fairness of the GPU
and of the steps inside a call, and strong fairness of `BeginSubmit`: in every
round the loop makes finitely many other calls and then submits
(`Program.cs:108-168`, `render_graph.cpp:856-870`).  No fairness is assumed of
the window, of failures, or of acquisitions that are out of date; a wait for
something that is never signalled is not made to end.

## 4. Proofs

All theorems hold for every value of the constants, under the assumptions named
in the modules.

* `ChunkColumnProofs`: `Typing` (`TypeOK`), `UniformSound` (`UniformIsTrue`),
  and, for heights that fit `int16_t` (`YFitsInt16`), `TopsAlwaysExact` and
  `DepthAlwaysCovers`.  The inductive invariant is the conjunction of the type
  invariant, the truth of the uniform flag and the record's relation to the
  voxels; the flag is needed because `fill_box` skips the rescan on a chunk's
  word.
  `ColumnImplementsHeightField`: each slice of `fill_box` is an interval, their
  union over the stack is the box.  `DepthStaleOnlyBySubmergedEdit`: a record
  whose depth was right stays right but for the two edits for which
  `need_rescan` stays false (`column.cpp:127-149`) though they change the water
  above the terrain.
  `WalkAlwaysAgrees`: the loop of `rescan_cell` finds the record.  The walk's
  locals at a height are described by the part of the stack above it, from the
  top down, up to the early exit; once that is taken, both tops are known and a
  solid voxel was met, so that no water below counts.
* `PalettedChunkProofs`: `ChunkTyping`, `PaletteAlwaysSound`,
  `ChunkImplementsVoxelArray`.  The invariant relates the width to the length
  of the palette; what it gives is that no mask ever cuts an index.
  `BytesAlwaysHoldIndices` goes below the indices, for bytes of any number of
  bits and any widths that divide it, equal it or are twice it.  An index is a
  field of a number: writing a field gives it its value and changes neither the
  quotient above nor the remainder below (`FieldWritten`), fields of indices in
  one byte do not overlap (`PlaceInByte`, `PlacesApart`), so that a write changes
  one index (`WriteIsOne`); the loops that write several (`grow_bits`,
  `fill_box`) then do so index by index (`TranscodeCopies`, `PutBytes`).  The
  invariant `PackedInv` needs that of the palette: an index cut by its mask would
  not come back.  `SmallPalettesAlwaysRoundTrip` takes the buffer as a string of
  bytes: the parts of a serialised chunk are where `deserialize_from` looks for
  them (`ImageParts`, `ChunkReadsBack`), and the second chunk begins where the
  first one ends (`ColumnReadsBack`).  `LargePalettesAlwaysLost` is the converse:
  of a palette larger than the size byte can say, what is accepted is cut.
* `RegionStoreProofs`: `StoreTyping` (`TypeOK` under every fault).  For any
  number of handles: `FlushedAlwaysSaved`, where the opening and writing of
  temporaries may fail and the power may go (`Steady`), and, without the loss of
  power (`WritesFail`), `WorldAlwaysOpenable` and the refinement
  `StoreImplementsDurableMap`.  For one handle (`Quiet`): `CopiesStayAhead` and
  `SavedEditsAlwaysStay`, which a second handle breaks, because it saves the old
  copies it has loaded.
  The invariant `SteadyInv` is what they rest on: an open handle has the world's
  own parameters, because a root header that is complete always has them, and
  one that is not lets no handle open (`RootSteady`); the file being written is
  the region on disk with the loaded columns in their places, up to the moment
  of the rename (`PendingFile`, `CallSteady`); the regions a flush is done with
  were saved with what is in memory (`SavedBehind`).  `QuietInv` adds that no
  copy is behind the disk.  The hypotheses are as wide as the truth: with
  failing reads or renames, or with lost power for what `Steady` does not cover,
  the same properties fail (section 6 and `store_losses`).
  What can go wrong then is a theorem too.  `TornOnlyByPowerLoss`, for any
  handles and faults: nothing of a temporary still being written is ever put in
  place, because a rename comes after the whole of it (`TornInv`).
  `OnlyKnownWaysToLose`, for one handle at a time and files that can be read
  (`Readable`), with failing writes and renames, crashes and lost power.  Its
  invariant `LossInv` is weaker than `SteadyInv`, whose claims about the root
  file no longer hold: a handle with the world's own parameters has in memory
  all that the files hold of its loaded columns (`OwnCopiesAhead`), and the file
  being written lies between what is on disk and what is in memory
  (`CallCovers`).
* `VoxelWorldProofs`: `FloorDivIsFloor`, by the uniqueness of division with
  remainder; `OutsideIsUnchecked`; `WorldTyping`; `HandlesAreFound`, from the
  invariant that world handles are given out in order (`HandlesInOrder`), which
  excludes that a chunk handle of a closed world is taken for one of its
  successor; and `WorldKeepsPromise`, the promise of `VoxelSpace` for every
  world.  Its argument: column, row and offset tell positions apart
  (`PlacesApart`), the space is what the columns would be if they were loaded
  (`SpaceValue`), loading, saving, closing and opening change none of them
  (`KeepingLoaded`), and the intervals of a fill, cut to a column, a layer and
  the rows of the world, are the box cut to them (`PartIs`, `RowsIs`).  The last
  needs the layers in order, `min_chunk_y <= max_chunk_y` (`LayersInOrder`): of
  a world that has them upside down, which `world.cpp:41` makes one chunk high,
  a fill reaches no voxel.
* `FluidStepProofs`: `Typing`, `WaterIsConserved` and `WaterGoesDownhill`, by
  exchange of one member of a finite set, `MovedStaysBehind`, by the order of
  the cursor: the sweep only advances, and what it moves goes behind it; and
  `SidesAreKept`, because two turns of the tick are none.
* `AtlasProofs`: `AtlasTyping`, `LookupsAlwaysAgree`, `OkIsAlwaysWhole`,
  `SlotsAreAlwaysStable` and `FullIsAlwaysOfNames`.  The inductive invariant says
  that the two tables are inverse in the dead slots too (`TablesMatch`), that
  what a scan has marked live is in `to_fill` (`Composed`, `ToDo`) and that a tile
  which is not in it any more shows its material; the last theorem is a
  pigeonhole on the names.
* `FrameLoopProofs`: `GraphTyping`, with the invariant that an image that was
  not kept by a failure is held outside a recording only while the resize flag
  is set (`Holding`), without which the count of images is not bounded;
  `BuffersAreIdle`, by what a step can do to the frames: nothing, wait for all,
  finish the first, submit the next, or fail to (`FrameSteps`); `SlotsAreOwned`, where the slot an upload takes is shown to be
  dead; `ImagesAreKept`; and `FreedInUse`, which rests on `SlotsAreOwned`: an
  upload writes no slot a frame draws because it takes none that is live.
* `GreedyMesherProofs`: `PartitionIsInvariant`, `WindingIsInvariant` and
  `FacesAreInvariant`.  The invariant of the growth (`GrowthInv`) says that a
  cell of the mask still set is as it was and bare, that one not set is covered
  as the mask of the slice asks (`MaskIsTheRest`), that nothing is left behind
  the cursor (`BehindCursorEmpty`) and that slices to come are bare
  (`UnmeshedBare`); that the growth stops at a size the mask allows is
  `GrowthStops`.  The winding is the cross product, pass by pass.  What a
  finished mesh shows rests on the index of a voxel being unique in the buffer
  (`CubeIndex`), on the view being the chunk at hand (`ViewFresh`) and on every
  quad lying on a plane of its pass (`Anchored`).

Loops.  What a loop of the code computes is a recursive function over an
interval of integers (`Walk`, `Transcode`, `BufferPut`, `SerializeColumn`,
`DeserializeColumn`), and so is the shift `1u << n` (`Pow2`: the prover has no
theory of exponentiation).  That such a function exists is a lemma
(`LoopUp`, and its twin that counts down), and an invariant of the loop is a set
of pairs of a counter and a value, closed under a turn (`LoopHolds`); induction
is over the set of counters it has been shown for (`UpInduction`), since the
provers cannot be given a predicate.

Assumed of the constants, beside their types.  `ByteLayout`: the capacity of a
width is a power of two, a width divides a byte or is two of them, and the
indices of a chunk fill whole bytes, as 32768 of them do.  `OtherFits`:
block ids have two bytes, and the second chunk of the column is one whose
palette fits.  The palette that does not fit is a run of its own (section 6).

Only model-checked: liveness (`CallsReturn`, `NoneHangsForever`,
`SubmitReturns`, `ChainFollowsWindow`), which needs ENABLED, out of the provers'
reach.  That `SmallPalettesRoundTrip` holds of a column of any number of chunks
is not stated: the model has two, so that one of them begins at an offset that
depends on the other.

## 5. What a next step would be

1. The mesh table (`meshing_abi.cpp:100-207`) over the chunk handles of
   `VoxelWorld`: `demen_mesh_build_region` stops at the first chunk it cannot
   acquire and leaves the meshes made so far to its caller.
2. A second thread that uploads while the first records
   (`render_graph.cpp:455`).

## 6. Where code and documents disagree

Each of these three is a run that must find a violation:

* `codec_palette_claim`: a palette of 256 blocks or more does not load again
  (`palette_chunk.cpp:235`), against `DESIGN.md:130,342`.  That it never does is
  a theorem, `LargePalettesAlwaysLost`.
* `store_rename_claim`: the fallback of a failed rename removes the prior save
  (`region_io.cpp:99`), against "a crash mid-write never corrupts the prior
  save" (`region_io.hpp:37-39`).
* `mesher_faces_claim`: the negative passes take the voxel before the slice for
  the one inside (`greedy_mesher.cpp:172-174`), so that a face is drawn one plane
  beyond its voxel and the last layer has none, against "for every face whose
  voxel on the +d side of the slice is opaque-solid"
  (`greedy_mesher.cpp:5-8`).

Shown by a property that holds, which says what the code does instead:

* `water_depth_voxels` goes stale when a solid voxel is placed in the water of a
  cell or submerged water is removed (`column.cpp:149`), against "must stay
  correct after every edit" (`voxel_store.hpp:123-125`):
  `DepthGoesStaleOnlyBySubmergedEdit`.
* The pass around the player always sweeps the same way (`fluid_abi.cpp:161`),
  against "iteration direction alternates each tick"
  (`docs/appendices/B_fluid_solver.md:41`): `PassesKeepTheirSides`.
* The mesh is of the chunk with y and z exchanged: a chunk stores x fastest,
  then z, then y (`palette_chunk.hpp:24`), and `meshing_abi.cpp:75` says "x
  fastest, then y, then z": `FacesDrawn`.
* "Winding order is chosen per face direction so the front face points outward"
  (`greedy_mesher.cpp:12-13`): it does for the x faces alone
  (`OnlyXFacesOutward`).
* "Its slot is reclaimed on the next frame boundary so in-flight frames do not
  read freed memory" (`render_graph.hpp:85-86`): `drop_mesh` frees its buffers at
  once, and `set_atlas` its image (`FreedInUseOnlyByDropAndAtlas`).
* A minimised window keeps acquiring images it gives up, until the next
  acquisition waits for ever; any error of an acquisition but out-of-date leads
  to a frame that waits for a semaphore nothing signals; the result of
  `recreate_swapchain` is not looked at, and the next frame acquires from no
  swapchain (`render_graph.cpp:795-810`).  The fence is reset before
  `vkQueueSubmit`, whose result is not looked at (`:811-826`): when it fails,
  the next use of the slot waits for ever for the fence, or an earlier wait for
  the queue to be idle does, if the presentation was queued.  These are the
  five `Hangs` of `SubmitReturns` and `ChainFollowsWindow`.  A failed
  presentation (`:835`) keeps its image until the next swapchain.

Met while modelling, part of a model or of no model, and without a run:

* A failed upload leaks its slot and perhaps a buffer (`render_graph.cpp:743`,
  `:750`), the results of the copies are not looked at (`:744`, `:751`), and an
  empty mesh is live without buffers, which `record_frame` binds (`:461`).
  When the new atlas image cannot be made, the descriptor refers to the one
  that was destroyed (`:677-685`).
* A frame given up leaves `image_ready` signalled, and the next acquisition of
  the slot is given it again (`:795`); a failed presentation leaves `render_done`
  so, and the next submission of the slot signals it again.  Vulkan allows
  neither; the model takes both for harmless.
* `recreate_swapchain` may fail with the swapchain made and a view missing
  (`vk_swapchain.cpp:98-99`); frames are recorded with it (`RecreateFails`).
* `record_frame` reads the mesh table without `mesh_mu` (`:455`).
* A graph that fails to be made after its window leaves the window, its user
  pointer and what was made so far behind (`:544-582`).
* The pipeline steps over vertices of 32 bytes (`vbind.stride`), and
  `demen_mesh_vertex` has 20.
* A sweep tests one point of the box at whole steps of its path and not where it
  starts (`spatial.cpp:74-83`).
* A region file that cannot be read is replaced by one with the loaded columns
  only (`region_io.cpp:330`), against "Columns not in memory retain their
  previous slot pointer" (`region_io.cpp:338-339`): the fault `"read"` of
  `RegionStore`.
* There is no fsync before the rename (`region_io.cpp:91`, Appendix A:144): the
  fault `"power"`, in `store_losses`.
* A create that dies after its first file leaves a directory that neither
  `demen_world_create` (not empty, `voxel_store_abi.cpp:60`) nor
  `demen_world_open` (no root) accepts, against Appendix A:146-149.
* The result of writing the root header is dropped in a flush
  (`region_io.cpp:322`).
* `World::flush` drops the result of the write, so `demen_world_flush` answers
  OK after a failed one (`world.cpp:209`), though `DEMEN_VS_ERR_IO` is there for
  it (`voxel_store.hpp:37`).  `FlushedIsSaved` says what is saved all the same.
* Two handles may be open on one directory; `DEMEN_VS_ERR_LOCKED`
  (`voxel_store.hpp:43`) is never returned.
* "Handles are valid until release; the backing store will not unload an
  acquired chunk" (`voxel_store.hpp:140-141`): `demen_world_close` frees the
  columns and leaves the chunk handles registered (`voxel_store_abi.cpp:110`);
  `VoxelWorld` has the read through such a handle return anything.
* Rows above a clamped height are accepted by `in_bounds` and dropped
  (`world.cpp:44`, `:61`).
* "A voxel we've already moved this tick won't re-flow" (`water_ca.cpp:45`): it
  does when it spread along the sweep, and `MovedIsBehind` says that this is
  the only way.  The scan is y-major, not z-major (`water_ca.cpp:6`).
* The clocks of the fluid step are reset and not reduced by their period
  (`fluid_abi.cpp:147`), so the remainder of a frame is lost.
* `INT16_MIN` as "no terrain" is also a height `int16_t` can hold
  (`column.cpp:121`, `voxel_store.hpp:60`); `fill_box` of a chunk answers true
  when nothing changed (`palette_chunk.cpp:186`, `palette_chunk.hpp:44-45`); a
  palette keeps blocks no voxel has, so equal chunks may have different bytes
  (Appendix A:99-102).
* "Reloads are atomic" (Appendix F:117-118): a reload refused for a corrupt file
  has already reassigned the slots and blanked the pixels, and `n_tiles` is the
  old count (`atlas.cpp:119-129`).  `WholeWhenOk` speaks of calls that answered
  OK only.
* A full atlas is refused before vanished names are purged (`atlas.cpp:96`
  against `:107-114`): once one material of a full directory is exchanged for
  another, every later reload is refused.
* `atlas_height` is the tile size times the slots, dead ones included
  (`atlas.hpp:43-45`), against "atlas_height = tile_size * n_tiles"
  (`texture_composition.hpp:32`).
* The second launch of the game creates a world in a directory that is not
  empty, ignores the error and goes on with handle 0
  (`managed/DemEn.Game/Program.cs:42-52`).

## 7. Not modelled, and why

* The wave, air and weather solvers, `spatial/` and the camera: floating-point
  numerics, beyond TLC's integers and without control state of their own.
* Calls on one handle from several threads: the store is documented as
  single-threaded.  The registries' locks only protect the tables.
* The sector layout inside a region file and the block of cell records in a
  column's payload: bytes with no choice in them; `ColumnCodec` has the part
  where a representation is chosen.
* Vulkan set-up, windowing, shaders, the build and the stand-alone `codex`
  program: calls into other systems, or no part of the engine.
* Of the mesher: the table of handles, the build of a region, and
  `fill_chunk_view`, which nothing calls; the apron is air in every build.
* Of the renderer: failures while the graph is made, the depth image, the
  pipeline and its cache, matrices, `render_done` but for the presentation that
  waits for it in vain, and what is drawn into a view that is missing; what a
  frame draws is a set of slots.  A wait (`vkWaitForFences`, `vkDeviceWaitIdle`,
  `vkQueueWaitIdle`) or a fence reset that fails is left out, and with it a lost
  device: the code looks at none of these results either, and goes on as if the
  wait had been kept, so that after a wait that failed nothing of
  `CommandBufferIdle` is promised.
* The start and the end of the game (`Program.cs`): straight-line code; its
  frame loop is the client of `FrameLoop`.
