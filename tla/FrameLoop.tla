----------------------------- MODULE FrameLoop -----------------------------
(***************************************************************************)
(* The render graph of one window (render_graph.cpp) and the loop that     *)
(* drives it: poll the window, call, submit a frame, again.  The client is *)
(* one thread; the GPU and the window run beside it.  A frame waits for    *)
(* the fence of its slot, acquires an image, and is either recorded,       *)
(* submitted and presented, or given up to fit the swapchain to the        *)
(* window.  Vulkan may fail to acquire, to submit, to present and to make  *)
(* things; a wait ends when what it waits for has happened, and only then. *)
(*                                                                         *)
(* Sizes stand for extents, 0 for a minimised window and for no swapchain. *)
(***************************************************************************)
EXTENDS Integers, Sequences

CONSTANTS
  NFrames,    \* kFramesInFlight, 2
  Spare,      \* images the swapchain has beyond the minimum of its surface
  Sizes,      \* the extents of the window
  MaxSlots,   \* bound: mesh slots
  MaxFaults,  \* bound: steps in which Vulkan fails
  MaxChanges  \* bound: changes of the window

Frames == 0 .. NFrames - 1
Slots  == 1 .. MaxSlots

ASSUME FrameLoopAssumption ==
  /\ NFrames \in Nat \ {0}
  /\ Spare \in Nat
  /\ Sizes \subseteq Nat
  /\ 0 \in Sizes
  /\ MaxSlots \in Nat
  /\ MaxFaults \in Nat
  /\ MaxChanges \in Nat

VARIABLES
  pc,         \* where the client thread is
  window,     \* the extent of the window
  event,      \* a resize event waits to be polled
  resized,    \* framebuffer_resized
  chain,      \* the extent of the swapchain
  held,       \* images of the swapchain acquired and not presented
  kept,       \* those of held whose submission or presentation failed
  frame,      \* frame_ix
  fence,      \* fence[f]: in_flight of f is signalled
  ready,      \* ready[f]: image_ready of f is signalled and nothing waits for it
  gpu,        \* the frames submitted and not finished
  refused,    \* the frames whose submission failed after their fence was reset
  jammed,     \* a presentation waits in the queue for a refused frame
  meshes,     \* the mesh slots
  free,       \* free_slots
  atlas,      \* what the descriptor of the atlas refers to
  faults,     \* steps in which Vulkan failed
  changes     \* changes of the window

surface  == <<window, event, changes>>
images   == <<resized, chain, held, kept>>
sync     == <<frame, fence, ready, gpu, refused, jammed>>
store    == <<meshes, free, atlas>>
vars     == <<pc, surface, images, sync, store, faults>>

-----------------------------------------------------------------------------
(* Slots of the mesh table.                                                *)

\* "free": dropped.  "lost": an upload failed before the slot held anything.
\* "orphan": it failed between the two buffers, and the first is kept.
\* "empty": live, without buffers.  "good", "bad": live, the data copied or
\* not.
Dead == {"free", "lost", "orphan"}
Drawn == {"good", "bad"}
Live == {"empty"} \cup Drawn

TakenSlot == IF free = <<>> THEN Len(meshes) + 1 ELSE free[Len(free)]

\* The states an upload may leave the slot in, and whether it got as far as
\* copying, which waits for the queue (upload_via_staging).
Uploads == ({"empty"} \X {FALSE}) \cup ({"good"} \X {TRUE})

FailedUploads ==
  ({"lost", "orphan", "bad"} \X {FALSE}) \cup ({"orphan", "bad"} \X {TRUE})

-----------------------------------------------------------------------------
(* The GPU.                                                                *)

\* A frame waits for an image that was never acquired.
Stalled == \E i \in DOMAIN gpu : ~gpu[i].ready

InFlight == {gpu[i].frame : i \in DOMAIN gpu}

\* vkQueueWaitIdle, vkDeviceWaitIdle: all that is in the queue finishes first.
Drained ==
  /\ ~Stalled /\ ~jammed
  /\ gpu' = <<>>
  /\ fence' = [f \in Frames |-> fence[f] \/ f \in InFlight]

Complete ==
  /\ gpu # <<>>
  /\ Head(gpu).ready
  /\ gpu' = Tail(gpu)
  /\ fence' = [fence EXCEPT ![Head(gpu).frame] = TRUE]
  /\ UNCHANGED <<pc, surface, images, frame, ready, refused, jammed, store, faults>>

-----------------------------------------------------------------------------
(* The window.                                                             *)

WindowChanges(size) ==
  /\ changes < MaxChanges
  /\ size # window
  /\ window' = size
  /\ event' = TRUE
  /\ changes' = changes + 1
  /\ UNCHANGED <<pc, images, sync, store, faults>>

-----------------------------------------------------------------------------
(* Calls between two frames.                                               *)

Init ==
  /\ window \in Sizes \ {0}
  /\ chain = window
  /\ pc = "poll"
  /\ event = FALSE /\ resized = FALSE
  /\ held = 0 /\ kept = 0
  /\ frame = 0
  /\ fence = [f \in Frames |-> TRUE]
  /\ ready = [f \in Frames |-> FALSE]
  /\ gpu = <<>> /\ refused = {} /\ jammed = FALSE
  /\ meshes = <<>> /\ free = <<>>
  /\ atlas = "unset"
  /\ faults = 0 /\ changes = 0

\* demen_render_graph_poll, with on_resize called for the events, and the
\* loop that stops when the window is to close.
Poll ==
  /\ pc = "poll"
  /\ resized' = (resized \/ event)
  /\ event' = FALSE
  /\ pc' \in {"calls", "closing"}
  /\ UNCHANGED <<window, changes, chain, held, kept, sync, store, faults>>

\* demen_render_graph_upload_mesh: the slot is in state content afterwards.
Upload(content, drains) ==
  /\ pc = "calls"
  /\ TakenSlot \in Slots
  /\ meshes' = [s \in 1 .. Len(meshes) + (IF free = <<>> THEN 1 ELSE 0) |->
                  IF s = TakenSlot THEN content ELSE meshes[s]]
  /\ free' = IF free = <<>> THEN free ELSE SubSeq(free, 1, Len(free) - 1)
  /\ IF drains THEN Drained ELSE UNCHANGED <<fence, gpu>>
  /\ UNCHANGED <<pc, surface, images, frame, ready, refused, jammed, atlas>>

UploadMesh ==
  \E u \in Uploads : Upload(u[1], u[2]) /\ UNCHANGED faults

UploadFails ==
  \E u \in FailedUploads :
    faults < MaxFaults /\ Upload(u[1], u[2]) /\ faults' = faults + 1

\* Mutant of DropMesh: whether the slot is live is not looked at.
DropMeshTwice(s) ==
  /\ pc \in {"calls", "closing"}
  /\ s \in DOMAIN meshes
  /\ meshes' = [meshes EXCEPT ![s] = "free"]
  /\ Len(free) < MaxSlots
  /\ free' = Append(free, s)
  /\ UNCHANGED <<pc, surface, images, sync, atlas, faults>>

\* demen_render_graph_drop_mesh: its buffers are freed at once.
DropMesh(s) ==
  /\ pc \in {"calls", "closing"}
  /\ s \in DOMAIN meshes
  /\ meshes[s] \in Live
  /\ meshes' = [meshes EXCEPT ![s] = "free"]
  /\ free' = Append(free, s)
  /\ UNCHANGED <<pc, surface, images, sync, atlas, faults>>

\* demen_render_graph_set_atlas: the image is destroyed, and then made anew.
DestroyAtlas ==
  /\ pc = "calls"
  /\ atlas' = IF atlas = "bound" THEN "dangling" ELSE atlas
  /\ pc' = "atlas"
  /\ UNCHANGED <<surface, images, sync, meshes, free, faults>>

BindAtlas ==
  /\ pc = "atlas"
  /\ Drained
  /\ atlas' = "bound"
  /\ pc' = "calls"
  /\ UNCHANGED <<surface, images, frame, ready, refused, jammed, meshes, free, faults>>

\* The image cannot be made or filled: the descriptor stays as it is.
AtlasFails ==
  /\ pc = "atlas"
  /\ faults < MaxFaults
  /\ faults' = faults + 1
  /\ pc' = "calls"
  /\ UNCHANGED <<surface, images, sync, store>>

-----------------------------------------------------------------------------
(* demen_render_graph_submit_frame.                                        *)

BeginSubmit ==
  /\ pc = "calls"
  /\ pc' = "fence"
  /\ UNCHANGED <<surface, images, sync, store, faults>>

\* Mutant of WaitFence: the wait may time out, and nothing looks at that.
WaitFenceAWhile ==
  /\ pc = "fence"
  /\ pc' = "acquire"
  /\ UNCHANGED <<surface, images, sync, store, faults>>

\* Mutant of WaitFence: the fence is reset as soon as it was waited for.
WaitFenceAndReset ==
  /\ pc = "fence"
  /\ fence[frame]
  /\ fence' = [fence EXCEPT ![frame] = FALSE]
  /\ pc' = "acquire"
  /\ UNCHANGED <<surface, images, frame, ready, gpu, refused, jammed, store, faults>>

WaitFence ==
  /\ pc = "fence"
  /\ fence[frame]
  /\ pc' = "acquire"
  /\ UNCHANGED <<surface, images, sync, store, faults>>

\* Mutant of AfterAcquire: only an error leads to a new swapchain.
AfterAcquireOnError(acquired) == acquired

\* A frame is given up when the window was resized, whether it has an image
\* or not.
AfterAcquire(acquired) == IF resized THEN "resize" ELSE acquired

\* An image comes at once while the client holds few enough.
AcquireImage ==
  /\ pc = "acquire"
  /\ chain # 0
  /\ held <= Spare
  /\ held' = held + 1
  /\ ready' = [ready EXCEPT ![frame] = TRUE]
  /\ pc' = AfterAcquire("record")
  /\ UNCHANGED <<surface, resized, chain, kept, frame, fence, gpu, refused, jammed,
                 store, faults>>

AcquireOutOfDate ==
  /\ pc = "acquire"
  /\ chain \notin {0, window}
  /\ pc' = "resize"
  /\ UNCHANGED <<surface, images, sync, store, faults>>

\* Any other error is not looked at: the frame goes on without an image.
AcquireFails ==
  /\ pc = "acquire"
  /\ chain # 0
  /\ faults < MaxFaults
  /\ faults' = faults + 1
  /\ pc' = AfterAcquire("blind")
  /\ UNCHANGED <<surface, images, sync, store>>

\* There is no swapchain to acquire from.
AcquireFromNone ==
  /\ pc = "acquire"
  /\ chain = 0
  /\ pc' = "crashed"
  /\ UNCHANGED <<surface, images, sync, store, faults>>

\* Mutant of Minimised: the flag is taken back all the same.
MinimisedForgets ==
  /\ pc = "resize"
  /\ window = 0
  /\ resized' = FALSE
  /\ pc' = "poll"
  /\ UNCHANGED <<surface, chain, held, kept, sync, store, faults>>

\* There is nothing to fit the swapchain to.
Minimised ==
  /\ pc = "resize"
  /\ window = 0
  /\ pc' = "poll"
  /\ UNCHANGED <<surface, images, sync, store, faults>>

WaitIdle ==
  /\ pc = "resize"
  /\ window # 0
  /\ Drained
  /\ pc' = "recreate"
  /\ UNCHANGED <<surface, images, frame, ready, refused, jammed, store, faults>>

\* recreate_swapchain takes the extent the surface has by now; its result is
\* not looked at, and the flag is taken back.
Recreated(size) ==
  /\ pc = "recreate"
  /\ chain' = size
  /\ held' = 0 /\ kept' = 0
  /\ resized' = FALSE
  /\ pc' = "poll"
  /\ UNCHANGED <<surface, sync, store>>

Recreate == Recreated(window) /\ UNCHANGED faults

\* The swapchain cannot be made, or is made and lacks a view of an image.
RecreateFails ==
  /\ faults < MaxFaults
  /\ Recreated(0) \/ Recreated(window)
  /\ faults' = faults + 1

\* record_frame: of the instances the client asks for, those whose slot is
\* live are drawn, from the buffers the slot has.
RecordFrame(asked) == {s \in asked \cap DOMAIN meshes : meshes[s] \in Drawn}

\* The fence is reset before the submission, and the next frame is the turn's
\* whatever vkQueueSubmit and vkQueuePresentKHR have answered.
FrameSpent ==
  /\ fence' = [fence EXCEPT ![frame] = FALSE]
  /\ frame' = (frame + 1) % NFrames
  /\ pc' = "poll"
  /\ UNCHANGED <<surface, resized, chain, store>>

\* The submission waits for image_ready, and signals the fence at its end.
Submitted(asked) ==
  /\ gpu' = Append(gpu, [frame |-> frame, draws |-> RecordFrame(asked),
                         ready |-> ready[frame]])
  /\ ready' = [ready EXCEPT ![frame] = FALSE]
  /\ FrameSpent
  /\ UNCHANGED <<refused, jammed>>

SubmitFrame(asked) ==
  /\ pc = "record"
  /\ Submitted(asked)
  /\ held' = held - 1
  /\ UNCHANGED <<kept, faults>>

\* The image presented is none of those acquired, whatever comes of that.
SubmitBlind(asked) ==
  /\ pc = "blind"
  /\ Submitted(asked)
  /\ UNCHANGED <<held, kept, faults>>

\* The frame is drawn, and its image is not given back.
PresentFails(asked) ==
  /\ pc = "record"
  /\ faults < MaxFaults
  /\ faults' = faults + 1
  /\ Submitted(asked)
  /\ kept' = held
  /\ UNCHANGED held

\* Nothing of the frame is submitted: image_ready stays as it is, and nothing
\* will signal the fence or render_done.  The presentation that waits for
\* render_done is not allowed then: it is answered at once, and the image is
\* presented or not, or it stays in the queue.
SubmitFails ==
  /\ pc \in {"record", "blind"}
  /\ faults < MaxFaults
  /\ faults' = faults + 1
  /\ FrameSpent
  /\ refused' = refused \cup {frame}
  /\ UNCHANGED <<gpu, ready>>
  /\ \/ pc = "record" /\ held' = held - 1 /\ UNCHANGED <<kept, jammed>>
     \/ kept' = held /\ jammed' \in {jammed, TRUE} /\ UNCHANGED held

-----------------------------------------------------------------------------
(* The end.                                                                *)

\* What destroy leaves of a slot: only live slots have their buffers freed.
Destroyed == [s \in DOMAIN meshes |-> IF meshes[s] \in Live THEN "free" ELSE meshes[s]]

\* Mutant of Destroy: the GPU is not waited for.
DestroyAtOnce ==
  /\ pc = "closing"
  /\ meshes' = Destroyed
  /\ atlas' = "unset"
  /\ chain' = 0 /\ held' = 0 /\ kept' = 0
  /\ pc' = "over"
  /\ UNCHANGED <<surface, resized, sync, free, faults>>

\* demen_render_graph_destroy
Destroy ==
  /\ pc = "closing"
  /\ Drained
  /\ meshes' = Destroyed
  /\ atlas' = "unset"
  /\ chain' = 0 /\ held' = 0 /\ kept' = 0
  /\ pc' = "over"
  /\ UNCHANGED <<surface, resized, frame, ready, refused, jammed, free, faults>>

Next ==
  \/ Complete
  \/ \E size \in Sizes : WindowChanges(size)
  \/ Poll
  \/ UploadMesh
  \/ UploadFails
  \/ \E s \in Slots : DropMesh(s)
  \/ DestroyAtlas
  \/ BindAtlas
  \/ AtlasFails
  \/ BeginSubmit
  \/ WaitFence
  \/ AcquireImage
  \/ AcquireOutOfDate
  \/ AcquireFails
  \/ AcquireFromNone
  \/ Minimised
  \/ WaitIdle
  \/ Recreate
  \/ RecreateFails
  \/ \E asked \in SUBSET Slots : SubmitFrame(asked)
  \/ \E asked \in SUBSET Slots : SubmitBlind(asked)
  \/ \E asked \in SUBSET Slots : PresentFails(asked)
  \/ SubmitFails
  \/ Destroy

Spec == Init /\ [][Next]_vars

\* The GPU finishes what it can, the loop goes round, and every call returns
\* from what it does not wait for.
Fairness ==
  /\ WF_vars(Complete)
  /\ WF_vars(Poll)
  /\ WF_vars(BindAtlas)
  /\ SF_vars(BeginSubmit)
  /\ WF_vars(WaitFence)
  /\ WF_vars(AcquireImage)
  /\ WF_vars(AcquireFromNone)
  /\ WF_vars(Minimised)
  /\ WF_vars(WaitIdle)
  /\ WF_vars(Recreate)
  /\ WF_vars(\E asked \in SUBSET Slots : SubmitFrame(asked) \/ SubmitBlind(asked))

FairSpec == Spec /\ Fairness

-----------------------------------------------------------------------------
(* Properties.                                                             *)

\* The members have the types of the code.
TypeOK ==
  /\ pc \in {"poll", "calls", "atlas", "fence", "acquire", "resize", "recreate",
             "record", "blind", "closing", "over", "crashed"}
  /\ window \in Sizes /\ chain \in Sizes
  /\ event \in BOOLEAN /\ resized \in BOOLEAN
  /\ held \in 0 .. Spare + 1 /\ kept \in 0 .. held
  /\ frame \in Frames
  /\ fence \in [Frames -> BOOLEAN]
  /\ ready \in [Frames -> BOOLEAN]
  /\ gpu \in Seq([frame : Frames, draws : SUBSET Slots, ready : BOOLEAN])
  /\ refused \in SUBSET Frames /\ jammed \in BOOLEAN
  /\ meshes \in Seq(Dead \cup Live)
  /\ free \in Seq(Slots)
  /\ atlas \in {"unset", "bound", "dangling"}
  /\ faults \in 0 .. MaxFaults /\ changes \in 0 .. MaxChanges

\* A command buffer is recorded only when the GPU has finished with it, and a
\* frame slot has one submission at a time: across skipped frames, resizes
\* and uploads a fence is signalled exactly when nothing of its frame is
\* pending and its last submission was not refused; a slot that was refused
\* is never used again (render_graph.cpp:790-826).
CommandBufferIdle ==
  /\ \A f \in Frames : fence[f] <=> f \notin InFlight \cup refused
  /\ InFlight \cap refused = {}
  /\ \A i, j \in DOMAIN gpu : gpu[i].frame = gpu[j].frame => i = j
  /\ pc \in {"acquire", "record", "blind"} => frame \notin InFlight \cup refused

\* Whatever is uploaded, dropped and failed, the free list names no slot
\* twice and no live one, so that two meshes never share a slot; the only
\* slots that never come back are those of failed uploads
\* (render_graph.cpp:730-756, 764-768).
SlotsNeverShared ==
  /\ \A i \in DOMAIN free : free[i] \in DOMAIN meshes
  /\ \A i, j \in DOMAIN free : free[i] = free[j] => i = j
  /\ pc # "over" => \A s \in DOMAIN meshes :
       meshes[s] = "free" <=> \E i \in DOMAIN free : free[i] = s

\* An image given up is lost only while the window has no extent: between two
\* calls the flag that brings a new swapchain is still set, unless all the
\* images out are those of failed submissions and presentations; and a
\* semaphore left signalled is the one the next frame takes, or that of a
\* frame refused (render_graph.cpp:797-837).
GivenUpOnlyMinimised ==
  /\ pc \in {"poll", "calls"} /\ held > kept => resized
  /\ \A f \in Frames : ready[f] => f = frame \/ f \in refused

Idle(s) == \A i \in DOMAIN gpu' : s \notin gpu'[i].draws

\* Of all calls only drop_mesh frees a buffer a frame in flight still draws,
\* and only set_atlas destroys an image a frame in flight may still sample
\* (render_graph.cpp:677, 760-769): uploads into used slots, resizes and the
\* end of the graph wait first, or free nothing.
FreedInUseOnlyByDropAndAtlas ==
  [][/\ \A s \in DOMAIN meshes :
          meshes[s] \in Drawn /\ meshes'[s] \notin Drawn => Idle(s) \/ DropMesh(s)
     /\ atlas = "bound" /\ atlas' # "bound" => gpu' = <<>> \/ DestroyAtlas]_vars

\* The client waits for ever: for an image while too many are out, for a frame
\* without one, for a swapchain that could not be made, for the fence of a
\* frame that was refused, or for the presentation of such a frame.
Hangs ==
  \/ held > Spare
  \/ Stalled
  \/ chain = 0
  \/ pc = "fence" /\ frame \in refused
  \/ jammed

\* Every submit_frame returns, frames given up to a resize included, unless
\* one of the five hangs happens: a frame that is skipped leaves its fence
\* signalled (render_graph.cpp:791-811).
SubmitReturns == pc = "fence" ~> pc = "poll" \/ Hangs

\* When the window is left alone with an extent, the swapchain gets that
\* extent and keeps it, unless the loop ends or hangs: no resize is forgotten
\* (render_graph.cpp:333-336, 797-808).
ChainFollowsWindow ==
  <>[](window # 0 => chain = window \/ Hangs \/ pc = "closing")
=============================================================================
