-------------------------- MODULE FrameLoopProofs --------------------------
(***************************************************************************)
(* What holds of the render graph for any number of frames in flight, of   *)
(* spare images, of mesh slots and of faults: types, fences that agree     *)
(* with the GPU but for the frames refused, a free list that is sound,     *)
(* images given up only while the window is minimised, and buffers freed   *)
(* in use only by drop_mesh.                                               *)
(***************************************************************************)
EXTENDS FrameLoop, TLAPS

-----------------------------------------------------------------------------
(* The sequences of the graph.                                             *)

Frame == [frame : Frames, draws : SUBSET Slots, ready : BOOLEAN]

SlotState == Dead \cup Live

\* The head of a sequence is a member of the set, and so is every element.
LEMMA Elements ==
  ASSUME NEW S, NEW q \in Seq(S)
  PROVE  /\ Len(q) \in Nat /\ DOMAIN q = 1 .. Len(q)
         /\ \A i \in DOMAIN q : q[i] \in S
  OBVIOUS

\* A function on an initial interval is a sequence.
LEMMA IntervalIsSequence ==
  ASSUME NEW S, NEW n \in Nat, NEW q \in [1 .. n -> S]
  PROVE  q \in Seq(S) /\ Len(q) = n
  OBVIOUS

LEMMA TailFacts ==
  ASSUME NEW S, NEW q \in Seq(S), q # <<>>
  PROVE  /\ Tail(q) \in Seq(S) /\ Head(q) = q[1] /\ Head(q) \in S
         /\ DOMAIN Tail(q) = 1 .. Len(q) - 1
         /\ \A i \in DOMAIN Tail(q) : i + 1 \in DOMAIN q /\ Tail(q)[i] = q[i + 1]
         /\ 1 \in DOMAIN q
         /\ \A i \in DOMAIN q : i # 1 => i - 1 \in DOMAIN Tail(q) /\ Tail(q)[i - 1] = q[i]
  OBVIOUS

LEMMA AppendFacts ==
  ASSUME NEW S, NEW q \in Seq(S), NEW e \in S
  PROVE  /\ Append(q, e) \in Seq(S)
         /\ DOMAIN Append(q, e) = (DOMAIN q) \cup {Len(q) + 1}
         /\ Len(q) + 1 \notin DOMAIN q
         /\ \A i \in DOMAIN q : Append(q, e)[i] = q[i]
         /\ Append(q, e)[Len(q) + 1] = e
  OBVIOUS

LEMMA FirstOfPair ==
  ASSUME NEW A, NEW B, NEW u \in A \X B
  PROVE  u[1] \in A
  OBVIOUS

LEMMA FrontFacts ==
  ASSUME NEW S, NEW q \in Seq(S), q # <<>>
  PROVE  /\ SubSeq(q, 1, Len(q) - 1) \in Seq(S)
         /\ Len(q) \in DOMAIN q
         /\ DOMAIN SubSeq(q, 1, Len(q) - 1) = (DOMAIN q) \ {Len(q)}
         /\ \A i \in (DOMAIN q) \ {Len(q)} : SubSeq(q, 1, Len(q) - 1)[i] = q[i]
  OBVIOUS

-----------------------------------------------------------------------------
(* Types.                                                                  *)

LEMMA DrainTyping ==
  ASSUME TypeOK, Drained
  PROVE  gpu' \in Seq(Frame) /\ fence' \in [Frames -> BOOLEAN]
  BY DEF TypeOK, Drained

LEMMA UploadTyping ==
  ASSUME TypeOK, NEW content \in SlotState, NEW drains, Upload(content, drains)
  PROVE  /\ meshes' \in Seq(SlotState) /\ free' \in Seq(Slots)
         /\ gpu' \in Seq(Frame) /\ fence' \in [Frames -> BOOLEAN]
<1>1. meshes' \in Seq(SlotState)
  <2> DEFINE n == Len(meshes) + (IF free = <<>> THEN 1 ELSE 0)
  <2>1. Len(meshes) \in Nat /\ \A s \in 1 .. Len(meshes) : meshes[s] \in SlotState
    BY Elements DEF TypeOK, SlotState
  <2>2. n \in Nat
    BY <2>1
  <2>3. ASSUME NEW s \in 1 .. n, s # TakenSlot PROVE meshes[s] \in SlotState
    <3>1. s \in 1 .. Len(meshes)
      BY <2>1, <2>3 DEF TakenSlot
    <3> QED BY <3>1, <2>1
  <2>4. meshes' \in [1 .. n -> SlotState]
    BY <2>3 DEF Upload
  <2> HIDE DEF n
  <2> QED BY <2>2, <2>4, IntervalIsSequence
<1>2. free' \in Seq(Slots)
  <2>1. CASE free = <<>>
    BY <2>1 DEF Upload, TypeOK
  <2>2. CASE free # <<>>
    BY <2>2, FrontFacts DEF Upload, TypeOK
  <2> QED BY <2>1, <2>2
<1>3. gpu' \in Seq(Frame) /\ fence' \in [Frames -> BOOLEAN]
  <2>1. CASE drains
    BY <2>1, DrainTyping DEF Upload
  <2>2. CASE ~drains
    BY <2>2 DEF Upload, TypeOK, Frame
  <2> QED BY <2>1, <2>2
<1> QED BY <1>1, <1>2, <1>3

LEMMA SpentTyping ==
  ASSUME TypeOK, FrameSpent
  PROVE  fence' \in [Frames -> BOOLEAN] /\ frame' \in Frames
<1>1. fence' \in [Frames -> BOOLEAN]
  BY DEF TypeOK, FrameSpent
<1>2. frame' \in Frames
  <2>1. \A n \in Nat, d \in Nat \ {0} : (n + 1) % d \in 0 .. d - 1
    OBVIOUS
  <2> QED BY <2>1, FrameLoopAssumption DEF TypeOK, FrameSpent, Frames
<1> QED BY <1>1, <1>2

LEMMA SubmittedTyping ==
  ASSUME TypeOK, NEW asked \in SUBSET Slots, Submitted(asked)
  PROVE  /\ gpu' \in Seq(Frame) /\ fence' \in [Frames -> BOOLEAN]
         /\ ready' \in [Frames -> BOOLEAN] /\ frame' \in Frames
<1> DEFINE e == [frame |-> frame, draws |-> RecordFrame(asked), ready |-> ready[frame]]
<1>1. e \in Frame
  <2>1. ready[frame] \in BOOLEAN /\ frame \in Frames
    BY DEF TypeOK
  <2>2. RecordFrame(asked) \in SUBSET Slots
    BY DEF RecordFrame
  <2> QED BY <2>1, <2>2, Zenon DEF Frame
<1>2. gpu' = Append(gpu, e)
  BY DEF Submitted
<1> HIDE DEF e
<1>3. gpu' \in Seq(Frame)
  BY <1>1, <1>2, AppendFacts DEF TypeOK, Frame
<1>4. fence' \in [Frames -> BOOLEAN] /\ ready' \in [Frames -> BOOLEAN]
  BY DEF TypeOK, Submitted, FrameSpent
<1>5. frame' \in Frames
  BY SpentTyping DEF Submitted
<1> QED BY <1>3, <1>4, <1>5

\* Beside the images kept, one is held while a frame is recorded, the one it
\* draws; at any other time more are held only while the window waits to be
\* resized.
Holding ==
  IF pc = "record" THEN held = kept + 1 /\ ~resized ELSE held > kept => resized

LEMMA InitTyping == Init => TypeOK
<1> SUFFICES ASSUME Init PROVE TypeOK
  OBVIOUS
<1>1. 0 \in Frames
  BY FrameLoopAssumption DEF Frames
<1>2. [f \in Frames |-> TRUE] \in [Frames -> BOOLEAN] /\ [f \in Frames |-> FALSE] \in [Frames -> BOOLEAN]
  OBVIOUS
<1>3. fence \in [Frames -> BOOLEAN] /\ ready \in [Frames -> BOOLEAN]
  BY <1>2, Zenon DEF Init
<1>4. /\ window \in Sizes /\ chain = window /\ pc = "poll" /\ event = FALSE /\ resized = FALSE
      /\ held = 0 /\ kept = 0 /\ frame = 0 /\ gpu = <<>> /\ refused = {} /\ jammed = FALSE
      /\ meshes = <<>> /\ free = <<>>
      /\ atlas = "unset" /\ faults = 0 /\ changes = 0
  BY DEF Init
<1> QED BY <1>1, <1>3, <1>4, FrameLoopAssumption DEF TypeOK

LEMMA NextTyping ==
  ASSUME TypeOK, Holding, [Next]_vars
  PROVE  TypeOK'
<1> USE FrameLoopAssumption DEF vars, surface, images, sync, store
<1>1. CASE UNCHANGED vars
  BY <1>1 DEF TypeOK
<1>2. CASE Complete
  <2>1. gpu \in Seq(Frame) /\ gpu # <<>>
    BY <1>2 DEF TypeOK, Complete, Frame
  <2>2. gpu' \in Seq(Frame)
    BY <2>1, <1>2, TailFacts DEF Complete
  <2>3. fence' \in [Frames -> BOOLEAN]
    BY <1>2 DEF Complete, TypeOK
  <2> QED BY <1>2, <2>2, <2>3 DEF TypeOK, Complete, Frame
<1>3. ASSUME NEW size \in Sizes, WindowChanges(size) PROVE TypeOK'
  BY <1>3 DEF TypeOK, WindowChanges
<1>4. CASE Poll
  BY <1>4 DEF TypeOK, Poll
<1>5. CASE UploadMesh
  <2>1. PICK u \in Uploads : Upload(u[1], u[2]) /\ UNCHANGED faults
    BY <1>5 DEF UploadMesh
  <2>2. u[1] \in SlotState
    <3>1. CASE u \in {"empty"} \X {FALSE}
      BY <3>1, FirstOfPair DEF SlotState, Live
    <3>2. CASE u \in {"good"} \X {TRUE}
      BY <3>2, FirstOfPair DEF SlotState, Live, Drawn
    <3> QED BY <2>1, <3>1, <3>2 DEF Uploads
  <2>3. /\ meshes' \in Seq(SlotState) /\ free' \in Seq(Slots)
        /\ gpu' \in Seq(Frame) /\ fence' \in [Frames -> BOOLEAN]
    BY <2>1, <2>2, UploadTyping
  <2> QED BY <2>1, <2>3 DEF TypeOK, Upload, Frame, SlotState
<1>6. CASE UploadFails
  <2>1. PICK u \in FailedUploads :
          faults < MaxFaults /\ Upload(u[1], u[2]) /\ faults' = faults + 1
    BY <1>6 DEF UploadFails
  <2>2. u[1] \in SlotState
    <3>1. CASE u \in {"lost", "orphan", "bad"} \X {FALSE}
      BY <3>1, FirstOfPair DEF SlotState, Live, Drawn, Dead
    <3>2. CASE u \in {"orphan", "bad"} \X {TRUE}
      BY <3>2, FirstOfPair DEF SlotState, Live, Drawn, Dead
    <3> QED BY <2>1, <3>1, <3>2 DEF FailedUploads
  <2>3. /\ meshes' \in Seq(SlotState) /\ free' \in Seq(Slots)
        /\ gpu' \in Seq(Frame) /\ fence' \in [Frames -> BOOLEAN]
    BY <2>1, <2>2, UploadTyping
  <2> QED BY <2>1, <2>3 DEF TypeOK, Upload, Frame, SlotState
<1>7. ASSUME NEW s \in Slots, DropMesh(s) PROVE TypeOK'
  <2>1. meshes' \in Seq(Dead \cup Live)
    BY <1>7 DEF TypeOK, DropMesh, Dead
  <2>2. free' \in Seq(Slots)
    BY <1>7, AppendFacts DEF TypeOK, DropMesh
  <2> QED BY <1>7, <2>1, <2>2 DEF TypeOK, DropMesh
<1>8. CASE DestroyAtlas
  BY <1>8 DEF TypeOK, DestroyAtlas
<1>9. CASE BindAtlas
  <2>1. gpu' \in Seq(Frame) /\ fence' \in [Frames -> BOOLEAN]
    BY <1>9, DrainTyping DEF BindAtlas
  <2> QED BY <1>9, <2>1 DEF TypeOK, BindAtlas, Frame
<1>10. CASE AtlasFails
  BY <1>10 DEF TypeOK, AtlasFails
<1>11. CASE BeginSubmit
  BY <1>11 DEF TypeOK, BeginSubmit
<1>12. CASE WaitFence
  BY <1>12 DEF TypeOK, WaitFence
<1>13. CASE AcquireImage
  BY <1>13 DEF TypeOK, AcquireImage, AfterAcquire
<1>14. CASE AcquireOutOfDate
  BY <1>14 DEF TypeOK, AcquireOutOfDate
<1>15. CASE AcquireFails
  BY <1>15 DEF TypeOK, AcquireFails, AfterAcquire
<1>16. CASE AcquireFromNone
  BY <1>16 DEF TypeOK, AcquireFromNone
<1>17. CASE Minimised
  BY <1>17 DEF TypeOK, Minimised
<1>18. CASE WaitIdle
  <2>1. gpu' \in Seq(Frame) /\ fence' \in [Frames -> BOOLEAN]
    BY <1>18, DrainTyping DEF WaitIdle
  <2> QED BY <1>18, <2>1 DEF TypeOK, WaitIdle, Frame
<1>19. CASE Recreate
  <2>1. /\ pc' = "poll" /\ chain' \in Sizes /\ held' = 0 /\ kept' = 0 /\ resized' \in BOOLEAN
        /\ UNCHANGED <<surface, sync, store, faults>>
    BY <1>19, Zenon DEF TypeOK, Recreate, Recreated
  <2> QED BY <2>1 DEF TypeOK
<1>20. CASE RecreateFails
  <2>1. /\ pc' = "poll" /\ chain' \in Sizes /\ held' = 0 /\ kept' = 0 /\ resized' \in BOOLEAN
        /\ UNCHANGED <<surface, sync, store>>
    BY <1>20, Zenon DEF TypeOK, RecreateFails, Recreated
  <2>2. faults' \in 0 .. MaxFaults
    BY <1>20 DEF TypeOK, RecreateFails
  <2> QED BY <2>1, <2>2 DEF TypeOK
<1>21. ASSUME NEW asked \in SUBSET Slots, SubmitFrame(asked) PROVE TypeOK'
  <2>1. /\ gpu' \in Seq(Frame) /\ fence' \in [Frames -> BOOLEAN]
        /\ ready' \in [Frames -> BOOLEAN] /\ frame' \in Frames
    BY <1>21, SubmittedTyping DEF SubmitFrame
  <2>2. held' \in 0 .. Spare + 1 /\ kept' \in 0 .. held'
    BY <1>21 DEF TypeOK, SubmitFrame, Submitted, FrameSpent, Holding
  <2> QED BY <1>21, <2>1, <2>2 DEF TypeOK, SubmitFrame, Submitted, FrameSpent, Frame
<1>22. ASSUME NEW asked \in SUBSET Slots, SubmitBlind(asked) \/ PresentFails(asked) PROVE TypeOK'
  <2>1. /\ gpu' \in Seq(Frame) /\ fence' \in [Frames -> BOOLEAN]
        /\ ready' \in [Frames -> BOOLEAN] /\ frame' \in Frames
    BY <1>22, SubmittedTyping DEF SubmitBlind, PresentFails
  <2>2. held' \in 0 .. Spare + 1 /\ kept' \in 0 .. held' /\ faults' \in 0 .. MaxFaults
    BY <1>22 DEF TypeOK, SubmitBlind, PresentFails
  <2>3. pc' = "poll" /\ UNCHANGED <<surface, resized, chain, store, refused, jammed>>
    BY <1>22 DEF SubmitBlind, PresentFails, Submitted, FrameSpent
  <2> QED BY <2>1, <2>2, <2>3 DEF TypeOK, Frame
<1>24. CASE SubmitFails
  <2>1. fence' \in [Frames -> BOOLEAN] /\ frame' \in Frames
    BY <1>24, SpentTyping DEF SubmitFails
  <2>2. held' \in 0 .. Spare + 1 /\ kept' \in 0 .. held' /\ faults' \in 0 .. MaxFaults
    <3>1. /\ held \in 0 .. Spare + 1 /\ kept \in 0 .. held /\ faults \in 0 .. MaxFaults
          /\ Spare \in Nat /\ MaxFaults \in Nat
      BY DEF TypeOK
    <3>2. \/ held = kept + 1 /\ held' = held - 1 /\ kept' = kept
          \/ kept' = held /\ held' = held
      BY <1>24 DEF SubmitFails, Holding
    <3>3. faults < MaxFaults /\ faults' = faults + 1
      BY <1>24 DEF SubmitFails
    <3> QED BY <3>1, <3>2, <3>3
  <2>3. refused' \in SUBSET Frames /\ jammed' \in BOOLEAN
    BY <1>24 DEF TypeOK, SubmitFails
  <2>4. pc' = "poll" /\ UNCHANGED <<surface, resized, chain, store, gpu, ready>>
    BY <1>24 DEF SubmitFails, FrameSpent
  <2> QED BY <2>1, <2>2, <2>3, <2>4 DEF TypeOK
<1>23. CASE Destroy
  <2>1. meshes' \in Seq(Dead \cup Live)
    <3>1. \A s \in 1 .. Len(meshes) : meshes[s] \in SlotState
      BY Elements DEF TypeOK, SlotState
    <3>2. meshes' \in [1 .. Len(meshes) -> SlotState]
      BY <1>23, <3>1 DEF Destroy, Destroyed, SlotState, Dead, TypeOK
    <3>3. Len(meshes) \in Nat
      BY DEF TypeOK
    <3> QED BY <3>2, <3>3, IntervalIsSequence DEF SlotState
  <2>2. gpu' \in Seq(Frame) /\ fence' \in [Frames -> BOOLEAN]
    BY <1>23, DrainTyping DEF Destroy
  <2> QED BY <1>23, <2>1, <2>2 DEF TypeOK, Destroy, Frame
<1> QED
  BY <1>1, <1>2, <1>3, <1>4, <1>5, <1>6, <1>7, <1>8, <1>9, <1>10, <1>11, <1>12, <1>13,
     <1>14, <1>15, <1>16, <1>17, <1>18, <1>19, <1>20, <1>21, <1>22, <1>23, <1>24 DEF Next

LEMMA NextHolding ==
  ASSUME TypeOK, Holding, [Next]_vars
  PROVE  Holding'
<1> USE DEF Holding, vars, surface, images, sync, store
<1>1. held \in Nat /\ kept \in Nat /\ kept <= held /\ resized \in BOOLEAN
  BY FrameLoopAssumption DEF TypeOK
<1>2. ASSUME NEW content, NEW drains, Upload(content, drains) PROVE Holding'
  BY <1>2 DEF Upload
<1>3. ASSUME NEW size, Recreated(size) PROVE Holding'
  BY <1>3 DEF Recreated
<1>4. ASSUME NEW asked, SubmitFrame(asked) PROVE Holding'
  BY <1>4, <1>1 DEF SubmitFrame, Submitted, FrameSpent
<1>5. ASSUME NEW asked, SubmitBlind(asked) PROVE Holding'
  BY <1>5, <1>1 DEF SubmitBlind, Submitted, FrameSpent
<1>6. CASE AcquireImage
  BY <1>6, <1>1 DEF AcquireImage, AfterAcquire
<1>7. CASE AcquireFails
  BY <1>7, <1>1 DEF AcquireFails, AfterAcquire
<1>8. CASE Poll
  BY <1>8, <1>1 DEF Poll
<1>9. CASE Destroy
  BY <1>9, <1>1 DEF Destroy
<1>10. ASSUME NEW size, WindowChanges(size) PROVE Holding'
  BY <1>10 DEF WindowChanges
<1>11. ASSUME NEW s, DropMesh(s) PROVE Holding'
  BY <1>11 DEF DropMesh
<1>12. CASE Complete \/ DestroyAtlas \/ BindAtlas \/ AtlasFails \/ BeginSubmit \/ WaitFence
  BY <1>12 DEF Complete, DestroyAtlas, BindAtlas, AtlasFails, BeginSubmit, WaitFence
<1>13. CASE AcquireOutOfDate \/ AcquireFromNone \/ Minimised \/ WaitIdle \/ UNCHANGED vars
  BY <1>13 DEF AcquireOutOfDate, AcquireFromNone, Minimised, WaitIdle
<1>14. ASSUME NEW asked, PresentFails(asked) PROVE Holding'
  BY <1>14, <1>1 DEF PresentFails, Submitted, FrameSpent
<1>15. CASE SubmitFails
  <2>1. pc' = "poll"
    BY <1>15 DEF SubmitFails, FrameSpent
  <2>2. \/ held = kept + 1 /\ held' = held - 1 /\ kept' = kept
        \/ kept' = held /\ held' = held
    BY <1>15 DEF SubmitFails
  <2>3. ~(held' > kept')
    <3> HIDE DEF Holding
    <3> QED BY <1>1, <2>2
  <2> QED BY <2>1, <2>3
<1> QED
  BY <1>2, <1>3, <1>4, <1>5, <1>6, <1>7, <1>8, <1>9, <1>10, <1>11, <1>12, <1>13, <1>14, <1>15
  DEF Next, UploadMesh, UploadFails, Recreate, RecreateFails

\* The members of the graph keep their types (render_graph.cpp:78-119), and
\* no more images are given up than the swapchain can miss, plus one.
THEOREM GraphTyping == Spec => []TypeOK
<1>1. Init => TypeOK /\ Holding
  BY InitTyping DEF Init, Holding
<1>2. TypeOK /\ Holding /\ [Next]_vars => (TypeOK /\ Holding)'
  BY NextTyping, NextHolding
<1> QED BY <1>1, <1>2, PTL DEF Spec

-----------------------------------------------------------------------------
(* Fences and command buffers.                                             *)

LEMMA InFlightOf ==
  ASSUME NEW f
  PROVE  f \in InFlight <=> \E i \in DOMAIN gpu : gpu[i].frame = f
  BY DEF InFlight

LEMMA InFlightAfter ==
  ASSUME NEW f
  PROVE  f \in InFlight' <=> \E i \in DOMAIN gpu' : gpu'[i].frame = f
  BY DEF InFlight

\* What a step does to the frames: nothing, wait for all of them, finish the
\* first, submit the next, or fail to.
LEMMA FrameSteps ==
  ASSUME TypeOK, [Next]_vars
  PROVE  \/ /\ UNCHANGED <<gpu, fence, frame, refused>>
            /\ pc' \in {"acquire", "record", "blind"} =>
                 \/ pc' = pc
                 \/ pc = "acquire"
                 \/ WaitFence
         \/ Drained /\ UNCHANGED <<frame, refused>> /\ pc' \notin {"acquire", "record", "blind"}
         \/ Complete
         \/ /\ pc \in {"record", "blind"} /\ pc' = "poll"
            /\ \E asked \in SUBSET Slots : Submitted(asked)
         \/ SubmitFails
<1> USE DEF vars, surface, images, sync, store
<1>1. ASSUME NEW content, NEW drains, Upload(content, drains)
      PROVE  /\ pc' = "calls" /\ UNCHANGED <<frame, refused>>
             /\ Drained \/ UNCHANGED <<gpu, fence>>
  BY <1>1 DEF Upload
<1>2. ASSUME NEW size, Recreated(size)
      PROVE  UNCHANGED <<gpu, fence, frame, refused>> /\ pc' = "poll"
  BY <1>2 DEF Recreated
<1>3. ASSUME NEW size, WindowChanges(size)
      PROVE  UNCHANGED <<gpu, fence, frame, refused, pc>>
  BY <1>3 DEF WindowChanges
<1>4. ASSUME NEW s, DropMesh(s)
      PROVE  UNCHANGED <<gpu, fence, frame, refused, pc>>
  BY <1>4 DEF DropMesh
<1>5. CASE AcquireImage \/ AcquireFails
  BY <1>5 DEF AcquireImage, AcquireFails
<1>6. CASE Poll \/ DestroyAtlas \/ AtlasFails \/ BeginSubmit \/ WaitFence
  BY <1>6 DEF Poll, DestroyAtlas, AtlasFails, BeginSubmit, WaitFence
<1>7. CASE AcquireOutOfDate \/ AcquireFromNone \/ Minimised \/ UNCHANGED vars
  BY <1>7 DEF AcquireOutOfDate, AcquireFromNone, Minimised
<1>8. CASE BindAtlas \/ WaitIdle \/ Destroy
  BY <1>8 DEF BindAtlas, WaitIdle, Destroy
<1>9. ASSUME NEW asked, SubmitFrame(asked) \/ SubmitBlind(asked) \/ PresentFails(asked)
      PROVE  pc \in {"record", "blind"} /\ Submitted(asked) /\ pc' = "poll"
  BY <1>9 DEF SubmitFrame, SubmitBlind, PresentFails, Submitted, FrameSpent
<1> QED
  BY <1>1, <1>2, <1>3, <1>4, <1>5, <1>6, <1>7, <1>8, <1>9
  DEF Next, UploadMesh, UploadFails, Recreate, RecreateFails

LEMMA DrainKeepsIdle ==
  ASSUME TypeOK, CommandBufferIdle, Drained, UNCHANGED <<frame, refused>>,
         pc' \notin {"acquire", "record", "blind"}
  PROVE  CommandBufferIdle'
<1>1. gpu' = <<>> /\ DOMAIN gpu' = {}
  BY DEF Drained
<1>2. InFlight' = {}
  BY <1>1, InFlightAfter
<1>3. ASSUME NEW f \in Frames PROVE fence'[f] <=> f \notin refused
  BY <1>1 DEF Drained, CommandBufferIdle
<1> QED BY <1>1, <1>2, <1>3 DEF CommandBufferIdle

LEMMA CompleteKeepsIdle ==
  ASSUME TypeOK, CommandBufferIdle, Complete
  PROVE  CommandBufferIdle'
<1>1. /\ gpu \in Seq(Frame) /\ gpu # <<>> /\ gpu' = Tail(gpu)
      /\ fence \in [Frames -> BOOLEAN]
      /\ fence' = [fence EXCEPT ![Head(gpu).frame] = TRUE]
      /\ pc' = pc /\ frame' = frame /\ refused' = refused
  BY DEF TypeOK, Complete, Frame
<1> DEFINE h == Head(gpu).frame
<1>2. /\ h = gpu[1].frame /\ h \in Frames /\ 1 \in DOMAIN gpu
      /\ \A i \in DOMAIN gpu' : i + 1 \in DOMAIN gpu /\ gpu'[i] = gpu[i + 1]
      /\ \A i \in DOMAIN gpu : i # 1 => i - 1 \in DOMAIN gpu' /\ gpu'[i - 1] = gpu[i]
      /\ DOMAIN gpu = 1 .. Len(gpu) /\ DOMAIN gpu' = 1 .. Len(gpu) - 1 /\ Len(gpu) \in Nat
  <2>1. Head(gpu) = gpu[1] /\ Head(gpu) \in Frame
    BY <1>1, TailFacts
  <2>2. h = gpu[1].frame /\ h \in Frames
    BY <2>1 DEF Frame
  <2>3. DOMAIN gpu = 1 .. Len(gpu) /\ Len(gpu) \in Nat
    BY <1>1, Elements
  <2> HIDE DEF h
  <2> QED BY <1>1, <2>2, <2>3, TailFacts
<1>3. \A i, j \in DOMAIN gpu : gpu[i].frame = gpu[j].frame => i = j
  BY DEF CommandBufferIdle
<1>4. ASSUME NEW f PROVE f \in InFlight' <=> f \in InFlight /\ f # h
  <2>1. ASSUME NEW i \in DOMAIN gpu' PROVE gpu'[i].frame = gpu[i + 1].frame /\ i + 1 # 1 /\ i + 1 \in DOMAIN gpu
    BY <1>2
  <2>2. ASSUME f \in InFlight' PROVE f \in InFlight /\ f # h
    <3>1. PICK i \in DOMAIN gpu' : gpu'[i].frame = f
      BY <2>2, InFlightAfter
    <3> QED BY <3>1, <2>1, <1>2, <1>3, InFlightOf
  <2>3. ASSUME f \in InFlight, f # h PROVE f \in InFlight'
    <3>1. PICK i \in DOMAIN gpu : gpu[i].frame = f
      BY <2>3, InFlightOf
    <3>2. i # 1
      BY <3>1, <2>3, <1>2
    <3> QED BY <3>1, <3>2, <1>2, InFlightAfter
  <2> QED BY <2>2, <2>3
<1>5. ASSUME NEW f \in Frames PROVE fence'[f] <=> f \notin InFlight' \cup refused'
  <2>1. fence'[f] <=> fence[f] \/ f = h
    BY <1>1, <1>2
  <2>2. h \in InFlight
    BY <1>2, InFlightOf
  <2> QED BY <1>1, <2>1, <2>2, <1>4 DEF CommandBufferIdle
<1>6. ASSUME NEW i \in DOMAIN gpu', NEW j \in DOMAIN gpu', gpu'[i].frame = gpu'[j].frame PROVE i = j
  <2>1. i + 1 = j + 1
    BY <1>6, <1>2, <1>3
  <2> QED BY <2>1, <1>2
<1>7. pc' \in {"acquire", "record", "blind"} => frame' \notin InFlight' \cup refused'
  BY <1>1, <1>4 DEF CommandBufferIdle
<1>8. InFlight' \cap refused' = {}
  BY <1>1, <1>4 DEF CommandBufferIdle
<1> QED BY <1>5, <1>6, <1>7, <1>8 DEF CommandBufferIdle

LEMMA SubmitKeepsIdle ==
  ASSUME TypeOK, CommandBufferIdle, pc \in {"record", "blind"}, pc' = "poll",
         NEW asked \in SUBSET Slots, Submitted(asked)
  PROVE  CommandBufferIdle'
<1> DEFINE e == [frame |-> frame, draws |-> RecordFrame(asked), ready |-> ready[frame]]
<1>1. /\ gpu' = Append(gpu, e) /\ fence' = [fence EXCEPT ![frame] = FALSE]
      /\ refused' = refused
  BY DEF Submitted, FrameSpent
<1>2. e.frame = frame /\ e \in Frame /\ gpu \in Seq(Frame)
  <2>1. ready[frame] \in BOOLEAN /\ frame \in Frames /\ gpu \in Seq(Frame)
    BY DEF TypeOK, Frame
  <2>2. RecordFrame(asked) \in SUBSET Slots
    BY DEF RecordFrame
  <2> QED BY <2>1, <2>2, Zenon DEF Frame
<1> HIDE DEF e
<1>3. /\ DOMAIN gpu' = (DOMAIN gpu) \cup {Len(gpu) + 1}
      /\ \A i \in DOMAIN gpu : gpu'[i] = gpu[i]
      /\ gpu'[Len(gpu) + 1].frame = frame
  BY <1>1, <1>2, AppendFacts
<1>4. frame \notin InFlight /\ frame \notin refused
  BY DEF CommandBufferIdle
<1>5. ASSUME NEW f PROVE f \in InFlight' <=> f \in InFlight \/ f = frame
  BY <1>3, InFlightOf, InFlightAfter
<1>6. ASSUME NEW f \in Frames PROVE fence'[f] <=> f \notin InFlight' \cup refused'
  <2>1. fence'[f] <=> fence[f] /\ f # frame
    BY <1>1 DEF TypeOK
  <2> QED BY <1>1, <2>1, <1>5 DEF CommandBufferIdle
<1>7. \A i \in DOMAIN gpu : gpu[i].frame # frame
  BY <1>4, InFlightOf
<1>8. ASSUME NEW i \in DOMAIN gpu', NEW j \in DOMAIN gpu', gpu'[i].frame = gpu'[j].frame PROVE i = j
  BY <1>8, <1>3, <1>7 DEF CommandBufferIdle
<1>9. InFlight' \cap refused' = {}
  BY <1>1, <1>4, <1>5 DEF CommandBufferIdle
<1> QED BY <1>6, <1>8, <1>9 DEF CommandBufferIdle

\* A frame that is refused was idle, and stays so for good.
LEMMA RefusalKeepsIdle ==
  ASSUME TypeOK, CommandBufferIdle, SubmitFails
  PROVE  CommandBufferIdle'
<1>1. /\ gpu' = gpu /\ fence' = [fence EXCEPT ![frame] = FALSE]
      /\ refused' = refused \cup {frame} /\ pc' = "poll" /\ pc \in {"record", "blind"}
  BY DEF SubmitFails, FrameSpent
<1>2. InFlight' = InFlight
  BY <1>1 DEF InFlight
<1>3. frame \notin InFlight
  BY <1>1 DEF CommandBufferIdle
<1>4. ASSUME NEW f \in Frames PROVE fence'[f] <=> f \notin InFlight' \cup refused'
  <2>1. fence'[f] <=> fence[f] /\ f # frame
    BY <1>1 DEF TypeOK
  <2> QED BY <1>1, <1>2, <2>1 DEF CommandBufferIdle
<1>5. InFlight' \cap refused' = {}
  BY <1>1, <1>2, <1>3 DEF CommandBufferIdle
<1> QED BY <1>1, <1>4, <1>5 DEF CommandBufferIdle

LEMMA IdleNext ==
  ASSUME TypeOK, CommandBufferIdle, [Next]_vars
  PROVE  CommandBufferIdle'
<1>1. CASE /\ UNCHANGED <<gpu, fence, frame, refused>>
           /\ pc' \in {"acquire", "record", "blind"} =>
                pc' = pc \/ pc = "acquire" \/ WaitFence
  <2>1. InFlight' = InFlight
    BY <1>1 DEF InFlight
  <2>2. WaitFence => frame \notin InFlight \cup refused
    BY DEF WaitFence, CommandBufferIdle, TypeOK
  <2>3. pc' \in {"acquire", "record", "blind"} => frame \notin InFlight \cup refused
    BY <1>1, <2>2 DEF CommandBufferIdle
  <2>4. gpu' = gpu /\ fence' = fence /\ frame' = frame /\ refused' = refused
    BY <1>1
  <2> QED BY <2>1, <2>3, <2>4 DEF CommandBufferIdle
<1> QED
  BY <1>1, FrameSteps, DrainKeepsIdle, CompleteKeepsIdle, SubmitKeepsIdle, RefusalKeepsIdle

\* A command buffer is recorded only when the GPU is done with it, and a frame
\* whose submission was refused never again, for any number of frames in
\* flight and of failures (render_graph.cpp:790-826).
THEOREM BuffersAreIdle == Spec => []CommandBufferIdle
<1>1. Init => CommandBufferIdle
  <2> SUFFICES ASSUME Init PROVE CommandBufferIdle
    OBVIOUS
  <2>1. DOMAIN gpu = {} /\ refused = {} /\ pc = "poll" /\ \A f \in Frames : fence[f]
    BY DEF Init
  <2> QED BY <2>1, InFlightOf DEF CommandBufferIdle
<1>2. TypeOK /\ CommandBufferIdle /\ [Next]_vars => CommandBufferIdle'
  BY IdleNext
<1> QED BY <1>1, <1>2, GraphTyping, PTL DEF Spec

-----------------------------------------------------------------------------
(* The mesh table.                                                         *)

\* The slot an upload takes is the last of the free list, or a new one: in
\* either case none that is live.
LEMMA TakenSlotIsDead ==
  ASSUME TypeOK, SlotsNeverShared, pc = "calls"
  PROVE  /\ free = <<>> => TakenSlot = Len(meshes) + 1 /\ TakenSlot \notin DOMAIN meshes
         /\ free # <<>> => /\ Len(free) \in DOMAIN free /\ TakenSlot = free[Len(free)]
                          /\ TakenSlot \in DOMAIN meshes /\ meshes[TakenSlot] = "free"
<1>1. CASE free = <<>>
  BY <1>1 DEF TakenSlot, TypeOK
<1>2. CASE free # <<>>
  <2>1. Len(free) \in DOMAIN free
    BY <1>2, FrontFacts DEF TypeOK
  <2> QED BY <1>2, <2>1 DEF TakenSlot, SlotsNeverShared
<1> QED BY <1>1, <1>2

\* What an upload does to the table: only the slot it takes changes.
LEMMA UploadedTable ==
  ASSUME TypeOK, NEW content, NEW drains, Upload(content, drains)
  PROVE  /\ DOMAIN meshes' = 1 .. Len(meshes) + (IF free = <<>> THEN 1 ELSE 0)
         /\ DOMAIN meshes = 1 .. Len(meshes) /\ Len(meshes) \in Nat
         /\ \A s \in DOMAIN meshes' :
              meshes'[s] = IF s = TakenSlot THEN content ELSE meshes[s]
<1>1. DOMAIN meshes = 1 .. Len(meshes) /\ Len(meshes) \in Nat
  BY Elements DEF TypeOK
<1> QED BY <1>1 DEF Upload

LEMMA UploadKeepsSlots ==
  ASSUME TypeOK, SlotsNeverShared, NEW content, content # "free", NEW drains,
         Upload(content, drains)
  PROVE  SlotsNeverShared'
<1>1. pc = "calls" /\ pc' = "calls"
  BY DEF Upload
<1>2. CASE free = <<>>
  <2>1. /\ free' = <<>> /\ DOMAIN free' = {} /\ DOMAIN free = {}
        /\ TakenSlot = Len(meshes) + 1 /\ TakenSlot \notin DOMAIN meshes
        /\ DOMAIN meshes' = (DOMAIN meshes) \cup {TakenSlot}
    <3>1. free' = <<>> /\ DOMAIN free' = {} /\ DOMAIN free = {}
      BY <1>2 DEF Upload
    <3>2. TakenSlot = Len(meshes) + 1 /\ TakenSlot \notin DOMAIN meshes
      BY <1>1, <1>2, TakenSlotIsDead
    <3>3. DOMAIN meshes' = (DOMAIN meshes) \cup {TakenSlot}
      <4>1. /\ DOMAIN meshes' = 1 .. Len(meshes) + 1
            /\ DOMAIN meshes = 1 .. Len(meshes) /\ Len(meshes) \in Nat
        BY <1>2, UploadedTable
      <4> QED BY <3>2, <4>1
    <3> QED BY <3>1, <3>2, <3>3
  <2>2. \A s \in DOMAIN meshes : meshes[s] # "free"
    BY <1>1, <2>1 DEF SlotsNeverShared
  <2>3. \A s \in DOMAIN meshes' : meshes'[s] # "free"
    BY <2>1, <2>2, UploadedTable
  <2> QED BY <2>1, <2>3 DEF SlotsNeverShared
<1>3. CASE free # <<>>
  <2>1. /\ Len(free) \in DOMAIN free /\ TakenSlot = free[Len(free)]
        /\ TakenSlot \in DOMAIN meshes /\ meshes[TakenSlot] = "free"
    BY <1>1, <1>3, TakenSlotIsDead
  <2>2. /\ DOMAIN free' = (DOMAIN free) \ {Len(free)}
        /\ \A i \in DOMAIN free' : free'[i] = free[i]
    BY <1>3, FrontFacts DEF TypeOK, Upload
  <2>3. DOMAIN meshes' = DOMAIN meshes
    BY <1>3, UploadedTable
  <2>4. \A i \in DOMAIN free' : free'[i] # TakenSlot
    BY <2>1, <2>2 DEF SlotsNeverShared
  <2>5. ASSUME NEW s \in DOMAIN meshes'
        PROVE  meshes'[s] = "free" <=> \E i \in DOMAIN free' : free'[i] = s
    <3>1. CASE s = TakenSlot
      BY <3>1, <2>4, UploadedTable
    <3>2. CASE s # TakenSlot
      <4>1. meshes'[s] = meshes[s]
        BY <3>2, UploadedTable
      <4>2. (\E i \in DOMAIN free' : free'[i] = s) <=> (\E i \in DOMAIN free : free[i] = s)
        BY <3>2, <2>1, <2>2
      <4> QED BY <4>1, <4>2, <2>3, <1>1 DEF SlotsNeverShared
    <3> QED BY <3>1, <3>2
  <2> QED BY <2>2, <2>3, <2>5 DEF SlotsNeverShared
<1> QED BY <1>2, <1>3

LEMMA DropKeepsSlots ==
  ASSUME TypeOK, SlotsNeverShared, NEW s \in Slots, DropMesh(s)
  PROVE  SlotsNeverShared'
<1>1. /\ s \in DOMAIN meshes /\ meshes[s] # "free" /\ pc # "over" /\ pc' = pc
      /\ DOMAIN meshes' = DOMAIN meshes
      /\ \A t \in DOMAIN meshes : meshes'[t] = IF t = s THEN "free" ELSE meshes[t]
  <2>1. meshes \in Seq(Dead \cup Live) /\ meshes' = [meshes EXCEPT ![s] = "free"]
    BY DEF TypeOK, DropMesh
  <2>2. s \in DOMAIN meshes /\ meshes[s] # "free" /\ pc # "over" /\ pc' = pc
    BY DEF DropMesh, Live, Drawn
  <2> QED BY <2>1, <2>2
<1>2. /\ DOMAIN free' = (DOMAIN free) \cup {Len(free) + 1}
      /\ Len(free) + 1 \notin DOMAIN free
      /\ \A i \in DOMAIN free : free'[i] = free[i]
      /\ free'[Len(free) + 1] = s
  BY AppendFacts DEF TypeOK, DropMesh
<1>3. \A i \in DOMAIN free : free[i] # s
  BY <1>1 DEF SlotsNeverShared
<1>4. ASSUME NEW t \in DOMAIN meshes'
      PROVE  meshes'[t] = "free" <=> \E i \in DOMAIN free' : free'[i] = t
  BY <1>1, <1>2 DEF SlotsNeverShared
<1> QED BY <1>1, <1>2, <1>3, <1>4 DEF SlotsNeverShared

\* Every other step leaves the table alone, but for the end of the graph.
LEMMA OtherStepsKeepTable ==
  ASSUME [Next]_vars, ~Destroy, \A s \in Slots : ~DropMesh(s), ~UploadMesh, ~UploadFails
  PROVE  UNCHANGED <<meshes, free>> /\ (pc' = "over" => pc = "over")
<1> USE DEF vars, surface, images, sync, store
<1>1. ASSUME NEW size, Recreated(size) PROVE UNCHANGED <<meshes, free>> /\ pc' = "poll"
  BY <1>1 DEF Recreated
<1>2. ASSUME NEW size, WindowChanges(size) PROVE UNCHANGED <<meshes, free, pc>>
  BY <1>2 DEF WindowChanges
<1>3. CASE Complete \/ Poll \/ DestroyAtlas \/ BindAtlas \/ AtlasFails \/ BeginSubmit
  BY <1>3 DEF Complete, Poll, DestroyAtlas, BindAtlas, AtlasFails, BeginSubmit
<1>4. CASE WaitFence \/ AcquireImage \/ AcquireOutOfDate \/ AcquireFails \/ AcquireFromNone
  BY <1>4 DEF WaitFence, AcquireImage, AcquireOutOfDate, AcquireFails, AcquireFromNone, AfterAcquire
<1>5. CASE Minimised \/ WaitIdle \/ UNCHANGED vars
  BY <1>5 DEF Minimised, WaitIdle
<1>6. ASSUME NEW asked,
             SubmitFrame(asked) \/ SubmitBlind(asked) \/ PresentFails(asked) \/ SubmitFails
      PROVE  UNCHANGED <<meshes, free>> /\ pc' = "poll"
  BY <1>6 DEF SubmitFrame, SubmitBlind, PresentFails, SubmitFails, Submitted, FrameSpent
<1> QED
  BY <1>1, <1>2, <1>3, <1>4, <1>5, <1>6 DEF Next, Recreate, RecreateFails

LEMMA UploadedContent ==
  /\ \A u \in Uploads \cup FailedUploads : u[1] # "free"
<1>1. \A u \in {"empty"} \X {FALSE} : u[1] # "free"
  BY FirstOfPair
<1>2. \A u \in {"good"} \X {TRUE} : u[1] # "free"
  BY FirstOfPair
<1>3. \A u \in {"lost", "orphan", "bad"} \X {FALSE} : u[1] # "free"
  BY FirstOfPair
<1>4. \A u \in {"orphan", "bad"} \X {TRUE} : u[1] # "free"
  BY FirstOfPair
<1> QED BY <1>1, <1>2, <1>3, <1>4 DEF Uploads, FailedUploads

LEMMA OverIsTheEnd ==
  ASSUME [Next]_vars, pc = "over"
  PROVE  pc' = "over"
<1> USE DEF vars, surface, images, sync, store
<1>1. ~ \E content, drains : Upload(content, drains)
  BY DEF Upload
<1>2. ~ \E size : Recreated(size)
  BY DEF Recreated
<1>3. ~ \E asked : SubmitFrame(asked) \/ SubmitBlind(asked) \/ PresentFails(asked) \/ SubmitFails
  BY DEF SubmitFrame, SubmitBlind, PresentFails, SubmitFails
<1>4. ~ (Poll \/ DestroyAtlas \/ BindAtlas \/ AtlasFails \/ BeginSubmit \/ WaitFence \/ Destroy)
  BY DEF Poll, DestroyAtlas, BindAtlas, AtlasFails, BeginSubmit, WaitFence, Destroy
<1>5. ~ (AcquireImage \/ AcquireOutOfDate \/ AcquireFails \/ AcquireFromNone \/ Minimised \/ WaitIdle)
  BY DEF AcquireImage, AcquireOutOfDate, AcquireFails, AcquireFromNone, Minimised, WaitIdle
<1>6. \A s : ~DropMesh(s)
  BY DEF DropMesh
<1> QED
  BY <1>1, <1>2, <1>3, <1>4, <1>5, <1>6
  DEF Next, UploadMesh, UploadFails, Recreate, RecreateFails, Complete, WindowChanges

LEMMA SlotsNext ==
  ASSUME TypeOK, SlotsNeverShared, [Next]_vars
  PROVE  SlotsNeverShared'
<1>1. CASE UploadMesh \/ UploadFails
  <2>1. PICK u \in Uploads \cup FailedUploads : Upload(u[1], u[2])
    BY <1>1 DEF UploadMesh, UploadFails
  <2> QED BY <2>1, UploadedContent, UploadKeepsSlots
<1>2. CASE \E s \in Slots : DropMesh(s)
  BY <1>2, DropKeepsSlots
<1>3. CASE Destroy
  <2>1. free' = free /\ DOMAIN meshes' = DOMAIN meshes /\ pc' = "over"
    BY <1>3 DEF Destroy, Destroyed
  <2> QED BY <2>1 DEF SlotsNeverShared
<1>4. CASE ~(UploadMesh \/ UploadFails \/ (\E s \in Slots : DropMesh(s)) \/ Destroy)
  <2>1. UNCHANGED <<meshes, free>> /\ (pc' = "over" => pc = "over")
    BY <1>4, OtherStepsKeepTable
  <2>2. pc = "over" => pc' = "over"
    BY OverIsTheEnd
  <2> QED BY <2>1, <2>2 DEF SlotsNeverShared
<1> QED BY <1>1, <1>2, <1>3, <1>4

\* The free list names no slot twice and no live one, for any number of slots
\* and any failures (render_graph.cpp:730-756, 764-768).
THEOREM SlotsAreOwned == Spec => []SlotsNeverShared
<1>1. Init => SlotsNeverShared
  BY DEF Init, SlotsNeverShared
<1>2. TypeOK /\ SlotsNeverShared /\ [Next]_vars => SlotsNeverShared'
  BY SlotsNext
<1> QED BY <1>1, <1>2, GraphTyping, PTL DEF Spec

-----------------------------------------------------------------------------
(* Images given up.                                                        *)

\* The semaphores that may be left signalled: the one of the frame the client
\* is at, and those of frames refused.
Signalled == \A f \in Frames : ready[f] => f = frame \/ f \in refused

LEMMA ReadyNext ==
  ASSUME TypeOK, Signalled, [Next]_vars
  PROVE  Signalled'
<1> USE DEF vars, surface, images, sync, store
<1>0. UNCHANGED <<ready, frame, refused>> => Signalled'
  BY DEF Signalled
<1>1. ASSUME NEW content, NEW drains, Upload(content, drains)
      PROVE  UNCHANGED <<ready, frame, refused>>
  BY <1>1 DEF Upload
<1>2. ASSUME NEW size, Recreated(size) \/ WindowChanges(size)
      PROVE  UNCHANGED <<ready, frame, refused>>
  BY <1>2 DEF Recreated, WindowChanges
<1>3. ASSUME NEW s, DropMesh(s) PROVE UNCHANGED <<ready, frame, refused>>
  BY <1>3 DEF DropMesh
<1>4. CASE Complete \/ Poll \/ DestroyAtlas \/ BindAtlas \/ AtlasFails \/ BeginSubmit
  <2>1. UNCHANGED <<ready, frame, refused>>
    BY <1>4 DEF Complete, Poll, DestroyAtlas, BindAtlas, AtlasFails, BeginSubmit
  <2> QED BY <1>0, <2>1
<1>5. CASE WaitFence \/ AcquireOutOfDate \/ AcquireFails \/ AcquireFromNone
  <2>1. UNCHANGED <<ready, frame, refused>>
    BY <1>5 DEF WaitFence, AcquireOutOfDate, AcquireFails, AcquireFromNone
  <2> QED BY <1>0, <2>1
<1>6. CASE Minimised \/ WaitIdle \/ Destroy \/ UNCHANGED vars
  <2>1. UNCHANGED <<ready, frame, refused>>
    BY <1>6 DEF Minimised, WaitIdle, Destroy
  <2> QED BY <1>0, <2>1
<1>7. CASE AcquireImage
  BY <1>7 DEF AcquireImage, TypeOK, Signalled
<1>8. ASSUME NEW asked, SubmitFrame(asked) \/ SubmitBlind(asked) \/ PresentFails(asked)
      PROVE  Signalled'
  <2>1. /\ ready' = [ready EXCEPT ![frame] = FALSE] /\ frame \in Frames
        /\ ready \in [Frames -> BOOLEAN] /\ refused' = refused
    BY <1>8 DEF SubmitFrame, SubmitBlind, PresentFails, Submitted, TypeOK
  <2>2. \A f \in Frames : ready'[f] => f \in refused'
    BY <2>1 DEF Signalled
  <2> QED BY <2>2 DEF Signalled
<1>9. CASE SubmitFails
  <2>1. ready' = ready /\ refused' = refused \cup {frame}
    BY <1>9 DEF SubmitFails
  <2> QED BY <2>1 DEF Signalled
<1> QED
  BY <1>0, <1>1, <1>2, <1>3, <1>4, <1>5, <1>6, <1>7, <1>8, <1>9
  DEF Next, UploadMesh, UploadFails, Recreate, RecreateFails

\* An image is given up only while the resize that brings a new swapchain is
\* still to come, or when its submission or presentation failed, and only the
\* current frame and those refused have a semaphore left signalled
\* (render_graph.cpp:797-837).
THEOREM ImagesAreKept == Spec => []GivenUpOnlyMinimised
<1>1. Init => Holding /\ Signalled
  BY DEF Init, Holding, Signalled
<1>2. TypeOK /\ Holding /\ Signalled /\ [Next]_vars => (Holding /\ Signalled)'
  BY NextHolding, ReadyNext
<1>3. Holding /\ Signalled => GivenUpOnlyMinimised
  BY DEF Holding, Signalled, GivenUpOnlyMinimised
<1> QED BY <1>1, <1>2, <1>3, GraphTyping, PTL DEF Spec

-----------------------------------------------------------------------------
(* What is freed while the GPU reads it.                                   *)

FreedStep ==
  /\ \A s \in DOMAIN meshes :
       meshes[s] \in Drawn /\ meshes'[s] \notin Drawn => Idle(s) \/ DropMesh(s)
  /\ atlas = "bound" /\ atlas' # "bound" => gpu' = <<>> \/ DestroyAtlas

LEMMA FreedTable ==
  ASSUME TypeOK, SlotsNeverShared, [Next]_vars, NEW s \in DOMAIN meshes,
         meshes[s] \in Drawn, meshes'[s] \notin Drawn
  PROVE  Idle(s) \/ DropMesh(s)
<1>1. meshes[s] # "free"
  BY DEF Drawn
<1>2. CASE UploadMesh \/ UploadFails
  <2>1. PICK u \in Uploads \cup FailedUploads : Upload(u[1], u[2])
    BY <1>2 DEF UploadMesh, UploadFails
  <2>2. s \in DOMAIN meshes' /\ (s # TakenSlot => meshes'[s] = meshes[s])
    BY <2>1, UploadedTable
  <2>3. s # TakenSlot
    <3>1. pc = "calls"
      BY <2>1 DEF Upload
    <3> QED BY <3>1, <1>1, TakenSlotIsDead
  <2> QED BY <2>2, <2>3
<1>3. CASE \E t \in Slots : DropMesh(t)
  <2>1. PICK t \in Slots : DropMesh(t)
    BY <1>3
  <2>2. s # t => meshes'[s] = meshes[s]
    BY <2>1 DEF DropMesh, TypeOK
  <2> QED BY <2>1, <2>2
<1>4. CASE Destroy
  BY <1>4 DEF Destroy, Drained, Idle
<1>5. CASE ~(UploadMesh \/ UploadFails \/ (\E t \in Slots : DropMesh(t)) \/ Destroy)
  <2>1. meshes' = meshes
    BY <1>5, OtherStepsKeepTable
  <2> QED BY <2>1
<1> QED BY <1>2, <1>3, <1>4, <1>5

LEMMA FreedAtlas ==
  ASSUME [Next]_vars, atlas = "bound", atlas' # "bound"
  PROVE  gpu' = <<>> \/ DestroyAtlas
<1> USE DEF vars, surface, images, sync, store
<1>1. ~ \E content, drains : Upload(content, drains)
  BY DEF Upload
<1>2. ~ \E size : Recreated(size) \/ WindowChanges(size)
  BY DEF Recreated, WindowChanges
<1>3. ~ \E asked : SubmitFrame(asked) \/ SubmitBlind(asked) \/ PresentFails(asked) \/ SubmitFails
  BY DEF SubmitFrame, SubmitBlind, PresentFails, SubmitFails, Submitted, FrameSpent
<1>4. ~ (Complete \/ Poll \/ BindAtlas \/ AtlasFails \/ BeginSubmit \/ WaitFence \/ UNCHANGED vars)
  BY DEF Complete, Poll, BindAtlas, AtlasFails, BeginSubmit, WaitFence
<1>5. ~ (AcquireImage \/ AcquireOutOfDate \/ AcquireFails \/ AcquireFromNone \/ Minimised \/ WaitIdle)
  BY DEF AcquireImage, AcquireOutOfDate, AcquireFails, AcquireFromNone, Minimised, WaitIdle
<1>6. \A s : ~DropMesh(s)
  BY DEF DropMesh
<1>7. Destroy => gpu' = <<>>
  BY DEF Destroy, Drained
<1> QED
  BY <1>1, <1>2, <1>3, <1>4, <1>5, <1>6, <1>7
  DEF Next, UploadMesh, UploadFails, Recreate, RecreateFails

\* Only drop_mesh and set_atlas free what a frame in flight may read, for any
\* number of frames and slots (render_graph.cpp:677, 760-769).
THEOREM FreedInUse == Spec => FreedInUseOnlyByDropAndAtlas
<1>1. TypeOK /\ SlotsNeverShared /\ [Next]_vars => [FreedStep]_vars
  BY FreedTable, FreedAtlas DEF FreedStep
<1>2. Spec => [][FreedStep]_vars
  BY <1>1, GraphTyping, SlotsAreOwned, PTL DEF Spec
<1> QED BY <1>2, PTL DEF FreedStep, FreedInUseOnlyByDropAndAtlas
=============================================================================
