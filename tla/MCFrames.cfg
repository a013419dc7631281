\* Two changes of the window: minimised and restored, or minimised while the
\* swapchain is made for an earlier change.
\* The loop may end, crash or hang for ever.
SPECIFICATION FairSpec
CONSTANTS
  NFrames = 2
  Spare = 1
  Sizes = {0, 1, 2}
  MaxSlots = 2
  MaxFaults = 1
  MaxChanges = 2
CHECK_DEADLOCK FALSE
INVARIANTS
  CommandBufferIdle
  SlotsNeverShared
  GivenUpOnlyMinimised
PROPERTIES
  FreedInUseOnlyByDropAndAtlas
  SubmitReturns
  ChainFollowsWindow
