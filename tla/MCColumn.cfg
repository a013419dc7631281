\* Two cells, three chunks one voxel high around height 0: every box shape,
\* every way a box can cover a chunk or part of it.
SPECIFICATION Spec
CONSTANTS
  WidthX = 2
  WidthZ = 1
  Edge = 1
  BaseCy <- MCBaseBelowZero
  NChunks = 3
  Air = Air
  Water = Water
  Solids = {Stone}
  Packed = Packed
  Int16Min <- MCSmallInt16Min
INVARIANTS
  TopsExact
  DepthCoversWater
  WalkAgreesWithRescan
  UniformIsTrue
PROPERTIES
  ImplementsHeightField
  DepthGoesStaleOnlyBySubmergedEdit
