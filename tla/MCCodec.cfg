\* Bytes of two bits, two voxels: the widths are one, two and four bits, an
\* index shares a byte, fills it, or takes two; the palette outgrows the
\* size byte.
SPECIFICATION PackedSpec
CONSTANTS
  Voxels <- MCVoxels
  Boxes <- MCBoxes
  Blocks = {0, 1, 2, 3, 4}
  Air = 0
  Widths <- MCWidths
  Cap <- MCCap
  Packed = Packed
  ByteBits = 2
  Other <- MCOther
INVARIANTS
  PaletteSound
  BytesHoldIndices
  SmallPalettesRoundTrip
PROPERTY ImplementsVoxelArray
