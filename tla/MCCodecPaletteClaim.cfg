\* The wide chunk with palettes longer than the size byte can say.
SPECIFICATION PackedSpec
CONSTANTS
  Voxels <- MCVoxels
  Boxes <- MCBoxes
  Blocks = {0, 1, 2, 3, 4}
  Air = 0
  Widths <- MCWidths
  Cap <- MCCap
  Packed = Packed
  ByteBits = 2
  Other <- MCOther
INVARIANT ColumnRoundTrips
