\* One bounded and one streaming world, opened twice, one chunk handle, two writes.
SPECIFICATION Spec
VIEW Lasting
CONSTANTS
  Edge = 2
  MaxChunks = 1
  Blocks = {Air, Stone}
  Air = Air
  Params <- MCParams
  Points <- MCPoints
  Boxes <- MCBoxes
  Chunks <- MCChunks
  Grid <- MCGrid
  Ranges <- MCRanges
  MaxEdits = 2
  MaxWorlds = 2
  MaxChunkHandles = 1
  Ok = Ok
  OutOfBounds = OutOfBounds
  NotLoaded = NotLoaded
  Garbage = Garbage
INVARIANTS TypeOK HandlesFindColumns
PROPERTIES CallsKeepPromise OutsideOnlyUnchecked
