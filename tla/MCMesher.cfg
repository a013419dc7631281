\* Three voxels a side: a first, a middle and a last layer of every pass.
SPECIFICATION Spec
CONSTANTS
  Edge = 3
  Blocks = {Air, Water, Stone}
  Air = Air
  Water = Water
  Stone = Stone
  Fillings <- MCFillings
  Edited <- MCEdited
INVARIANTS
  CellsMeshedOnce
  FacesDrawn
  OnlyXFacesOutward
