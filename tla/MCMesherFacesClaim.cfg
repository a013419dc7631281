\* Three voxels a side.
SPECIFICATION Spec
CONSTANTS
  Edge = 3
  Blocks = {Air, Water, Stone}
  Air = Air
  Water = Water
  Stone = Stone
  Fillings <- MCFillings
  Edited <- MCEdited
INVARIANT VisibleFacesDrawn
