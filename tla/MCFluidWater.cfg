SPECIFICATION FairSpec
CONSTANTS
  World <- MCWorld
  Blocks = {0, 1, 2}
  Air = 0
  Water = 2
  Edge = 2
  Reach = 0
  YMax = 1
  PlayerChunks <- MCPlayerChunks
  Dts = {1, 2}
  NearDt = 1
  MidDt = 2
  FarDt = 2
  TickRange = 4
INVARIANTS PassesKeepTheirSides MovedIsBehind
PROPERTIES WaterConserved OnlyDownhill NoneHangsForever
