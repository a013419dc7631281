\* Every set of files, changed at any time.
SPECIFICATION Spec
CONSTANTS
  Materials <- MCMaterials
  MaxMaterials = 2
  Black = Black
  NoName = NoName
  Ok = Ok
  NoMaterials = NoMaterials
  CorruptFile = CorruptFile
  BufferSize = BufferSize
INVARIANTS LookupsAgree WholeWhenOk
PROPERTIES SlotsAreNeverRenamed FullOnlyOfNames
