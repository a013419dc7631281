\* Opening and writing temporaries may fail; two crashes; calls run on.
SPECIFICATION FairSpec
CONSTANTS
  near = near
  far = far
  away = away
  Columns <- MCColumns
  Regions <- MCRegions
  RegionOf <- MCRegionOf
  Root = 0
  Handles = {h1}
  Faults = {"write"}
  MaxEdits = 2
  MaxCrashes = 2
  Absent = Absent
  Torn = Torn
  Closed = Closed
INVARIANTS
  CopiesNeverBehind
PROPERTIES
  ImplementsDurableStore
  SavedEditsStay
  WorldStaysOpenable
  FlushedIsSaved
  CallsReturn
\* A create that crashed leaves a directory nothing can be done with.
CHECK_DEADLOCK FALSE
