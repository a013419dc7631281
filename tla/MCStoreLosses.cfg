\* Renames fail, and the machine may lose power; one crash.
SPECIFICATION Spec
CONSTANTS
  near = near
  far = far
  away = away
  Columns <- MCColumns
  Regions <- MCRegions
  RegionOf <- MCRegionOf
  Root = 0
  Handles = {h1}
  Faults = {"rename", "power"}
  MaxEdits = 2
  MaxCrashes = 1
  Absent = Absent
  Torn = Torn
  Closed = Closed
PROPERTIES
  TornOnlyByPower
  OnlyKnownLosses
\* A create that crashed leaves a directory nothing can be done with.
CHECK_DEADLOCK FALSE
