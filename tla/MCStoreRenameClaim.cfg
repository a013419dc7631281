\* Renames fail: the prior save under the remove-and-retry fallback.
SPECIFICATION Spec
CONSTANTS
  near = near
  far = far
  away = away
  Columns <- MCColumns
  Regions <- MCRegions
  RegionOf <- MCRegionOf
  Root = 0
  Handles = {h1}
  Faults = {"rename"}
  MaxEdits = 2
  MaxCrashes = 1
  Absent = Absent
  Torn = Torn
  Closed = Closed
PROPERTY SavedEditsStay
\* A create that crashed leaves a directory nothing can be done with.
CHECK_DEADLOCK FALSE
