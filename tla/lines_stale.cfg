SPECIFICATION Spec
CONSTANTS
  Programs <- MCFatal
  Root = "main"
  MaxPatches = 2
  Limit = 6
  WhileFuel = 1
  MaxLevel = 4
INVARIANTS WritesWhatItSays
CHECK_DEADLOCK FALSE
