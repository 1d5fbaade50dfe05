SPECIFICATION Spec
CONSTANTS
  Programs <- MCSession
  Root = "main"
  MaxPatches = 2
  Limit = 6
  WhileFuel = 1
  MaxLevel = 4
INVARIANTS TypeOK WritesWhatItSays
PROPERTIES RefinesConditionals Terminates
CHECK_DEADLOCK FALSE
