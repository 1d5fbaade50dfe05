SPECIFICATION Spec
CONSTANTS
  Calls <- LibraryCalls
  Runs <- CommandLines
  MaxCalls = 2
  Warnings = {"w1", "w2"}
  Default = {"w1"}
  Slots = 2
  RomLen = 1
INVARIANTS TypeOK ChecksumAsAsked SettingsReturn SucceedsAlone
PROPERTIES AllOrNothing
CHECK_DEADLOCK FALSE
