SPECIFICATION Spec
CONSTANTS
  Names = {"a", "b"}
  PlusNames = {"+"}
  BankSize = 32
  TagSize = 2
  Pool <- MCPool
  ZeroPos = 4
  MaxFreespaces = 2
  Slack = 2
  StaleLens = {0}
  StaleMoving = {FALSE}
  Programs <- OpenBasePrograms
INVARIANTS BytesProtected
CHECK_DEADLOCK FALSE
