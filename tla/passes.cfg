SPECIFICATION Spec
CONSTANTS
  Names = {"a", "b", "c"}
  PlusNames = {"+"}
  BankSize = 32
  TagSize = 2
  Pool <- MCPool
  ZeroPos = 4
  MaxFreespaces = 2
  Slack = 1
  StaleLens = {0}
  StaleMoving = {FALSE}
  Programs <- OrdinaryPrograms
INVARIANTS TypeOK MeasuresOwnFreespace BlocksDisjoint BytesProtected OperandsResolve
PROPERTIES LengthsSettle LabelsStay
CHECK_DEADLOCK FALSE
