SPECIFICATION Spec
CONSTANTS
  BankSpan = 4
  BankLen = 4
  FirstBank = 1
  Banks = 4
  RomLen = 9
INVARIANTS TypeOK SortedApart InOneBank BlocksAreTheWrites
PROPERTIES WriteReturns
CHECK_DEADLOCK FALSE
