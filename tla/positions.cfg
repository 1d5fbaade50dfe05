SPECIFICATION Spec
CONSTANTS
  CommandSets <- AllSets
  MaxLen = 5
  FileLen = 4
  RomLen = 32768
  MaxPad = 64
INVARIANTS TypeOK SameInEveryPass BytesInOrder SpcBlockWhole PullsWhatWasPushed
CHECK_DEADLOCK FALSE
