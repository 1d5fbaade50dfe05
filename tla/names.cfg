SPECIFICATION Spec
CONSTANTS
  CommandSets <- AllSets
  MaxLen = 7
  MaxDots = 2
  Digit <- Numerals
INVARIANTS TypeOK SameNameInEveryPass RelativeNearest MacroLabelsStay NamespaceIsItsList
CHECK_DEADLOCK FALSE
