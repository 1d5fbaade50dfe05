SPECIFICATION Spec
CONSTANTS
  Programs <- Everyday
INVARIANTS TypeOK EvaluatesInOrder CallsByValue
CHECK_DEADLOCK FALSE
