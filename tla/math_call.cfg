SPECIFICATION Spec
CONSTANTS
  Programs <- Letters
INVARIANT CallsByValue
CHECK_DEADLOCK FALSE
