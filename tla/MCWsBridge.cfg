CONSTANTS
  MaxSent = 3
  Room = 2
SPECIFICATION Spec
INVARIANTS Faithful
PROPERTIES ClosedTogether
CHECK_DEADLOCK FALSE
