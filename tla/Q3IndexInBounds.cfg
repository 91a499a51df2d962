CONSTANTS
  NumProcs = 2
  BUFFER_SIZE = 2
  ITEM_SIZE = 3
SPECIFICATION Spec
INVARIANT IndexInBounds
CHECK_DEADLOCK FALSE
