CONSTANTS
  NumProcs = 4
  BUFFER_SIZE = 3
  ITEM_SIZE = 2
SPECIFICATION MCSpec
INVARIANTS SlotsAccounted MainEndsLast
PROPERTIES ImplementsBuffer AllEnd
CHECK_DEADLOCK FALSE
