CONSTANTS
  NumProcs = 2
  BUFFER_SIZE = 3
  ITEM_SIZE = 2
SPECIFICATION Spec
PROPERTY WaitingConsumerServed
CHECK_DEADLOCK FALSE
