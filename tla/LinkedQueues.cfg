CONSTANTS
  QUEUE_MAX_LINKS = 4
  Queues = {"runQueue", "waitQueue"}
  Objects = {"p1", "p2"}
  freeLinks = "freeLinks"
SPECIFICATION LinksSpec
INVARIANTS EndsMeet LinksKnowTheirQueue
PROPERTIES ImplementsQueues
CHECK_DEADLOCK FALSE
