CONSTANTS
  PROCESS_MAX_PROCS = 3
  MEMORY_FREE_PAGES = 6
  MAX_SEMS = 1
  MAX_LOCKS = 2
  MAX_CONDS = 2
  QUEUE_MAX_LINKS = 6
  SemCounts <- MCSemCounts
  MaxCount = 1
SPECIFICATION Spec
INVARIANTS TypeOK SleepersQueued NoFatalError LinksAccounted WaitedLockIsHeld WaitedSemIsEmpty
PROPERTIES ReturnsWithLock LockHandover ImplementsScheduler
CHECK_DEADLOCK FALSE
