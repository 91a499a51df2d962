CONSTANTS
  PROCESS_MAX_PROCS = 3
  MEMORY_FREE_PAGES = 6
  MaxForks = 4
SPECIFICATION MCSpec
INVARIANTS TypeOK QueuesMatchFlags CurrentInFront ZombiesReaped PagesAccounted
INVARIANTS FramesNested ResultDelivered UserInterruptible
PROPERTIES OvertakenByExitOnly WakeupsDoNotPreempt EveryReadyProcessRuns
CHECK_DEADLOCK FALSE
