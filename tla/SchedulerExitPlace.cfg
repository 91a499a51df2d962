CONSTANTS
  PROCESS_MAX_PROCS = 3
  MEMORY_FREE_PAGES = 6
SPECIFICATION Spec
PROPERTY OnlyRunningOvertaken
CHECK_DEADLOCK FALSE
