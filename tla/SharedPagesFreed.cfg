CONSTANTS
  PROCESS_MAX_PROCS = 3
  NUM_PAGES = 8
  WORD_BITS = 4
  MEMORY_MAX_SHARED_PAGES = 3
  PROCESS_MAX_PAGES = 3
SPECIFICATION Spec
INVARIANT KeptWhileMapped
CHECK_DEADLOCK FALSE
