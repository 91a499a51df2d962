CONSTANTS
  PROCESS_MAX_PROCS = 3
  NUM_PAGES = 7
  WORD_BITS = 4
  MEMORY_MAX_SHARED_PAGES = 2
  PROCESS_MAX_PAGES = 2
SPECIFICATION FreshSpec
INVARIANTS TypeOK PagesConserved RefsAreMappings OwnPagesAreOwn
CHECK_DEADLOCK FALSE
