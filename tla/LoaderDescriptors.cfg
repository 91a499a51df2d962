CONSTANTS
  FS_MAX_OPEN_FILES = 4
  MEMORY_PAGE_SIZE = 120
  SIZE_ARG_BUFF = 44
  ARG_LIMIT = 10
  STRING_LIMIT = 3
  READ_LIMIT = 24
  Programs <- MCPrograms
  ArgumentLists <- MCArgumentLists
SPECIFICATION Spec
INVARIANT DescriptorsReturned
CHECK_DEADLOCK FALSE
