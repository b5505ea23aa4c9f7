SPECIFICATION PagingSpec
CONSTANTS
  LEVELS = 3
  ENTRIES = 4
  VIRTUAL_PAGES = 64
  Pool = {0, 1, 2, 3, 4, 5, 6, 7, 8, 9, 10, 11, 12, 13, 14, 15}
  BootMapped = {0, 1, 2, 3, 4, 5, 6, 7, 8, 9, 10, 11, 12, 13, 14, 15}
  BootMaps <- MCBootMaps
  HeapPages = {34, 35, 40}
INVARIANTS TablesFormTree TablesSelfMapped MappingsKept
PROPERTIES InitPagingEnds
CHECK_DEADLOCK FALSE
