SPECIFICATION KMSpec
CONSTANTS
  HEAPS = 1
  FREE_SPACES = 2
  ALLOCATIONS = 3
  HeapBase <- MCHeapBase
  HeapEnd <- MCHeapEnd
  Requests = {1, 2, 3}
  Pointers = {0, 6, 7, 8, 9, 10, 11, 12}
  PAGE_SIZE = 2
  Pool = {0, 1, 2, 3}
  TablePages = {0}
  BootMap <- MCBootMap
PROPERTIES FreeKeepsSharedPages
