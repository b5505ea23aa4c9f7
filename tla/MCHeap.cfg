SPECIFICATION RefreshSpec
CONSTANTS
  HEAPS = 2
  FREE_SPACES = 2
  ALLOCATIONS = 3
  HeapBase <- MCHeapBase
  HeapEnd <- MCHeapEnd
  Requests = {0, 1, 2}
  Pointers = {0, 2, 3, 10, 11, 12, 13, 14, 15, 16}
INVARIANTS HeapTypeOK BooksBalance
PROPERTIES LostOnlyForThreeReasons ImplementsAbstractHeap
