--------------------------- MODULE MCKernelMemory ---------------------------
(* A heap of three pages of two bytes.  It starts with the page of freemap *)
(* (physical page 100, outside the pool), as init_paging leaves it.        *)
EXTENDS KernelMemory

MCHeapBase == [h \in Heaps |-> 6]
MCHeapEnd == [h \in Heaps |-> 12]
MCBootMap == [p \in {3} |-> 100]
=============================================================================
