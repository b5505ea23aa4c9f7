------------------------------- MODULE MCHeap -------------------------------
(* Two heaps of a few bytes, so that the tables fill up and the ranges     *)
(* fragment within a few calls.                                            *)
EXTENDS HeapRefresh

MCHeapBase == [h \in Heaps |-> IF h = 0 THEN 10 ELSE 2]
MCHeapEnd == [h \in Heaps |-> IF h = 0 THEN 16 ELSE 3]
=============================================================================
