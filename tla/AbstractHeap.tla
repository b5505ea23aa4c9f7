---------------------------- MODULE AbstractHeap ----------------------------
(***************************************************************************)
(* What malloc_heap and free (kernel/memory/memory.c) promise to the rest  *)
(* of the kernel: the set of blocks that callers hold changes by one block *)
(* at a time, and a new block shares no byte with a held one.              *)
(***************************************************************************)
EXTENDS Integers

CONSTANTS HEAPS, HeapBase, HeapEnd, Requests

VARIABLE live   \* the blocks handed out and not freed

Heaps == 0 .. HEAPS - 1
Block == [heap : Heaps, addr : Nat, size : Nat \ {0}]

Clear(b, c) == b.heap # c.heap \/ b.addr + b.size <= c.addr \/ c.addr + c.size <= b.addr

Malloc(b) ==
  /\ b.size \in Requests
  /\ HeapBase[b.heap] <= b.addr
  /\ b.addr + b.size <= HeapEnd[b.heap]
  /\ \A c \in live : Clear(b, c)
  /\ live' = live \cup {b}

Free(b) == live' = live \ {b}

Init == live = {}
Next == \/ \E b \in live : Free(b)
        \/ \E h \in Heaps, size \in Requests \ {0} :
             \E addr \in HeapBase[h] .. HeapEnd[h] :
               Malloc([heap |-> h, addr |-> addr, size |-> size])

Spec == Init /\ [][Next]_live
=============================================================================
