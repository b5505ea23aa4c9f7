---------------------------- MODULE HeapRefresh ----------------------------
(***************************************************************************)
(* refresh_freespace of kernel/memory/memory.c, beside malloc_heap and     *)
(* free.  Nothing in the kernel calls it yet; it is meant to be called     *)
(* between them, on whatever tables they have left.                        *)
(***************************************************************************)
EXTENDS Heap

(* Mutant: the old entry is not deleted.                                   *)
Absorb_keeps_entry(spaces, j, k, end) ==
  IF spaces[k].addr = end THEN [spaces EXCEPT ![j].size = @ + spaces[k].size] ELSE spaces

(* One turn of the inner loop: entry k starts at end, so entry j takes its *)
(* size and entry k is deleted.                                            *)
Absorb(spaces, j, k, end) ==
  IF spaces[k].addr = end
    THEN LET grown == [spaces EXCEPT ![j].size = @ + spaces[k].size]
         IN  [grown EXCEPT ![k] = Unused]
    ELSE spaces

(* The inner loop for entry j; its end address is read once, before it.    *)
Sweep(spaces, j) ==
  LET end == spaces[j].addr + spaces[j].size
      after[n \in 0 .. FREE_SPACES] ==
        IF n = 0 THEN spaces ELSE Absorb(after[n - 1], j, n - 1, end)
  IN  after[FREE_SPACES]

(* The outer loop over one heap's entries.                                 *)
Refreshed(spaces) ==
  LET after[n \in 0 .. FREE_SPACES] ==
        IF n = 0 THEN spaces ELSE Sweep(after[n - 1], n - 1)
  IN  after[FREE_SPACES]

RefreshFreespace ==
  /\ freespace' = [h \in Heaps |-> Refreshed(freespace[h])]
  /\ UNCHANGED allocations

RefreshNext == HeapNext \/ RefreshFreespace

RefreshSpec == HeapInit /\ [][RefreshNext]_heapVars

-----------------------------------------------------------------------------
(* Properties                                                              *)

(* An exhausted range still names the start of another range.              *)
Exhausted(h) ==
  \E i, j \in Spaces : /\ freespace[h][i].size = 0
                       /\ freespace[h][j].size # 0
                       /\ freespace[h][i].addr = freespace[h][j].addr

(* A step gives no byte back to the tables, and takes one from them for    *)
(* three reasons only.                                                     *)
LosesForAReason(h) ==
  LET before == Accounted(freespace[h], allocations[h])
      after == Accounted(freespace'[h], allocations'[h])
  IN  /\ after \subseteq before
      /\ after # before =>
           \/ allocations'[h] = allocations[h] /\ FreeSlots(h) = {} /\ ~RefreshFreespace
           \/ allocations'[h] # allocations[h] /\ UnusedSpaces(freespace[h]) = {}
           \/ RefreshFreespace /\ Exhausted(h)

(* No byte comes back that has left the tables, and a byte leaves them for *)
(* three reasons only: malloc_heap finds the allocation table full, free   *)
(* finds the free table full, or refresh_freespace, which compares nothing *)
(* but addresses, meets an exhausted entry at the start of another one and *)
(* deletes both.                                                           *)
LostOnlyForThreeReasons == [][\A h \in Heaps : LosesForAReason(h)]_heapVars
=============================================================================
