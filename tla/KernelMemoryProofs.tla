------------------------- MODULE KernelMemoryProofs -------------------------
(***************************************************************************)
(* Proofs about modules Heap and KernelMemory, for every number and size   *)
(* of heaps, tables and pages, every pool and every set of requests and    *)
(* pointers.  For the tables, BooksBalance is inductive once their shape   *)
(* is known; the abstract allocator then follows from it step by step.     *)
(***************************************************************************)
EXTENDS KernelMemory, HeapRefresh, LoopLemmas, TLAPS

-----------------------------------------------------------------------------
(* Type correctness                                                        *)

(* malloc_heap's search loops end at an entry of the table they search.    *)
LEMMA MallocIndices ==
  ASSUME NEW h \in Heaps, NEW size \in Nat
  PROVE  /\ Fitting(h, size) # {} => Min(Fitting(h, size)) \in Fitting(h, size)
         /\ FreeSlots(h) # {} => Min(FreeSlots(h)) \in FreeSlots(h)
<1>1. Fitting(h, size) \in SUBSET Nat /\ FreeSlots(h) \in SUBSET Nat
  BY SizesAssumption DEF Fitting, FreeSlots, Spaces, Slots
<1> QED
  BY <1>1, MinMember

(* So do free's.                                                           *)
LEMMA FreeIndices ==
  ASSUME NEW h \in Heaps, NEW addr, NEW spaces, NEW block
  PROVE  /\ BlocksAt(h, addr) # {} => Min(BlocksAt(h, addr)) \in BlocksAt(h, addr)
         /\ Adjacent(spaces, block) # {} => Min(Adjacent(spaces, block)) \in Adjacent(spaces, block)
         /\ UnusedSpaces(spaces) # {} => Min(UnusedSpaces(spaces)) \in UnusedSpaces(spaces)
<1>1. /\ BlocksAt(h, addr) \in SUBSET Nat
      /\ Adjacent(spaces, block) \in SUBSET Nat
      /\ UnusedSpaces(spaces) \in SUBSET Nat
  BY SizesAssumption DEF BlocksAt, Adjacent, UnusedSpaces, Spaces, Slots
<1> QED
  BY <1>1, MinMember

(* What a successful malloc_heap does, with the two searches resolved.     *)
LEMMA MallocEffect ==
  ASSUME NEW h \in Heaps, NEW size \in Nat, HeapTypeOK, MallocHeap(h, size)
  PROVE  \E i \in Spaces, a \in Slots :
           /\ size > 0
           /\ freespace[h][i].size >= size
           /\ allocations[h][a].size = 0
           /\ freespace' = [freespace EXCEPT ![h][i] = Shrink(@, size)]
           /\ allocations' = [allocations EXCEPT ![h][a] =
                                [addr |-> freespace[h][i].addr, size |-> size]]
<1> DEFINE i == Min(Fitting(h, size))
           a == Min(FreeSlots(h))
<1>1. i \in Fitting(h, size) /\ a \in FreeSlots(h)
  BY MallocIndices DEF MallocHeap
<1>2. /\ i \in Spaces /\ freespace[h][i].size >= size
      /\ a \in Slots /\ allocations[h][a].size = 0
  BY <1>1 DEF Fitting, FreeSlots
<1>3. /\ freespace' = [freespace EXCEPT ![h][i] = Shrink(@, size)]
      /\ allocations' = [allocations EXCEPT ![h][a] =
                           [addr |-> freespace[h][i].addr, size |-> size]]
      /\ size > 0
  BY DEF MallocHeap
<1> QED
  BY <1>2, <1>3

(* What a malloc_heap that finds the allocation table full does.           *)
LEMMA NoSlotEffect ==
  ASSUME NEW h \in Heaps, NEW size \in Nat, HeapTypeOK, MallocNoSlot(h, size)
  PROVE  \E i \in Spaces :
           /\ freespace[h][i].size >= size
           /\ freespace' = [freespace EXCEPT ![h][i] = Shrink(@, size)]
           /\ UNCHANGED allocations
<1> DEFINE i == Min(Fitting(h, size))
<1>1. i \in Spaces /\ freespace[h][i].size >= size
  BY MallocIndices DEF MallocNoSlot, Fitting
<1> QED
  BY <1>1 DEF MallocNoSlot

(* What free does to the tables: the block at addr leaves the allocation   *)
(* table and grows one adjacent range, fills one unused entry, or is lost. *)
LEMMA FreeEffect ==
  ASSUME NEW h \in Heaps, NEW addr \in Nat, HeapTypeOK, Free(h, addr)
  PROVE  \E a \in Slots :
           /\ InHeap(h, addr)
           /\ allocations[h][a].addr = addr
           /\ allocations' = [allocations EXCEPT ![h][a] = Unused]
           /\ \/ \E i \in Spaces :
                   /\ \/ Behind(allocations[h][a], freespace[h][i])
                      \/ After(allocations[h][a], freespace[h][i])
                   /\ freespace' = [freespace EXCEPT ![h][i] = Grow(@, allocations[h][a])]
              \/ \E i \in Spaces :
                   /\ freespace[h][i].size = 0
                   /\ freespace' = [freespace EXCEPT ![h][i] = allocations[h][a]]
              \/ freespace' = freespace /\ UnusedSpaces(freespace[h]) = {}
<1> DEFINE a == Min(BlocksAt(h, addr))
           block == allocations[h][a]
           spaces == freespace[h]
<1>1. a \in Slots /\ allocations[h][a].addr = addr /\ InHeap(h, addr)
  BY FreeIndices DEF Free, BlocksAt
<1>2. /\ allocations' = [allocations EXCEPT ![h][a] = Unused]
      /\ freespace' = [freespace EXCEPT ![h] = GiveBack(spaces, block)]
  BY DEF Free, HeapTypeOK
<1>3. spaces \in [Spaces -> mem_t]
  BY DEF HeapTypeOK
<1>4. CASE Adjacent(spaces, block) # {}
  <2> DEFINE i == Min(Adjacent(spaces, block))
  <2>1. i \in Spaces /\ (Behind(block, spaces[i]) \/ After(block, spaces[i]))
    BY <1>4, FreeIndices DEF Adjacent
  <2>2. GiveBack(spaces, block) = [spaces EXCEPT ![i] = Grow(@, block)]
    BY <1>4 DEF GiveBack
  <2>3. freespace' = [freespace EXCEPT ![h][i] = Grow(@, block)]
    BY <1>2, <1>3, <2>1, <2>2 DEF HeapTypeOK
  <2> QED
    BY <1>1, <1>2, <2>1, <2>3
<1>5. CASE Adjacent(spaces, block) = {} /\ UnusedSpaces(spaces) # {}
  <2> DEFINE i == Min(UnusedSpaces(spaces))
  <2>1. i \in Spaces /\ spaces[i].size = 0
    BY <1>5, FreeIndices DEF UnusedSpaces
  <2>2. GiveBack(spaces, block) = [spaces EXCEPT ![i] = block]
    BY <1>5 DEF GiveBack
  <2>3. freespace' = [freespace EXCEPT ![h][i] = block]
    BY <1>2, <1>3, <2>1, <2>2 DEF HeapTypeOK
  <2> QED
    BY <1>1, <1>2, <2>1, <2>3
<1>6. CASE Adjacent(spaces, block) = {} /\ UnusedSpaces(spaces) = {}
  <2>1. GiveBack(spaces, block) = spaces
    BY <1>6 DEF GiveBack
  <2>2. freespace' = freespace
    BY <1>2, <2>1 DEF HeapTypeOK
  <2> QED
    BY <1>1, <1>2, <1>6, <2>2
<1> QED
  BY <1>4, <1>5, <1>6

-----------------------------------------------------------------------------
(* Whatever malloc_heap and free are called with, the searches never index *)
(* past a table and no size or address goes below zero.                    *)
LEMMA HeapTypeKept ==
  ASSUME HeapTypeOK, [HeapNext]_heapVars
  PROVE  HeapTypeOK'
<1>1. ASSUME NEW h \in Heaps, NEW size \in Requests, MallocHeap(h, size)
      PROVE  HeapTypeOK'
  <2>1. size \in Nat
    BY SizesAssumption
  <2>2. PICK i \in Spaces, a \in Slots :
          /\ freespace[h][i].size >= size
          /\ freespace' = [freespace EXCEPT ![h][i] = Shrink(@, size)]
          /\ allocations' = [allocations EXCEPT ![h][a] =
                               [addr |-> freespace[h][i].addr, size |-> size]]
    BY <1>1, <2>1, MallocEffect
  <2>3. freespace[h][i] \in mem_t /\ Shrink(freespace[h][i], size) \in mem_t
    BY <2>1, <2>2 DEF HeapTypeOK, Shrink, mem_t
  <2>4. [addr |-> freespace[h][i].addr, size |-> size] \in mem_t
    BY <2>1, <2>3 DEF mem_t
  <2> QED
    BY <2>2, <2>3, <2>4 DEF HeapTypeOK
<1>2. ASSUME NEW h \in Heaps, NEW size \in Requests, MallocNoSlot(h, size)
      PROVE  HeapTypeOK'
  <2>1. size \in Nat
    BY SizesAssumption
  <2>2. PICK i \in Spaces :
          /\ freespace[h][i].size >= size
          /\ freespace' = [freespace EXCEPT ![h][i] = Shrink(@, size)]
          /\ UNCHANGED allocations
    BY <1>2, <2>1, NoSlotEffect
  <2>3. freespace[h][i] \in mem_t /\ Shrink(freespace[h][i], size) \in mem_t
    BY <2>1, <2>2 DEF HeapTypeOK, Shrink, mem_t
  <2> QED
    BY <2>2, <2>3 DEF HeapTypeOK
<1>3. ASSUME NEW h \in Heaps, NEW addr \in Pointers, Free(h, addr)
      PROVE  HeapTypeOK'
  <2>1. addr \in Nat
    BY SizesAssumption
  <2>2. PICK a \in Slots :
          /\ allocations' = [allocations EXCEPT ![h][a] = Unused]
          /\ \/ \E i \in Spaces :
                  /\ \/ Behind(allocations[h][a], freespace[h][i])
                     \/ After(allocations[h][a], freespace[h][i])
                  /\ freespace' = [freespace EXCEPT ![h][i] = Grow(@, allocations[h][a])]
             \/ \E i \in Spaces : freespace' = [freespace EXCEPT ![h][i] = allocations[h][a]]
             \/ freespace' = freespace
    BY <1>3, <2>1, FreeEffect
  <2>3. allocations[h][a] \in mem_t /\ Unused \in mem_t
    BY DEF HeapTypeOK, mem_t, Unused
  <2>4. \A i \in Spaces : Grow(freespace[h][i], allocations[h][a]) \in mem_t
    BY <2>3 DEF HeapTypeOK, mem_t, Grow, Behind
  <2>5. freespace' \in [Heaps -> [Spaces -> mem_t]]
    <3>1. ASSUME NEW i \in Spaces, NEW e \in mem_t,
                 freespace' = [freespace EXCEPT ![h][i] = e]
          PROVE  freespace' \in [Heaps -> [Spaces -> mem_t]]
      BY <3>1 DEF HeapTypeOK
    <3> QED
      BY <2>2, <2>3, <2>4, <3>1 DEF HeapTypeOK
  <2>6. allocations' \in [Heaps -> [Slots -> mem_t]]
    BY <2>2, <2>3 DEF HeapTypeOK
  <2> QED
    BY <2>5, <2>6 DEF HeapTypeOK
<1>4. CASE UNCHANGED heapVars
  BY <1>4 DEF HeapTypeOK, heapVars
<1> QED
  BY <1>1, <1>2, <1>3, <1>4 DEF HeapNext, MallocRefused, FreeIgnored

-----------------------------------------------------------------------------
(* malloc_heap keeps the books: the block it cuts off a free range was     *)
(* free, so it meets no live block, and the rest of the range shrinks away *)
(* from it.                                                                *)
LEMMA MallocBalances ==
  ASSUME NEW h \in Heaps, NEW size \in Nat, HeapTypeOK, BooksBalance, MallocHeap(h, size)
  PROVE  BooksBalance'
<1>1. PICK i \in Spaces, a \in Slots :
        /\ size > 0
        /\ freespace[h][i].size >= size
        /\ allocations[h][a].size = 0
        /\ freespace' = [freespace EXCEPT ![h][i] = Shrink(@, size)]
        /\ allocations' = [allocations EXCEPT ![h][a] =
                             [addr |-> freespace[h][i].addr, size |-> size]]
  BY MallocEffect
<1>2. \A g \in Heaps \ {h} : freespace'[g] = freespace[g] /\ allocations'[g] = allocations[g]
  BY <1>1 DEF HeapTypeOK
<1>3. /\ freespace'[h][i] = Shrink(freespace[h][i], size)
      /\ \A j \in Spaces \ {i} : freespace'[h][j] = freespace[h][j]
      /\ allocations'[h][a] = [addr |-> freespace[h][i].addr, size |-> size]
      /\ \A b \in Slots \ {a} : allocations'[h][b] = allocations[h][b]
  BY <1>1 DEF HeapTypeOK
<1>4. /\ \A j \in Spaces : freespace[h][j] \in mem_t
      /\ \A b \in Slots : allocations[h][b] \in mem_t
      /\ HeapBase[h] \in Nat /\ HeapEnd[h] \in Nat
  BY HeapsAssumption DEF HeapTypeOK
<1>5. TablesWithin(h) /\ LiveApart(h) /\ LiveNotFree(h) /\ FreeApart(h)
  BY DEF BooksBalance
<1>6. TablesWithin(h)'
  BY <1>1, <1>3, <1>4, <1>5 DEF TablesWithin, Within, Shrink, mem_t
<1>7. LiveApart(h)'
  BY <1>1, <1>3, <1>4, <1>5 DEF LiveApart, LiveNotFree, Apart, mem_t
<1>8. LiveNotFree(h)'
  BY <1>1, <1>3, <1>4, <1>5 DEF LiveNotFree, FreeApart, Apart, Shrink, mem_t
<1>9. FreeApart(h)'
  BY <1>1, <1>3, <1>4, <1>5 DEF FreeApart, Apart, Shrink, mem_t
<1> QED
  BY <1>2, <1>6, <1>7, <1>8, <1>9
  DEF BooksBalance, TablesWithin, LiveApart, LiveNotFree, FreeApart

(* A malloc_heap that finds no slot only loses bytes.                      *)
LEMMA NoSlotBalances ==
  ASSUME NEW h \in Heaps, NEW size \in Nat, HeapTypeOK, BooksBalance, MallocNoSlot(h, size)
  PROVE  BooksBalance'
<1>1. PICK i \in Spaces :
        /\ freespace[h][i].size >= size
        /\ freespace' = [freespace EXCEPT ![h][i] = Shrink(@, size)]
        /\ UNCHANGED allocations
  BY NoSlotEffect
<1>2. \A g \in Heaps \ {h} : freespace'[g] = freespace[g] /\ allocations'[g] = allocations[g]
  BY <1>1 DEF HeapTypeOK
<1>3. /\ freespace'[h][i] = Shrink(freespace[h][i], size)
      /\ \A j \in Spaces \ {i} : freespace'[h][j] = freespace[h][j]
      /\ allocations'[h] = allocations[h]
  BY <1>1 DEF HeapTypeOK
<1>4. /\ \A j \in Spaces : freespace[h][j] \in mem_t
      /\ \A b \in Slots : allocations[h][b] \in mem_t
      /\ HeapBase[h] \in Nat /\ HeapEnd[h] \in Nat
  BY HeapsAssumption DEF HeapTypeOK
<1>5. TablesWithin(h) /\ LiveApart(h) /\ LiveNotFree(h) /\ FreeApart(h)
  BY DEF BooksBalance
<1>6. TablesWithin(h)' /\ LiveApart(h)'
  BY <1>1, <1>3, <1>4, <1>5 DEF TablesWithin, Within, LiveApart, Apart, Shrink, mem_t
<1>7. LiveNotFree(h)'
  BY <1>1, <1>3, <1>4, <1>5 DEF LiveNotFree, Apart, Shrink, mem_t
<1>8. FreeApart(h)'
  BY <1>1, <1>3, <1>4, <1>5 DEF FreeApart, Apart, Shrink, mem_t
<1> QED
  BY <1>2, <1>6, <1>7, <1>8
  DEF BooksBalance, TablesWithin, LiveApart, LiveNotFree, FreeApart

(* free keeps the books: the bytes it returns were live, hence in no free  *)
(* range, and a range grows exactly by the block next to it.               *)
LEMMA FreeBalances ==
  ASSUME NEW h \in Heaps, NEW addr \in Nat, HeapTypeOK, BooksBalance, Free(h, addr)
  PROVE  BooksBalance'
<1>1. PICK a \in Slots :
        /\ InHeap(h, addr)
        /\ allocations[h][a].addr = addr
        /\ allocations' = [allocations EXCEPT ![h][a] = Unused]
        /\ \/ \E i \in Spaces :
                /\ \/ Behind(allocations[h][a], freespace[h][i])
                   \/ After(allocations[h][a], freespace[h][i])
                /\ freespace' = [freespace EXCEPT ![h][i] = Grow(@, allocations[h][a])]
           \/ \E i \in Spaces :
                /\ freespace[h][i].size = 0
                /\ freespace' = [freespace EXCEPT ![h][i] = allocations[h][a]]
           \/ freespace' = freespace
  BY FreeEffect
<1> DEFINE block == allocations[h][a]
<1>2. \A g \in Heaps \ {h} : freespace'[g] = freespace[g] /\ allocations'[g] = allocations[g]
  BY <1>1 DEF HeapTypeOK
<1>3. /\ allocations'[h][a] = Unused
      /\ \A b \in Slots \ {a} : allocations'[h][b] = allocations[h][b]
  BY <1>1 DEF HeapTypeOK
<1>4. /\ \A j \in Spaces : freespace[h][j] \in mem_t
      /\ \A b \in Slots : allocations[h][b] \in mem_t
      /\ HeapBase[h] \in Nat \ {0} /\ HeapEnd[h] \in Nat
  BY HeapsAssumption DEF HeapTypeOK
<1>5. TablesWithin(h) /\ LiveApart(h) /\ LiveNotFree(h) /\ FreeApart(h)
  BY DEF BooksBalance
<1>6. block.size > 0
  BY <1>1, <1>4, <1>5 DEF TablesWithin, InHeap, mem_t
<1>7. \/ freespace'[h] = freespace[h]
      \/ \E i \in Spaces, e \in mem_t :
           /\ freespace'[h][i] = e
           /\ \A j \in Spaces \ {i} : freespace'[h][j] = freespace[h][j]
           /\ e.size = freespace[h][i].size + block.size
           /\ \/ freespace[h][i].size = 0 /\ e.addr = block.addr
              \/ block.addr + block.size = freespace[h][i].addr /\ e.addr = block.addr
              \/ block.addr = freespace[h][i].addr + freespace[h][i].size
                 /\ e.addr = freespace[h][i].addr
  <2>1. ASSUME NEW i \in Spaces, NEW e,
               freespace' = [freespace EXCEPT ![h][i] = e]
        PROVE  /\ freespace'[h][i] = e
               /\ \A j \in Spaces \ {i} : freespace'[h][j] = freespace[h][j]
    BY <2>1 DEF HeapTypeOK
  <2>2. ASSUME NEW i \in Spaces,
               Behind(block, freespace[h][i]) \/ After(block, freespace[h][i])
        PROVE  LET e == Grow(freespace[h][i], block)
               IN  /\ e \in mem_t
                   /\ e.size = freespace[h][i].size + block.size
                   /\ \/ block.addr + block.size = freespace[h][i].addr /\ e.addr = block.addr
                      \/ block.addr = freespace[h][i].addr + freespace[h][i].size
                         /\ e.addr = freespace[h][i].addr
    BY <2>2, <1>4 DEF Behind, After, Grow, mem_t
  <2>3. CASE \E i \in Spaces :
               /\ Behind(block, freespace[h][i]) \/ After(block, freespace[h][i])
               /\ freespace' = [freespace EXCEPT ![h][i] = Grow(@, block)]
    <3>1. PICK i \in Spaces :
            /\ Behind(block, freespace[h][i]) \/ After(block, freespace[h][i])
            /\ freespace' = [freespace EXCEPT ![h][i] = Grow(@, block)]
      BY <2>3
    <3> DEFINE e == Grow(freespace[h][i], block)
    <3>2. /\ freespace'[h][i] = e
          /\ \A j \in Spaces \ {i} : freespace'[h][j] = freespace[h][j]
      BY <2>1, <3>1
    <3>3. /\ e \in mem_t
          /\ e.size = freespace[h][i].size + block.size
          /\ \/ block.addr + block.size = freespace[h][i].addr /\ e.addr = block.addr
             \/ block.addr = freespace[h][i].addr + freespace[h][i].size
                /\ e.addr = freespace[h][i].addr
      BY <2>2, <3>1
    <3> HIDE DEF e
    <3> QED
      BY <3>2, <3>3
  <2>4. CASE \E i \in Spaces :
               /\ freespace[h][i].size = 0
               /\ freespace' = [freespace EXCEPT ![h][i] = block]
    <3>1. PICK i \in Spaces :
            /\ freespace[h][i].size = 0
            /\ freespace' = [freespace EXCEPT ![h][i] = block]
      BY <2>4
    <3>2. /\ freespace'[h][i] = block
          /\ \A j \in Spaces \ {i} : freespace'[h][j] = freespace[h][j]
      BY <2>1, <3>1
    <3>3. block \in mem_t /\ block.size = freespace[h][i].size + block.size
      BY <1>4, <3>1 DEF mem_t
    <3> QED
      BY <3>1, <3>2, <3>3
  <2> QED
    BY <1>1, <2>3, <2>4
<1>8. CASE freespace'[h] = freespace[h]
  BY <1>2, <1>3, <1>4, <1>5, <1>8, SMTT(30)
  DEF BooksBalance, TablesWithin, LiveApart, LiveNotFree, FreeApart, Within, Apart, Unused
<1>9. ASSUME NEW i \in Spaces, NEW e \in mem_t,
             freespace'[h][i] = e,
             \A j \in Spaces \ {i} : freespace'[h][j] = freespace[h][j],
             e.size = freespace[h][i].size + block.size,
             \/ freespace[h][i].size = 0 /\ e.addr = block.addr
             \/ block.addr + block.size = freespace[h][i].addr /\ e.addr = block.addr
             \/ block.addr = freespace[h][i].addr + freespace[h][i].size
                /\ e.addr = freespace[h][i].addr
      PROVE  BooksBalance'
  <2>1. TablesWithin(h)'
    BY <1>3, <1>4, <1>5, <1>6, <1>9 DEF TablesWithin, Within, Unused, mem_t
  <2>2. LiveApart(h)'
    BY <1>3, <1>5 DEF LiveApart, Apart, Unused
  <2>3. LiveNotFree(h)'
    <3>1. \A b \in Slots \ {a} : Apart(allocations[h][b], e)
      BY <1>4, <1>5, <1>6, <1>9 DEF LiveApart, LiveNotFree, Apart, mem_t
    <3> QED
      BY <1>3, <1>5, <1>9, <3>1 DEF LiveNotFree, Apart, Unused
  <2>4. FreeApart(h)'
    <3>1. \A j \in Spaces \ {i} : Apart(freespace[h][j], e) /\ Apart(e, freespace[h][j])
      BY <1>4, <1>5, <1>6, <1>9 DEF FreeApart, LiveNotFree, Apart, mem_t
    <3> QED
      BY <1>5, <1>9, <3>1 DEF FreeApart
  <2> QED
    BY <1>2, <2>1, <2>2, <2>3, <2>4
    DEF BooksBalance, TablesWithin, LiveApart, LiveNotFree, FreeApart
<1> QED
  BY <1>7, <1>8, <1>9

(* malloc_heap and free keep the books.                                    *)
LEMMA BooksKept ==
  ASSUME HeapTypeOK, BooksBalance, [HeapNext]_heapVars
  PROVE  BooksBalance'
<1>1. \A h \in Heaps, size \in Requests : MallocHeap(h, size) => BooksBalance'
  BY MallocBalances, SizesAssumption
<1>2. \A h \in Heaps, size \in Requests : MallocNoSlot(h, size) => BooksBalance'
  BY NoSlotBalances, SizesAssumption
<1>3. \A h \in Heaps, addr \in Pointers : Free(h, addr) => BooksBalance'
  BY FreeBalances, SizesAssumption
<1>4. CASE UNCHANGED heapVars
  BY <1>4 DEF heapVars, BooksBalance, TablesWithin, LiveApart, LiveNotFree, FreeApart
<1> QED
  BY <1>1, <1>2, <1>3, <1>4 DEF HeapNext, MallocRefused, FreeIgnored

-----------------------------------------------------------------------------
(* The tables implement the abstract allocator                             *)

(* The block that malloc_heap records is new to its callers and clear of   *)
(* every block they hold.                                                  *)
LEMMA MallocRefines ==
  ASSUME NEW h \in Heaps, NEW size \in Requests, HeapTypeOK, BooksBalance, MallocHeap(h, size)
  PROVE  AbsHeap!Next
<1>1. size \in Nat
  BY SizesAssumption
<1>2. PICK i \in Spaces, a \in Slots :
        /\ size > 0
        /\ freespace[h][i].size >= size
        /\ allocations[h][a].size = 0
        /\ freespace' = [freespace EXCEPT ![h][i] = Shrink(@, size)]
        /\ allocations' = [allocations EXCEPT ![h][a] =
                             [addr |-> freespace[h][i].addr, size |-> size]]
  BY <1>1, MallocEffect
<1> DEFINE b == [heap |-> h, addr |-> freespace[h][i].addr, size |-> size]
<1>3. /\ \A g \in Heaps, c \in Slots : allocations[g][c] \in mem_t
      /\ freespace[h][i] \in mem_t
      /\ HeapBase[h] \in Nat /\ HeapEnd[h] \in Nat
  BY HeapsAssumption DEF HeapTypeOK
<1>4. /\ HeapBase[h] <= b.addr
      /\ b.addr + b.size <= HeapEnd[h]
  BY <1>1, <1>2, <1>3 DEF BooksBalance, TablesWithin, Within, mem_t
<1>5. ASSUME NEW c \in LiveBlocks PROVE AbsHeap!Clear(b, c)
  <2>1. PICK x \in LiveSlots : c = [heap |-> x[1],
                                   addr |-> allocations[x[1]][x[2]].addr,
                                   size |-> allocations[x[1]][x[2]].size]
    BY DEF LiveBlocks
  <2>2. x[1] \in Heaps /\ x[2] \in Slots /\ allocations[x[1]][x[2]].size # 0
    BY DEF LiveSlots
  <2>3. CASE x[1] = h
    <3>1. Apart(allocations[h][x[2]], freespace[h][i])
      BY <2>2 DEF BooksBalance, LiveNotFree
    <3>2. \/ c.addr + c.size <= freespace[h][i].addr
          \/ freespace[h][i].addr + freespace[h][i].size <= c.addr
      BY <1>1, <1>2, <1>3, <2>1, <2>2, <2>3, <3>1 DEF Apart, mem_t
    <3>3. c.addr \in Nat /\ c.size \in Nat
      BY <1>3, <2>1, <2>2 DEF mem_t
    <3> QED
      BY <1>1, <1>2, <1>3, <3>2, <3>3 DEF AbsHeap!Clear, mem_t
  <2>4. CASE x[1] # h
    BY <2>1, <2>4 DEF AbsHeap!Clear
  <2> QED
    BY <2>3, <2>4
<1>6. LiveBlocks' = LiveBlocks \cup {b}
  <2>1. LiveSlots' = LiveSlots \cup {<<h, a>>}
    BY <1>1, <1>2, <1>3 DEF LiveSlots, HeapTypeOK
  <2>2. \A x \in LiveSlots : allocations'[x[1]][x[2]] = allocations[x[1]][x[2]]
    BY <1>2 DEF LiveSlots, HeapTypeOK
  <2>3. allocations'[h][a] = [addr |-> freespace[h][i].addr, size |-> size]
    BY <1>2 DEF HeapTypeOK
  <2> DEFINE was(x) == [heap |-> x[1], addr |-> allocations[x[1]][x[2]].addr,
                        size |-> allocations[x[1]][x[2]].size]
             is(x) == [heap |-> x[1], addr |-> allocations'[x[1]][x[2]].addr,
                       size |-> allocations'[x[1]][x[2]].size]
  <2>4. LiveBlocks = {was(x) : x \in LiveSlots} /\ LiveBlocks' = {is(x) : x \in LiveSlots'}
    BY DEF LiveBlocks
  <2>5. (\A x \in LiveSlots : is(x) = was(x)) /\ is(<<h, a>>) = b
    BY <2>2, <2>3
  <2> HIDE DEF was, is, b
  <2> QED
    BY <2>1, <2>4, <2>5
<1>7. AbsHeap!Malloc(b)
  BY <1>4, <1>5, <1>6 DEF AbsHeap!Malloc
<1>8. freespace[h][i].addr \in HeapBase[h] .. HeapEnd[h]
  BY <1>1, <1>3, <1>4 DEF mem_t
<1> QED
  BY <1>1, <1>2, <1>7, <1>8 DEF AbsHeap!Next, AbsHeap!Heaps, Heaps

(* free takes exactly the block at its address from its callers.           *)
LEMMA FreeRefines ==
  ASSUME NEW h \in Heaps, NEW addr \in Nat, HeapTypeOK, BooksBalance, Free(h, addr)
  PROVE  AbsHeap!Next
<1>1. PICK a \in Slots :
        /\ InHeap(h, addr)
        /\ allocations[h][a].addr = addr
        /\ allocations' = [allocations EXCEPT ![h][a] = Unused]
  BY FreeEffect
<1> DEFINE b == [heap |-> h, addr |-> addr, size |-> allocations[h][a].size]
<1>2. /\ \A g \in Heaps, c \in Slots : allocations[g][c] \in mem_t
      /\ HeapBase[h] \in Nat \ {0}
  BY HeapsAssumption DEF HeapTypeOK
<1>3. allocations[h][a].size # 0
  BY <1>1, <1>2 DEF BooksBalance, TablesWithin, InHeap, mem_t
<1>4. <<h, a>> \in LiveSlots /\ b \in LiveBlocks
  BY <1>1, <1>3 DEF LiveSlots, LiveBlocks
<1>5. LiveSlots' = LiveSlots \ {<<h, a>>}
  BY <1>1, <1>2 DEF LiveSlots, HeapTypeOK, Unused
<1>6. \A x \in LiveSlots' : allocations'[x[1]][x[2]] = allocations[x[1]][x[2]]
  BY <1>1, <1>5 DEF LiveSlots, HeapTypeOK
<1>7. ASSUME NEW x \in LiveSlots, x # <<h, a>>
      PROVE  b # [heap |-> x[1], addr |-> allocations[x[1]][x[2]].addr,
                  size |-> allocations[x[1]][x[2]].size]
  <2>1. x[1] \in Heaps /\ x[2] \in Slots /\ x = <<x[1], x[2]>>
    BY DEF LiveSlots
  <2>2. CASE x[1] = h
    <3>1. x[2] # a /\ Apart(allocations[h][x[2]], allocations[h][a])
      BY <1>7, <2>1, <2>2 DEF BooksBalance, LiveApart
    <3>2. allocations[h][x[2]].addr # addr
      BY <1>1, <1>2, <1>3, <2>1, <2>2, <3>1 DEF Apart, LiveSlots, mem_t
    <3> QED
      BY <2>2, <3>2
  <2>3. CASE x[1] # h
    BY <2>3
  <2> QED
    BY <2>2, <2>3
<1>8. LiveBlocks' = LiveBlocks \ {b}
  BY <1>1, <1>5, <1>6, <1>7 DEF LiveBlocks
<1> QED
  BY <1>4, <1>8 DEF AbsHeap!Next, AbsHeap!Free

(* A call hands out one block clear of all others, takes one back, or      *)
(* changes nothing.                                                        *)
LEMMA HeapRefines ==
  ASSUME HeapTypeOK, BooksBalance, [HeapNext]_heapVars
  PROVE  [AbsHeap!Next]_LiveBlocks
<1>1. \A h \in Heaps, size \in Requests : MallocHeap(h, size) => AbsHeap!Next
  BY MallocRefines
<1>2. \A h \in Heaps, addr \in Pointers : Free(h, addr) => AbsHeap!Next
  BY FreeRefines, SizesAssumption
<1>3. CASE UNCHANGED allocations
  BY <1>3 DEF LiveBlocks, LiveSlots
<1> QED
  BY <1>1, <1>2, <1>3 DEF HeapNext, MallocNoSlot, MallocRefused, FreeIgnored, heapVars

-----------------------------------------------------------------------------
(* refresh_freespace                                                       *)

(* The turns of the inner loop, the last of which leaves what Sweep is.    *)
LEMMA SweepTurns ==
  ASSUME NEW spaces, NEW j
  PROVE  \E after :
           /\ Sweep(spaces, j) = after[FREE_SPACES]
           /\ after[0] = spaces
           /\ \A k \in Spaces :
                after[k + 1] = Absorb(after[k], j, k, spaces[j].addr + spaces[j].size)
<1> DEFINE n == FREE_SPACES
           end == spaces[j].addr + spaces[j].size
           Turn(f, k) == IF k = 0 THEN spaces ELSE Absorb(f[k - 1], j, k - 1, end)
           after == CHOOSE f : f = [k \in 0 .. n |-> Turn(f, k)]
           Reached == {k \in Nat : \E f : f = [l \in 0 .. k |-> Turn(f, l)]}
<1>1. n \in Nat /\ Spaces = 0 .. n - 1
  BY SizesAssumption DEF Spaces
<1>2. Sweep(spaces, j) = after[n]
  BY DEF Sweep
<1> HIDE DEF n, end
<1>3. \A f, g, k : k = 0 \/ f[k - 1] = g[k - 1] => Turn(f, k) = Turn(g, k)
  BY Zenon
<1>4. \A f : Turn(f, 0) = spaces
  BY Zenon
<1>5. \A f : \A k \in 0 .. n - 1 : Turn(f, k + 1) = Absorb(f[k], j, k, end)
  <2>1. \A k \in 0 .. n - 1 : k + 1 # 0 /\ (k + 1) - 1 = k
    OBVIOUS
  <2> QED
    BY <2>1
<1> HIDE DEF Turn
<1>6. 0 \in Reached
  <2> DEFINE g == [k \in 0 .. 0 |-> Turn(0, k)]
  <2>1. \A k \in 0 .. 0 : Turn(0, k) = Turn(g, k)
    BY <1>3
  <2>2. g = [k \in 0 .. 0 |-> Turn(g, k)]
    BY <2>1
  <2> QED
    BY <2>2
<1>7. ASSUME NEW m \in Nat, m \in Reached PROVE m + 1 \in Reached
  <2>1. PICK f : f = [k \in 0 .. m |-> Turn(f, k)]
    BY <1>7
  <2> DEFINE g == [k \in 0 .. m + 1 |-> Turn(f, k)]
  <2>2. \A k \in 0 .. m : f[k] = g[k]
    BY <2>1
  <2>3. \A k \in 0 .. m + 1 : k = 0 \/ k - 1 \in 0 .. m
    OBVIOUS
  <2> HIDE DEF g
  <2>4. \A k \in 0 .. m + 1 : Turn(f, k) = Turn(g, k)
    BY <1>3, <2>2, <2>3
  <2>5. g = [k \in 0 .. m + 1 |-> Turn(g, k)]
    BY <2>4 DEF g
  <2> QED
    BY <2>5
<1>8. n \in Reached
  <2> HIDE DEF Reached
  <2>1. \A k \in 0 .. n - 1 : k \in Reached => k + 1 \in Reached
    BY <1>1, <1>7
  <2>2. n \in 0 .. n
    BY <1>1
  <2> QED
    BY <1>1, <1>6, <2>1, <2>2, Turns
<1>9. after = [k \in 0 .. n |-> Turn(after, k)]
  BY <1>8
<1> HIDE DEF after
<1>10. after[0] = spaces /\ \A k \in 0 .. n - 1 : after[k + 1] = Absorb(after[k], j, k, end)
  BY <1>1, <1>4, <1>5, <1>9
<1> QED
  BY <1>1, <1>2, <1>10 DEF n, end

(* The turns of the outer loop.                                            *)
LEMMA RefreshTurns ==
  ASSUME NEW spaces
  PROVE  \E after :
           /\ Refreshed(spaces) = after[FREE_SPACES]
           /\ after[0] = spaces
           /\ \A j \in Spaces : after[j + 1] = Sweep(after[j], j)
<1> DEFINE n == FREE_SPACES
           Turn(f, k) == IF k = 0 THEN spaces ELSE Sweep(f[k - 1], k - 1)
           after == CHOOSE f : f = [k \in 0 .. n |-> Turn(f, k)]
           Reached == {k \in Nat : \E f : f = [l \in 0 .. k |-> Turn(f, l)]}
<1>1. n \in Nat /\ Spaces = 0 .. n - 1
  BY SizesAssumption DEF Spaces
<1>2. Refreshed(spaces) = after[n]
  BY DEF Refreshed
<1> HIDE DEF n
<1>3. \A f, g, k : k = 0 \/ f[k - 1] = g[k - 1] => Turn(f, k) = Turn(g, k)
  BY Zenon
<1>4. \A f : Turn(f, 0) = spaces
  BY Zenon
<1>5. \A f : \A k \in 0 .. n - 1 : Turn(f, k + 1) = Sweep(f[k], k)
  <2>1. \A k \in 0 .. n - 1 : k + 1 # 0 /\ (k + 1) - 1 = k
    OBVIOUS
  <2> QED
    BY <2>1
<1> HIDE DEF Turn
<1>6. 0 \in Reached
  <2> DEFINE g == [k \in 0 .. 0 |-> Turn(0, k)]
  <2>1. \A k \in 0 .. 0 : Turn(0, k) = Turn(g, k)
    BY <1>3
  <2>2. g = [k \in 0 .. 0 |-> Turn(g, k)]
    BY <2>1
  <2> QED
    BY <2>2
<1>7. ASSUME NEW m \in Nat, m \in Reached PROVE m + 1 \in Reached
  <2>1. PICK f : f = [k \in 0 .. m |-> Turn(f, k)]
    BY <1>7
  <2> DEFINE g == [k \in 0 .. m + 1 |-> Turn(f, k)]
  <2>2. \A k \in 0 .. m : f[k] = g[k]
    BY <2>1
  <2>3. \A k \in 0 .. m + 1 : k = 0 \/ k - 1 \in 0 .. m
    OBVIOUS
  <2> HIDE DEF g
  <2>4. \A k \in 0 .. m + 1 : Turn(f, k) = Turn(g, k)
    BY <1>3, <2>2, <2>3
  <2>5. g = [k \in 0 .. m + 1 |-> Turn(g, k)]
    BY <2>4 DEF g
  <2> QED
    BY <2>5
<1>8. n \in Reached
  <2> HIDE DEF Reached
  <2>1. \A k \in 0 .. n - 1 : k \in Reached => k + 1 \in Reached
    BY <1>1, <1>7
  <2>2. n \in 0 .. n
    BY <1>1
  <2> QED
    BY <1>1, <1>6, <2>1, <2>2, Turns
<1>9. after = [k \in 0 .. n |-> Turn(after, k)]
  BY <1>8
<1> HIDE DEF after
<1>10. after[0] = spaces /\ \A k \in 0 .. n - 1 : after[k + 1] = Sweep(after[k], k)
  BY <1>1, <1>4, <1>5, <1>9
<1> QED
  BY <1>1, <1>2, <1>10 DEF n

FreeTables == [Spaces -> mem_t]
End(e) == e.addr + e.size
Empty(e) == e.addr = 0 /\ e.size = 0

(* What one turn of the inner loop does.                                   *)
LEMMA AbsorbEffect ==
  ASSUME NEW t \in FreeTables, NEW j \in Spaces, NEW k \in Spaces, NEW end
  PROVE  /\ Absorb(t, j, k, end) \in FreeTables
         /\ t[k].addr # end => Absorb(t, j, k, end) = t
         /\ t[k].addr = end =>
              /\ \A i \in Spaces \ {j, k} : Absorb(t, j, k, end)[i] = t[i]
              /\ Empty(Absorb(t, j, k, end)[k])
              /\ k # j => /\ Absorb(t, j, k, end)[j].addr = t[j].addr
                          /\ Absorb(t, j, k, end)[j].size = t[j].size + t[k].size
<1>1. CASE t[k].addr # end
  BY <1>1 DEF Absorb
<1>2. CASE t[k].addr = end
  <2> DEFINE grown == [t EXCEPT ![j].size = @ + t[k].size]
             u == [grown EXCEPT ![k] = Unused]
  <2>1. Absorb(t, j, k, end) = u
    BY <1>2 DEF Absorb
  <2>2. t[j] \in mem_t /\ t[k] \in mem_t /\ Unused \in mem_t
    BY DEF FreeTables, mem_t, Unused
  <2>3. /\ grown \in FreeTables /\ grown[j].addr = t[j].addr /\ grown[j].size = t[j].size + t[k].size
        /\ \A i \in Spaces \ {j} : grown[i] = t[i]
    BY <2>2 DEF FreeTables, mem_t
  <2> HIDE DEF grown
  <2>4. u \in FreeTables /\ u[k] = Unused /\ \A i \in Spaces \ {k} : u[i] = grown[i]
    BY <2>2, <2>3 DEF FreeTables
  <2> HIDE DEF u
  <2> QED
    BY <1>2, <2>1, <2>3, <2>4 DEF Empty, Unused
<1> QED
  BY <1>1, <1>2

(* Entries before k that start at end are deleted, the others are as they  *)
(* were.                                                                   *)
Others(s, t, j, k, end) ==
  \A i \in Spaces \ {j} : /\ i < k /\ s[i].addr = end => Empty(t[i])
                          /\ ~(i < k /\ s[i].addr = end) => t[i] = s[i]

(* An entry that is not exhausted takes the one that follows it.           *)
LEMMA SweepJoins ==
  ASSUME NEW s \in FreeTables, NEW j \in Spaces, s[j].size # 0,
         \A p, q \in Spaces : /\ s[p].addr = End(s[j]) /\ s[p].size # 0
                              /\ s[q].addr = End(s[j]) /\ s[q].size # 0
                              => p = q
  PROVE  /\ Sweep(s, j) \in FreeTables
         /\ Others(s, Sweep(s, j), j, FREE_SPACES, End(s[j]))
         /\ Sweep(s, j)[j].addr = s[j].addr
         /\ \A q \in Spaces : s[q].addr = End(s[j]) /\ s[q].size # 0 =>
              Sweep(s, j)[j].size = s[j].size + s[q].size
         /\ (\A q \in Spaces : s[q].addr = End(s[j]) => s[q].size = 0) =>
              Sweep(s, j)[j].size = s[j].size
<1> DEFINE end == End(s[j])
           n == FREE_SPACES
           Hit(q) == s[q].addr = end /\ s[q].size # 0
           Good(t, k) == /\ t \in FreeTables
                         /\ Others(s, t, j, k, end)
                         /\ t[j].addr = s[j].addr
                         /\ \A q \in Spaces : q < k /\ Hit(q) => t[j].size = s[j].size + s[q].size
                         /\ (\A q \in Spaces : q < k => ~Hit(q)) => t[j].size = s[j].size
<1>1. n \in Nat /\ Spaces = 0 .. n - 1
  BY SizesAssumption DEF Spaces
<1>2. PICK after :
        /\ Sweep(s, j) = after[n] /\ after[0] = s
        /\ \A k \in Spaces : after[k + 1] = Absorb(after[k], j, k, end)
  BY SweepTurns DEF End
<1>3. \A i \in Spaces : s[i] \in mem_t /\ s[i].addr \in Nat /\ s[i].size \in Nat
  BY DEF FreeTables, mem_t
<1>4. end \in Nat /\ s[j].addr # end
  <2>1. s[j].addr \in Nat /\ s[j].size \in Nat /\ s[j].size # 0
    BY <1>3
  <2>2. end = s[j].addr + s[j].size
    BY DEF End
  <2> HIDE DEF end
  <2> QED
    BY <2>1, <2>2
<1>5. \A p, q \in Spaces : Hit(p) /\ Hit(q) => p = q
  OBVIOUS
<1> HIDE DEF n, end
<1> DEFINE T == {k \in 0 .. n : Good(after[k], k)}
<1>6. 0 \in T
  <2>1. \A q \in Spaces : ~(q < 0)
    BY <1>1
  <2>2. Good(s, 0)
    BY <2>1 DEF Others
  <2> QED
    BY <1>1, <1>2, <2>2
<1>7. ASSUME NEW k \in 0 .. n - 1, k \in T PROVE k + 1 \in T
  <2> DEFINE t == after[k]
             u == after[k + 1]
  <2>1. k \in Spaces /\ k + 1 \in 0 .. n /\ \A i \in Spaces : i < k + 1 <=> i < k \/ i = k
    BY <1>1
  <2>2. Good(t, k)
    BY <1>7
  <2>3. u = Absorb(t, j, k, end)
    BY <1>2, <2>1
  <2> HIDE DEF T, t, u, Hit
  <2>4. /\ u \in FreeTables
        /\ t[k].addr # end => u = t
        /\ t[k].addr = end =>
             /\ \A i \in Spaces \ {j, k} : u[i] = t[i]
             /\ Empty(u[k])
             /\ k # j => u[j].addr = t[j].addr /\ u[j].size = t[j].size + t[k].size
    BY <2>1, <2>2, <2>3, AbsorbEffect
  <2>5. CASE s[k].addr # end
    <3>1. t[k].addr # end
      <4>1. CASE k = j
        BY <1>4, <2>2, <4>1
      <4>2. CASE k # j
        BY <2>1, <2>2, <2>5, <4>2 DEF Others
      <4> QED
        BY <4>1, <4>2
    <3>2. u = t /\ ~Hit(k)
      BY <2>4, <2>5, <3>1 DEF Hit
    <3>3. Others(s, u, j, k + 1, end)
      BY <2>1, <2>2, <2>5, <3>2 DEF Others
    <3>4. Good(u, k + 1)
      BY <2>1, <2>2, <3>2, <3>3
    <3> QED
      BY <2>1, <3>4 DEF T, u
  <2>6. CASE s[k].addr = end
    <3>1. k # j /\ t[k] = s[k]
      BY <1>4, <2>1, <2>2, <2>6 DEF Others
    <3>2. /\ \A i \in Spaces \ {j, k} : u[i] = t[i]
          /\ Empty(u[k]) /\ u[j].addr = s[j].addr /\ u[j].size = t[j].size + s[k].size
      BY <2>2, <2>4, <2>6, <3>1
    <3>3. Others(s, u, j, k + 1, end)
      BY <2>1, <2>2, <2>6, <3>1, <3>2 DEF Others
    <3>4. CASE s[k].size = 0
      <4>1. ~Hit(k) /\ t[j].size \in Nat
        BY <2>2, <3>4 DEF Hit, FreeTables, mem_t
      <4>2. u[j].size = t[j].size
        BY <3>2, <3>4, <4>1
      <4> QED
        BY <2>1, <2>2, <2>4, <3>2, <3>3, <4>1, <4>2 DEF T, u
    <3>5. CASE s[k].size # 0
      <4>1. Hit(k)
        BY <2>6, <3>5 DEF Hit
      <4>2. \A q \in Spaces : q < k => ~Hit(q)
        BY <1>1, <1>5, <2>1, <4>1
      <4>3. u[j].size = s[j].size + s[k].size
        BY <2>2, <3>2, <4>2
      <4>4. \A q \in Spaces : Hit(q) => q = k
        BY <1>5, <2>1, <4>1
      <4>5. k < k + 1
        BY <1>1
      <4>6. Good(u, k + 1)
        BY <2>1, <2>4, <3>2, <3>3, <4>1, <4>3, <4>4, <4>5
      <4> QED
        BY <2>1, <4>6 DEF T, u
    <3> QED
      BY <3>4, <3>5
  <2> QED
    BY <2>5, <2>6
<1>8. Good(Sweep(s, j), n)
  <2> HIDE DEF T
  <2>1. n \in 0 .. n
    BY <1>1
  <2>2. n \in T
    BY <1>1, <1>6, <1>7, <2>1, Turns
  <2> QED
    BY <1>2, <2>2 DEF T
<1>9. \A q \in Spaces : q < n
  BY <1>1
<1> QED
  BY <1>8, <1>9 DEF n, end

(* An exhausted entry is deleted.  The size of an entry behind it that     *)
(* starts at the same address is then added to what was deleted.           *)
LEMMA SweepDeletes ==
  ASSUME NEW s \in FreeTables, NEW j \in Spaces, s[j].size = 0
  PROVE  /\ Sweep(s, j) \in FreeTables
         /\ Others(s, Sweep(s, j), j, FREE_SPACES, s[j].addr)
         /\ Sweep(s, j)[j].addr = 0
         /\ Sweep(s, j)[j].size # 0 =>
              \E q \in Spaces : q > j /\ s[q].addr = s[j].addr /\ s[q].size # 0
<1> DEFINE end == s[j].addr
           n == FREE_SPACES
           Hit(q) == s[q].addr = end /\ s[q].size # 0
           Good(t, k) == /\ t \in FreeTables
                         /\ Others(s, t, j, k, end)
                         /\ k <= j => t[j].addr = end
                         /\ k > j => t[j].addr = 0
                         /\ k > j /\ t[j].size # 0 => \E q \in Spaces : q > j /\ Hit(q)
<1>1. n \in Nat /\ Spaces = 0 .. n - 1
  BY SizesAssumption DEF Spaces
<1>2. end \in Nat /\ s[j].addr + s[j].size = end
  BY DEF FreeTables, mem_t
<1>3. PICK after :
        /\ Sweep(s, j) = after[n] /\ after[0] = s
        /\ \A k \in Spaces : after[k + 1] = Absorb(after[k], j, k, end)
  BY <1>2, SweepTurns
<1>4. s[j].addr = end
  OBVIOUS
<1> HIDE DEF n, end
<1> DEFINE T == {k \in 0 .. n : Good(after[k], k)}
<1>5. 0 \in T
  <2>1. (\A q \in Spaces : ~(q < 0)) /\ ~(0 > j)
    BY <1>1
  <2>2. Good(s, 0)
    BY <1>4, <2>1 DEF Others
  <2> QED
    BY <1>1, <1>3, <2>2
<1>6. ASSUME NEW k \in 0 .. n - 1, k \in T PROVE k + 1 \in T
  <2> DEFINE t == after[k]
             u == after[k + 1]
  <2>1. k \in Spaces /\ k + 1 \in 0 .. n /\ \A i \in Spaces : i < k + 1 <=> i < k \/ i = k
    BY <1>1
  <2>2. Good(t, k)
    BY <1>6
  <2>3. u = Absorb(t, j, k, end)
    BY <1>3, <2>1
  <2> HIDE DEF T, t, u, Hit
  <2>4. /\ u \in FreeTables
        /\ t[k].addr # end => u = t
        /\ t[k].addr = end =>
             /\ \A i \in Spaces \ {j, k} : u[i] = t[i]
             /\ Empty(u[k])
             /\ k # j => u[j].addr = t[j].addr /\ u[j].size = t[j].size + t[k].size
    BY <2>1, <2>2, <2>3, AbsorbEffect
  <2>5. CASE k = j
    <3>1. t[k].addr = end
      BY <1>1, <2>2, <2>5
    <3>2. Empty(u[j]) /\ \A i \in Spaces \ {j} : u[i] = t[i]
      BY <2>4, <2>5, <3>1
    <3>3. Others(s, u, j, k + 1, end)
      BY <2>1, <2>2, <2>5, <3>2 DEF Others
    <3>4. k + 1 > j /\ ~(k + 1 <= j)
      BY <1>1, <2>5
    <3>5. Good(u, k + 1)
      BY <2>4, <3>2, <3>3, <3>4 DEF Empty
    <3> QED
      BY <2>1, <3>5 DEF T, u
  <2>6. CASE k # j
    <3>1. t[k] = s[k] /\ (k + 1 > j <=> k > j) /\ (k + 1 <= j <=> k <= j)
      <4>1. t[k] = s[k]
        BY <1>1, <2>1, <2>2, <2>6 DEF Others
      <4>2. (k + 1 > j <=> k > j) /\ (k + 1 <= j <=> k <= j)
        BY <1>1, <2>6
      <4> QED
        BY <4>1, <4>2
    <3>2. CASE s[k].addr # end
      <4>1. u = t
        BY <2>4, <3>1, <3>2
      <4>2. Others(s, u, j, k + 1, end)
        BY <2>1, <2>2, <3>2, <4>1 DEF Others
      <4>3. Good(u, k + 1)
        BY <2>2, <3>1, <4>1, <4>2
      <4> QED
        BY <2>1, <4>3 DEF T, u
    <3>3. CASE s[k].addr = end
      <4>1. /\ \A i \in Spaces \ {j, k} : u[i] = t[i]
            /\ Empty(u[k]) /\ u[j].addr = t[j].addr /\ u[j].size = t[j].size + s[k].size
        BY <2>4, <2>6, <3>1, <3>3
      <4>2. Others(s, u, j, k + 1, end)
        BY <2>1, <2>2, <2>6, <3>3, <4>1 DEF Others
      <4>3. s[k].size # 0 => Hit(k)
        BY <3>3 DEF Hit
      <4>4. t[j].size \in Nat /\ s[k].size \in Nat
        BY <2>1, <2>2 DEF FreeTables, mem_t
      <4>5. u[j].size # 0 => t[j].size # 0 \/ s[k].size # 0
        BY <4>1, <4>4
      <4>6. k + 1 > j /\ u[j].size # 0 => \E q \in Spaces : q > j /\ Hit(q)
        BY <2>1, <2>2, <3>1, <4>3, <4>5
      <4>7. Good(u, k + 1)
        BY <2>2, <2>4, <3>1, <4>1, <4>2, <4>6
      <4> QED
        BY <2>1, <4>7 DEF T, u
    <3> QED
      BY <3>2, <3>3
  <2> QED
    BY <2>5, <2>6
<1>7. Good(Sweep(s, j), n)
  <2> HIDE DEF T
  <2>1. n \in 0 .. n
    BY <1>1
  <2>2. n \in T
    BY <1>1, <1>5, <1>6, <2>1, Turns
  <2> QED
    BY <1>3, <2>2 DEF T
<1>8. n > j
  BY <1>1
<1> QED
  BY <1>7, <1>8 DEF n, end

(* The outer loop before its turn for entry n.  An exhausted entry may     *)
(* have become a range at address 0, but then an unused entry is still to  *)
(* come, and that one takes the range and deletes itself.                  *)
Ghost(e) == e.addr = 0 /\ e.size # 0

SweptInv(h, s, n) ==
  /\ s \in FreeTables
  /\ \A i \in Spaces : Within(h, s[i]) \/ (i < n /\ s[i].addr = 0)
  /\ \A i, k \in Spaces : i # k /\ s[i].addr # 0 /\ s[k].addr # 0 => Apart(s[i], s[k])
  /\ (\E i \in Spaces : Ghost(s[i])) => \E m \in Spaces : m >= n /\ Empty(s[m])

(* The bytes of the ranges but for those at address 0.                     *)
In(x, e) == e.addr # 0 /\ e.addr <= x /\ x < End(e)
Held(s) == {x \in Nat : \E i \in Spaces : In(x, s[i])}

(* No exhausted entry is at the start of another one.                      *)
Tidy(s) ==
  /\ \A i \in Spaces : ~Ghost(s[i])
  /\ \A i, k \in Spaces : s[i].size = 0 /\ s[k].size # 0 => s[i].addr # s[k].addr

(* What the turn for entry j changes, in both cases.                       *)
SweptFrom(h, s, t, j) ==
  /\ SweptInv(h, t, j + 1)
  /\ Held(t) \subseteq Held(s)
  /\ Tidy(s) => Tidy(t) /\ Held(t) = Held(s)

(* The turn for an entry that is not exhausted loses nothing.              *)
LEMMA SweepJoinsKeeps ==
  ASSUME NEW h \in Heaps, NEW j \in Spaces, NEW s, SweptInv(h, s, j), s[j].size # 0
  PROVE  SweptFrom(h, s, Sweep(s, j), j)
<1> DEFINE t == Sweep(s, j)
           end == End(s[j])
           Hit(q) == s[q].addr = end /\ s[q].size # 0
<1>1. HeapBase[h] \in Nat /\ HeapBase[h] >= 1 /\ HeapEnd[h] \in Nat
  BY HeapsAssumption
<1>2. /\ s \in FreeTables
      /\ \A i \in Spaces : s[i].addr \in Nat /\ s[i].size \in Nat
  BY DEF SweptInv, FreeTables, mem_t
<1>3. \A i \in Spaces : i \in Nat /\ i < FREE_SPACES
  BY SizesAssumption DEF Spaces
<1>4. s[j].addr >= 1 /\ end = s[j].addr + s[j].size /\ end \in Nat /\ end >= 1 /\ end <= HeapEnd[h]
      /\ HeapBase[h] <= s[j].addr
  <2>1. Within(h, s[j])
    BY <1>3 DEF SweptInv
  <2>2. HeapBase[h] <= s[j].addr /\ s[j].addr + s[j].size <= HeapEnd[h]
    BY <2>1 DEF Within
  <2> QED
    BY <1>1, <1>2, <2>2 DEF End
<1> HIDE DEF end
<1>5. \A p, q \in Spaces : Hit(p) /\ Hit(q) => p = q
  <2> SUFFICES ASSUME NEW p \in Spaces, NEW q \in Spaces, Hit(p), Hit(q), p # q PROVE FALSE
    OBVIOUS
  <2>1. s[p].addr # 0 /\ s[q].addr # 0
    BY <1>4
  <2>2. Apart(s[p], s[q])
    BY <2>1 DEF SweptInv
  <2> QED
    BY <1>2, <2>2 DEF Apart
<1>6. /\ t \in FreeTables /\ Others(s, t, j, FREE_SPACES, end) /\ t[j].addr = s[j].addr
      /\ \A q \in Spaces : Hit(q) => t[j].size = s[j].size + s[q].size
      /\ (\A q \in Spaces : s[q].addr = end => s[q].size = 0) => t[j].size = s[j].size
  <2>1. \A p, q \in Spaces : /\ s[p].addr = End(s[j]) /\ s[p].size # 0
                             /\ s[q].addr = End(s[j]) /\ s[q].size # 0
                             => p = q
    BY <1>5 DEF end
  <2> QED
    BY <1>2, <2>1, SweepJoins DEF end
<1> HIDE DEF t
<1>7. /\ \A i \in Spaces : t[i].addr \in Nat /\ t[i].size \in Nat
      /\ \A i \in Spaces \ {j} : s[i].addr = end => Empty(t[i])
      /\ \A i \in Spaces \ {j} : s[i].addr # end => t[i] = s[i]
  BY <1>3, <1>6 DEF Others, FreeTables, mem_t
<1>8. \A i \in Spaces \ {j} : t[i].addr # 0 => t[i] = s[i] /\ s[i].addr # end
  BY <1>7 DEF Empty
<1>9. \/ (\A q \in Spaces : ~Hit(q)) /\ t[j].size = s[j].size
      \/ \E q \in Spaces : Hit(q) /\ q # j /\ t[j].size = s[j].size + s[q].size
  <2>1. \A q \in Spaces : Hit(q) => q # j
    BY <1>2, <1>4
  <2> QED
    BY <1>6, <2>1
<1>10. \A q \in Spaces : Hit(q) => Within(h, s[q]) /\ s[q].addr # 0
  BY <1>4 DEF SweptInv
<1>11. Within(h, t[j]) /\ t[j].size # 0 /\ t[j].addr # 0
  <2>1. CASE t[j].size = s[j].size
    BY <1>2, <1>4, <1>6, <2>1 DEF Within
  <2>2. ASSUME NEW q \in Spaces, Hit(q), t[j].size = s[j].size + s[q].size
        PROVE  Within(h, t[j]) /\ t[j].size # 0 /\ t[j].addr # 0
    <3>1. end + s[q].size <= HeapEnd[h]
      BY <1>10, <2>2 DEF Within
    <3> QED
      BY <1>1, <1>2, <1>4, <1>6, <2>2, <3>1 DEF Within
  <2> QED
    BY <1>9, <2>1, <2>2
<1>12. \A i \in Spaces : Within(h, t[i]) \/ (i < j + 1 /\ t[i].addr = 0)
  <2> SUFFICES ASSUME NEW i \in Spaces, i # j
               PROVE  Within(h, t[i]) \/ (i < j + 1 /\ t[i].addr = 0)
    BY <1>11
  <2>1. CASE s[i].addr = end
    BY <1>7, <2>1 DEF Empty, Within
  <2>2. CASE s[i].addr # end
    <3>1. t[i] = s[i] /\ (i < j => i < j + 1)
      BY <1>3, <1>7, <2>2
    <3> QED
      BY <3>1 DEF SweptInv
  <2> QED
    BY <2>1, <2>2
<1>13. ASSUME NEW i \in Spaces, i # j, t[i].addr # 0 PROVE Apart(t[i], t[j]) /\ Apart(t[j], t[i])
  <2>1. t[i] = s[i] /\ s[i].addr # end /\ s[i].addr # 0
    BY <1>8, <1>13
  <2>2. Apart(s[i], s[j])
    BY <1>4, <1>13, <2>1 DEF SweptInv
  <2>3. CASE t[j].size = s[j].size
    BY <1>2, <1>4, <1>6, <2>1, <2>2, <2>3 DEF Apart
  <2>4. ASSUME NEW q \in Spaces, Hit(q), t[j].size = s[j].size + s[q].size
        PROVE  Apart(t[i], t[j]) /\ Apart(t[j], t[i])
    <3>1. i # q
      BY <2>1, <2>4
    <3>2. Apart(s[i], s[q])
      BY <1>10, <2>1, <2>4, <3>1 DEF SweptInv
    <3> QED
      BY <1>2, <1>4, <1>6, <2>1, <2>2, <2>4, <3>2 DEF Apart
  <2> QED
    BY <1>9, <2>3, <2>4
<1>14. \A i, k \in Spaces : i # k /\ t[i].addr # 0 /\ t[k].addr # 0 => Apart(t[i], t[k])
  <2> SUFFICES ASSUME NEW i \in Spaces, NEW k \in Spaces, i # k, t[i].addr # 0, t[k].addr # 0
               PROVE  Apart(t[i], t[k])
    OBVIOUS
  <2>1. CASE i = j \/ k = j
    BY <1>13, <2>1
  <2>2. CASE i # j /\ k # j
    <3>1. t[i] = s[i] /\ t[k] = s[k]
      BY <1>8, <2>2
    <3> QED
      BY <3>1 DEF SweptInv
  <2> QED
    BY <2>1, <2>2
<1>15. (\E i \in Spaces : Ghost(t[i])) => \E m \in Spaces : m >= j + 1 /\ Empty(t[m])
  <2> SUFFICES ASSUME NEW i \in Spaces, Ghost(t[i]) PROVE \E m \in Spaces : m >= j + 1 /\ Empty(t[m])
    OBVIOUS
  <2>1. i # j
    BY <1>11 DEF Ghost
  <2>2. t[i] = s[i]
    BY <1>7, <2>1 DEF Ghost, Empty
  <2>3. PICK m \in Spaces : m >= j /\ Empty(s[m])
    BY <2>2 DEF SweptInv
  <2>4. m # j /\ s[m].addr # end
    BY <1>4, <2>3 DEF Empty
  <2>5. t[m] = s[m] /\ m >= j + 1
    BY <1>3, <1>7, <2>3, <2>4
  <2> QED
    BY <2>3, <2>5
<1>16. SweptInv(h, t, j + 1)
  BY <1>6, <1>12, <1>14, <1>15 DEF SweptInv
<1>17. Held(t) = Held(s)
  <2>1. ASSUME NEW x \in Nat, NEW i \in Spaces, In(x, t[i]) PROVE \E k \in Spaces : In(x, s[k])
    <3>1. CASE i # j
      BY <1>8, <2>1, <3>1 DEF In
    <3>2. CASE i = j
      <4>1. s[j].addr # 0 /\ s[j].addr <= x /\ x < s[j].addr + t[j].size
        BY <1>6, <2>1, <3>2 DEF In, End
      <4>2. CASE x < end
        <5>1. In(x, s[j])
          BY <1>4, <4>1, <4>2 DEF In, End
        <5> QED
          BY <5>1
      <4>3. CASE ~(x < end)
        <5>1. PICK q \in Spaces : Hit(q) /\ t[j].size = s[j].size + s[q].size
          BY <1>4, <1>9, <4>1, <4>3
        <5>2. end <= x /\ x < end + s[q].size
          BY <1>2, <1>4, <4>1, <4>3, <5>1
        <5>3. In(x, s[q])
          BY <1>10, <5>1, <5>2 DEF In, End
        <5> QED
          BY <5>3
      <4> QED
        BY <4>2, <4>3
    <3> QED
      BY <3>1, <3>2
  <2>2. ASSUME NEW x \in Nat, NEW i \in Spaces, In(x, s[i]) PROVE \E k \in Spaces : In(x, t[k])
    <3>1. s[i].addr # 0 /\ s[i].addr <= x /\ x < s[i].addr + s[i].size
      BY <2>2 DEF In, End
    <3>2. CASE i = j
      <4>1. t[j].size >= s[j].size
        BY <1>2, <1>9
      <4>2. In(x, t[j])
        BY <1>2, <1>6, <1>7, <3>1, <3>2, <4>1 DEF In, End
      <4> QED
        BY <4>2
    <3>3. CASE i # j /\ s[i].addr # end
      <4>1. In(x, t[i])
        BY <1>7, <2>2, <3>3
      <4> QED
        BY <4>1
    <3>4. CASE i # j /\ s[i].addr = end
      <4>1. Hit(i)
        BY <1>2, <3>1, <3>4
      <4>2. t[j].size = s[j].size + s[i].size
        BY <1>6, <4>1
      <4>3. In(x, t[j])
        BY <1>2, <1>4, <1>6, <3>1, <3>4, <4>2 DEF In, End
      <4> QED
        BY <4>3
    <3> QED
      BY <3>2, <3>3, <3>4
  <2> QED
    BY <2>1, <2>2 DEF Held
<1>18. Tidy(s) => Tidy(t)
  <2> SUFFICES ASSUME Tidy(s) PROVE Tidy(t)
    OBVIOUS
  <2>1. \A i \in Spaces : ~Ghost(t[i])
    BY <1>7, <1>11 DEF Tidy, Ghost, Empty
  <2>2. ASSUME NEW i \in Spaces, NEW k \in Spaces, t[i].size = 0, t[k].size # 0
        PROVE  t[i].addr # t[k].addr
    <3>1. i # j /\ t[k].addr # 0
      BY <1>11, <2>1, <2>2 DEF Ghost
    <3>2. s[k].size # 0 /\ s[k].addr = t[k].addr
      BY <1>6, <1>8, <3>1, <2>2
    <3>3. CASE t[i].addr = 0
      BY <3>1, <3>3
    <3>4. CASE t[i].addr # 0
      <4>1. t[i] = s[i]
        BY <1>8, <3>1, <3>4
      <4> QED
        BY <2>2, <3>2, <4>1 DEF Tidy
    <3> QED
      BY <3>3, <3>4
  <2> QED
    BY <2>1, <2>2 DEF Tidy
<1> QED
  BY <1>16, <1>17, <1>18 DEF SweptFrom, t

(* The turn for an exhausted entry loses a range that starts there.        *)
LEMMA SweepDeletesKeeps ==
  ASSUME NEW h \in Heaps, NEW j \in Spaces, NEW s, SweptInv(h, s, j), s[j].size = 0
  PROVE  SweptFrom(h, s, Sweep(s, j), j)
<1> DEFINE t == Sweep(s, j)
           end == s[j].addr
<1>1. HeapBase[h] \in Nat /\ HeapBase[h] >= 1
  BY HeapsAssumption
<1>2. /\ s \in FreeTables
      /\ \A i \in Spaces : s[i].addr \in Nat /\ s[i].size \in Nat
  BY DEF SweptInv, FreeTables, mem_t
<1>3. \A i \in Spaces : i \in Nat /\ i < FREE_SPACES
  BY SizesAssumption DEF Spaces
<1>4. /\ t \in FreeTables /\ Others(s, t, j, FREE_SPACES, end) /\ t[j].addr = 0
      /\ t[j].size # 0 => \E q \in Spaces : q > j /\ s[q].addr = end /\ s[q].size # 0
  BY <1>2, SweepDeletes
<1> HIDE DEF t
<1>5. /\ \A i \in Spaces : t[i].addr \in Nat /\ t[i].size \in Nat
      /\ \A i \in Spaces \ {j} : s[i].addr = end => Empty(t[i])
      /\ \A i \in Spaces \ {j} : s[i].addr # end => t[i] = s[i]
  BY <1>3, <1>4 DEF Others, FreeTables, mem_t
<1>6. \A i \in Spaces : t[i].addr # 0 => i # j /\ t[i] = s[i] /\ s[i].addr # end
  BY <1>4, <1>5 DEF Empty
<1>7. \A q \in Spaces : q > j /\ s[q].size # 0 => s[q].addr # 0
  <2> SUFFICES ASSUME NEW q \in Spaces, q > j, s[q].size # 0 PROVE s[q].addr # 0
    OBVIOUS
  <2>1. Within(h, s[q])
    BY <1>3 DEF SweptInv
  <2> QED
    BY <1>1, <1>2, <2>1 DEF Within
<1>8. \A i \in Spaces : Within(h, t[i]) \/ (i < j + 1 /\ t[i].addr = 0)
  <2> SUFFICES ASSUME NEW i \in Spaces PROVE Within(h, t[i]) \/ (i < j + 1 /\ t[i].addr = 0)
    OBVIOUS
  <2>1. CASE i = j
    BY <1>3, <1>4, <2>1
  <2>2. CASE i # j /\ s[i].addr = end
    BY <1>5, <2>2 DEF Empty, Within
  <2>3. CASE i # j /\ s[i].addr # end
    <3>1. t[i] = s[i] /\ (i < j => i < j + 1)
      BY <1>3, <1>5, <2>3
    <3> QED
      BY <3>1 DEF SweptInv
  <2> QED
    BY <2>1, <2>2, <2>3
<1>9. \A i, k \in Spaces : i # k /\ t[i].addr # 0 /\ t[k].addr # 0 => Apart(t[i], t[k])
  BY <1>6 DEF SweptInv
<1>10. (\E i \in Spaces : Ghost(t[i])) => \E m \in Spaces : m >= j + 1 /\ Empty(t[m])
  <2> SUFFICES ASSUME NEW i \in Spaces, Ghost(t[i]) PROVE \E m \in Spaces : m >= j + 1 /\ Empty(t[m])
    OBVIOUS
  <2>1. CASE i = j
    <3>1. PICK q \in Spaces : q > j /\ s[q].addr = end /\ s[q].size # 0
      BY <1>4, <2>1 DEF Ghost
    <3>2. q # j /\ q >= j + 1
      BY <1>3, <3>1
    <3>3. Empty(t[q])
      BY <1>5, <3>1, <3>2
    <3> QED
      BY <3>2, <3>3
  <2>2. CASE i # j
    <3>1. t[i] = s[i] /\ s[i].addr # end
      BY <1>5, <2>2 DEF Ghost, Empty
    <3>2. PICK m \in Spaces : m >= j /\ Empty(s[m])
      BY <3>1 DEF SweptInv
    <3>3. s[m].addr = 0 /\ s[i].addr = 0
      BY <3>1, <3>2 DEF Ghost, Empty
    <3>4. m # j /\ t[m] = s[m]
      BY <1>5, <3>1, <3>3
    <3>5. m >= j + 1
      BY <1>3, <3>2, <3>4
    <3> QED
      BY <3>2, <3>4, <3>5
  <2> QED
    BY <2>1, <2>2
<1>11. SweptInv(h, t, j + 1)
  BY <1>4, <1>8, <1>9, <1>10 DEF SweptInv
<1>12. Held(t) \subseteq Held(s)
  BY <1>6 DEF Held, In
<1>13. ASSUME Tidy(s) PROVE Tidy(t) /\ Held(t) = Held(s)
  <2>1. \A i \in Spaces : s[i].size # 0 => i # j /\ s[i].addr # end /\ t[i] = s[i]
    BY <1>5, <1>13 DEF Tidy
  <2>2. t[j].size = 0
    BY <1>4, <2>1
  <2>3. \A i \in Spaces : t[i].size # 0 => t[i] = s[i] /\ i # j
    BY <1>5, <2>2 DEF Empty
  <2>4. \A i \in Spaces : ~Ghost(t[i])
    BY <1>13, <2>3 DEF Tidy, Ghost
  <2>5. ASSUME NEW i \in Spaces, NEW k \in Spaces, t[i].size = 0, t[k].size # 0
        PROVE  t[i].addr # t[k].addr
    <3>1. t[k] = s[k] /\ t[k].addr # 0
      BY <2>3, <2>4, <2>5 DEF Ghost
    <3>2. t[i].addr = 0 \/ t[i] = s[i]
      BY <1>6
    <3> QED
      BY <1>13, <2>5, <3>1, <3>2 DEF Tidy
  <2>6. ASSUME NEW x \in Nat, NEW i \in Spaces, In(x, s[i]) PROVE In(x, t[i])
    <3>1. s[i].size # 0
      BY <1>2, <2>6 DEF In, End
    <3> QED
      BY <2>1, <2>6, <3>1
  <2>7. Held(s) \subseteq Held(t)
    BY <2>6 DEF Held
  <2> QED
    BY <1>12, <2>4, <2>5, <2>7 DEF Tidy
<1> QED
  BY <1>11, <1>12, <1>13 DEF SweptFrom, t

(* The whole of refresh_freespace on one heap: no range is left at address *)
(* 0, and bytes are lost only from a table that is not tidy.               *)
LEMMA RefreshedRight ==
  ASSUME NEW h \in Heaps, NEW s, SweptInv(h, s, 0)
  PROVE  /\ SweptInv(h, Refreshed(s), FREE_SPACES)
         /\ Held(Refreshed(s)) \subseteq Held(s)
         /\ Tidy(s) => Held(Refreshed(s)) = Held(s)
<1> DEFINE n == FREE_SPACES
<1>1. n \in Nat /\ Spaces = 0 .. n - 1
  BY SizesAssumption DEF Spaces
<1>2. PICK after : /\ Refreshed(s) = after[n] /\ after[0] = s
                   /\ \A j \in Spaces : after[j + 1] = Sweep(after[j], j)
  BY RefreshTurns
<1> HIDE DEF n
<1> DEFINE Good(t, k) == /\ SweptInv(h, t, k) /\ Held(t) \subseteq Held(s)
                         /\ Tidy(s) => Tidy(t) /\ Held(t) = Held(s)
           T == {k \in 0 .. n : Good(after[k], k)}
<1>3. 0 \in T
  BY <1>1, <1>2
<1>4. ASSUME NEW j \in 0 .. n - 1, j \in T PROVE j + 1 \in T
  <2>1. j \in Spaces /\ j + 1 \in 0 .. n
    BY <1>1
  <2>2. Good(after[j], j)
    BY <1>4
  <2>3. SweptFrom(h, after[j], Sweep(after[j], j), j)
    BY <2>1, <2>2, SweepJoinsKeeps, SweepDeletesKeeps
  <2>4. Good(Sweep(after[j], j), j + 1)
    BY <2>2, <2>3 DEF SweptFrom
  <2> QED
    BY <1>2, <2>1, <2>4
<1>5. n \in T
  <2> HIDE DEF T
  <2>1. n \in 0 .. n
    BY <1>1
  <2> QED
    BY <1>1, <1>3, <1>4, <2>1, Turns
<1> QED
  BY <1>2, <1>5 DEF n

(* A byte is in one of the free ranges, or in one of the blocks.           *)
InFree(s, x) == \E i \in Spaces : x \in Bytes(s[i])
InLive(t, x) == \E a \in Slots : x \in Bytes(t[a])

(* The bytes of a table without ranges at address 0.                       *)
LEMMA HeldBytes ==
  ASSUME NEW s \in FreeTables, \A i \in Spaces : ~Ghost(s[i])
  PROVE  \A x : InFree(s, x) <=> x \in Held(s)
<1>1. \A i \in Spaces : s[i].addr \in Nat /\ s[i].size \in Nat
  BY DEF FreeTables, mem_t
<1>2. ASSUME NEW i \in Spaces, NEW x \in Bytes(s[i]) PROVE x \in Nat /\ In(x, s[i])
  <2>1. x \in Nat /\ s[i].addr <= x /\ x < s[i].addr + s[i].size /\ s[i].size # 0
    BY <1>1, <1>2 DEF Bytes
  <2> QED
    BY <2>1 DEF In, End, Ghost
<1>3. ASSUME NEW i \in Spaces, NEW x \in Nat, In(x, s[i]) PROVE x \in Bytes(s[i])
  BY <1>1, <1>3 DEF Bytes, In, End
<1> QED
  BY <1>2, <1>3 DEF Held, InFree

(* refresh_freespace finds the tables as the loop expects them.            *)
LEMMA RefreshStarts ==
  ASSUME NEW h \in Heaps, HeapTypeOK, BooksBalance
  PROVE  SweptInv(h, freespace[h], 0) /\ \A i \in Spaces : ~Ghost(freespace[h][i])
<1>1. HeapBase[h] \in Nat /\ HeapBase[h] >= 1 /\ TablesWithin(h) /\ FreeApart(h)
  BY HeapsAssumption DEF BooksBalance
<1>2. freespace[h] \in FreeTables /\ \A i \in Spaces : freespace[h][i].addr \in Nat
  BY DEF HeapTypeOK, FreeTables, mem_t
<1>3. \A i \in Spaces : ~Ghost(freespace[h][i])
  BY <1>1, <1>2 DEF TablesWithin, Within, Ghost
<1> QED
  BY <1>1, <1>2, <1>3 DEF SweptInv, TablesWithin, FreeApart

(* The bytes in the tables, one by one.                                    *)
LEMMA AccountedBytes ==
  ASSUME NEW s, NEW t, NEW x
  PROVE  x \in Accounted(s, t) <=> InFree(s, x) \/ InLive(t, x)
BY DEF Accounted, InFree, InLive

(* refresh_freespace keeps the books, and loses bytes only from a table    *)
(* with an exhausted entry at the start of another one.                    *)
LEMMA RefreshKeeps ==
  ASSUME HeapTypeOK, BooksBalance, RefreshFreespace
  PROVE  HeapTypeOK' /\ BooksBalance' /\ \A h \in Heaps : LosesForAReason(h)
<1>1. ASSUME NEW h \in Heaps
      PROVE  /\ freespace'[h] = Refreshed(freespace[h]) /\ allocations'[h] = allocations[h]
             /\ SweptInv(h, freespace'[h], FREE_SPACES)
             /\ Held(freespace'[h]) \subseteq Held(freespace[h])
             /\ Tidy(freespace[h]) => Held(freespace'[h]) = Held(freespace[h])
  <2>1. freespace'[h] = Refreshed(freespace[h]) /\ allocations'[h] = allocations[h]
    BY DEF RefreshFreespace
  <2>2. SweptInv(h, freespace[h], 0)
    BY RefreshStarts
  <2> QED
    BY <2>1, <2>2, RefreshedRight
<1>2. ASSUME NEW h \in Heaps, NEW i \in Spaces PROVE ~Ghost(freespace'[h][i])
  <2>1. \A m \in Spaces : ~(m >= FREE_SPACES)
    BY SizesAssumption DEF Spaces
  <2> QED
    BY <1>1, <2>1 DEF SweptInv
<1>3. HeapTypeOK'
  <2>1. freespace' = [h \in Heaps |-> Refreshed(freespace[h])] /\ allocations' = allocations
    BY DEF RefreshFreespace
  <2>2. \A h \in Heaps : Refreshed(freespace[h]) \in [Spaces -> mem_t]
    BY <1>1 DEF SweptInv, FreeTables
  <2> QED
    BY <2>1, <2>2 DEF HeapTypeOK
<1>4. ASSUME NEW h \in Heaps PROVE (TablesWithin(h) /\ LiveApart(h) /\ LiveNotFree(h) /\ FreeApart(h))'
  <2>1. TablesWithin(h) /\ LiveApart(h) /\ LiveNotFree(h)
    BY DEF BooksBalance
  <2>2. /\ \A i \in Spaces : freespace'[h][i].addr = 0 => freespace'[h][i].size = 0
        /\ \A i \in Spaces : Within(h, freespace'[h][i]) \/ freespace'[h][i].addr = 0
        /\ \A i, k \in Spaces : i # k /\ freespace'[h][i].addr # 0 /\ freespace'[h][k].addr # 0
                                => Apart(freespace'[h][i], freespace'[h][k])
    BY <1>1, <1>2 DEF SweptInv, Ghost
  <2>3. \A i \in Spaces : Within(h, freespace'[h][i])
    BY <2>2 DEF Within
  <2>4. TablesWithin(h)' /\ LiveApart(h)'
    BY <1>1, <2>1, <2>3 DEF TablesWithin, LiveApart
  <2>5. FreeApart(h)'
    BY <2>2 DEF FreeApart, Apart
  <2>6. ASSUME NEW a \in Slots, NEW i \in Spaces PROVE Apart(allocations[h][a], freespace'[h][i])
    <3> DEFINE b == allocations[h][a]
               e == freespace'[h][i]
               x == IF b.addr <= e.addr THEN e.addr ELSE b.addr
    <3>1. /\ b.addr \in Nat /\ b.size \in Nat /\ e.addr \in Nat /\ e.size \in Nat
          /\ \A k \in Spaces : freespace[h][k].addr \in Nat /\ freespace[h][k].size \in Nat
      BY <1>3 DEF HeapTypeOK, mem_t
    <3> SUFFICES ASSUME ~Apart(b, e) PROVE FALSE
      OBVIOUS
    <3>2. b.size # 0 /\ e.size # 0 /\ b.addr + b.size > e.addr /\ e.addr + e.size > b.addr
      BY <3>1 DEF Apart
    <3>3. e.addr # 0
      BY <2>2, <3>2
    <3> HIDE DEF b, e
    <3>4. /\ x \in Nat /\ b.addr <= x /\ x < b.addr + b.size
          /\ e.addr <= x /\ x < e.addr + e.size
      BY <3>1, <3>2
    <3> HIDE DEF x
    <3>5. x \in Held(freespace'[h])
      BY <3>3, <3>4 DEF Held, In, End, e
    <3>6. PICK k \in Spaces : In(x, freespace[h][k])
      BY <1>1, <3>5 DEF Held
    <3>7. Apart(b, freespace[h][k])
      BY <2>1 DEF LiveNotFree, b
    <3> QED
      BY <3>1, <3>4, <3>6, <3>7 DEF Apart, In, End
  <2>7. LiveNotFree(h)'
    BY <1>1, <2>6 DEF LiveNotFree
  <2> QED
    BY <2>4, <2>5, <2>7
<1>5. BooksBalance'
  BY <1>4 DEF BooksBalance
<1>6. ASSUME NEW h \in Heaps PROVE LosesForAReason(h)
  <2>1. \A x : InFree(freespace[h], x) <=> x \in Held(freespace[h])
    <3>1. freespace[h] \in FreeTables
      BY DEF HeapTypeOK, FreeTables
    <3> QED
      BY <3>1, RefreshStarts, HeldBytes
  <2>2. \A x : InFree(freespace'[h], x) <=> x \in Held(freespace'[h])
    <3>1. freespace'[h] \in FreeTables
      BY <1>1 DEF SweptInv
    <3> QED
      BY <1>2, <3>1, HeldBytes
  <2> DEFINE before == Accounted(freespace[h], allocations[h])
             after == Accounted(freespace'[h], allocations'[h])
  <2>3. /\ \A x : x \in before <=> InFree(freespace[h], x) \/ InLive(allocations[h], x)
        /\ \A x : x \in after <=> InFree(freespace'[h], x) \/ InLive(allocations[h], x)
    BY <1>1, AccountedBytes
  <2> HIDE DEF before, after
  <2>4. after \subseteq before
    BY <1>1, <2>1, <2>2, <2>3
  <2>5. Tidy(freespace[h]) => after = before
    BY <1>1, <2>1, <2>2, <2>3
  <2>6. ~Tidy(freespace[h]) => Exhausted(h)
    BY RefreshStarts DEF Tidy, Exhausted
  <2> QED
    BY <2>4, <2>5, <2>6 DEF LosesForAReason, before, after
<1> QED
  BY <1>3, <1>5, <1>6

-----------------------------------------------------------------------------
(* What leaves the tables                                                  *)

(* malloc_heap moves the bytes of the block from one table to the other.   *)
LEMMA MallocAccounts ==
  ASSUME NEW h \in Heaps, NEW size \in Nat, HeapTypeOK, MallocHeap(h, size)
  PROVE  \A g \in Heaps : LosesForAReason(g)
<1>1. PICK i \in Spaces, a \in Slots :
        /\ size > 0
        /\ freespace[h][i].size >= size
        /\ allocations[h][a].size = 0
        /\ freespace' = [freespace EXCEPT ![h][i] = Shrink(@, size)]
        /\ allocations' = [allocations EXCEPT ![h][a] =
                             [addr |-> freespace[h][i].addr, size |-> size]]
  BY MallocEffect
<1>2. \A g \in Heaps \ {h} : freespace'[g] = freespace[g] /\ allocations'[g] = allocations[g]
  BY <1>1 DEF HeapTypeOK
<1>3. /\ freespace'[h][i] = Shrink(freespace[h][i], size)
      /\ \A j \in Spaces \ {i} : freespace'[h][j] = freespace[h][j]
      /\ allocations'[h][a] = [addr |-> freespace[h][i].addr, size |-> size]
      /\ \A b \in Slots \ {a} : allocations'[h][b] = allocations[h][b]
  BY <1>1 DEF HeapTypeOK
<1>4. /\ freespace[h][i].addr \in Nat /\ freespace[h][i].size \in Nat
      /\ allocations[h][a].addr \in Nat
  BY DEF HeapTypeOK, mem_t
<1>5. \A x : x \in Bytes(freespace[h][i])
             <=> x \in Bytes(freespace'[h][i]) \/ x \in Bytes(allocations'[h][a])
  BY <1>1, <1>3, <1>4 DEF Bytes, Shrink
<1>6. \A x : x \notin Bytes(allocations[h][a])
  BY <1>1, <1>4 DEF Bytes
<1>7. \A x : InFree(freespace'[h], x) \/ InLive(allocations'[h], x)
             <=> InFree(freespace[h], x) \/ InLive(allocations[h], x)
  BY <1>3, <1>5, <1>6 DEF InFree, InLive
<1>8. Accounted(freespace'[h], allocations'[h]) = Accounted(freespace[h], allocations[h])
  BY <1>7, AccountedBytes
<1> QED
  BY <1>2, <1>8 DEF LosesForAReason

(* A malloc_heap that finds the allocation table full only takes bytes.    *)
LEMMA NoSlotAccounts ==
  ASSUME NEW h \in Heaps, NEW size \in Nat, HeapTypeOK, BooksBalance, MallocNoSlot(h, size)
  PROVE  \A g \in Heaps : LosesForAReason(g)
<1>1. PICK i \in Spaces :
        /\ freespace[h][i].size >= size
        /\ freespace' = [freespace EXCEPT ![h][i] = Shrink(@, size)]
        /\ UNCHANGED allocations
  BY NoSlotEffect
<1>2. FreeSlots(h) = {}
  BY DEF MallocNoSlot
<1>3. \A g \in Heaps \ {h} : freespace'[g] = freespace[g] /\ allocations'[g] = allocations[g]
  BY <1>1 DEF HeapTypeOK
<1>4. /\ freespace'[h][i] = Shrink(freespace[h][i], size)
      /\ \A j \in Spaces \ {i} : freespace'[h][j] = freespace[h][j]
      /\ allocations'[h] = allocations[h]
  BY <1>1 DEF HeapTypeOK
<1>5. freespace[h][i].addr \in Nat /\ freespace[h][i].size \in Nat
  BY DEF HeapTypeOK, mem_t
<1>6. \A x : x \in Bytes(freespace'[h][i]) => x \in Bytes(freespace[h][i])
  BY <1>1, <1>4, <1>5 DEF Bytes, Shrink
<1>7. \A x : InFree(freespace'[h], x) => InFree(freespace[h], x)
  BY <1>4, <1>6 DEF InFree
<1>8. Accounted(freespace'[h], allocations'[h]) \subseteq Accounted(freespace[h], allocations[h])
  BY <1>4, <1>7, AccountedBytes
<1>9. CASE RefreshFreespace
  BY <1>9, RefreshKeeps
<1>10. CASE ~RefreshFreespace
  BY <1>2, <1>3, <1>4, <1>8, <1>10 DEF LosesForAReason
<1> QED
  BY <1>9, <1>10

(* free moves the bytes of the block back, unless the free table is full.  *)
LEMMA FreeAccounts ==
  ASSUME NEW h \in Heaps, NEW addr \in Nat, HeapTypeOK, BooksBalance, Free(h, addr)
  PROVE  \A g \in Heaps : LosesForAReason(g)
<1>1. PICK a \in Slots :
        /\ InHeap(h, addr)
        /\ allocations[h][a].addr = addr
        /\ allocations' = [allocations EXCEPT ![h][a] = Unused]
        /\ \/ \E i \in Spaces :
                /\ \/ Behind(allocations[h][a], freespace[h][i])
                   \/ After(allocations[h][a], freespace[h][i])
                /\ freespace' = [freespace EXCEPT ![h][i] = Grow(@, allocations[h][a])]
           \/ \E i \in Spaces :
                /\ freespace[h][i].size = 0
                /\ freespace' = [freespace EXCEPT ![h][i] = allocations[h][a]]
           \/ freespace' = freespace /\ UnusedSpaces(freespace[h]) = {}
  BY FreeEffect
<1> DEFINE block == allocations[h][a]
<1>2. /\ \A g \in Heaps \ {h} : freespace'[g] = freespace[g] /\ allocations'[g] = allocations[g]
      /\ allocations'[h][a] = Unused
      /\ \A b \in Slots \ {a} : allocations'[h][b] = allocations[h][b]
  BY <1>1 DEF HeapTypeOK
<1>3. /\ block.addr \in Nat /\ block.size \in Nat
      /\ \A i \in Spaces : freespace[h][i].addr \in Nat /\ freespace[h][i].size \in Nat
  BY DEF HeapTypeOK, mem_t
<1>4. \A x : x \notin Bytes(allocations'[h][a])
  BY <1>2 DEF Bytes, Unused
<1>5. ASSUME NEW i \in Spaces, NEW e, freespace' = [freespace EXCEPT ![h][i] = e],
             \A x : x \in Bytes(e) <=> x \in Bytes(freespace[h][i]) \/ x \in Bytes(block)
      PROVE  Accounted(freespace'[h], allocations'[h]) = Accounted(freespace[h], allocations[h])
  <2>1. freespace'[h][i] = e /\ \A j \in Spaces \ {i} : freespace'[h][j] = freespace[h][j]
    BY <1>5 DEF HeapTypeOK
  <2>2. \A x : InFree(freespace'[h], x) \/ InLive(allocations'[h], x)
               <=> InFree(freespace[h], x) \/ InLive(allocations[h], x)
    BY <1>2, <1>4, <1>5, <2>1 DEF InFree, InLive
  <2> QED
    BY <2>2, AccountedBytes
<1>6. ASSUME NEW i \in Spaces,
             Behind(block, freespace[h][i]) \/ After(block, freespace[h][i])
      PROVE  \A x : x \in Bytes(Grow(freespace[h][i], block))
                    <=> x \in Bytes(freespace[h][i]) \/ x \in Bytes(block)
  BY <1>3, <1>6 DEF Bytes, Grow, Behind, After
<1>7. ASSUME NEW i \in Spaces, freespace[h][i].size = 0
      PROVE  \A x : x \notin Bytes(freespace[h][i])
  BY <1>3, <1>7 DEF Bytes
<1>8. CASE freespace' = freespace /\ UnusedSpaces(freespace[h]) = {}
  <2>1. block.size # 0
    <3>1. block.addr # 0
      BY <1>1, <1>3, HeapsAssumption DEF InHeap
    <3> QED
      BY <3>1 DEF BooksBalance, TablesWithin
  <2>2. allocations'[h] # allocations[h]
    BY <1>2, <2>1 DEF Unused
  <2>3. \A x : InFree(freespace'[h], x) \/ InLive(allocations'[h], x)
               => InFree(freespace[h], x) \/ InLive(allocations[h], x)
    BY <1>2, <1>4, <1>8 DEF InFree, InLive
  <2>4. Accounted(freespace'[h], allocations'[h]) \subseteq Accounted(freespace[h], allocations[h])
    BY <2>3, AccountedBytes
  <2> QED
    BY <1>2, <1>8, <2>2, <2>4 DEF LosesForAReason
<1>9. CASE Accounted(freespace'[h], allocations'[h]) = Accounted(freespace[h], allocations[h])
  BY <1>2, <1>9 DEF LosesForAReason
<1> QED
  BY <1>1, <1>5, <1>6, <1>7, <1>8, <1>9

(* Every step of the two functions takes bytes for a reason, or none.      *)
LEMMA StepsAccount ==
  ASSUME HeapTypeOK, BooksBalance, HeapNext
  PROVE  \A g \in Heaps : LosesForAReason(g)
<1>1. CASE UNCHANGED heapVars
  BY <1>1 DEF heapVars, LosesForAReason
<1>2. ASSUME NEW h \in Heaps, NEW size \in Requests,
             MallocHeap(h, size) \/ MallocNoSlot(h, size)
      PROVE  \A g \in Heaps : LosesForAReason(g)
  BY <1>2, SizesAssumption, MallocAccounts, NoSlotAccounts
<1>3. ASSUME NEW h \in Heaps, NEW addr \in Pointers, Free(h, addr)
      PROVE  \A g \in Heaps : LosesForAReason(g)
  BY <1>3, SizesAssumption, FreeAccounts
<1> QED
  BY <1>1, <1>2, <1>3 DEF HeapNext, MallocRefused, FreeIgnored

-----------------------------------------------------------------------------
(* The theorems of the heap                                                *)

(* The inductive invariant: the tables keep their shape and the books      *)
(* balance.                                                                *)
LEMMA HeapInvariant == RefreshSpec => [](HeapTypeOK /\ BooksBalance)
<1>1. HeapInit => HeapTypeOK
  BY HeapsAssumption, SizesAssumption DEF HeapInit, HeapTypeOK, mem_t, Unused
<1>2. HeapInit => BooksBalance
  BY HeapsAssumption, SizesAssumption
  DEF HeapInit, BooksBalance, TablesWithin, LiveApart, LiveNotFree, FreeApart,
      Within, Apart, Unused, Spaces
<1>3. HeapTypeOK /\ BooksBalance /\ [RefreshNext]_heapVars => (HeapTypeOK /\ BooksBalance)'
  BY HeapTypeKept, BooksKept, RefreshKeeps DEF RefreshNext
<1> QED
  BY <1>1, <1>2, <1>3, PTL DEF RefreshSpec

(* malloc_heap and free with no refresh_freespace between them are a case. *)
LEMMA HeapWithoutRefresh == HeapSpec => RefreshSpec
<1>1. [HeapNext]_heapVars => [RefreshNext]_heapVars
  BY DEF RefreshNext
<1> QED
  BY <1>1, PTL DEF HeapSpec, RefreshSpec

(* The tables keep their shape (HeapTypeOK) whatever malloc_heap and free  *)
(* are called with and wherever refresh_freespace is called between them:  *)
(* the searches never index past a table and no size or address goes below *)
(* zero.                                                                   *)
THEOREM HeapTypeCorrect == RefreshSpec => []HeapTypeOK
<1> QED
  BY HeapInvariant, PTL

(* Live blocks and free ranges are pairwise disjoint parts of their heap   *)
(* after any sequence of malloc_heap, free and refresh_freespace calls,    *)
(* for any table sizes: no caller ever gets a byte that another one still  *)
(* holds.                                                                  *)
THEOREM BooksAlwaysBalance == RefreshSpec => []BooksBalance
<1> QED
  BY HeapInvariant, PTL

(* malloc_heap and free implement the abstract allocator: a call hands out *)
(* one block clear of all others, takes one back, or changes nothing; and  *)
(* refresh_freespace changes nothing that a caller can see.                *)
THEOREM HeapImplementsAbstractHeap == RefreshSpec => ImplementsAbstractHeap
<1>1. HeapInit => AbsHeap!Init
  BY DEF HeapInit, AbsHeap!Init, LiveBlocks, LiveSlots, Unused
<1>2. HeapTypeOK /\ BooksBalance /\ [HeapNext]_heapVars => [AbsHeap!Next]_LiveBlocks
  BY HeapRefines
<1>3. RefreshFreespace => UNCHANGED LiveBlocks
  BY DEF RefreshFreespace, LiveBlocks, LiveSlots
<1>4. HeapTypeOK /\ BooksBalance /\ [RefreshNext]_heapVars => [AbsHeap!Next]_LiveBlocks
  BY <1>2, <1>3 DEF RefreshNext
<1> QED
  BY <1>1, <1>4, HeapInvariant, PTL DEF RefreshSpec, ImplementsAbstractHeap, AbsHeap!Spec

(* A byte that malloc_heap, free or refresh_freespace takes out of the     *)
(* tables never comes back, and leaves them only where the allocation      *)
(* table is full, the free table is full, or refresh_freespace meets an    *)
(* exhausted entry at the start of another range (LostOnlyForThreeReasons).*)
THEOREM BytesLostForAReason == RefreshSpec => LostOnlyForThreeReasons
<1>1. HeapTypeOK /\ BooksBalance /\ [RefreshNext]_heapVars
      => [\A h \in Heaps : LosesForAReason(h)]_heapVars
  BY StepsAccount, RefreshKeeps DEF RefreshNext
<1> QED
  BY <1>1, HeapInvariant, PTL DEF RefreshSpec, LostOnlyForThreeReasons

-----------------------------------------------------------------------------
(* The tables of the heap                                                  *)

(* The steps of malloc_heap and free as a whole are steps of module Heap,  *)
(* so what is proved about the tables there holds here: the books balance. *)
THEOREM BooksBalanceUnderPages ==
  KMSpec => [](HeapTypeOK /\ BooksBalance)
<1>1. KMInit => HeapInit
  BY DEF KMInit
<1>2. [KMNext]_kmVars => [HeapNext]_heapVars
  BY DEF KMNext, HeapNext, Malloc, FreeBlock, kmVars, heapVars
<1>3. KMSpec => HeapSpec
  BY <1>1, <1>2, PTL DEF KMSpec, HeapSpec
<1> QED
  BY <1>3, HeapWithoutRefresh, HeapInvariant, PTL

-----------------------------------------------------------------------------
(* Pages                                                                   *)

LEMMA PageOf ==
  ASSUME NEW x \in Nat
  PROVE  /\ x \div PAGE_SIZE \in Nat
         /\ x % PAGE_SIZE \in 0 .. PAGE_SIZE - 1
         /\ x = (x % PAGE_SIZE) + PAGE_SIZE * (x \div PAGE_SIZE)
BY MemoryAssumption

(* A step of the loops over a block is a step of one page.                 *)
LEMMA PageSteps ==
  ASSUME NEW x \in Nat, NEW n \in Nat
  PROVE  /\ x + n * PAGE_SIZE \in Nat
         /\ (x + n * PAGE_SIZE) \div PAGE_SIZE = (x \div PAGE_SIZE) + n
         /\ (x + n * PAGE_SIZE) % PAGE_SIZE = x % PAGE_SIZE
<1> DEFINE P == PAGE_SIZE
           q == x \div P
           r == x % P
<1>1. P \in Nat /\ P > 0
  BY MemoryAssumption
<1>2. q \in Nat /\ r \in 0 .. P - 1 /\ x = r + P * q
  BY PageOf
<1> HIDE DEF P, q, r
<1>3. x + n * P = (q + n) * P + r /\ q + n \in Nat
  BY <1>1, <1>2
<1>4. /\ (q + n) * P + r \in Nat
      /\ ((q + n) * P + r) \div P = q + n
      /\ ((q + n) * P + r) % P = r
  BY <1>1, <1>2, <1>3, PartAndPlace
<1> QED
  BY <1>3, <1>4 DEF P, q, r

LEMMA PagesInOrder ==
  ASSUME NEW x \in Nat, NEW y \in Nat, x <= y
  PROVE  x \div PAGE_SIZE <= y \div PAGE_SIZE
<1> DEFINE P == PAGE_SIZE
           q == x \div P
           s == y \div P
           r == x % P
           t == y % P
<1>1. P \in Nat /\ P > 0
  BY MemoryAssumption
<1>2. q \in Nat /\ r \in 0 .. P - 1 /\ x = r + P * q
  BY PageOf
<1>3. s \in Nat /\ t \in 0 .. P - 1 /\ y = t + P * s
  BY PageOf
<1> HIDE DEF P, q, r, s, t
<1> SUFFICES ASSUME q > s PROVE FALSE
  BY <1>2, <1>3 DEF q, s, P
<1>4. P * q >= P * (s + 1)
  BY <1>1, <1>2, <1>3
<1>5. P * (s + 1) = P * s + P
  BY <1>1, <1>3
<1> QED
  BY <1>1, <1>2, <1>3, <1>4, <1>5

(* The loops reach the page of the last byte and no further.               *)
LEMMA LastPage ==
  ASSUME NEW addr \in Nat, NEW size \in Nat, size > 0
  PROVE  /\ PageCount(addr, size) \in Nat \ {0}
         /\ (addr \div PAGE_SIZE) + PageCount(addr, size) - 1 = (addr + size - 1) \div PAGE_SIZE
<1> DEFINE last == addr + size - 1
<1>1. last \in Nat /\ addr <= last /\ 1 \in Nat
  OBVIOUS
<1>2. addr + size + PAGE_SIZE - 1 = last + 1 * PAGE_SIZE
  BY MemoryAssumption
<1> HIDE DEF last
<1>3. (last + 1 * PAGE_SIZE) \div PAGE_SIZE = (last \div PAGE_SIZE) + 1
  BY <1>1, PageSteps
<1>4. /\ addr \div PAGE_SIZE \in Nat /\ last \div PAGE_SIZE \in Nat
      /\ addr \div PAGE_SIZE <= last \div PAGE_SIZE
  BY <1>1, PageOf, PagesInOrder
<1>5. PageCount(addr, size) = ((last \div PAGE_SIZE) + 1) - (addr \div PAGE_SIZE)
  BY <1>2, <1>3, Zenon DEF PageCount
<1> QED
  BY <1>4, <1>5 DEF last

LEMMA PagesAreNumbers == VirtPages \subseteq Nat
<1>1. \A h \in Heaps : HeapBase[h] \div PAGE_SIZE \in Nat /\ HeapEnd[h] \div PAGE_SIZE \in Nat
  BY HeapsAssumption, PageOf
<1> QED
  BY <1>1 DEF VirtPages

(* The pages that a block lies on.                                         *)
LEMMA OverlapEnds ==
  ASSUME NEW block \in mem_t, NEW p \in Nat, Overlaps(block, p)
  PROVE  /\ block.addr \div PAGE_SIZE <= p
         /\ p < (block.addr \div PAGE_SIZE) + PageCount(block.addr, block.size)
<1> DEFINE P == PAGE_SIZE
           x == block.addr
           n == block.size
<1>1. /\ P \in Nat /\ P > 0 /\ x \in Nat /\ n \in Nat /\ n > 0
      /\ x < (p + 1) * P /\ p * P < x + n
  BY MemoryAssumption DEF Overlaps, mem_t
<1> HIDE DEF P, x, n
<1>2. /\ p * P \in Nat /\ (p * P + 0) \div P = p
      /\ p * P + (P - 1) \in Nat /\ (p * P + (P - 1)) \div P = p
  BY <1>1, PartAndPlace
<1>3. (p + 1) * P = p * P + P
  BY <1>1
<1>4. x <= p * P + (P - 1) /\ p * P <= x + n - 1 /\ x + n - 1 \in Nat /\ p * P + 0 = p * P
  BY <1>1, <1>2, <1>3
<1>5. x \div P <= p /\ p <= (x + n - 1) \div P
  BY <1>1, <1>2, <1>4, PagesInOrder DEF P
<1>6. /\ PageCount(x, n) \in Nat /\ x \div P \in Nat
      /\ (x \div P) + PageCount(x, n) - 1 = (x + n - 1) \div P
  BY <1>1, LastPage, PageOf DEF P
<1>7. p < (x \div P) + PageCount(x, n)
  BY <1>5, <1>6
<1> QED
  BY <1>5, <1>7 DEF P, x, n

LEMMA ByteOverlaps ==
  ASSUME NEW block \in mem_t, NEW v \in Nat, block.addr <= v, v < block.addr + block.size
  PROVE  Overlaps(block, v \div PAGE_SIZE)
<1> DEFINE P == PAGE_SIZE
           q == v \div P
           r == v % P
<1>1. P \in Nat /\ q \in Nat /\ r \in 0 .. P - 1 /\ v = r + P * q
  BY PageOf, MemoryAssumption
<1> HIDE DEF P, q, r
<1>2. (q + 1) * P = P * q + P /\ q * P = P * q /\ P * q \in Nat
  BY <1>1
<1>3. /\ block.addr \in Nat /\ block.size \in Nat
      /\ block.size # 0 /\ block.addr < (q + 1) * P /\ q * P < block.addr + block.size
  BY <1>1, <1>2 DEF mem_t
<1> QED
  BY <1>3 DEF Overlaps, P, q

(* The bytes of a heap lie on pages that the page map has.                 *)
LEMMA HeapPages ==
  ASSUME NEW h \in Heaps, NEW x \in Nat, HeapBase[h] <= x, x <= HeapEnd[h]
  PROVE  x \div PAGE_SIZE \in VirtPages
<1>1. HeapBase[h] \in Nat /\ HeapEnd[h] \in Nat
  BY HeapsAssumption
<1>2. /\ HeapBase[h] \div PAGE_SIZE <= x \div PAGE_SIZE
      /\ x \div PAGE_SIZE <= HeapEnd[h] \div PAGE_SIZE
  BY <1>1, PagesInOrder
<1>3. /\ HeapBase[h] \div PAGE_SIZE \in Nat
      /\ x \div PAGE_SIZE \in Nat
      /\ HeapEnd[h] \div PAGE_SIZE \in Nat
  BY <1>1, PageOf
<1> QED
  BY <1>2, <1>3 DEF VirtPages

-----------------------------------------------------------------------------
(* The loop of malloc_heap that maps the pages of a block.                 *)

(* The turns of the loop follow each other.                                *)
LEMMA TurnsDefined ==
  ASSUME NEW addr, NEW size, PageCount(addr, size) \in Nat
  PROVE  /\ MapTurns(addr, size)[0] = [used |-> used, map |-> pagemap]
         /\ \A i \in 1 .. PageCount(addr, size) :
              MapTurns(addr, size)[i]
                = MapOne(MapTurns(addr, size)[i - 1], addr + (i - 1) * PAGE_SIZE)
<1> DEFINE n == PageCount(addr, size)
           Turn(f, i) == IF i = 0 THEN [used |-> used, map |-> pagemap]
                                  ELSE MapOne(f[i - 1], addr + (i - 1) * PAGE_SIZE)
           Reached == {k \in Nat : \E f : f = [i \in 0 .. k |-> Turn(f, i)]}
<1>1. \A f, g, i : i = 0 \/ f[i - 1] = g[i - 1] => Turn(f, i) = Turn(g, i)
  BY Zenon
<1>2. MapTurns(addr, size) = CHOOSE f : f = [i \in 0 .. n |-> Turn(f, i)]
  BY DEF MapTurns
<1> HIDE DEF n, Turn
<1>3. 0 \in Reached
  <2> DEFINE g == [i \in 0 .. 0 |-> Turn(0, i)]
  <2>1. \A i \in 0 .. 0 : Turn(0, i) = Turn(g, i)
    BY <1>1
  <2>2. g = [i \in 0 .. 0 |-> Turn(g, i)]
    BY <2>1
  <2> QED
    BY <2>2
<1>4. ASSUME NEW k \in Nat, k \in Reached PROVE k + 1 \in Reached
  <2>1. PICK f : f = [i \in 0 .. k |-> Turn(f, i)]
    BY <1>4
  <2> DEFINE g == [i \in 0 .. k + 1 |-> Turn(f, i)]
  <2>2. \A i \in 0 .. k : f[i] = g[i]
    BY <2>1
  <2>3. \A i \in 0 .. k + 1 : i = 0 \/ i - 1 \in 0 .. k
    OBVIOUS
  <2> HIDE DEF g
  <2>4. \A i \in 0 .. k + 1 : Turn(f, i) = Turn(g, i)
    BY <1>1, <2>2, <2>3
  <2>5. g = [i \in 0 .. k + 1 |-> Turn(g, i)]
    BY <2>4 DEF g
  <2> QED
    BY <2>5
<1>5. n \in Reached
  <2> HIDE DEF Reached
  <2>1. n \in Nat /\ n \in 0 .. n /\ \A k \in 0 .. n - 1 : k \in Nat
    BY DEF n
  <2>2. \A k \in 0 .. n - 1 : k \in Reached => k + 1 \in Reached
    BY <1>4, <2>1
  <2> QED
    BY <1>3, <2>1, <2>2, Turns
<1>6. MapTurns(addr, size) = [i \in 0 .. n |-> Turn(MapTurns(addr, size), i)]
  BY <1>2, <1>5
<1>7. /\ n \in Nat
      /\ \A i \in 0 .. n : MapTurns(addr, size)[i] = Turn(MapTurns(addr, size), i)
  BY <1>6 DEF n
<1> QED
  BY <1>7 DEF n, Turn

Frames == Nat \cup {NotPresent}

(* The marks and the page map are what they are called.                    *)
PagesTypeOK == used \subseteq Pool /\ pagemap \in [VirtPages -> Frames]

(* What the turns of the loop have done, when i pages are behind them: the *)
(* map has changed on these pages only and loses none, what it has gained  *)
(* is fresh, and every new mark is on a page that has gained its place.    *)
Fresh(mem, p, q) ==
  \/ mem.map[p] = 0 /\ mem.used = Pool
  \/ mem.map[p] \in mem.used \ used /\ (p = q \/ mem.map[p] # mem.map[q])

Mapped(mem, addr, i) ==
  /\ used \subseteq mem.used /\ mem.used \subseteq Pool
  /\ mem.map \in [VirtPages -> Frames]
  /\ \A p \in VirtPages :
       /\ p >= (addr \div PAGE_SIZE) + i => mem.map[p] = pagemap[p]
       /\ mem.map[p] = NotPresent => pagemap[p] = NotPresent
  /\ \A p, q \in VirtPages :
       mem.map[p] # pagemap[p] /\ mem.map[q] # pagemap[q] => Fresh(mem, p, q)
  /\ addr % PAGE_SIZE = 0 =>
       /\ \A p \in VirtPages :
            addr \div PAGE_SIZE <= p /\ p < (addr \div PAGE_SIZE) + i => mem.map[p] # NotPresent
       /\ \A page \in mem.used \ used :
            \E p \in VirtPages : /\ p < (addr \div PAGE_SIZE) + i
                                 /\ mem.map[p] = page /\ (pagemap[p] # page \/ page = 0)

(* phys_page_alloc finds a page that is not marked.                        *)
LEMMA FirstFree ==
  ASSUME NEW marks \in SUBSET Pool, marks # Pool
  PROVE  Min(Pool \ marks) \in Pool \ marks
BY MinMember, MemoryAssumption

(* What find_physaddr takes for not mapped, at the start of a page.        *)
LEMMA ReadsUnmapped ==
  ASSUME NEW map \in [VirtPages -> Frames], NEW virt \in Nat, virt \div PAGE_SIZE \in VirtPages
  PROVE  /\ find_physaddr(map, virt) \in Nat
         /\ map[virt \div PAGE_SIZE] = NotPresent => find_physaddr(map, virt) = 0
         /\ find_physaddr(map, virt) = 0 => map[virt \div PAGE_SIZE] \in {NotPresent, 0}
<1> DEFINE frame == map[virt \div PAGE_SIZE]
           rest == virt % PAGE_SIZE
<1>1. CASE frame = NotPresent
  BY <1>1 DEF find_physaddr
<1>2. CASE frame # NotPresent
  <2>1. frame \in Nat /\ rest \in Nat /\ PAGE_SIZE \in Nat /\ PAGE_SIZE > 0
    BY <1>2, PageOf, MemoryAssumption DEF Frames
  <2>2. find_physaddr(map, virt) = frame * PAGE_SIZE + rest
    BY <1>2, Zenon DEF find_physaddr
  <2> HIDE DEF frame, rest
  <2>3. frame * PAGE_SIZE + rest \in Nat
    BY <2>1
  <2>4. frame # 0 => frame * PAGE_SIZE + rest # 0
    <3> SUFFICES ASSUME frame > 0 PROVE frame * PAGE_SIZE > 0
      BY <2>1, <2>3
    <3> QED
      BY <2>1
  <2> QED
    BY <2>2, <2>3, <2>4, <1>2 DEF frame
<1> QED
  BY <1>1, <1>2

(* A turn of the loop.                                                     *)
LEMMA TurnKeeps ==
  ASSUME PagesTypeOK, NEW addr \in Nat, NEW i \in Nat, NEW mem, Mapped(mem, addr, i),
         (addr \div PAGE_SIZE) + i \in VirtPages
  PROVE  Mapped(MapOne(mem, addr + i * PAGE_SIZE), addr, i + 1)
<1> DEFINE b == addr \div PAGE_SIZE
           virt == addr + i * PAGE_SIZE
           r == b + i
           next == MapOne(mem, virt)
           aligned == addr % PAGE_SIZE = 0
<1>1. /\ virt \in Nat /\ virt \div PAGE_SIZE = r /\ virt % PAGE_SIZE = addr % PAGE_SIZE
      /\ b \in Nat /\ r \in VirtPages
  BY PageSteps, PageOf
<1>2. VirtPages \subseteq Nat
  BY PagesAreNumbers
<1> DEFINE map == mem.map
           marks == mem.used
           M == next.map
           U == next.used
           f == Min(Pool \ marks)
<1>3. /\ used \subseteq marks /\ marks \subseteq Pool /\ map \in [VirtPages -> Frames]
      /\ map[r] = pagemap[r]
  BY <1>1, <1>2 DEF Mapped
<1>4. /\ map[r] = NotPresent => find_physaddr(map, virt) = 0
      /\ find_physaddr(map, virt) = 0 => map[r] \in {NotPresent, 0}
  BY <1>1, <1>3, ReadsUnmapped
<1>5. /\ marks \subseteq U /\ U \subseteq Pool
      /\ M \in [VirtPages -> Frames]
      /\ \A p \in VirtPages : p # r => M[p] = map[p]
      /\ M[r] = NotPresent => map[r] = NotPresent /\ ~aligned
      /\ M[r] = map[r] \/ (M[r] = 0 /\ U = Pool) \/ M[r] \in U \ marks
      /\ aligned => \A page \in U \ marks : M[r] = page /\ (pagemap[r] # page \/ page = 0)
  <2>1. CASE find_physaddr(map, virt) # 0
    <3>1. next = mem
      BY <2>1 DEF MapOne
    <3> QED
      BY <1>3, <1>4, <2>1, <3>1
  <2>2. CASE find_physaddr(map, virt) = 0 /\ marks = Pool
    <3>1. next = [used |-> marks, map |-> map_page(map, 0, virt)]
      BY <2>2 DEF MapOne
    <3>2. U = marks /\ M = IF aligned THEN [map EXCEPT ![r] = 0] ELSE map
      BY <1>1, <3>1 DEF map_page
    <3> HIDE DEF next
    <3> QED
      BY <1>1, <1>3, <2>2, <3>2 DEF Frames, NotPresent
  <2>3. CASE find_physaddr(map, virt) = 0 /\ marks # Pool
    <3>1. next = [used |-> marks \cup {f}, map |-> map_page(map, f, virt)]
      BY <2>3 DEF MapOne
    <3>2. f \in Pool \ marks /\ f \in Nat
      BY <1>3, <2>3, FirstFree, MemoryAssumption
    <3> HIDE DEF next, f
    <3>3. U = marks \cup {f} /\ M = IF aligned THEN [map EXCEPT ![r] = f] ELSE map
      BY <1>1, <3>1 DEF map_page
    <3> QED
      BY <1>1, <1>3, <1>4, <2>3, <3>2, <3>3 DEF Frames, NotPresent
  <2> QED
    BY <2>1, <2>2, <2>3
<1> HIDE DEF next
<1>6. \A p \in VirtPages : /\ p >= b + (i + 1) => M[p] = pagemap[p]
                           /\ M[p] = NotPresent => pagemap[p] = NotPresent
  BY <1>1, <1>2, <1>3, <1>5 DEF Mapped
<1>7. ASSUME NEW p \in VirtPages, NEW q \in VirtPages,
             M[p] # pagemap[p], M[q] # pagemap[q]
      PROVE  Fresh(next, p, q)
  <2>1. map[p] # pagemap[p] /\ map[q] # pagemap[q] => Fresh(mem, p, q)
    BY DEF Mapped
  <2>2. /\ map[p] # pagemap[p] => Fresh(mem, p, p)
        /\ map[q] # pagemap[q] => Fresh(mem, q, q)
    BY DEF Mapped
  <2>3. CASE p # r /\ q # r
    BY <1>3, <1>5, <1>7, <2>1, <2>3 DEF Fresh
  <2>4. CASE p = r /\ q = r
    BY <1>3, <1>5, <1>7, <2>4 DEF Fresh
  <2>5. CASE p = r /\ q # r
    <3>1. map[q] \in marks \/ marks = Pool
      BY <1>5, <1>7, <2>5, <2>2 DEF Fresh
    <3> QED
      BY <1>3, <1>5, <1>7, <2>5, <3>1 DEF Fresh
  <2>6. CASE p # r /\ q = r
    <3>1. (map[p] = 0 /\ marks = Pool) \/ map[p] \in marks \ used
      BY <1>5, <1>7, <2>6, <2>2 DEF Fresh
    <3> QED
      BY <1>3, <1>5, <1>7, <2>6, <3>1 DEF Fresh
  <2> QED
    BY <2>3, <2>4, <2>5, <2>6
<1>8. ASSUME aligned
      PROVE  \A p \in VirtPages : b <= p /\ p < b + (i + 1) => M[p] # NotPresent
  BY <1>1, <1>2, <1>3, <1>5, <1>8 DEF Mapped
<1>9. ASSUME aligned, NEW page \in U \ used
      PROVE  \E p \in VirtPages : /\ p < b + (i + 1)
                                 /\ M[p] = page /\ (pagemap[p] # page \/ page = 0)
  <2>1. CASE page \in marks
    <3>1. PICK p \in VirtPages : /\ p < b + i
                                /\ map[p] = page /\ (pagemap[p] # page \/ page = 0)
      BY <1>9, <2>1 DEF Mapped
    <3> QED
      BY <1>1, <1>2, <1>5, <3>1
  <2>2. CASE page \notin marks
    BY <1>1, <1>2, <1>5, <1>9, <2>2
  <2> QED
    BY <2>1, <2>2
<1>10. Mapped(next, addr, i + 1)
  <2>1. used \subseteq U /\ U \subseteq Pool
    BY <1>3, <1>5
  <2>2. M \in [VirtPages -> Frames]
    BY <1>5
  <2> QED
    BY <1>6, <1>7, <1>8, <1>9, <2>1, <2>2, Zenon DEF Mapped
<1> QED
  BY <1>10 DEF next

(* The whole loop, for a block inside its heap.                            *)
LEMMA LoopMaps ==
  ASSUME PagesTypeOK, NEW h \in Heaps, NEW addr \in Nat, NEW size \in Nat, size > 0,
         HeapBase[h] <= addr, addr + size <= HeapEnd[h]
  PROVE  Mapped(MapBlock(addr, size), addr, PageCount(addr, size))
<1> DEFINE n == PageCount(addr, size)
           b == addr \div PAGE_SIZE
           Turn(i) == MapTurns(addr, size)[i]
           Kept == {i \in 0 .. n : Mapped(Turn(i), addr, i)}
<1>1. n \in Nat /\ b \in Nat /\ b + n - 1 = (addr + size - 1) \div PAGE_SIZE
  BY LastPage, PageOf
<1>2. \A i \in 0 .. n - 1 : b + i \in VirtPages
  <2>1. HeapBase[h] \in Nat /\ HeapEnd[h] \in Nat
    BY HeapsAssumption
  <2>2. b + n - 1 <= HeapEnd[h] \div PAGE_SIZE
    BY <1>1, <2>1, PagesInOrder
  <2>3. HeapBase[h] \div PAGE_SIZE <= b
    BY <2>1, PagesInOrder
  <2>4. HeapBase[h] \div PAGE_SIZE \in Nat /\ HeapEnd[h] \div PAGE_SIZE \in Nat
    BY <2>1, PageOf
  <2> HIDE DEF b, n
  <2>5. \A i \in 0 .. n - 1 : b + i \in (HeapBase[h] \div PAGE_SIZE) .. (HeapEnd[h] \div PAGE_SIZE)
    BY <1>1, <2>2, <2>3, <2>4
  <2> QED
    BY <2>5 DEF VirtPages
<1>3. /\ Turn(0) = [used |-> used, map |-> pagemap]
      /\ \A i \in 1 .. n : Turn(i) = MapOne(Turn(i - 1), addr + (i - 1) * PAGE_SIZE)
  BY <1>1, TurnsDefined
<1> HIDE DEF n, Turn
<1>4. 0 \in Kept
  <2>1. Mapped(Turn(0), addr, 0)
    <3>1. Turn(0).used = used /\ Turn(0).map = pagemap
      BY <1>3
    <3>2. \A p \in VirtPages : ~(b <= p /\ p < b + 0)
      BY <1>1, PagesAreNumbers
    <3> QED
      BY <3>1, <3>2 DEF Mapped, PagesTypeOK
  <2> QED
    BY <1>1, <2>1
<1>5. \A i \in 0 .. n - 1 : i \in Kept => i + 1 \in Kept
  <2> SUFFICES ASSUME NEW i \in 0 .. n - 1, Mapped(Turn(i), addr, i)
               PROVE  i + 1 \in 0 .. n /\ Mapped(Turn(i + 1), addr, i + 1)
    OBVIOUS
  <2>1. i \in Nat /\ i + 1 \in 1 .. n /\ (i + 1) - 1 = i
    BY <1>1
  <2>2. Turn(i + 1) = MapOne(Turn(i), addr + i * PAGE_SIZE)
    BY <1>3, <2>1
  <2>3. Mapped(MapOne(Turn(i), addr + i * PAGE_SIZE), addr, i + 1)
    BY <1>2, <2>1, TurnKeeps
  <2> QED
    BY <2>1, <2>2, <2>3
<1>6. n \in Kept
  <2> HIDE DEF Kept
  <2> QED
    BY <1>1, <1>4, <1>5, Turns
<1> QED
  BY <1>6 DEF MapBlock, n, Turn

(* What is kept by every call and what every call does.                    *)
PagesInv == HeapTypeOK /\ BooksBalance /\ PagesTypeOK /\ AlignedBlocksMapped
PagesStep == PagesTypeOK' /\ AlignedBlocksMapped' /\ GainsFresh /\ MarksUsed /\ UnmarksItsPages

LEMMA MallocMaps ==
  ASSUME PagesInv, NEW h \in Heaps, NEW size \in Requests, Malloc(h, size)
  PROVE  PagesStep
<1> DEFINE space == Min(Fitting(h, size))
           a == Min(FreeSlots(h))
           addr == freespace[h][space].addr
           mem == MapBlock(addr, size)
           n == PageCount(addr, size)
<1>1. /\ HeapTypeOK /\ BooksBalance /\ PagesTypeOK /\ AlignedBlocksMapped
      /\ size \in Nat /\ size > 0
  BY SizesAssumption DEF PagesInv, Malloc, MallocHeap
<1>2. /\ space \in Spaces /\ freespace[h][space].size >= size
      /\ a \in Slots /\ allocations[h][a].size = 0
      /\ allocations' = [allocations EXCEPT ![h][a] = [addr |-> addr, size |-> size]]
      /\ used' = mem.used /\ pagemap' = mem.map
  BY <1>1, MallocIndices DEF Malloc, MallocHeap, Fitting, FreeSlots
<1>3. /\ freespace[h][space] \in mem_t
      /\ addr \in Nat /\ freespace[h][space].size \in Nat
  BY <1>1, <1>2 DEF HeapTypeOK, mem_t
<1>4. HeapBase[h] <= addr /\ addr + size <= HeapEnd[h]
  <2>1. /\ HeapBase[h] <= addr /\ addr + freespace[h][space].size <= HeapEnd[h]
        /\ HeapEnd[h] \in Nat
    BY <1>1, <1>2, <1>3, HeapsAssumption DEF BooksBalance, TablesWithin, Within
  <2> QED
    BY <1>1, <1>2, <1>3, <2>1
<1>5. Mapped(mem, addr, n)
  BY <1>1, <1>3, <1>4, LoopMaps
<1> HIDE DEF mem, n, addr, a, space
<1>6. PagesTypeOK'
  BY <1>2, <1>5 DEF Mapped, PagesTypeOK
<1>7. GainsFresh
  BY <1>2, <1>5 DEF Mapped, Fresh, GainsFresh
<1>8. used \subseteq used'
  BY <1>2, <1>5 DEF Mapped
<1>9. /\ allocations'[h][a].addr = addr /\ allocations'[h][a].size = size
      /\ allocations[h][a] # allocations'[h][a]
      /\ \A g \in Heaps, c \in Slots :
           (g # h \/ c # a) => allocations'[g][c] = allocations[g][c]
  BY <1>1, <1>2 DEF HeapTypeOK
<1>10. MarksUsed
  <2>1. CASE addr % PAGE_SIZE = 0
    BY <1>2, <1>5, <2>1 DEF Mapped, MarksUsed
  <2>2. CASE addr % PAGE_SIZE # 0
    BY <1>2, <1>9, <2>2 DEF MarksUsed
  <2> QED
    BY <2>1, <2>2
<1>11. AlignedBlocksMapped'
  <2> SUFFICES ASSUME NEW g \in Heaps, NEW c \in Slots, allocations'[g][c].addr % PAGE_SIZE = 0,
                      NEW p \in VirtPages, Overlaps(allocations'[g][c], p)
               PROVE  pagemap'[p] # NotPresent
    BY DEF AlignedBlocksMapped, PagesOf
  <2>1. CASE g = h /\ c = a
    <3>1. allocations'[g][c] = [addr |-> addr, size |-> size] /\ addr % PAGE_SIZE = 0
      BY <1>1, <1>2, <1>9, <2>1 DEF HeapTypeOK
    <3>2. /\ [addr |-> addr, size |-> size] \in mem_t
          /\ p \in Nat
      BY <1>1, <1>3, PagesAreNumbers DEF mem_t
    <3>3. /\ addr \div PAGE_SIZE <= p /\ p < (addr \div PAGE_SIZE) + n
      BY <3>1, <3>2, OverlapEnds DEF n
    <3> QED
      BY <1>2, <1>5, <3>1, <3>3 DEF Mapped
  <2>2. CASE g # h \/ c # a
    <3>1. pagemap[p] # NotPresent
      BY <1>1, <1>9, <2>2 DEF AlignedBlocksMapped, PagesOf
    <3> QED
      BY <1>2, <1>5, <3>1 DEF Mapped
  <2> QED
    BY <2>1, <2>2
<1> QED
  BY <1>6, <1>7, <1>8, <1>10, <1>11 DEF PagesStep, UnmarksItsPages

-----------------------------------------------------------------------------
(* free                                                                    *)

(* The addresses that free asks for are addresses of the block.            *)
LEMMA AsksForItsBytes ==
  ASSUME NEW addr \in Nat, NEW size \in Nat, size > 0, NEW i \in 1 .. PageCount(addr, size) - 2
  PROVE  /\ addr + i * PAGE_SIZE \in Nat
         /\ addr <= addr + i * PAGE_SIZE
         /\ addr + i * PAGE_SIZE < addr + size
<1> DEFINE P == PAGE_SIZE
           last == addr + size - 1
           q == addr \div P
           r == addr % P
           s == last \div P
           t == last % P
<1>1. P \in Nat /\ P > 0
  BY MemoryAssumption
<1>2. q \in Nat /\ r \in 0 .. P - 1 /\ addr = r + P * q
  BY PageOf
<1>3. last \in Nat /\ s \in Nat /\ t \in 0 .. P - 1 /\ last = t + P * s
  BY PageOf
<1>4. PageCount(addr, size) \in Nat /\ q + PageCount(addr, size) - 1 = s
  BY LastPage
<1> HIDE DEF P, q, r, s, t
<1>5. i \in Nat /\ q + i + 1 <= s
  BY <1>2, <1>3, <1>4
<1>6. P * (q + i + 1) <= P * s
  BY <1>1, <1>2, <1>3, <1>5
<1>7. P * (q + i + 1) = P * q + i * P + P /\ P * q \in Nat /\ i * P \in Nat
  BY <1>1, <1>2, <1>5
<1>8. addr + i * P \in Nat /\ addr <= addr + i * P /\ addr + i * P < addr + size
  BY <1>1, <1>2, <1>3, <1>6, <1>7
<1> QED
  BY <1>8 DEF P

(* A page that find_physaddr names is page 0 or the one behind the address. *)
LEMMA NamesItsPage ==
  ASSUME NEW map \in [VirtPages -> Frames], NEW v \in Nat, v \div PAGE_SIZE \in VirtPages,
         NEW page \in Nat, find_physaddr(map, v) = page * PAGE_SIZE
  PROVE  page = 0 \/ map[v \div PAGE_SIZE] = page
<1> DEFINE P == PAGE_SIZE
           frame == map[v \div P]
           r == v % P
<1>1. P \in Nat /\ P > 0 /\ r \in 0 .. P - 1
  BY PageOf, MemoryAssumption
<1>2. CASE frame = NotPresent
  <2>1. page * P = 0
    BY <1>2 DEF find_physaddr
  <2> HIDE DEF P
  <2> QED
    BY <1>1, <2>1
<1>3. CASE frame # NotPresent
  <2>1. frame \in Nat /\ frame * P + r = page * P
    BY <1>3 DEF find_physaddr, Frames
  <2> HIDE DEF P, frame, r
  <2>2. 0 \in 0 .. P - 1 /\ page * P + 0 = page * P /\ page * P \in Nat
    BY <1>1
  <2>3. (frame * P + r) \div P = frame /\ (page * P + 0) \div P = page
    BY <1>1, <2>1, <2>2, PartAndPlace
  <2>4. frame = page
    BY <2>1, <2>2, <2>3
  <2> QED
    BY <2>4 DEF frame, P
<1> QED
  BY <1>2, <1>3

LEMMA FreeUnmarks ==
  ASSUME PagesInv, NEW h \in Heaps, NEW addr \in Pointers, FreeBlock(h, addr)
  PROVE  PagesStep
<1> DEFINE a == Min(BlocksAt(h, addr))
           block == allocations[h][a]
           size == block.size
           gone == Released(allocations'[h], addr, size)
<1>1. /\ HeapTypeOK /\ BooksBalance /\ PagesTypeOK /\ AlignedBlocksMapped
      /\ addr \in Nat /\ Free(h, addr) /\ pagemap' = pagemap
      /\ InHeap(h, addr)
  BY SizesAssumption DEF PagesInv, FreeBlock, Free
<1>2. /\ a \in Slots /\ block.addr = addr
      /\ allocations' = [allocations EXCEPT ![h][a] = Unused]
      /\ used' = used \/ used' = used \ gone
  BY <1>1, FreeIndices DEF FreeBlock, Free, BlocksAt
<1>3. block \in mem_t /\ size \in Nat
  BY <1>1, <1>2 DEF HeapTypeOK, mem_t
<1>4. /\ size > 0 /\ HeapBase[h] \in Nat /\ HeapEnd[h] \in Nat
      /\ HeapBase[h] <= addr /\ addr + size <= HeapEnd[h]
  <2>1. /\ HeapBase[h] \in Nat \ {0} /\ HeapEnd[h] \in Nat /\ HeapBase[h] <= addr
    BY <1>1, HeapsAssumption DEF InHeap
  <2>2. Within(h, block) /\ (size = 0 => block.addr = 0)
    BY <1>1, <1>2 DEF BooksBalance, TablesWithin
  <2> QED
    BY <1>1, <1>2, <1>3, <2>1, <2>2 DEF Within
<1> HIDE DEF a
<1>5. /\ allocations'[h][a] = Unused /\ allocations[h][a] # Unused
      /\ \A g \in Heaps, c \in Slots :
           (g # h \/ c # a) => allocations'[g][c] = allocations[g][c]
  BY <1>1, <1>2, <1>4 DEF HeapTypeOK, Unused
<1>6. AlignedBlocksMapped'
  <2> SUFFICES ASSUME NEW g \in Heaps, NEW c \in Slots, allocations'[g][c].addr % PAGE_SIZE = 0,
                      NEW p \in VirtPages, Overlaps(allocations'[g][c], p)
               PROVE  pagemap[p] # NotPresent
    BY <1>1 DEF AlignedBlocksMapped, PagesOf
  <2>1. g # h \/ c # a
    BY <1>5 DEF Unused, Overlaps
  <2> QED
    BY <1>1, <1>5, <2>1 DEF AlignedBlocksMapped, PagesOf
<1>7. ASSUME NEW page \in gone
      PROVE  page = 0 \/ \E p \in PagesOf(h, a) : pagemap[p] = page
  <2>1. page \in Nat /\ page * PAGE_SIZE \in FreedAddresses(allocations'[h], addr, size)
    BY MemoryAssumption DEF Released
  <2>2. PICK v : /\ page * PAGE_SIZE = find_physaddr(pagemap, v)
                 /\ \/ v = addr \/ v = addr + size - 1
                    \/ \E i \in 1 .. PageCount(addr, size) - 2 : v = addr + i * PAGE_SIZE
    BY <2>1 DEF FreedAddresses
  <2>3. v \in Nat /\ addr <= v /\ v < addr + size
    BY <1>1, <1>3, <1>4, <2>2, AsksForItsBytes
  <2>4. v \div PAGE_SIZE \in VirtPages
    BY <1>1, <1>3, <1>4, <2>3, HeapPages
  <2>5. page = 0 \/ pagemap[v \div PAGE_SIZE] = page
    BY <1>1, <2>1, <2>2, <2>3, <2>4, NamesItsPage DEF PagesTypeOK
  <2>6. Overlaps(block, v \div PAGE_SIZE)
    BY <1>2, <1>3, <2>3, ByteOverlaps
  <2> QED
    BY <2>4, <2>5, <2>6 DEF PagesOf
<1>8. UnmarksItsPages
  BY <1>2, <1>5, <1>7 DEF UnmarksItsPages
<1> QED
  BY <1>1, <1>2, <1>6, <1>8 DEF PagesStep, PagesTypeOK, GainsFresh, MarksUsed

-----------------------------------------------------------------------------
(* The theorems                                                            *)

LEMMA StepsKeepPages ==
  ASSUME PagesInv, [KMNext]_kmVars
  PROVE  PagesStep
<1>1. CASE UNCHANGED <<allocations, used, pagemap>>
  BY <1>1 DEF PagesInv, PagesStep, PagesTypeOK, AlignedBlocksMapped, PagesOf,
              GainsFresh, MarksUsed, UnmarksItsPages
<1>2. CASE \E h \in Heaps, size \in Requests : Malloc(h, size)
  BY <1>2, MallocMaps
<1>3. CASE \E h \in Heaps, addr \in Pointers : FreeBlock(h, addr)
  BY <1>3, FreeUnmarks
<1> QED
  BY <1>1, <1>2, <1>3
     DEF KMNext, kmVars, MallocNoSlot, MallocRefused, FreeIgnored, heapVars

LEMMA PagesInvariant == KMSpec => []PagesInv
<1>1. KMInit => PagesTypeOK /\ AlignedBlocksMapped
  <2>1. KMInit => PagesTypeOK
    BY MemoryAssumption DEF KMInit, PagesTypeOK, Frames, NotPresent
  <2>2. KMInit => AlignedBlocksMapped
    BY DEF KMInit, HeapInit, AlignedBlocksMapped, PagesOf, Overlaps, Unused
  <2> QED
    BY <2>1, <2>2
<1>2. PagesInv /\ [KMNext]_kmVars => (PagesTypeOK /\ AlignedBlocksMapped)'
  BY StepsKeepPages DEF PagesStep
<1> QED
  BY <1>1, <1>2, BooksBalanceUnderPages, PTL DEF KMSpec, PagesInv

(* A live block that starts on a page boundary is mapped to its last byte  *)
(* (AlignedBlocksMapped) after any sequence of malloc_heap and free calls, *)
(* with any pool: no call takes the mapping of a page away, and the loop   *)
(* of malloc_heap leaves none of the block's pages out.                    *)
THEOREM AlignedBlocksStayMapped == KMSpec => []AlignedBlocksMapped
<1>1. PagesInv => AlignedBlocksMapped
  BY DEF PagesInv
<1> QED
  BY <1>1, PagesInvariant, PTL

(* No step of malloc_heap or free maps a page that is in use, or one page  *)
(* at two places, and no mark is set without use (FreshFrames).            *)
THEOREM FramesAreFresh == KMSpec => FreshFrames
<1>1. PagesInv /\ [KMNext]_kmVars => [GainsFresh /\ MarksUsed]_kmVars
  BY StepsKeepPages DEF PagesStep
<1> QED
  BY <1>1, PagesInvariant, PTL DEF KMSpec, FreshFrames

(* free unmarks no page but those behind the block it is given and page 0  *)
(* (FreeReleasesOnlyItsPages), and malloc_heap unmarks none.               *)
THEOREM FreeKeepsToItsPages == KMSpec => FreeReleasesOnlyItsPages
<1>1. PagesInv /\ [KMNext]_kmVars => [UnmarksItsPages]_kmVars
  BY StepsKeepPages DEF PagesStep
<1> QED
  BY <1>1, PagesInvariant, PTL DEF KMSpec, FreeReleasesOnlyItsPages

=============================================================================
