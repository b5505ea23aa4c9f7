-------------------------------- MODULE Heap --------------------------------
(***************************************************************************)
(* The virtual heap of kernel/memory/memory.c: the tables freespace and    *)
(* allocations and the half of malloc_heap and free that keeps them.  Each *)
(* heap has a fixed array of free ranges and a fixed array of live blocks; *)
(* an entry of size 0 is unused.  The pages behind a block are the subject *)
(* of module KernelMemory, which conjoins the other half of both functions *)
(* to the actions below.                                                   *)
(***************************************************************************)
EXTENDS Integers, FiniteSets, FiniteSetsExt

CONSTANTS
  HEAPS,        \* number of heaps (2: kernel and userspace)
  FREE_SPACES,  \* entries of freespace[heap] (0x200)
  ALLOCATIONS,  \* entries of allocations[heap] (0x200)
  HeapBase,     \* first address of each heap: kernel_heap, userspace_heap
  HeapEnd,      \* end of each heap: kernel_stack, userspace_stack
  Requests,     \* sizes that callers pass to malloc_heap
  Pointers      \* addresses that callers pass to free

VARIABLES
  freespace,    \* [heap][entry]: the free ranges
  allocations   \* [heap][entry]: the live blocks

heapVars == <<freespace, allocations>>

Heaps == 0 .. HEAPS - 1
Spaces == 0 .. FREE_SPACES - 1
Slots == 0 .. ALLOCATIONS - 1

ASSUME SizesAssumption ==
  /\ HEAPS \in Nat
  /\ FREE_SPACES \in Nat \ {0}
  /\ ALLOCATIONS \in Nat \ {0}
  /\ Requests \subseteq Nat
  /\ Pointers \subseteq Nat

(* The heaps are not empty and none of them holds the null address.        *)
ASSUME HeapsAssumption ==
  /\ HeapBase \in [Heaps -> Nat \ {0}]
  /\ HeapEnd \in [Heaps -> Nat]
  /\ \A h \in Heaps : HeapBase[h] < HeapEnd[h]

(* No address belongs to two heaps.                                        *)
ASSUME HeapsApartAssumption ==
  \A g, h \in Heaps : g # h => HeapEnd[g] <= HeapBase[h] \/ HeapEnd[h] <= HeapBase[g]

mem_t == [addr : Nat, size : Nat]
Unused == [addr |-> 0, size |-> 0]

-----------------------------------------------------------------------------
(* malloc_heap                                                             *)

(* Mutants: a search that does not test its condition.                     *)
Fitting_any(h, size) == Spaces
FreeSlots_any(h) == Slots

(* The free ranges large enough for a request, and the free table slots.   *)
Fitting(h, size) == {i \in Spaces : freespace[h][i].size >= size}
FreeSlots(h) == {a \in Slots : allocations[h][a].size = 0}

(* Mutant: the range gets smaller but does not move.                       *)
Shrink_in_place(space, size) == [addr |-> space.addr, size |-> space.size - size]

(* First fit: the caller gets the low end of the first range that fits.    *)
Shrink(space, size) == [addr |-> space.addr + size, size |-> space.size - size]

MallocHeap(h, size) ==
  /\ size # 0
  /\ Fitting(h, size) # {}
  /\ FreeSlots(h) # {}
  /\ LET space == Min(Fitting(h, size))
         alloc == Min(FreeSlots(h))
         block == [addr |-> freespace[h][space].addr, size |-> size]
     IN  /\ freespace' = [freespace EXCEPT ![h][space] = Shrink(@, size)]
         /\ allocations' = [allocations EXCEPT ![h][alloc] = block]

(* The range has been shrunk before the allocation table is found full:    *)
(* malloc_heap returns 0 and the bytes are in neither table.               *)
MallocNoSlot(h, size) ==
  /\ size # 0
  /\ Fitting(h, size) # {}
  /\ FreeSlots(h) = {}
  /\ LET space == Min(Fitting(h, size))
     IN  freespace' = [freespace EXCEPT ![h][space] = Shrink(@, size)]
  /\ UNCHANGED allocations

(* A request for 0 bytes, or one that no range fits, is turned down.       *)
MallocRefused(h, size) ==
  /\ size = 0 \/ Fitting(h, size) = {}
  /\ UNCHANGED heapVars

-----------------------------------------------------------------------------
(* free                                                                    *)

InHeap(h, addr) == HeapBase[h] <= addr /\ addr < HeapEnd[h]

BlocksAt(h, addr) == {a \in Slots : allocations[h][a].addr = addr}

(* A block lies behind a range it ends at, and after a range that ends at  *)
(* it.                                                                     *)
Behind(block, space) == block.addr + block.size = space.addr
After(block, space) == block.addr = space.addr + space.size

(* Mutant: a range that is joined from behind moves but does not grow.     *)
Grow_after_only(space, block) ==
  [addr |-> IF Behind(block, space) THEN space.addr - block.size ELSE space.addr,
   size |-> IF Behind(block, space) THEN space.size ELSE space.size + block.size]

Grow(space, block) ==
  [addr |-> IF Behind(block, space) THEN space.addr - block.size ELSE space.addr,
   size |-> space.size + block.size]

(* The block joins the first adjacent range, else it fills the first       *)
(* unused entry, else it is dropped.  A range is joined on one side only.  *)
Adjacent(spaces, block) ==
  {i \in Spaces : Behind(block, spaces[i]) \/ After(block, spaces[i])}
UnusedSpaces(spaces) == {i \in Spaces : spaces[i].size = 0}

GiveBack(spaces, block) ==
  IF Adjacent(spaces, block) # {}
    THEN [spaces EXCEPT ![Min(Adjacent(spaces, block))] = Grow(@, block)]
    ELSE IF UnusedSpaces(spaces) # {}
           THEN [spaces EXCEPT ![Min(UnusedSpaces(spaces))] = block]
           ELSE spaces

Free(h, addr) ==
  /\ InHeap(h, addr)
  /\ BlocksAt(h, addr) # {}
  /\ LET alloc == Min(BlocksAt(h, addr))
     IN  /\ freespace' = [freespace EXCEPT ![h] = GiveBack(@, allocations[h][alloc])]
         /\ allocations' = [allocations EXCEPT ![h][alloc] = Unused]

(* An address outside the heaps or not the start of a block is ignored.    *)
FreeIgnored(addr) ==
  /\ \A h \in Heaps : InHeap(h, addr) => BlocksAt(h, addr) = {}
  /\ UNCHANGED heapVars

-----------------------------------------------------------------------------
(* init_malloc, on tables that are zero when the kernel is loaded.         *)
HeapInit ==
  /\ freespace = [h \in Heaps |-> [i \in Spaces |->
                   IF i = 0 THEN [addr |-> HeapBase[h], size |-> HeapEnd[h] - HeapBase[h]]
                            ELSE Unused]]
  /\ allocations = [h \in Heaps |-> [a \in Slots |-> Unused]]

HeapNext ==
  \/ \E h \in Heaps, size \in Requests :
       \/ MallocHeap(h, size)
       \/ MallocNoSlot(h, size)
       \/ MallocRefused(h, size)
  \/ \E addr \in Pointers :
       \/ \E h \in Heaps : Free(h, addr)
       \/ FreeIgnored(addr)

HeapSpec == HeapInit /\ [][HeapNext]_heapVars

-----------------------------------------------------------------------------
(* Properties                                                              *)

(* The tables keep their shape: every entry is a range of addresses.       *)
HeapTypeOK ==
  /\ freespace \in [Heaps -> [Spaces -> mem_t]]
  /\ allocations \in [Heaps -> [Slots -> mem_t]]

Apart(e, f) ==
  \/ e.size = 0
  \/ f.size = 0
  \/ e.addr + e.size <= f.addr
  \/ f.addr + f.size <= e.addr

Within(h, e) == e.size = 0 \/ (HeapBase[h] <= e.addr /\ e.addr + e.size <= HeapEnd[h])

(* No two live blocks of a heap share a byte.                              *)
LiveApart(h) == \A a, b \in Slots : a # b => Apart(allocations[h][a], allocations[h][b])

(* No byte of a live block is also free, so the next malloc cannot give it *)
(* away.                                                                   *)
LiveNotFree(h) == \A a \in Slots, i \in Spaces : Apart(allocations[h][a], freespace[h][i])

(* No byte is free twice.                                                  *)
FreeApart(h) == \A i, j \in Spaces : i # j => Apart(freespace[h][i], freespace[h][j])

(* Blocks and free ranges stay inside their heap; an unused slot of the    *)
(* allocation table has address 0, which free never looks up.              *)
TablesWithin(h) ==
  /\ \A i \in Spaces : Within(h, freespace[h][i])
  /\ \A a \in Slots : /\ Within(h, allocations[h][a])
                      /\ allocations[h][a].size = 0 => allocations[h][a].addr = 0

(* After any sequence of malloc_heap and free calls, with double frees,    *)
(* stray pointers and full tables among them, live blocks and free ranges  *)
(* are pairwise disjoint parts of their heap.                              *)
BooksBalance ==
  \A h \in Heaps : TablesWithin(h) /\ LiveApart(h) /\ LiveNotFree(h) /\ FreeApart(h)

(* The bytes that a heap's tables know of.                                 *)
Bytes(e) == e.addr .. (e.addr + e.size - 1)
Accounted(spaces, blocks) == UNION ({Bytes(spaces[i]) : i \in Spaces}
                                    \cup {Bytes(blocks[a]) : a \in Slots})

(* The live blocks of a heap, as its callers know them.                    *)
LiveSlots == {x \in Heaps \X Slots : allocations[x[1]][x[2]].size # 0}
LiveBlocks == {[heap |-> x[1],
                addr |-> allocations[x[1]][x[2]].addr,
                size |-> allocations[x[1]][x[2]].size] : x \in LiveSlots}

AbsHeap == INSTANCE AbstractHeap WITH live <- LiveBlocks

(* malloc_heap and free implement the allocator of module AbstractHeap:    *)
(* one step adds one fresh block or removes one block and never moves,     *)
(* resizes or drops another.                                               *)
ImplementsAbstractHeap == AbsHeap!Spec
=============================================================================
