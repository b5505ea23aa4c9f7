---------------------------- MODULE KernelMemory ----------------------------
(***************************************************************************)
(* malloc_heap and free of kernel/memory/memory.c as a whole: the tables   *)
(* of module Heap, the physical page allocator (the pool that PhysMem      *)
(* implements) and the page map that map_page and find_physaddr keep.      *)
(*                                                                         *)
(* The page tables of the heaps are taken to exist; how map_page makes     *)
(* them is the subject of module Paging.  What callers write to a block is *)
(* not modelled, so blocks over the boot pages keep the books intact here. *)
(***************************************************************************)
EXTENDS Heap

CONSTANTS
  PAGE_SIZE,
  Pool,         \* physical page numbers of freemap, walked in this order
  TablePages,   \* the pages of the pool that init_paging took for tables
  BootMap       \* the heap pages that init_paging mapped, and to what

VARIABLES
  used,         \* the pages of the pool that are marked in pmem_bmap
  pagemap       \* [virtual page]: the physical page it is mapped to

kmVars == <<freespace, allocations, used, pagemap>>

NotPresent == -1
VirtPages == UNION {(HeapBase[h] \div PAGE_SIZE) .. (HeapEnd[h] \div PAGE_SIZE) : h \in Heaps}

ASSUME MemoryAssumption ==
  /\ PAGE_SIZE \in Nat \ {0}
  /\ Pool \subseteq Nat
  /\ TablePages \subseteq Pool
  /\ DOMAIN BootMap \subseteq VirtPages
  /\ \A p \in DOMAIN BootMap : BootMap[p] \in Nat \ Pool
  /\ \A p, q \in DOMAIN BootMap : BootMap[p] = BootMap[q] => p = q

-----------------------------------------------------------------------------
(* Mutant: a block that does not fill its last page.                       *)
PageCount_floor(addr, size) == ((addr + size) \div PAGE_SIZE) - (addr \div PAGE_SIZE)

(* The pages of a block, numbered as both loops number them.               *)
PageCount(addr, size) == ((addr + size + PAGE_SIZE - 1) \div PAGE_SIZE) - (addr \div PAGE_SIZE)

(* 0 stands for "not mapped" and is also the address of physical page 0.   *)
find_physaddr(map, virt) ==
  IF map[virt \div PAGE_SIZE] = NotPresent
    THEN 0
    ELSE map[virt \div PAGE_SIZE] * PAGE_SIZE + (virt % PAGE_SIZE)

(* An address that does not start a page is ignored.                       *)
map_page(map, page, virt) ==
  IF virt % PAGE_SIZE # 0 THEN map ELSE [map EXCEPT ![virt \div PAGE_SIZE] = page]

(* Mutant: the page is mapped and not marked.                              *)
MapOne_unmarked(mem, virt) ==
  IF find_physaddr(mem.map, virt) # 0 \/ mem.used = Pool
    THEN mem
    ELSE [mem EXCEPT !.map = map_page(@, Min(Pool \ mem.used), virt)]

(* One turn of the mapping loop of malloc_heap: the page is marked before  *)
(* map_page may decline it, and page 0 is mapped when the pool is empty.   *)
MapOne(mem, virt) ==
  IF find_physaddr(mem.map, virt) # 0
    THEN mem
    ELSE IF mem.used = Pool
           THEN [used |-> mem.used, map |-> map_page(mem.map, 0, virt)]
           ELSE [used |-> mem.used \cup {Min(Pool \ mem.used)},
                 map |-> map_page(mem.map, Min(Pool \ mem.used), virt)]

(* The loop: what its turns leave, from the first on.                      *)
MapTurns(addr, size) ==
  LET turn[i \in 0 .. PageCount(addr, size)] ==
        IF i = 0 THEN [used |-> used, map |-> pagemap]
                 ELSE MapOne(turn[i - 1], addr + (i - 1) * PAGE_SIZE)
  IN  turn
MapBlock(addr, size) == MapTurns(addr, size)[PageCount(addr, size)]

Malloc(h, size) ==
  /\ MallocHeap(h, size)
  /\ LET mem == MapBlock(freespace[h][Min(Fitting(h, size))].addr, size)
     IN  used' = mem.used /\ pagemap' = mem.map

-----------------------------------------------------------------------------
(* free looks for another block that ends in the first page and for one    *)
(* that starts in the last; the block itself has left the table by then.   *)
SameByPage(x, y) == x \div PAGE_SIZE = y \div PAGE_SIZE
StartUsed(allocs, addr) ==
  \E a \in Slots : SameByPage(addr, allocs[a].addr + allocs[a].size - 1)
EndUsed(allocs, addr, size) ==
  \E a \in Slots : SameByPage(addr + size - 1, allocs[a].addr)

(* Mutant: the loop over the pages goes past the block.                    *)
FreedAddresses_past_end(allocs, addr, size) ==
  {find_physaddr(pagemap, addr + i * PAGE_SIZE) : i \in 1 .. PageCount(addr, size)}

(* The addresses that free passes to phys_page_free.                       *)
FreedAddresses(allocs, addr, size) ==
  {find_physaddr(pagemap, virt) :
     virt \in {v \in {addr} : ~StartUsed(allocs, addr)}
              \cup {v \in {addr + size - 1} : ~EndUsed(allocs, addr, size)}
              \cup {addr + i * PAGE_SIZE : i \in 1 .. PageCount(addr, size) - 2}}

(* phys_page_free ignores what is not the address of a page of the pool.   *)
Released(allocs, addr, size) ==
  {page \in Pool : page * PAGE_SIZE \in FreedAddresses(allocs, addr, size)}

(* The pages stay when the range has found no place in the free table.     *)
Dropped(h, block) == Adjacent(freespace[h], block) = {} /\ UnusedSpaces(freespace[h]) = {}

FreeBlock(h, addr) ==
  /\ Free(h, addr)
  /\ LET block == allocations[h][Min(BlocksAt(h, addr))]
     IN  used' = IF Dropped(h, block)
                   THEN used
                   ELSE used \ Released(allocations'[h], addr, block.size)
  /\ UNCHANGED pagemap

-----------------------------------------------------------------------------
KMInit ==
  /\ HeapInit
  /\ used = TablePages
  /\ pagemap = [p \in VirtPages |-> IF p \in DOMAIN BootMap THEN BootMap[p] ELSE NotPresent]

KMNext ==
  \/ \E h \in Heaps, size \in Requests :
       \/ Malloc(h, size)
       \/ (MallocNoSlot(h, size) \/ MallocRefused(h, size)) /\ UNCHANGED <<used, pagemap>>
  \/ \E addr \in Pointers :
       \/ \E h \in Heaps : FreeBlock(h, addr)
       \/ FreeIgnored(addr) /\ UNCHANGED <<used, pagemap>>

KMSpec == KMInit /\ [][KMNext]_kmVars

-----------------------------------------------------------------------------
(* Properties                                                              *)

Overlaps(block, p) == /\ block.size # 0
                      /\ block.addr < (p + 1) * PAGE_SIZE
                      /\ p * PAGE_SIZE < block.addr + block.size
PagesOf(h, a) == {p \in VirtPages : Overlaps(allocations[h][a], p)}
LivePages == UNION {PagesOf(h, a) : h \in Heaps, a \in Slots}

(* What the map gains is a page that was not marked, at one new place      *)
(* only, or page 0 when the pool is exhausted.                             *)
GainsFresh ==
  \A p, q \in VirtPages :
    pagemap'[p] # pagemap[p] /\ pagemap'[q] # pagemap[q] =>
      \/ pagemap'[p] = 0 /\ used' = Pool
      \/ pagemap'[p] \in used' \ used /\ (p = q \/ pagemap'[p] # pagemap'[q])

(* A new mark is on a page with a new mapping, or it is wasted on a block  *)
(* off the page boundary.                                                  *)
MarksUsed ==
  \A page \in used' \ used :
    \/ \E p \in VirtPages : pagemap'[p] = page /\ (pagemap[p] # page \/ page = 0)
    \/ \E h \in Heaps, a \in Slots : /\ allocations[h][a] # allocations'[h][a]
                                     /\ allocations'[h][a].addr % PAGE_SIZE # 0

(* malloc_heap never takes a page that is in use: what it maps was not     *)
(* marked, is marked now and is mapped at one new place only.  When the    *)
(* pool is exhausted it maps page 0, whoever uses that.  A mark that it    *)
(* sets is used for a new mapping (page 0, which reads as not mapped, is   *)
(* mapped where it was) or it is wasted on a block off the page boundary,  *)
(* whose addresses map_page declines.                                      *)
FreshFrames == [][GainsFresh /\ MarksUsed]_kmVars

(* A block that starts on a page boundary is mapped to its last byte, even *)
(* after frees and with a pool that runs out.                              *)
AlignedBlocksMapped ==
  \A h \in Heaps, a \in Slots :
    allocations[h][a].addr % PAGE_SIZE = 0 =>
      \A p \in PagesOf(h, a) : pagemap[p] # NotPresent

(* A page that loses its mark is behind a block that has left the table,  *)
(* or it is page 0.                                                        *)
UnmarksItsPages ==
  \A page \in used \ used' :
    \/ page = 0
    \/ \E h \in Heaps, a \in Slots : /\ allocations[h][a] # allocations'[h][a]
                                     /\ \E p \in PagesOf(h, a) : pagemap[p] = page

(* free only unmarks pages behind the block it is given, or page 0, which  *)
(* is what find_physaddr returns for a page that is not mapped.            *)
FreeReleasesOnlyItsPages == [][UnmarksItsPages]_kmVars

(* "Map pages to that part if no pages are mapped there already"           *)
(* (memory.c:43): every page of a live block is mapped.                    *)
LivePagesMapped == \A p \in LivePages : pagemap[p] # NotPresent

(* "Free pages (if there is no other memory in the page)" (memory.c:111):  *)
(* free unmarks no page that another live block lies on.                   *)
FreeKeepsSharedPages ==
  [][\A p \in LivePages' : pagemap'[p] \in used => pagemap'[p] \in used']_kmVars
=============================================================================
