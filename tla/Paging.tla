------------------------------- MODULE Paging -------------------------------
(***************************************************************************)
(* The page tables of kernel/arch/x86_64/memory/paging.c.  map_page walks  *)
(* from pml4 to the last level; a table that is missing is taken from the  *)
(* physical page allocator, cleared, linked, and then mapped to its own    *)
(* address by a nested call of map_page, which may in turn need tables.    *)
(* The kernel reads and writes tables through their physical addresses, so *)
(* these must be mapped: by the bootloader's tables until init_paging has  *)
(* loaded pml4, by pml4 itself afterwards.                                 *)
(*                                                                         *)
(* The pool is what freemap says it is, and freemap may offer pages that   *)
(* are in use (module Boot).  The memset of such a page destroys what the  *)
(* kernel runs on; there the model stops.                                  *)
(*                                                                         *)
(* A state is a point between two table accesses of map_page.  Addresses   *)
(* are page numbers; unaligned ones (ignored by map_page) are the subject  *)
(* of module KernelMemory.                                                 *)
(***************************************************************************)
EXTENDS Integers, Sequences, FiniteSets, FiniteSetsExt, SequencesExt

CONSTANTS
  LEVELS,        \* levels of tables (4: pml4, pdpt, pd, pt)
  ENTRIES,       \* entries of a table (512)
  VIRTUAL_PAGES, \* pages that an address can name (2^36)
  Pool,          \* physical pages of freemap
  BootMapped,    \* pages that the bootloader mapped to their own address
  BootMaps,      \* [maps, tables]: what init_paging may have to map, and the
                 \* pages of the bootloader's tables
  HeapPages      \* virtual pages that malloc_heap maps later

VARIABLES
  tables,        \* [physical page or pml4][index]: an entry of a table
  marked,        \* the pages of the pool that are marked in pmem_bmap
  calls,         \* the nested calls of map_page, innermost last
  todo,          \* calls that init_paging has yet to make
  cr3,           \* whose tables the processor uses: "boot" or "pml4"
  faulted,       \* a new table's page was not mapped
  used,          \* [kernel, boot]: the pages that init_paging maps, and the
                 \* bootloader's tables
  wiped,         \* a page in use was cleared for a table or given to the heap
  done           \* the calls that have returned to init_paging or malloc_heap

pagingVars == <<tables, marked, calls, todo, cr3, faulted, used, wiped, done>>

(* Values that are no page number.                                         *)
pml4 == -1         \* the root, which is part of the kernel's image
NotPresent == -2
Garbage == -3      \* an entry of a page that was never cleared

TablePages == Pool \cup {0}  \* phys_page_alloc returns 0 when it fails
Indices == 0 .. ENTRIES - 1
Virtual == 0 .. VIRTUAL_PAGES - 1
Empty == [i \in Indices |-> NotPresent]

(* A call of map_page at its first table.                                  *)
Call(phys, virt) == [phys |-> phys, virt |-> virt, level |-> 1, table |-> pml4, made |-> FALSE]

(* virt shifted right by k indices.                                        *)
Shifted(virt) ==
  LET rest[k \in 0 .. LEVELS] == IF k = 0 THEN virt ELSE rest[k - 1] \div ENTRIES
  IN  rest

(* Mutant: a mask that is one bit too short.                               *)
Index_short(virt, level) == Shifted(virt)[LEVELS - level] % (ENTRIES \div 2)

(* pml4_idx, pdpt_idx, pd_idx, pt_idx                                      *)
Index(virt, level) == Shifted(virt)[LEVELS - level] % ENTRIES

(* The tables on the way to a page, from pml4 at level 0, and the page.    *)
Walk(mem, virt) ==
  LET entry[level \in 0 .. LEVELS] ==
        IF level = 0 THEN pml4
        ELSE IF entry[level - 1] = NotPresent THEN NotPresent
        ELSE mem[entry[level - 1]][Index(virt, level)]
  IN  entry

(* find_physaddr, and the processor's own walk.                            *)
find_physaddr(virt) == Walk(tables, virt)[LEVELS]

(* What init_paging maps (the kernel, its stack, the framebuffer, the      *)
(* bitmap, freemap), from wherever it is, it maps at distinct addresses    *)
(* above the memory that tables are taken from and mapped to themselves    *)
(* in; the heap is above too.                                              *)
ASSUME PagingAssumption ==
  /\ LEVELS \in Nat \ {0} /\ ENTRIES \in Nat \ {0} /\ VIRTUAL_PAGES \in Nat
  /\ \A virt \in Virtual : Shifted(virt)[LEVELS] = 0
  /\ Pool \subseteq Virtual
  /\ HeapPages \subseteq Virtual \ Pool
  /\ \A boot \in BootMaps :
       /\ boot.maps \in Seq(Nat \X (Virtual \ Pool)) /\ boot.tables \subseteq Nat
       /\ \A i, j \in DOMAIN boot.maps : boot.maps[i][2] = boot.maps[j][2] => i = j

Accessible(page) ==
  \/ page = pml4
  \/ cr3 = "boot" /\ page \in BootMapped
  \/ cr3 = "pml4" /\ find_physaddr(page) = page

NextPage == IF Pool \subseteq marked THEN 0 ELSE Min(Pool \ marked)

(* The bootloader's tables are in use until load_pml4.                     *)
InUse == used.kernel \cup (IF cr3 = "boot" THEN used.boot ELSE {})

-----------------------------------------------------------------------------
Top == Last(calls)
Return == Front(calls)
TopEntry == tables[Top.table][Index(Top.virt, Top.level)]
Running == calls # <<>> /\ ~faulted /\ ~wiped

(* Mutants: no memset; a nested call only for tables of the last level.    *)
Cleared_not(page) == tables
SelfMap_last_level(page) == IF Top.level = LEVELS - 1 THEN <<Call(page, page)>> ELSE <<>>

Cleared(page) == [tables EXCEPT ![page] = Empty]
SelfMap(page) == <<Call(page, page)>>

TableMissing == Running /\ Top.level < LEVELS /\ ~Top.made /\ TopEntry = NotPresent

(* The entry is not present: allocate a page, clear it, link it, and map   *)
(* it to itself.  The call goes on below the new table when that returns.  *)
NewTable ==
  /\ TableMissing
  /\ Accessible(NextPage) /\ NextPage \notin InUse
  /\ LET page == NextPage
     IN  /\ tables' = [Cleared(page) EXCEPT ![Top.table][Index(Top.virt, Top.level)] = page]
         /\ calls' = [calls EXCEPT ![Len(calls)].made = TRUE] \o SelfMap(page)
         /\ marked' = marked \cup ({page} \cap Pool)
  /\ UNCHANGED <<todo, cr3, faulted, used, wiped, done>>

(* Go one level down.  After the nested call the entry is read again but   *)
(* not tested again: an entry that is gone reads as address 0.             *)
Descend ==
  /\ Running
  /\ Top.level < LEVELS
  /\ Top.made \/ TopEntry # NotPresent
  /\ calls' = [calls EXCEPT ![Len(calls)] =
                 [phys  |-> Top.phys,
                  virt  |-> Top.virt,
                  level |-> Top.level + 1,
                  table |-> IF TopEntry = NotPresent THEN 0 ELSE TopEntry,
                  made  |-> FALSE]]
  /\ UNCHANGED <<tables, marked, todo, cr3, faulted, used, wiped, done>>

(* Write the last entry and return.                                        *)
SetEntry ==
  /\ Running
  /\ Top.level = LEVELS
  /\ tables' = [tables EXCEPT ![Top.table][Index(Top.virt, LEVELS)] = Top.phys]
  /\ calls' = Return
  /\ done' = IF Return = <<>> THEN done \cup {<<Top.virt, Top.phys>>} ELSE done
  /\ UNCHANGED <<marked, todo, cr3, faulted, used, wiped>>

(* The memset of the page for a new table faults when nothing maps that    *)
(* page.  It has been marked by then.                                      *)
PageFault ==
  /\ TableMissing
  /\ ~Accessible(NextPage)
  /\ marked' = marked \cup ({NextPage} \cap Pool)
  /\ faulted' = TRUE
  /\ UNCHANGED <<tables, calls, todo, cr3, used, wiped, done>>

(* The memset clears a page that is in use.                                *)
Wipe ==
  /\ TableMissing
  /\ Accessible(NextPage) /\ NextPage \in InUse
  /\ marked' = marked \cup ({NextPage} \cap Pool)
  /\ wiped' = TRUE
  /\ UNCHANGED <<tables, calls, todo, cr3, faulted, used, done>>

-----------------------------------------------------------------------------
(* Mutant: a loop that does not advance.                                   *)
InitPagingMaps_again ==
  /\ calls = <<>> /\ todo # <<>>
  /\ calls' = <<Head(todo)>>
  /\ UNCHANGED <<tables, marked, todo, cr3, faulted, used, wiped, done>>

(* init_paging makes its calls one after another, then loads pml4.         *)
InitPagingMaps ==
  /\ calls = <<>> /\ todo # <<>>
  /\ calls' = <<Head(todo)>>
  /\ todo' = Tail(todo)
  /\ UNCHANGED <<tables, marked, cr3, faulted, used, wiped, done>>

LoadPml4 ==
  /\ calls = <<>> /\ todo = <<>> /\ cr3 = "boot"
  /\ cr3' = "pml4"
  /\ UNCHANGED <<tables, marked, calls, todo, faulted, used, wiped, done>>

(* malloc_heap: a page that is not mapped gets one from the allocator.     *)
MapHeapPage(virt) ==
  /\ calls = <<>> /\ cr3 = "pml4" /\ ~wiped
  /\ find_physaddr(virt) = NotPresent
  /\ marked' = marked \cup ({NextPage} \cap Pool)
  /\ \/ /\ NextPage \notin InUse
        /\ calls' = <<Call(NextPage, virt)>>
        /\ UNCHANGED wiped
     \/ /\ NextPage \in InUse
        /\ wiped' = TRUE
        /\ UNCHANGED calls
  /\ UNCHANGED <<tables, todo, cr3, faulted, used, done>>

PagingInit ==
  /\ tables = [t \in TablePages \cup {pml4} |->
                 IF t = pml4 THEN Empty ELSE [i \in Indices |-> Garbage]]
  /\ marked = {}
  /\ calls = <<>>
  /\ \E boot \in BootMaps :
       /\ todo = [i \in DOMAIN boot.maps |-> Call(boot.maps[i][1], boot.maps[i][2])]
       /\ used = [kernel |-> {boot.maps[i][1] : i \in DOMAIN boot.maps}, boot |-> boot.tables]
  /\ cr3 = "boot"
  /\ faulted = FALSE
  /\ wiped = FALSE
  /\ done = {}

MapPage == NewTable \/ Descend \/ SetEntry \/ PageFault \/ Wipe

PagingNext ==
  \/ MapPage
  \/ InitPagingMaps
  \/ LoadPml4
  \/ \E virt \in HeapPages : MapHeapPage(virt)

(* The processor runs init_paging and the calls it makes to their end; the *)
(* kernel is not obliged to map more of its heap.                          *)
PagingSpec ==
  /\ PagingInit
  /\ [][PagingNext]_pagingVars
  /\ WF_pagingVars(MapPage \/ InitPagingMaps \/ LoadPml4)

-----------------------------------------------------------------------------
(* Properties                                                              *)

(* The tables at each level below pml4.                                    *)
TablesAt(level) == {Walk(tables, virt)[level] : virt \in Virtual} \ {NotPresent}
AllTables == UNION {TablesAt(level) : level \in 1 .. LEVELS - 1}

(* Addresses that agree in their first indices.                            *)
SamePath(virt, other, level) == Shifted(virt)[LEVELS - level] = Shifted(other)[LEVELS - level]

PoolLasts == ~(Pool \subseteq marked) /\ ~wiped

(* While the pool lasts and has given out no page that is in use, the      *)
(* tables form a tree: no page is linked twice or at two levels, every     *)
(* page linked is marked and was cleared, no table lies in a page that the *)
(* kernel uses otherwise, though the pool may hold such pages, and no      *)
(* table is mapped anywhere but at its own address.  Nested calls that     *)
(* build tables for each other's tables keep it so at every step.          *)
TablesFormTree ==
  PoolLasts =>
    LET walk == [virt \in Virtual |-> Walk(tables, virt)]
    IN  /\ AllTables \subseteq marked \ used.kernel
        /\ \A virt, other \in Virtual, level, k \in 1 .. LEVELS - 1 :
             walk[virt][level] = walk[other][k] /\ walk[virt][level] # NotPresent =>
               level = k /\ SamePath(virt, other, level)
        /\ \A virt \in Virtual : find_physaddr(virt) \in AllTables => find_physaddr(virt) = virt

(* Between calls every table is mapped to its own address, the ones that   *)
(* were needed to map tables included, and in the middle of a call         *)
(* map_page never follows an entry to a table that is not mapped, neither  *)
(* through the bootloader's tables nor, after load_pml4, through its own.  *)
TablesSelfMapped ==
  PoolLasts =>
    /\ calls = <<>> => \A t \in AllTables : find_physaddr(t) = t
    /\ Running => Accessible(Top.table)

(* A mapping that map_page has made is still there after any later call.   *)
MappingsKept == PoolLasts => \A m \in done : find_physaddr(m[1]) = m[2]

(* The nesting of map_page ends: init_paging gets to load pml4, unless a   *)
(* table lies where the bootloader mapped nothing or where something lies  *)
(* that is in use.                                                         *)
InitPagingEnds == <>(cr3 = "pml4" \/ faulted \/ wiped)
=============================================================================
