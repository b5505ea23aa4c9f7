# FlameOS in TLA+

A verification project for FlameOS, a small x86-64 UEFI kernel (bootloader, memory
management, interrupts, an ATA disk driver, FAT32 and a table of open files). The TLA+
modules here are translated from the C and assembly source; TLC checks them on small
instances and TLAPS proves the results that hold for every value of the constants.

Paths in this file are relative to the repository's root.

## 1. The system

| Part | Source | State it keeps | Operations |
|---|---|---|---|
| bootloader | `bootloader/boot.c` | firmware memory map, graphics mode, `freemap`, the pages it allocates, boot page tables | `boot`, `map_page` |
| kernel entry | `kernel/arch/x86_64/init.c`, `init.h` | copy of the boot information | `init`, `init_globals` |
| physical pages | `kernel/memory/memory.c` | `pmem_bmap` over `freemap` | `phys_page_alloc`, `phys_page_free` |
| heap tables | `kernel/memory/memory.c` | `freespace`, `allocations`, one pair for each heap | `init_malloc`, `malloc_heap`, `malloc`, `free`, `refresh_freespace` |
| page tables | `kernel/arch/x86_64/memory/paging.c` | `pml4` and the tables below it, `cr3` | `map_page`, `find_physaddr`, `init_paging`, `load_pml4` |
| interrupts | `cpu/ints/IDT.c`, `PIC.c` | gate table, masks and vectors of two controllers | `init_idt`, `addirq`, `remappic`, `maskirq`, `unmaskirq`, `piceoi`, handlers |
| timer | `cpu/ints/timer/PIT.c`, `PIT.S` | `timerticks` | `init_timer`, `pitirq`, `sleep` |
| disk | `kernel/disk/PIO.c` | `disktable`, `volumes`, ports of the ATA controller | `init_disk`, `readsectorpio`, `writesectorpio` |
| FAT32 | `kernel/fs/FAT.c` | one sector of the allocation table at a time, volume data | `fat_setup`, `fat_read`, `find_fat_entry`, `fat_filesize` |
| open files | `kernel/fs/FS.c` | table of `FILE` structures, the memory of their paths | `fopen`, `fclose`, `fread`, `fseek`, `rewind`, `fsize` |
| segments, ports, syscalls, console | `GDT.c`, `IO.c`, `syscall.c`, `debug_log.c`, `kernel/term` | constant tables; nothing another part reads | - |
| libraries | `libs/` | none | string, maths and pixel loops |

How the parts interact:

* The bootloader reads the firmware's memory map twice, writes the free ranges of the
  second reading to `freemap`, zeroes `pmem_bmap`, maps the kernel and jumps to `init`,
  which replaces the bootloader's tables by its own while it runs on them and draws to the
  framebuffer of the mode that the bootloader has set.
* `init_disk` asks each disk for its size, reads the partition tables and calls `fat_setup`
  for each FAT32 boot sector; `volumes` leads from a path's letter to disk and partition.
  (Its call in `init` is commented out at present.)
* `malloc_heap` finds room in the heap tables, then asks `find_physaddr` for each page of
  the block, and for each one that is not mapped calls `phys_page_alloc` and `map_page`.
  `map_page` itself calls `phys_page_alloc` for missing tables and calls itself to map
  each new table. `free` gives the range back and then calls `phys_page_free` for pages
  that it thinks no other block uses. It never unmaps.
* `fopen`, `fread`, `fat_setup` and the others use `malloc` and `free` for paths and
  buffers and `readsectorpio` for the disk.
* Interrupts come between any two instructions of the kernel after `sti`. Their handlers
  change only `timerticks` and the interrupt controllers.

What is hard here. The kernel has one thread, so there is little concurrency: interrupt
handlers against the initialisation of their own gate and controllers, and the timer
against `sleep`. The difficult behaviour is in long sequences of calls: fixed tables
that fill up, blocks and pages that do not end at the same addresses, bits addressed by
position in a walk, one function called in the middle of itself (`map_page`), buffers
that are replaced while an entry of them is still needed (FAT), and words compared now as
signed, now as unsigned numbers (`fseek`). `PROJECT.json` lists each such hazard at its
line.

What makes each part correct:

* heap tables: live blocks are disjoint from each other and from everything free; a call
  never moves or loses somebody else's block; bytes get lost only in known ways;
* physical pages: a bit means the same page to both functions; a page handed out was free;
* kernel memory: live blocks are mapped, and `free` gives back only what is its own;
* page tables: the tables stay a tree that the kernel itself can reach, through every
  nesting of `map_page`, and no mapping is lost;
* interrupts: no interrupt finds half a gate, every one is acknowledged at the right
  controllers, the firmware's masks survive, `sleep` is long enough and ends;
* files: no sequence of seeks lets `fread` read outside the file, no two callers get the
  same structure, no path is leaked but in known ways;
* FAT: the bytes copied are the file's bytes, and a path leads to the file of that name;
* disk driver: a transfer is of the sectors asked for and of no others, whatever earlier calls
  left in the registers, and the ports are used only when the disk is ready; the disks,
  partitions and letters found are the ones that exist;
* bootloader and entry: the kernel is complete at its address, before and after it changes
  the tables under itself, pages in use are not free, and it draws inside the framebuffer.

## 2. Modules

| Module | Models | Kind |
|---|---|---|
| `AbstractHeap` | what an allocator promises: a set of disjoint live blocks | abstract specification |
| `Heap` | `freespace` and `allocations`; `malloc_heap`, `free`, `init_malloc` | component |
| `HeapRefresh` | `Heap` with `refresh_freespace` between the calls | extends `Heap` |
| `FramePool` | a pool of pages | abstract specification |
| `PhysMem` | `pmem_bmap`, `phys_page_alloc`, `phys_page_free` | component |
| `KernelMemory` | `malloc_heap` and `free` as a whole: `Heap`, the pool and the page map | composition |
| `Paging` | `map_page` step by step, `find_physaddr`, `init_paging`, `load_pml4` | component |
| `Interrupts` | `IDT.c`, `PIC.c`, `PIT.c`, `PIT.S`, the two controllers, the devices | composition |
| `Files` | the table of open files, the memory of the paths and of the FAT functions' buffers | component |
| `Fat` | the cluster chain walks of `fat_setup` and `fat_read` | component |
| `Directory` | `find_fat_entry`: the way along a path, with long names | extends `Fat` |
| `Pio` | `readsectorpio`, `writesectorpio` and the disks' side of the ports | composition |
| `Disk` | `init_disk` and the rest of `fat_setup` on the driver, and the callers after it | extends `Pio` |
| `Boot` | the bootloader and the firmware's allocator, memory map and graphics modes | composition |
| `Entry` | `init_globals`, `init_paging` and the drawing of `init`, after the bootloader | extends `Boot` |
| `LoopLemmas` | least indices, induction over the turns of a loop, quotients and remainders | lemmas |
| `FilesProofs`, `InterruptsProofs` | theorems about the module of that name | proofs |
| `PageProofs` | theorems about `PhysMem` and `Paging` | proofs |
| `KernelMemoryProofs` | theorems about `Heap` and `HeapRefresh`, and with them about `KernelMemory` | proofs |
| `FatProofs` | theorems about `Fat` and `Directory` | proofs |
| `DiskProofs` | theorems about `Pio` and `Disk` | proofs |
| `BootProofs` | theorems about `Boot` and `Entry` | proofs |
| `MC*` | the constants of the runs | model checking |

An operator whose name is that of another one with a suffix (`Shrink_in_place` before
`Shrink`), under a comment that says "Mutant", is a wrong version that a property must
reject; no specification uses it.

### Heap, HeapRefresh

`freespace[heap][entry]` and `allocations[heap][entry]` are the two C arrays; an entry of
size 0 is unused, as in the code. `malloc_heap` is one of `MallocHeap`, `MallocNoSlot`
(the range has already been shrunk when the allocation table is found full) and
`MallocRefused`; `malloc` is the same function with the kernel's heap. `free` is `Free`
or `FreeIgnored`. Loops over a table are written as the least index that satisfies the
loop's condition. `RefreshFreespace` is the two nested loops, each as a recursive function of the
number of turns done (`Sweep`, `Refreshed`), with `end_addr` read once per outer turn as in the code.

Addresses are natural numbers that do not overflow: the heaps end far below 2^64.

### PhysMem

The code does not index the bitmap by page number. Both functions walk the descriptors of
`freemap` and count words and bits as they go. The model keeps the walk (`Pages` is its
sequence of pages; `Word` and `Bit` are what the counters hold after n steps).
`phys_page_free` walks on to `mm_descs`; what it finds there is the constant `beyond`,
and the bits it reaches are memory behind the bitmap, with any contents at the start.

### KernelMemory

`Malloc` and `FreeBlock` conjoin the second half of `malloc_heap` and `free` to the
actions of `Heap`: the pool of pages is that of `FramePool`, `pagemap` is what the page
tables say of the heap's pages. `find_physaddr` returns 0 for "not mapped" and
`map_page` ignores an address that is not page aligned; both are modelled as they are.
The loop of `malloc_heap` over the pages is the recursive function `MapTurns`, one value for
each number of turns; `free` is a set of pages, since its turns do not depend on each other.
The page tables for the heap are taken to exist here.

### Paging

A state is a point between two table accesses. `calls` is the stack of nested calls of
`map_page`; a call knows its level and table. `NewTable` is the whole "not present" branch
up to the nested call, `Descend` what follows it, `SetEntry` the last line. `Accessible`
says whether the processor can reach a physical address: through the bootloader's identity
map until `LoadPml4`, through the kernel's own tables afterwards.

An address is a number below `VIRTUAL_PAGES`; `Shifted` takes its last indices off one by one, as
the shifts at the head of `map_page` do, and `Walk` is the way of `find_physaddr` and of the
processor from `pml4` down, with the page at its end. `PagingAssumption` says what `init_paging`
is given: the kernel, its stack, the framebuffer, the bitmap and `freemap`
go to distinct virtual addresses that are not pages of the pool, as the heap does (the kernel's address is at 64G, its
heap's at 96G, its stack's below 128G, the framebuffer's at 512G: true of a machine with up to 64G of memory).

Their physical pages may be anywhere, in the pool too: the run `boot_stale` shows that `freemap` may offer
the bitmap, the stack and the bootloader's tables. `used` are these pages. When
`phys_page_alloc` hands one of them to `map_page`, the `memset` destroys what the kernel runs on
(`Wipe`; for a page of the heap, the second case of `MapHeapPage`): `wiped` is set and the model stops
there. The safety properties hold up to that point, and as long as the pool has an unmarked page
(`PoolLasts`): after that `phys_page_alloc` returns 0 and page 0 becomes a table again and again
(section 5). That pages in use stay out of the tables is part of `TablesFormTree`.

### Interrupts

`Program` is the kernel's initialisation as a sequence of single port accesses and stores
(table fill, `remappic`, `sti`, `addirq` in three stores, `unmaskirq`). Afterwards the kernel
sleeps or calls `maskirq` and `unmaskirq` (`InMask`, `OutMask`: a read and a write of the
mask). Between any two of these steps, `Raise` and `Interrupt` may happen. The controllers (external: they are hardware)
are modelled as far as the code relies on them: the initialisation words, masks, priority,
cascade, in-service bits, and spurious interrupts for lines that fall too early.

Assumptions. Interrupts are off when `init` starts. Nothing in the repository makes sure of
that: neither bootloader nor kernel has a `cli`, and `exitbs` fails (section 5), so the firmware's
timer may still run. The `sti` at the end of `init_idt` is the only sign that the
code expects them off. On a firmware that leaves them on, an interrupt before that
line would run the firmware's handler under the kernel's page tables; this is outside of the model, and
`InterruptsReachHandlers` says nothing about it. The handlers
lie in one block of 64K (`OffsetAssumption`; the kernel's text is shorter), which is why a half-written
gate is harmless. In `PIT.S` the assembler takes `;` for a statement separator, so the
text behind it is assembled; the handler modelled is the assembled one.

### Files

`files` is the table and one structure past it, because the search in `fopen` has no
bound. A path is what `fopen` finds out about it. Offsets are words modulo `WORD`.
`open` counts, for each structure, the callers that hold it; they close a file once. `failed`
(structures left in use by an
`fopen` that returned 0) and `leaked` (blocks nothing points to) are history variables.
The volume is a signed `char`, so only the characters from `[` to 0x7F are refused and one below
`A` passes (`volume` is `"letter"`, `"below"` or `"slash"`): `fopen` then looks up a volume in front
of the table, which may show any file system and, by `fat_filesize`, any size. If that character is itself a slash
the path has one name less than it has blocks, and the NULL behind the last name overwrites the
pointer to the last block (`Dropped`).
`fat_filesize` does not check whether it has found the file, and whether it does depends on
the memory behind the last name, whose copy is not terminated: the size may be an arbitrary
value of `Garbage`. The buffers that `fat_read` and `find_fat_entry` keep are counted in
`leaked`: two for each `fopen`, three for each `fread`, four if it ends in the cluster
that the pointer is in (`EndsInCluster`).

### Fat

`chain` is the file (or root directory), `fat` the allocation table it implies. `sector`
is the sector in `FAT_buffer`, `Buffer` what an index into it may show. The two places
where the code reloads the buffer before it has used the entry are `Follow` and
`FollowOrReload`. A cluster is one sector of 512 bytes.

`fat_read` starts with its call of `find_fat_entry`. `Directory` has the details; here the
search finds the file (`found`), or returns with an entry that says anything (`FindEntry`), or
goes on for ever (`SearchOn`). A walk that has lost its chain may ask for a sector or a cluster that is
not on the disk, and `Pio` shows that the driver then polls for ever: `FatHangs` leads to `pc = "hung"`
wherever a sector past the table (`NoSector`) or past the clusters (`NoCluster`) may be read. `root_clusters`
counts modulo `U16`. Whether `fat_setup` returns on a chain in several sectors is not promised here; `Disk` has its
loop with the sectors it reads.

### Directory

A state is one directory entry. `buffer` is the cluster that `find_fat_entry` has read,
`active_cluster` the one it thinks it is in; they differ after a long name was cut by
the end of a cluster. Strings are sequences of cells, the 13 characters that one entry of a
long name holds; a cell ends the string or does not, and a name that fills its last entry
has no end but the one that the code puts at `len`. `filename` keeps what earlier names have
left in it. A short name is one cell, with a dot and three characters behind it even if the
file has no extension. The path's names are taken as terminated. `DirectoryAssumption` says
what a directory is: the parts of a long name stand before its entry, the last one first, and
no name of the path is a short name without an extension, blanks included. A directory's first
cluster is the same for all its entries (`sub`).

Deleted entries (first byte 0xE5) are entries like all others to the code. A deleted part of
a long name has lost its number: 0xE5 & 0x1F is 5, so it is taken for part `DELETED`. Short
entries and parts that are deleted may stand between the names of a directory. `wcatomba` cuts the
16 bits of a character to 8 (`Low`), so different names on the disk may be spelled by one path, and a
character may become the end of the string.

A search that has lost its chain reads clusters of other files. `data` is what these show as
directory entries, one of `Foreign`: unused entries, files, directories or parts of names. The first
cluster of what looks like a directory there, and of a deleted one, is anything (`FirstCluster`). The part numbers of
these entries are taken to be within the array; others would write outside of it (FAT.c:166 does not look).
Clusters and sectors that are not on the disk stop the search (`FindHangs`), also the sector that the end
mark of a chain would be in.

### Pio

One state per port access. `Outs` is the order of the nine register writes, `AfterWord`
the ends of the two loops. The disk's side (external) is as much as the driver relies on:
registers two bytes deep, a busy bit and a request bit, a job that goes on by one sector at
a time, busy while a sector is found or stored. `stored` is a history variable. The two
functions differ in the command and in the direction, so they share their actions up to the
data port. There `ReadWord` is an `inw`; `WriteByte` is an `outb`, one byte for each word of the buffer. What a disk makes of a
byte on its two byte wide data port is up to it (`takes`): it takes it for a word, whose other half
is not the caller's, or ignores it, as QEMU does. The bus has no third way that keeps the caller's word.
A disk that does not exist takes no command, and none gets ready for a sector past its end.
The disk is busy as soon as it has the command or the last word of a sector: `smalldelay` is
there to wait for that.

### Disk

`at` is where `init_disk` is between two calls of the driver, `disk` and `part` its loops. The
answer to IDENTIFY is read word by word without a look at the status, as in the code, so
`InwIdentify` may read anything while the disk is not ready; `hasty` remembers for which
disks that happened. `memory` is what was in the memory that `malloc` returned: the size is
joined to it, and a partition's kind stays what it was if no boot sector is found. `Four` is the
sign extension of a partition's place. `fat_setup` is the steps from `FatSetup` to `SetFat`, with its
loop over the root directory and the sectors of the table that the loop reads: `ReloadFat` or
`KeepFat` is line 35, `NextRoot` a turn that goes on. `Links` is what the buffer may show: the links of
the root directory (`root` of the boot sector) where it holds them, anything else elsewhere, so that the loop may
be led astray. `DivideByZero` is the end of
`fat_setup` for a boot sector with 0 bytes per sector (FAT.c:22). `Data` is where cluster 0 is put. When
`init_disk` has returned, callers use the disks that it has found.

### Boot

The program order is `pc`. The firmware (external) hands out pages from either end of the
normal memory or from a reserve, and its map has a descriptor for each run of pages of
one type, so an allocation may lengthen, shorten or keep the map. A map longer than
the buffer is not delivered, and what the loops then read is one of `Junk`. `mm_desc_size` is the
length of the firmware's descriptors, at least that of `memmap_t` (40 bytes; OVMF's have 48). The first
reading shrinks them, the second does not: `Reread` finds a descriptor where a multiple of both lengths is, and
parts of two elsewhere. `reading` says of each descriptor, and of each entry of `freemap`, which reading it is from;
it is history. `map_page` is the recursion of
`Paging` with two levels: PML4 and one table for the rest of the address. `SetMode` is the
whole choice of the graphics mode; the buffers of `querymode` may cost the firmware a page.
`LoadSegments`, `NormalIn` and `OtherCalls` are the loops over the program headers and over
the map, one turn per entry.

`MachineAssumption` says that the memory ends at or below the kernel's virtual address
(0x1000000000, so up to 64 GB: with more, the identity mapping and the kernel's would meet), that
uninitialised memory still reads as some descriptor, and that the firmware's modes fit in their
framebuffer. `FileAssumption` is what `linker.ld` makes of the kernel: its segments do not overlap, the
lowest is at `kernel_vaddr`, and they end below the stack. A file with other magic bytes (`NoElf`) is
not concerned.

### Entry

The steps of `init` after the jump, on the state that `Boot` ends in. `kmap` is what the calls
of `map_page` in `init_paging` leave mapped, `InitPagingCalls` their order. The pages for tables
are the first ones of `freemap` (the bitmap is clear): as many as are needed for what is mapped and for
the tables themselves, which are mapped too (`Takes`). `InitPaging` has three outcomes. `BuildTables`: there are enough
of them, all can be reached under the bootloader's tables, and none is in use. `Wipe`: the `memset` clears a
page in use (`InUse`: the kernel, its stack, `freemap`, the bitmap, the bootloader's tables, the
firmware's memory) or a table just made; `pc` is then `"wiped"` and nothing more is said. `Fail`: too few pages,
or one that is not mapped. Where both could happen the model allows both, since the order depends on the page. How
`map_page` builds the tables step by step, with all levels, is in `Paging`. The framebuffer has pages outside the memory, and
`fillrect` is known by the rectangle it fills. `LayoutAssumption` is the order of the kernel's
addresses: image, heap (0x1800000000), stack (below 0x2000000000), framebuffer (0x8000000000). `init_gdt`, `init_idt`, `init_timer` and the
test of `malloc` come between `init_paging` and the drawing and touch none of this.

## 3. Runs

| Run | Expect | What it shows |
|---|---|---|
| `heap` | pass | `BooksBalance`, `LostOnlyForThreeReasons` and the refinement of `AbstractHeap`, with `refresh_freespace` between the calls, double frees, stray pointers and full tables |
| `phys` | pass | the bitmap implements `FramePool` |
| `kernel_memory` | pass | fresh pages only, no mark without a mapping, aligned blocks mapped, `free` releases its own pages only |
| `km_unmapped` | violation | a block that starts inside a page may be returned unmapped |
| `km_shared` | violation | `free` gives back a page that another live block starts in |
| `paging` | pass | tables form a tree, are mapped to themselves, no mapping is lost, `init_paging` ends |
| `interrupts` | pass | gates, acknowledgement, masks, `sleep` |
| `files` | pass | pointers and reads stay inside the file; every structure in use has one caller or was left by a failed `fopen`, also past a full table; ownership of path memory |
| `fat` | pass | the right bytes and the right count, and a return, for chains in one sector of the table; elsewhere `fat_read` returns, searches on or waits for a sector that is not there; `find_fat_entry` finds what exists and returns nothing of another name, but behind deleted parts |
| `boot` | pass | kernel in place under both sets of tables, which are not made of pages in use unless `freemap` offers them; `init` draws inside the mode that is set, tables mapped to themselves, what `freemap` has of the second reading leaves out the pages taken before, bootloader and `init` end |
| `boot_stale` | violation | pages taken after the second reading (bitmap, stack) are free in `freemap` |
| `pio` | pass | `init_disk` finds the disks, letters and partitions; transfers within the sectors asked for, and only when the disk is ready; nothing pending; calls end unless a disk cannot answer, a boot sector divides by zero or a root directory leads its loop astray |

A run passes with deadlock checked, except where the system may stop: after `init_paging`
the kernel need not map anything else, a FAT call that has returned is over or waits for ever for a
sector, `init` ends in an empty loop, and the driver may wait for ever for a disk that does not exist.

### Bounds

* `heap`: a heap of 6 bytes and one of a single byte, 2 free
  entries, 3 allocation entries, requests of 0 to 2 bytes. Two free entries are enough for
  fragmentation, joining on either side and a full table; three slots against the number
  of blocks that fit make the allocation table fill first in some states and the heap in
  others. Pointers contain starts, middles and addresses outside.
* `phys`: words of 3 bits and descriptors whose page counts are no multiples of 3, so that
  words and descriptors end at different places; memory behind the bitmap is arbitrary.
* `kernel_memory`: pages of 2 bytes, a heap of 3 pages, requests up to 3 bytes: blocks
  start and end on and off page boundaries and span up to three pages. The pool has
  fewer pages than the heap, so it is exhausted, and holds page 0.
* `paging`: 3 levels of 4 entries, 16 pages that the boot maps cover. Fewer levels
  than the code's 4, but a nested call already needs tables at every level below the root
  and may need them in the same or in another branch than the outer call. Kernels of one or two pages
  and framebuffers of one or five; in six of the ten cases the stack, the bitmap or one of the
  bootloader's tables is a page of the pool, which is taken for a table, given to the heap, or never reached.
* `interrupts`: the timer, a line of the first controller and one of the second, the last
  two fickle; the last may be masked and unmasked; a counter modulo 5 so that it wraps. `Raise(0)` waits while `sleep` would
  otherwise miss a full turn of the counter (2^64 ticks in the code).
* `files`: two files and the structure past them, 13 blocks of memory, enough for three open
  files and some reads, clusters of 2 bytes, offsets on both sides
  of 0 and of the size, words modulo 16 with sizes below a quarter of that, as 32-bit
  sizes are below 64-bit offsets.
* `fat`: 7 clusters in 2 sectors of the table (6 entries each), all chains of up to 3
  clusters (`MAX_CHAIN`), 2 bytes per cluster, every pointer and count, searches that find the file and that
  do not. A count of clusters modulo 5. For `find_fat_entry` 4 entries per cluster and names
  of up to 2 parts (`PARTS`), in roots of two or three clusters: names lie inside a cluster,
  end at its end, and are cut by it; one is the beginning of another and fills its part; one is
  of characters that 8 bits cut to another name; deleted short names, and deleted parts of long names that stand
  for the second part, before files and before directories; the
  directory repeats names of the root; paths lead to files, through a file, to a missing
  file, and end in a separator. Other clusters show unused entries, or a mix of parts, a file and a directory.
  Chains of root and directory are in the same sector and in different ones.
* `boot`: sixteen pages, two layouts of the firmware's map, no kernel or one of two
  pages with a segment that starts inside a page, pages of 2 bytes, bitmap pages of 8 bits
  so that the bitmap needs two pages, tables of 8 entries so that the memory needs two
  tables, the kernel with its heap and stack a third and the framebuffer a fourth; descriptors of 5 words (40 bytes) and of 6. Memory runs out
  in some behaviours, and in others `init_paging` finds pages in use in `freemap`. Three pixels to a
  page; modes with lines longer than they show, two of equal sum, one higher than wide.
* `pio`: bytes of two values, so addresses of six bits and counts of two; sectors of three
  words, the second of which stands for the disk's size; disks of 44 sectors, two on one
  channel, one on each, or one alone, and a channel without disks that floats or not;
  tables of two partitions, empty ones, one at a place that is negative as an int, file
  systems with one and two tables and with larger clusters, root directories of one cluster, of
  two in one sector of the table (4 entries) and of two in different ones, a boot sector with 0 bytes per
  sector; disks that take bytes and disks that do not; clear memory, and memory that
  shows a size or a file system. Requests differ in the bytes sent first and in those sent
  last, and are of one to three sectors, in any sequence.

### Fairness

* `Paging`: weak fairness of the steps of `init_paging` and `map_page`. The processor runs
  on; nothing else can disable these steps.
* `Interrupts`: handlers run to their end (weak). An interrupt that is requested and enabled
  is taken (weak). The kernel's own step is disabled whenever a handler runs, so it has
  strong fairness: devices leave the processor time between two interrupts. The timer was
  programmed for a periodic mode (weak fairness of `Raise(0)`). No fairness for other
  devices, faults, or callers of `sleep`.
  `OutMask` has the same strong fairness; nobody is obliged to call `maskirq`.
* `Fat`, `Directory`: weak fairness of the program's next step. It has the processor, and the disk
  answers for sectors that it has (`Disk` justifies this); for others `FatHangs` and `FindHangs` are steps of their own.
* `Boot`, `Entry`: weak fairness of the program's next step. It has the processor, and firmware calls return.
* `Disk`: weak fairness of the steps of `init_disk` and the driver and, for each channel, of the disk's answer: a
  disk that exists finishes what it does. No fairness for callers.

## 4. Proofs

TLAPS checks these, for every value of the constants that satisfies the named assumptions of
the module in question. `PROJECT.json` lists the theorems with the properties they state.

| Module | Theorems (property) |
|---|---|
| `PageProofs` | about `PhysMem`: `PhysTypeCorrect` (`PhysTypeOK`), `PhysMemImplementsFramePool`: any word size and descriptors |
| `KernelMemoryProofs` | about `HeapRefresh`, and so about `Heap`: `HeapTypeCorrect` (`HeapTypeOK`), `BooksAlwaysBalance` (`BooksBalance`), `HeapImplementsAbstractHeap` (`ImplementsAbstractHeap`), `BytesLostForAReason` (`LostOnlyForThreeReasons`): any number and size of heaps and tables, any requests and pointers |
| `KernelMemoryProofs` | about `KernelMemory`: `BooksBalanceUnderPages` (`BooksBalance`), `AlignedBlocksStayMapped` (`AlignedBlocksMapped`), `FramesAreFresh` (`FreshFrames`), `FreeKeepsToItsPages` (`FreeReleasesOnlyItsPages`): any page size, heap, pool and boot map |
| `PageProofs` | about `Paging`: `PagingTree` (`TablesFormTree`), `PagingSelfMapped` (`TablesSelfMapped`), `PagingKeepsMappings` (`MappingsKept`): any number of levels, entries and pages, any pool, any calls of `init_paging` and the heap |
| `FilesProofs` | `FilesInvariant`, `FilesTypeCorrect`, `PointersStayInside` (`PointerInFile`), `ReadsStayInside` (`ReadsInsideFile`), `EveryStructAccounted` (`StructsAccounted`), `EveryNameOwned` (`NamesOwned`): any table, paths, offsets and blocks |
| `InterruptsProofs` | `IntInvariant`, `IntTypeCorrect`, `HandlersAlwaysReached` (`InterruptsReachHandlers`), `EveryInterruptAcknowledged` (`AllAcknowledged`), `MasksAlwaysSurvive` (`MasksSurvive`), `SleepNeverShort` (`SleepsLongEnough`): any devices, firmware masks, handler addresses and width of the counter |
| `DiskProofs` | `DiskInvariant`, `PioTypeCorrect` (`PioTypeOK`), `DriverStaysInStep` (`DriverInStep`), `SectorsTransferred` (`TransfersSectors`), `DisksAreFound` (`DisksFound`), `PartitionsAreRight` (`PartitionsRight`): any size of bytes, sectors and disks, any contents and requests |
| `FatProofs` | `FilesAreRead` (`ReadsFile`), `RootIsCounted` (`CountsRootInOneSector`), `FoundEntryIsNamed` (`FoundIsNamed`): any table, chains, clusters and directories |
| `BootProofs` | `EntryInvariant`, `TablesAreMapped` (`BootTablesMapped`), `RereadKeepsPages` (`RereadProtects`), `KernelStaysInPlace` (`KernelInPlace`), `DrawsWithinScreen` (`DrawsOnScreen`): any memory, kernel file, graphics modes, choices of the firmware and contents of uninitialised memory |

### How the proofs are made

A theorem rests on an inductive invariant that TLC has also checked on the run of its module. The
proof that a step keeps it has one lemma for each action, or for each group of actions with the
same effect, and one step for each conjunct that the action can disturb.

Loops. A search for the first entry is `Min` of the indices that satisfy its condition;
`LoopLemmas!MinMember` says that it is one of them and that none is smaller. What needs
induction (that the turns of a loop keep something, that a recursive function has a
value for every argument) is proved by the least counterexample: the set of the arguments for which
it fails has a least member, and the turn before that one contradicts it. `Turns` is this argument
once and for all, for a set in place of a predicate.

The heap. That live blocks are disjoint is not inductive: `malloc_heap` cuts a new
block from a free range, so live blocks must be disjoint from free ranges
(`LiveNotFree`); `free` turns a block into a part of a free range, so free ranges must be
disjoint from each other (`FreeApart`), or one range could be cut twice; and a block that
joins a neighbour must not leave the heap or meet entries at address 0 (`TablesWithin`, with
the fact that an unused slot has address 0, which lies in no heap, so that `free` never
finds one). The conjunction, `BooksBalance`, with `HeapTypeOK`, is inductive. It needs
`HeapsAssumption` (heaps are not empty and exclude address 0). The refinement uses it
for the freshness of a new block and for the uniqueness of the block that `free` removes;
`HeapsApartAssumption` is what makes a pointer belong to one heap. The delicate case is an
exhausted entry: size 0, but with an address that a later block is
compared with. `Grow` on such an entry makes it the block itself, on either side, so
the invariant says nothing about the address of an entry of size 0.

`refresh_freespace`. The same exhausted entries make this loop delicate. A turn for a range takes a range
that starts at its end, and exhausted entries at that address add nothing (`SweepJoins`). A turn for an
exhausted entry deletes the entry itself and the range that starts at the same address, if there is one. When
that range comes later in the table, its size is left on the entry, whose address is 0 by then
(`SweepDeletes`). So `BooksBalance` does not hold between the turns: there may be a range at address 0
(`Ghost`), outside of the heap. `SweptInv` is what does hold: ranges at other addresses are disjoint and in
their heap, and as long as a range is at address 0 a turn for an entry of address and size 0 is still to
come. That turn deletes all such ranges, so none is left at the end and the books balance again (`RefreshedRight`).
`Held`, the bytes of the ranges at other addresses, never grows, and stays the same if no exhausted entry is at the
start of a range (`Tidy`): this is the third reason of `LostOnlyForThreeReasons`. `malloc_heap` and `free` move
bytes from one table to the other (`MallocAccounts`, `FreeAccounts`) or drop them for the first two.

The bitmap. `n |-> <<Word(n), Bit(n)>>` is injective (`PositionsDiffer`), the walks
of both functions agree on the pages (`WalksAgree`), and so setting or clearing one bit
changes `UsedPages` by exactly the page at that position. Positions past the pages
belong to no page. It needs that the firmware's descriptors do not overlap
(`PagesAssumption`).

Kernel memory. `KMSpec => HeapSpec` brings `BooksBalance` over from `Heap`; it is what tells the
live blocks that stay from the one that comes or goes, and places each in its heap. `PagesInv` is this
with the types of the pool and the page map and `AlignedBlocksMapped`. The loop of
`malloc_heap` has an invariant of its own, `Mapped(mem, addr, i)`: after i turns the map has changed
on the block's first i pages only, it has lost none, what it has gained was free and is at one place,
and each new mark stands for a page it has gained. The hard case is page 0, which `find_physaddr` does not
distinguish from "not mapped": a page mapped to 0 may be mapped again, so the mark on page 0 may have no
place left in the map at the end.

Page tables. The lemma everything rests on is `LinkedWalk`: in a tree, writing one entry of a table changes the
walks that pass this entry and no others, because two walks that meet at a table have come the same way
(`SameTable`). `PagingInv` is, as long as the pool lasts and no page in use has been cleared, the tree with what its leaves map (`Tree`: never an
unmarked page of the pool unless it is one of the pages that `init_paging` was given to map, and those never become
tables, so that a page that becomes a table is not mapped anywhere else; `Given` are the pages that a leaf may show without
a mark), the stack of nested
calls (`Nested`: each stands at a table on the way to its page, the outermost maps a page of `init_paging` or of
the heap, all others map a page of the pool to itself), the tables that wait for a nested call (`SelfMaps`) and
what has been mapped (`Kept`). The nesting is harmless because a nested call can only fill in what the
outer one finds present when it goes on. A table is never taken after `load_pml4` (`TakenInTime`): no unmarked
page is mapped then, so the step is `PageFault`.

Open files. The five properties need each other. That nothing but known blocks is leaked does not hold by
itself: `fclose` gives blocks back, and only `NamesOwned` says that no other structure has them;
`StructsAccounted` says that the structure `fopen` takes is counted by nobody;
`ReadsInsideFile` follows from `PointerInFile` before the read. Offsets are compared modulo `WORD`, and
sizes below a quarter of it are what makes a sum that has wrapped around visible as too large.

Interrupts. Until `sti` the invariant is about the program: which word each controller waits for
(`Programmed`), where the masks are while `remappic` has them in variables (`MasksKnown`), and which
gates are set (`GatesSet`, which uses that the handlers lie in one block of 64K). From `sti` on
it is about the handlers: what a handler has still to do fits what is in service
(`InService`), also for a spurious interrupt. `SleepCounts` relates the ticks that have passed
to the counter and covers an `exit` that has wrapped around.

Disks. `TransfersSectors` needs to know why the disk is at the word that the driver takes it to
be at. `Sent` says what the two-byte registers hold after each of the nine writes, whatever
earlier calls have left in them; `AddressArrives` and `CountArrives` that the bytes, in the order in
which the disk puts them together, are the number again; `JobsInStep` that from then on the disk's job is
at the driver's sector and word or is over, or is a write at its first word on a disk that ignores bytes. On top of it `SetUp`, `Letters` and `Sized` say how far
`init_disk` has come; `Signed` says that `fat_setup` is called on a boot sector that exists, and what it keeps
of it through its loop. A partition's place is a sign-extended int and a link may be any number of four bytes, so the
places asked for are not all below the end of a disk (`Places`); the proof shows that the
driver then waits and transfers nothing.

FAT. `ReadInv` says that what has been copied is right and that `fat_read` stands at the cluster
which the next byte is in, with that cluster's sector of the table loaded: a chain in one sector never
reloads it. `CountInv` is the same for `fat_setup`. `FindInv` says what the array of `find_fat_entry`
holds of a long name: the parts from the last one down to the current entry, with `len` their number, and that
`len` is 0 outside of names; without the latter the place where the array is terminated
would be unknown. It holds while the search is in a directory in which no name is cut by the end of a cluster. A search
that has been in the contents of a file may come back to a directory, so the invariant also says that no name is
under way when a cluster begins, and makes no use of what the array holds from before. Deleted entries stand
between names: `FindInv` says of an entry behind a deleted part only that it is one (`BehindDeleted`). What is
compared is the long name cut to 8 bits (`Spelled`).

Bootloader. `EntryInv` has a part for each thing that is under way. `MemoryInv`: what the bootloader
has is taken from the firmware, and a table's page is nothing else. `CallsInv`: every call of `map_page` that
is pending maps a page of the memory to itself or lies above the memory (`Harmless`), and a table
that is not yet mapped is asked for by one of the nested calls. Without the first half the
entry of a table could be overwritten by a later call. `KernelInv`: for each page of
the kernel, the last pending call for it is the right one, or it is mapped and no wrong one
follows; this is where the order of the loops counts, since a descriptor that is no descriptor may name
the kernel's addresses, and is overruled only because the kernel is mapped last. `MapInv`: after the second
reading no normal descriptor covers a page of the kernel, the map or freemap. It needs
`DescriptorsRight`, that the firmware's map has a descriptor for each run and that the pages
of a descriptor all have its type. Where the second reading is not all of `memmap` (it was not delivered, had another
length, or longer descriptors) this is said of each descriptor whose `reading` is 2. `ImageInv`: the bytes of the segments
are where their headers say, from `ImageTurns`, the loop of `LoadSegments` turn by turn; segments that are
apart do not overwrite each other. `StackInv`, `ModeInv`, `GlobalsInv`, `TablesInv` and `RectInv`
carry this over to the kernel's own tables and to what it draws: the five rows of calls in
`init_paging` do not meet (`PagingCallsRight`), and a pixel of the rectangle lies in the framebuffer
(`PixelInside`). The pages that `init_paging` takes are pages of the memory that it can reach, hence below all
addresses of the kernel, so that their identity mapping replaces none of the rows; that none of them is in use is what tells
`BuildTables` from `Wipe`, and that a `Wipe` has its cause in `freemap` follows from the walk taking slots of `freemap` only.

### Only model-checked

* Liveness (`InitPagingEnds`, `SleepEnds`, `FatLoopsEnd`, `FindsFile`, `BootEnds`, `CallsEnd`), which the
  prover does not do.

## 5. What the models show about the code

The violation runs and their findings are in `PROJECT.json`. Other behaviour that the models
contain or that was met while translating, without a line of the repository that denies it:

* `free` leaves the page mapped. The next block at the same address finds it mapped and does
  not mark it again, so a live block can lie on a page that the pool considers free.
  `FreshFrames` is therefore about pages that get mapped, not about pages in use.
* `find_physaddr` returns 0 for a page that is not mapped, and `free` passes that on:
  when page 0 is in the pool it loses its mark. `FreeReleasesOnlyItsPages` names this case.
* When the pool is exhausted, `malloc_heap` maps page 0 and `map_page` clears and links it
  as a table.
* `refresh_freespace` does not combine three ranges in a row in one turn, because the end
  address is read before the entry grows, and it deletes a range together with an exhausted
  entry at the same address (the third reason of `LostOnlyForThreeReasons`). While it runs the
  table can hold a range at address 0; it never does when it returns.
* `init_paging` maps `freemap` and the bitmap to the start of the kernel's heap, and
  `init_malloc` declares the same range free, so the first blocks lie over them.
* `fopen` on a volume without a known file system keeps the structure and the path; with all
  structures in use it takes one past the table, which `fclose` then refuses.
* The end of the path array is stored one element past it (FS.c:22), and the copy of the last
  name is not terminated (FS.c:34). A volume below `A` is not refused, because `char` is signed (FS.c:26), and
  indexes `volumes` from before its start. For a path like `|//name` the NULL behind the last name falls on the
  pointer to a block, which is lost.
* `fseek` with `SEEK_END` moves the pointer and returns -1.
* `phys_page_free` walks `freemap` up to `mm_descs` (memory.c:172), where `phys_page_alloc`
  stops at `fm_descs`: what follows `freemap` is read as descriptors, and a bit behind the
  bitmap may be cleared.
* After `load_pml4`, `map_page` clears a new table through its physical address before
  anything maps it there (paging.c:17, 25, 33): it faults unless an earlier mapping covers
  the page. `PageFault` is this step. While the pool lasts no earlier mapping does (lemma `TakenInTime`), so
  the heap works only where `init_paging` has left it a table.
* `fat_read` and `fat_setup` may follow the wrong link when a chain crosses sectors of the
  table; `ReadsFile` and `CountsRootInOneSector` are stated for chains in one sector. In
  `fat_setup` an index past the buffer (FAT.c:35) decides whether the sector is reloaded, so the loop
  (FAT.c:34) may read the wrong link and go round for ever; `init_disk` then does not return. A boot sector with
  0 bytes per sector is divided by (FAT.c:22). A lost walk may also ask for a sector that is not on the disk, for
  which the driver waits for ever. `fat_read` does not look whether `find_fat_entry` has found the file.
* `find_fat_entry`: a long name that is cut by the end of a cluster restarts the search on the
  same buffer, possibly for ever (FAT.c:181). At the end of a chain the sector that the end mark would be in, far
  behind the table, is read and shown as links (FAT.c:203): on a disk that is not that large the search
  for a missing file never returns, on a larger one its result is not reliable. Deleted entries are not skipped: a deleted short name
  cannot be told from another, and a deleted part of a long name is copied to the place of part 5, so that
  the entry behind it is compared with what an earlier name has left in front.
  Names whose characters differ only above 8 bits are the same name.
  A file in the middle of a path ends the search. Entering a directory does not load
  the table's sector for it. A short name without an extension is compared with a dot and
  three blanks behind it, so no path leads to it. After a name that was cut, `len` still
  counts its parts. A path that ends in a separator finds an unused entry.
* `find_fat_entry` gives back neither of its buffers, `fat_read` one of two and none when it
  returns early (FAT.c:96, 125): the heap shrinks with every `fopen` and `fread`.
* FAT: for clusters of several sectors the start of the data is wrong (FAT.c:27 takes two sectors
  off, not two clusters), and the readings of the table (FAT.c:81, 100, 118, 179, 203) ask for
  as many sectors as a cluster has, into a buffer of one. `PartitionsRight` is about clusters
  of one sector.
* `writesectorpio` puts out only the low byte of each word, by `outb` (PIO.c:118): a disk that takes it stores half
  of the caller's words, QEMU's ignores it, stores nothing and has the whole write pending when the function returns.
  Nothing in the kernel calls it yet. A count of 0 means
  the largest count to the disk and none to the driver. `init_disk` reads the answer to
  IDENTIFY without waiting and joins the size to uninitialised memory: a disk may be missed, and
  one that does not exist may be taken for found and then polled for ever, as is a channel
  that floats (PIO.c:143). The boot sector of an empty entry is sector 0 of the disk. A partition
  at or above 2^31 gets a place with the upper half set (PIO.c:167), and the driver waits for a
  sector that no disk has. The kind of a partition without a known boot sector is whatever
  `malloc` has left there.
* Bootloader: pages are allocated after the last reading of the map, so `exitbs` always gets a
  stale key and its result is not looked at (boot.c:184; `exited` is FALSE whenever the
  kernel is entered). The second reading passes the size of the first map, so that a map
  that has grown is not delivered; its descriptors are not shrunk again, `mm_descs` is
  not updated, and `fm_descs` was counted before it. With the 48-byte descriptors of OVMF the loops over the second
  reading therefore find one descriptor in six at its place and parts of two in the others. Only the first page of the bitmap
  is mapped, because a number of pages is added to an address in bytes (boot.c:169).
* `init_paging` takes its tables from `freemap` as the bootloader has left it. Where that offers the bootloader's tables, the
  bitmap or the stack (run `boot_stale`), the `memset` of `map_page` clears them while the kernel runs on them
  (`Wipe` in `Entry` and `Paging`).
* `init_paging` maps one page of the bitmap for the same reason (paging.c:98), and
  `pmem_bmap_pages` is too small by a factor of 4096 (init.h:100). What `init` draws at the end
  is as wide as the screen is high: on a mode higher than its lines are long it writes past
  the framebuffer.

## 6. Not modelled

* `free_pages`, `get_heap_pages`, `alloc_and_map`: no callers (one has no body).
* GDT, port access, system calls (an empty switch), console: constant data, single
  instructions, or output that no other part reads.
* `plotpixel`, `plotimg`: no callers. `libm`: floating-point approximations. The rest of `libc`
  is part of the actions that use it, or formats output.
* The test of `malloc` in `init`, and the output of `debug_log`.
* The contents of memory blocks and files; other fields of the boot sector.
* The bootloader's own image and stack, which the firmware's tables map, and interrupts before
  `init_idt` (see `Interrupts` in section 2).
* What the kernel does after it has cleared a page that it runs on, divided by zero, or used page 0 as memory.

## 7. Plan

Order of the work, most important behaviour first. Done: heap tables, physical pages, their
composition, page tables, interrupts, files, cluster chains and directories, the disk driver
and `init_disk`, the bootloader and the kernel's entry, and the proofs of section 4.

Every property of a passing run but the liveness properties is stated by a theorem. Next: the liveness
properties, when the prover can do them.
