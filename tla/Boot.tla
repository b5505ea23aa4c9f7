-------------------------------- MODULE Boot --------------------------------
(***************************************************************************)
(* The bootloader, bootloader/boot.c: it reads the firmware's memory map,  *)
(* loads the kernel, writes the free memory to freemap, builds page tables *)
(* and enters the kernel.  It takes pages from the firmware all the while, *)
(* so that its copy of the map and the key of that copy grow stale.        *)
(*                                                                         *)
(* Addresses are page numbers; sizes of the map are in descriptors.  The   *)
(* tables have two levels: PML4 and one for all the others.                *)
(***************************************************************************)
EXTENDS Integers, Sequences, FiniteSets, FiniteSetsExt, SequencesExt

CONSTANTS
  PAGE_SIZE,       \* bytes of the kernel's image in a page
  LOW,             \* pages mapped in any case (the first 16 MB)
  ENTRIES,         \* pages under one entry of PML4
  BITS,            \* bits in a page of the bitmap (32768)
  Firmwares,       \* [map, modes]: the types of the pages at the start and
                   \* the graphics modes
  Elves,           \* kernel files: sequences of program headers, or NoElf
  DescSizes,       \* lengths of the firmware's descriptors, in u64s
  Junk,            \* descriptors that uninitialised memory may show
  kernel_vaddr,    \* virtual pages of the kernel and below its stack's end
  kernel_stack

VARIABLES
  fw,              \* [page]: "normal" is free, "bin" kept in reserve
  key,             \* of the firmware's map: changes when pages are taken
  gop,             \* [modes, mode]: the graphics modes and the one that is set
  fb,              \* what bootinfo says of it
  mm_desc_size, memmapsize, memmap, mapkey, mm_descs,
  fm_descs, freemap,
  elf, image,      \* the file, and [byte] of the memory it is loaded to
  at,              \* [purpose]: the pages the bootloader has allocated
  tables,          \* [entry of PML4]: the page of its table
  mapped,          \* [virtual page]: what its entry says
  calls,           \* nested calls of map_page
  todo,            \* calls of map_page that the loops have yet to make
  exited,          \* exitbs has succeeded
  stale,           \* history: a read of the map failed or changed its length
  pc

firmwareVars == <<fw, key, gop>>
mapVars == <<mm_desc_size, memmapsize, memmap, mapkey, mm_descs, stale>>
infoVars == <<fb, fm_descs, freemap, elf, image>>
pageVars == <<tables, mapped, calls, todo>>
bootVars == <<firmwareVars, mapVars, infoVars, at, pageVars, exited, pc>>

NoElf == <<>>
NoMode == [w |-> 0, h |-> 0, pixperline |-> 0, fbsize |-> 0]
None == -1
Ceiling(a, b) == (a + b - 1) \div b
Pages == DOMAIN fw
Types == {"normal", "bin", "taken", "firmware", "runtime"}
Modes == [w : Nat, h : Nat, pixperline : Nat, fbsize : Nat]
memmap_t == 5      \* u64s in the bootloader's own descriptor

(* reading is history: the reading of the map that a descriptor is from,   *)
(* the first or the second, or 0 if it never was one of the firmware's.    *)
Descs == [type : Types, physaddr : Nat, pages : Nat, reading : 0 .. 2]
Headers == [p_type : STRING, p_vaddr : Nat, p_filesz : Nat, p_memsz : Nat]

(* The memory is below the kernel's address; the firmware has a graphics   *)
(* mode, and in a mode the lines are as long as the screen is wide and fit *)
(* in the framebuffer.  "This assumes mm_desc_size >= normal memmap_t      *)
(* size" (boot.c:34).                                                      *)
ASSUME MachineAssumption ==
  /\ PAGE_SIZE \in Nat \ {0} /\ ENTRIES \in Nat \ {0} /\ BITS \in Nat \ {0}
  /\ LOW \in Nat /\ kernel_vaddr \in Nat /\ kernel_stack \in Nat /\ kernel_vaddr < kernel_stack
  /\ DescSizes \subseteq {size \in Nat : size >= memmap_t}
  /\ Junk \subseteq {desc \in Descs : desc.reading = 0}
  /\ \A firmware \in Firmwares :
       /\ \E n \in 0 .. kernel_vaddr : firmware.map \in [0 .. n - 1 -> Types \ {"taken"}]
       /\ firmware.modes \in Seq(Modes) /\ firmware.modes # <<>>
       /\ \A m \in DOMAIN firmware.modes :
            LET mode == firmware.modes[m]
            IN  mode.w <= mode.pixperline /\ mode.pixperline * mode.h <= mode.fbsize

(* The segments of the kernel's file are apart, the first is at its        *)
(* address (linker.ld), and they end below its stack.                      *)
ASSUME FileAssumption ==
  \A file \in Elves \ {NoElf} :
    LET loaded == {s \in DOMAIN file : file[s].p_type = "PT_LOAD"}
        start(s) == file[s].p_vaddr
        end(s) == file[s].p_vaddr + file[s].p_memsz
    IN  /\ file \in Seq(Headers)
        /\ \A s \in loaded :
             /\ file[s].p_filesz <= file[s].p_memsz
             /\ kernel_vaddr * PAGE_SIZE <= start(s) /\ end(s) <= (kernel_stack - 1) * PAGE_SIZE
        /\ \E s \in loaded : start(s) = kernel_vaddr * PAGE_SIZE
        /\ \E s \in loaded : file[s].p_memsz > 0
        /\ \A s, t \in loaded : s # t => end(s) <= start(t) \/ end(t) <= start(s)

-----------------------------------------------------------------------------
(* The firmware.                                                           *)

(* Its map: a descriptor for each run of pages of one type.  The pages it  *)
(* keeps in reserve have the type of the ones that are taken.              *)
Listed(p) == IF fw[p] \in {"bin", "taken"} THEN "runtime" ELSE fw[p]

Descriptors ==
  LET starts == {p \in Pages : p = 0 \/ Listed(p - 1) # Listed(p)}
      start(i) == CHOOSE p \in starts : Cardinality({q \in starts : q <= p}) = i
      end(p) == Min({q \in starts \cup {Cardinality(Pages)} : q > p})
  IN  [i \in 1 .. Cardinality(starts) |->
         [type |-> Listed(start(i)), physaddr |-> start(i), pages |-> end(start(i)) - start(i),
          reading |-> IF pc = "reread" THEN 2 ELSE 1]]

(* pagealloc: n free pages in a row, from either end of the normal memory  *)
(* or from what the firmware keeps for memory of the kind asked for.       *)
Runs(type, n) == {p \in Pages : \A q \in p .. p + n - 1 : q \in Pages /\ fw[q] = type}
Places(n) ==
  {p \in Runs("normal", n) : p = Min(Runs("normal", n)) \/ p = Max(Runs("normal", n))}
  \cup {p \in Runs("bin", n) : p = Min(Runs("bin", n))}

TakePages(p, n) ==
  /\ fw' = [q \in Pages |-> IF q \in p .. p + n - 1 THEN "taken" ELSE fw[q]]
  /\ key' = IF n = 0 THEN key ELSE key + 1
  /\ UNCHANGED gop

Allocate(purpose, n) ==
  \E p \in Places(n) :
    /\ TakePages(p, n)
    /\ at' = [at EXCEPT ![purpose] = p .. p + n - 1]

(* Not enough memory: the pointer that pagealloc should set is left as it  *)
(* was, and what the bootloader does with it is anybody's guess.           *)
OutOfMemory(n) ==
  /\ Places(n) = {}
  /\ pc' = "lost"
  /\ UNCHANGED <<firmwareVars, mapVars, infoVars, at, pageVars, exited>>

Goto(next) == pc' = next /\ UNCHANGED exited

-----------------------------------------------------------------------------
(* The memory map.  The first call of getmemmap, with size 0, only returns *)
(* the size; then a page is taken for the map, which may change that size. *)
GetSize ==
  /\ pc = "size"
  /\ memmapsize' = Len(Descriptors)
  /\ Goto("alloc_memmap")
  /\ UNCHANGED <<firmwareVars, mm_desc_size, memmap, mapkey, mm_descs, stale, infoVars, at, pageVars>>

AllocMemmap ==
  /\ pc = "alloc_memmap"
  /\ \/ /\ Allocate("memmap", 1)
        /\ Goto("read")
        /\ UNCHANGED <<mapVars, infoVars, pageVars>>
     \/ OutOfMemory(1)

Fits == Len(Descriptors) <= memmapsize

(* The shrinking of the descriptors follows and undoes their distance.  A  *)
(* map that has grown is not delivered, and the loops see what was there.  *)
ReadMemmap ==
  /\ pc = "read"
  /\ memmapsize' = Len(Descriptors)
  /\ mm_descs' = Len(Descriptors)
  /\ IF Fits
       THEN memmap' = Descriptors /\ mapkey' = key
       ELSE /\ \E junk \in Junk : memmap' = [i \in 1 .. Len(Descriptors) |-> junk]
            /\ UNCHANGED mapkey
  /\ stale' = ~Fits
  /\ Goto("modes")
  /\ UNCHANGED <<firmwareVars, mm_desc_size, infoVars, at, pageVars>>

-----------------------------------------------------------------------------
(* The graphics mode: the first one with the largest sum of sides.         *)
Res(mode) == mode.w + mode.h
BestMode(modes) ==
  Min({i \in DOMAIN modes : \A j \in DOMAIN modes : Res(modes[j]) <= Res(modes[i])})

(* Mutant: bootinfo gets the mode that was set before.                     *)
Info_before(display, best) == display.modes[display.mode]

(* gop->mode->info after setmode.                                          *)
Info(display, best) == display.modes[best]

(* querymode returns a buffer of the firmware's, for which it may have     *)
(* taken a page.                                                           *)
SetMode ==
  /\ pc = "modes"
  /\ \/ UNCHANGED <<fw, key>>
     \/ /\ Runs("normal", 1) # {}
        /\ fw' = [fw EXCEPT ![Max(Runs("normal", 1))] = "firmware"]
        /\ key' = key + 1
  /\ fb' = Info(gop, BestMode(gop.modes))
  /\ gop' = [gop EXCEPT !.mode = BestMode(gop.modes)]
  /\ Goto("load")
  /\ UNCHANGED <<mapVars, fm_descs, freemap, elf, image, at, pageVars>>

-----------------------------------------------------------------------------
(* The kernel's file.                                                      *)
Load == {i \in DOMAIN elf : elf[i].p_type = "PT_LOAD"}

kernel_mem_size ==
  Max({elf[i].p_vaddr + elf[i].p_memsz : i \in Load}) - Min({elf[i].p_vaddr : i \in Load})

kernel_pages == Ceiling(kernel_mem_size, PAGE_SIZE)

(* memcpy and memzero for one segment; its bytes are named by its number.  *)
LoadSegment(bytes, i) ==
  LET base == elf[i].p_vaddr - kernel_vaddr * PAGE_SIZE
  IN  [b \in DOMAIN bytes |->
         CASE i \in Load /\ b \in base .. base + elf[i].p_filesz - 1 -> <<i, b - base>>
           [] i \in Load /\ b \in base + elf[i].p_filesz .. base + elf[i].p_memsz - 1 -> <<0, 0>>
           [] OTHER -> bytes[b]]

(* The segments in the order of their headers.                             *)
LoadSegments ==
  LET bytes[i \in 0 .. Len(elf)] ==
        IF i = 0 THEN [b \in 0 .. kernel_pages * PAGE_SIZE - 1 |-> <<>>]
        ELSE LoadSegment(bytes[i - 1], i)
  IN  bytes[Len(elf)]

NotElf ==
  /\ pc = "load" /\ elf = NoElf
  /\ Goto("returned")
  /\ UNCHANGED <<firmwareVars, mapVars, infoVars, at, pageVars>>

LoadKernel ==
  /\ pc = "load" /\ elf # NoElf
  /\ \/ /\ Allocate("kernel", kernel_pages)
        /\ image' = LoadSegments
        /\ Goto("count")
        /\ UNCHANGED <<mapVars, fb, fm_descs, freemap, elf, pageVars>>
     \/ OutOfMemory(kernel_pages)

-----------------------------------------------------------------------------
(* freemap                                                                 *)
IsNormal(desc) == desc.type = "normal"
Memory(desc) == [addr |-> desc.physaddr, blocks |-> desc.pages, reading |-> desc.reading]

(* What the loops over the map keep of it.                                 *)
NormalIn(map) ==
  LET kept[n \in 0 .. Len(map)] ==
        IF n = 0 THEN <<>>
        ELSE IF IsNormal(map[n]) THEN Append(kept[n - 1], map[n])
        ELSE kept[n - 1]
  IN  kept[Len(map)]

(* The descriptors of normal memory are counted before freemap is          *)
(* allocated and the map is read again.                                    *)
CountFreemap ==
  /\ pc = "count"
  /\ LET descs == Len(NormalIn(memmap))
         n == IF descs = 0 THEN 0 ELSE 1
     IN  \/ /\ Allocate("freemap", n)
            /\ fm_descs' = descs
            /\ Goto("reread")
            /\ UNCHANGED <<mapVars, fb, freemap, elf, image, pageVars>>
         \/ OutOfMemory(n)

(* Mutant: the map is not read again.                                      *)
Reread_not ==
  /\ pc = "reread"
  /\ Goto("fill")
  /\ UNCHANGED <<firmwareVars, mapVars, infoVars, at, pageVars>>

(* The start of the i-th memmap_t, in u64s.                                *)
StartOfDesc(i) == (i - 1) * memmap_t

(* The new map overwrites the start of the old one; mm_descs stays, the    *)
(* descriptors are not shrunk again, and memmapsize is the old map's.  In  *)
(* longer descriptors the loops find one where a multiple of both lengths  *)
(* is, and parts of two elsewhere.                                         *)
Reread ==
  /\ pc = "reread"
  /\ memmapsize' = Len(Descriptors)
  /\ IF Fits
       THEN /\ mapkey' = key
            /\ \E junk \in Junk :
                 memmap' = [i \in 1 .. mm_descs |->
                   IF StartOfDesc(i) >= Len(Descriptors) * mm_desc_size THEN memmap[i]
                   ELSE IF StartOfDesc(i) % mm_desc_size # 0 THEN junk
                   ELSE Descriptors[(StartOfDesc(i) \div mm_desc_size) + 1]]
       ELSE UNCHANGED <<memmap, mapkey>>
  /\ stale' = (stale \/ Len(Descriptors) # mm_descs)
  /\ Goto("fill")
  /\ UNCHANGED <<firmwareVars, mm_desc_size, mm_descs, infoVars, at, pageVars>>

(* Only fm_descs entries are ever read; the ones that the loop does not    *)
(* reach are uninitialised.                                                *)
FillFreemap ==
  /\ pc = "fill"
  /\ LET normal == NormalIn(memmap)
     IN  \E junk \in Junk :
           freemap' = [j \in 1 .. fm_descs |->
                         Memory(IF j <= Len(normal) THEN normal[j] ELSE junk)]
  /\ Goto("map")
  /\ UNCHANGED <<firmwareVars, mapVars, fb, fm_descs, elf, image, at, pageVars>>

-----------------------------------------------------------------------------
(* map_page                                                                *)
Call(phys, virt) == [phys |-> phys, virt |-> virt]
Entry(virt) == virt \div ENTRIES
Top == Last(calls)

(* Mutant: the new table is not mapped.                                    *)
SelfMap_not(page) == <<>>

SelfMap(page) == <<Call(page, page)>>

(* A table is missing: take a page for it and map that page first.         *)
NewTable ==
  /\ calls # <<>> /\ pc # "lost"
  /\ tables[Entry(Top.virt)] = None
  /\ \/ \E p \in Places(1) :
          /\ TakePages(p, 1)
          /\ tables' = [tables EXCEPT ![Entry(Top.virt)] = p]
          /\ calls' = calls \o SelfMap(p)
          /\ UNCHANGED <<mapVars, infoVars, at, mapped, todo, exited, pc>>
     \/ OutOfMemory(1)

SetEntry ==
  /\ calls # <<>> /\ pc # "lost"
  /\ tables[Entry(Top.virt)] # None
  /\ mapped' = [mapped EXCEPT ![Top.virt] = Top.phys]
  /\ calls' = Front(calls)
  /\ UNCHANGED <<firmwareVars, mapVars, infoVars, at, tables, todo, exited, pc>>

(* Mutant: the loop does not advance.                                      *)
CallMapPage_again ==
  /\ calls = <<>> /\ todo # <<>>
  /\ calls' = <<Head(todo)>>
  /\ UNCHANGED <<firmwareVars, mapVars, infoVars, at, tables, mapped, todo, exited, pc>>

CallMapPage ==
  /\ calls = <<>> /\ todo # <<>>
  /\ calls' = <<Head(todo)>>
  /\ todo' = Tail(todo)
  /\ UNCHANGED <<firmwareVars, mapVars, infoVars, at, tables, mapped, exited, pc>>

MapPage == NewTable \/ SetEntry \/ CallMapPage

Identity(addr, n) == [k \in 1 .. n |-> Call(addr + k - 1, addr + k - 1)]

(* The calls for memory that is not normal.                                *)
OtherCalls(map) ==
  LET made[n \in 0 .. Len(map)] ==
        IF n = 0 THEN <<>>
        ELSE IF IsNormal(map[n]) THEN made[n - 1]
        ELSE made[n - 1] \o Identity(map[n].physaddr, map[n].pages)
  IN  made[Len(map)]

(* Mutant: the kernel is mapped up to, not with, its last page.            *)
KernelCalls_floor ==
  [k \in 1 .. (kernel_mem_size \div PAGE_SIZE) |->
     Call(Min(at["kernel"]) + k - 1, kernel_vaddr + k - 1)]

KernelCalls ==
  [k \in 1 .. Ceiling(kernel_mem_size, PAGE_SIZE) |->
     Call(Min(at["kernel"]) + k - 1, kernel_vaddr + k - 1)]

(* Memory that is not normal, the first 16 MB, and the kernel.  A          *)
(* descriptor that is no descriptor may name pages that do not exist.      *)
MapMemory ==
  /\ pc = "map"
  /\ todo' = (OtherCalls(memmap) \o Identity(0, LOW)) \o KernelCalls
  /\ Goto("bitmap")
  /\ UNCHANGED <<firmwareVars, mapVars, infoVars, at, tables, mapped, calls>>

-----------------------------------------------------------------------------
(* Bitmap, stack and exit.                                                 *)
Idle == calls = <<>> /\ todo = <<>>

mb_pages == FoldLeft(LAMBDA sum, m : sum + m.blocks, 0, freemap)

(* The loop that maps the bitmap adds its size in pages to an address in   *)
(* bytes: it ends after the first page.                                    *)
AllocBitmap ==
  /\ pc = "bitmap" /\ Idle
  /\ LET n == Ceiling(mb_pages, BITS)
     IN  \/ \E p \in Places(n) :
              /\ TakePages(p, n)
              /\ at' = [at EXCEPT !["bitmap"] = p .. p + n - 1]
              /\ todo' = IF n = 0 THEN <<>> ELSE Identity(p, 1)
              /\ Goto("stack")
              /\ UNCHANGED <<mapVars, infoVars, tables, mapped, calls>>
         \/ OutOfMemory(n)

AllocStack ==
  /\ pc = "stack" /\ Idle
  /\ \/ \E p \in Places(1) :
          /\ TakePages(p, 1)
          /\ at' = [at EXCEPT !["stack"] = {p}]
          /\ todo' = <<Call(p, kernel_stack - 1)>>
          /\ Goto("exit")
          /\ UNCHANGED <<mapVars, infoVars, tables, mapped, calls>>
     \/ OutOfMemory(1)

(* exitbs declines a key that is not the current one; nobody looks.        *)
ExitAndEnter ==
  /\ pc = "exit" /\ Idle
  /\ exited' = (mapkey = key)
  /\ pc' = "kernel"
  /\ UNCHANGED <<firmwareVars, mapVars, infoVars, at, pageVars>>

-----------------------------------------------------------------------------
Purposes == {"memmap", "kernel", "freemap", "bitmap", "stack"}

BootInit ==
  /\ \E firmware \in Firmwares :
       /\ fw = firmware.map
       /\ gop = [modes |-> firmware.modes, mode |-> 1]
  /\ key = 0
  /\ fb = NoMode
  /\ mm_desc_size \in DescSizes
  /\ memmapsize = 0 /\ memmap = <<>> /\ mapkey = None /\ mm_descs = 0 /\ stale = FALSE
  /\ fm_descs = 0 /\ freemap = <<>>
  /\ elf \in Elves
  /\ image = <<>>
  /\ at = [purpose \in Purposes |-> {}]
  /\ tables = [e \in 0 .. Entry(kernel_stack - 1) |-> None]
  /\ mapped = [v \in 0 .. kernel_stack - 1 |-> None]
  /\ calls = <<>> /\ todo = <<>>
  /\ exited = FALSE
  /\ pc = "size"

BootNext ==
  \/ GetSize \/ AllocMemmap \/ ReadMemmap \/ SetMode
  \/ NotElf \/ LoadKernel
  \/ CountFreemap \/ Reread \/ FillFreemap
  \/ MapMemory \/ MapPage
  \/ AllocBitmap \/ AllocStack \/ ExitAndEnter

-----------------------------------------------------------------------------
(* Properties                                                              *)

(* Tables built in the middle of a call of map_page are complete when the  *)
(* call has returned: each is mapped to its own address, and no page that  *)
(* holds a table holds anything else.                                      *)
BootTablesMapped ==
  calls = <<>> =>
    \A e \in DOMAIN tables : tables[e] # None =>
      /\ mapped[tables[e]] = tables[e]
      /\ \A purpose \in Purposes : tables[e] \notin at[purpose]

Offered(j) == freemap[j].addr .. freemap[j].addr + freemap[j].blocks - 1
FreePages == UNION {Offered(j) : j \in DOMAIN freemap}

(* The second reading was of use: the map has kept its length, has enough  *)
(* normal descriptors for the number counted before, and its descriptors   *)
(* have the length that the loops expect.                                  *)
GoodReread ==
  ~stale /\ mm_desc_size = memmap_t /\ Len(NormalIn(memmap)) >= fm_descs

(* Reading the map again then keeps the pages of the kernel, the map and   *)
(* freemap out of the free memory, wherever the firmware has put them.  If *)
(* it was not, because the map has grown or shrunk or has longer           *)
(* descriptors, that is still so of each entry of freemap that comes from  *)
(* the second reading.                                                     *)
RereadProtects ==
  \A j \in DOMAIN freemap : GoodReread \/ freemap[j].reading = 2 =>
    \A purpose \in {"memmap", "kernel", "freemap"} : Offered(j) \cap at[purpose] = {}

(* "Reread the memmap in case allocating pages took memory" (boot.c:124):  *)
(* the kernel gets no page as free that the bootloader has taken for it.   *)
FreemapExcludesTaken ==
  pc = "kernel" /\ GoodReread =>
    \A purpose \in Purposes : FreePages \cap at[purpose] = {}
=============================================================================
