-------------------------------- MODULE Entry --------------------------------
(***************************************************************************)
(* The kernel's entry after the bootloader of module Boot: init of         *)
(* arch/x86_64/init.c copies the boot information (init_globals), replaces *)
(* the bootloader's page tables by its own (init_paging) and draws to the  *)
(* framebuffer (fillrect of libs/libgfx).  The kernel's own tables are     *)
(* known by what they map and by the pages they take; how map_page builds  *)
(* them step by step is in module Paging.                                  *)
(*                                                                         *)
(* The framebuffer lies at pages of its own, FRAMEBUFFER and on, outside   *)
(* the memory; its size and its offsets are in pixels.                     *)
(***************************************************************************)
EXTENDS Boot

CONSTANTS
  PIXELS,          \* pixels in a page
  FRAMEBUFFER,     \* physical page of the framebuffer
  fb_vaddr,        \* virtual pages: 0x8000000000
  kernel_heap

VARIABLES
  globals,         \* what init_globals has copied
  kmap,            \* [virtual page]: what init_paging has mapped
  rect,            \* the rectangle that fillrect has just filled
  i                \* the loop in init

kernelVars == <<globals, kmap, rect, i>>
entryVars == <<bootVars, kernelVars>>

(* The kernel, its heap, its stack and the framebuffer follow each other   *)
(* in the virtual memory.                                                  *)
ASSUME LayoutAssumption ==
  /\ PIXELS \in Nat \ {0} /\ FRAMEBUFFER \in Nat /\ fb_vaddr \in Nat /\ kernel_heap \in Nat
  /\ kernel_heap + 1 < kernel_stack - 1 /\ kernel_stack <= fb_vaddr
  /\ \A file \in Elves : \A s \in DOMAIN file :
       file[s].p_type = "PT_LOAD" => file[s].p_vaddr + file[s].p_memsz <= kernel_heap * PAGE_SIZE

NoRect == [w |-> 0, h |-> 0]
Address(pages) == IF pages = {} THEN 0 ELSE Min(pages)

-----------------------------------------------------------------------------
InitGlobals ==
  /\ pc = "kernel"
  /\ globals' = [kernel_paddr |-> Address(at["kernel"]), kernel_size |-> kernel_mem_size,
                 kernel_stack_paddr |-> Address(at["stack"]), freemap |-> Address(at["freemap"]),
                 pmem_bmap |-> Address(at["bitmap"]), memory_pages |-> mb_pages, fb |-> fb]
  /\ pc' = "globals"
  /\ UNCHANGED <<firmwareVars, mapVars, infoVars, at, pageVars, exited, kmap, rect, i>>

Row(phys, virt, n) == [k \in 1 .. n |-> Call(phys + k - 1, virt + k - 1)]

(* Turns of a loop over addresses below the end of something.              *)
PagesOf(size, page) == Ceiling(size, page)

(* The calls of map_page in init_paging.  The loop over the bitmap ends    *)
(* after one page: a number of pages is added to an address in bytes.      *)
InitPagingCalls ==
  Row(globals.kernel_paddr, kernel_vaddr, PagesOf(globals.kernel_size, PAGE_SIZE))
  \o Row(globals.kernel_stack_paddr, kernel_stack - 1, 1)
  \o Row(FRAMEBUFFER, fb_vaddr, PagesOf(globals.fb.fbsize, PIXELS))
  \o Row(globals.pmem_bmap, kernel_heap + 1, IF globals.memory_pages = 0 THEN 0 ELSE 1)
  \o Row(globals.freemap, kernel_heap, 1)

(* A later call for the same page replaces the entry.                      *)
LastFor(made, virt) == made[Max({k \in DOMAIN made : made[k].virt = virt})]

Virtuals == {call.virt : call \in ToSet(InitPagingCalls)}

(* The pages of freemap in the order in which phys_page_alloc finds them:  *)
(* the bitmap is clear, and init_paging gives none back.                   *)
Slots == UNION {{j} \X (0 .. freemap[j].blocks - 1) : j \in DOMAIN freemap}
PageAt(slot) == freemap[slot[1]].addr + slot[2]
PagesAt(slots) == {PageAt(slot) : slot \in slots}
FirstSlots(n) ==
  LET pages[j \in Nat] == IF j = 0 THEN 0 ELSE pages[j - 1] + freemap[j].blocks
  IN  {slot \in Slots : pages[slot[1] - 1] + slot[2] < n}

(* The tables for what is mapped, and for the pages of tables, which are   *)
(* mapped too.                                                             *)
TablesFor(slots) == {Entry(virt) : virt \in Virtuals} \cup {Entry(p) : p \in PagesAt(slots)}

Enough(slots) == Cardinality(TablesFor(slots)) <= Cardinality(slots)

(* map_page takes n pages for tables and clears them: as many as it needs, *)
(* or all of them if they are too few.                                     *)
Takes(n) ==
  /\ Enough(FirstSlots(n)) \/ n = Cardinality(Slots)
  /\ \A m \in 0 .. n - 1 : ~Enough(FirstSlots(m))

(* What the kernel runs on meanwhile: its image, its stack, freemap and    *)
(* the bitmap, the bootloader's tables, and the firmware's memory with the *)
(* bootloader's PML4.                                                      *)
InUse ==
  UNION {at[purpose] : purpose \in {"kernel", "stack", "freemap", "bitmap"}}
  \cup {tables[e] : e \in {d \in DOMAIN tables : tables[d] # None}}
  \cup {p \in Pages : fw[p] \in {"firmware", "runtime"}}

Wiped(slots) ==
  \/ PagesAt(slots) \cap InUse # {}
  \/ \E slot, other \in slots : slot # other /\ PageAt(slot) = PageAt(other)

(* All that init_paging reads and writes by its physical address is mapped *)
(* there: freemap, the bits of the pages it takes, and these pages.        *)
Identical(p) == p \in Pages /\ mapped[p] = p
WithinReach(slots) ==
  /\ Identical(globals.freemap)
  /\ \A k \in 0 .. Cardinality(slots) - 1 : Identical(globals.pmem_bmap + (k \div BITS))
  /\ \A p \in PagesAt(slots) : Identical(p)

BuildTables(slots) ==
  /\ Enough(slots) /\ ~Wiped(slots) /\ WithinReach(slots)
  /\ kmap' = [virt \in Virtuals \cup PagesAt(slots) |->
                IF virt \in Virtuals THEN LastFor(InitPagingCalls, virt).phys ELSE virt]
  /\ pc' = "paging"

(* memset clears a page that is in use, or that is a table already.        *)
Wipe(slots) ==
  /\ Wiped(slots)
  /\ pc' = "wiped"
  /\ UNCHANGED kmap

(* phys_page_alloc has no page left and returns 0, or a page is not mapped *)
(* and the processor faults.                                               *)
Fail(slots) ==
  /\ ~(Enough(slots) /\ WithinReach(slots))
  /\ pc' = "lost"
  /\ UNCHANGED kmap

InitPaging ==
  /\ pc = "globals"
  /\ \E n \in 0 .. Cardinality(Slots) :
       /\ Takes(n)
       /\ \E taken \in {FirstSlots(n)} : BuildTables(taken) \/ Wipe(taken) \/ Fail(taken)
  /\ UNCHANGED <<firmwareVars, mapVars, infoVars, at, pageVars, exited, globals, rect, i>>

(* The whole screen, then squares that grow from a corner.                 *)
FillScreen ==
  /\ pc = "paging"
  /\ rect' = [w |-> globals.fb.w, h |-> globals.fb.h]
  /\ pc' = "draw"
  /\ UNCHANGED <<firmwareVars, mapVars, infoVars, at, pageVars, exited, globals, kmap, i>>

FillSquare ==
  /\ pc = "draw" /\ i <= globals.fb.h
  /\ rect' = [w |-> i, h |-> i]
  /\ i' = i + 1
  /\ UNCHANGED <<bootVars, globals, kmap>>

(* for (;;);                                                               *)
Rest ==
  /\ pc = "draw" /\ i > globals.fb.h
  /\ pc' = "rest"
  /\ UNCHANGED <<firmwareVars, mapVars, infoVars, at, pageVars, exited, kernelVars>>

EntryInit ==
  /\ BootInit
  /\ globals = <<>> /\ kmap = <<>> /\ rect = NoRect /\ i = 0

EntryNext ==
  \/ BootNext /\ UNCHANGED kernelVars
  \/ InitGlobals \/ InitPaging \/ FillScreen \/ FillSquare \/ Rest

(* One processor that runs on.                                             *)
EntrySpec == EntryInit /\ [][EntryNext]_entryVars /\ WF_entryVars(EntryNext)

-----------------------------------------------------------------------------
(* Properties                                                              *)

Entered == pc \in {"kernel", "globals", "paging", "draw", "rest"}

(* What the processor finds at a virtual page of the kernel.               *)
Translated(virt) ==
  IF pc \in {"kernel", "globals"} THEN mapped[virt]
  ELSE IF virt \in DOMAIN kmap THEN kmap[virt]
  ELSE None

(* From the kernel's first instruction on, every byte of its segments is   *)
(* at its virtual address: the file's bytes, then zeros, however segments  *)
(* and pages overlap and wherever the bootloader's tables came from.  The  *)
(* kernel's own tables leave the code and the stack that it runs on where  *)
(* they were, and hold neither of them nor freemap nor the bitmap.  The    *)
(* kernel destroys what it runs on only if the bootloader has left that in *)
(* freemap, or has left a page there twice.                                *)
KernelInPlace ==
  /\ Entered =>
       /\ Translated(kernel_stack - 1) \in at["stack"]
       /\ \A s \in Load : \A b \in 0 .. elf[s].p_memsz - 1 :
            LET virt == elf[s].p_vaddr + b
                phys == Translated(virt \div PAGE_SIZE)
                byte == (phys - Min(at["kernel"])) * PAGE_SIZE + (virt % PAGE_SIZE)
            IN  /\ phys \in at["kernel"]
                /\ image[byte] = IF b < elf[s].p_filesz THEN <<s, b>> ELSE <<0, 0>>
  /\ pc \in {"paging", "draw", "rest"} =>
       \A p \in Pages \cap DOMAIN kmap : kmap[p] = p /\ p \notin InUse
  /\ pc = "wiped" =>
       \/ FreePages \cap InUse # {}
       \/ \E slot, other \in Slots : slot # other /\ PageAt(slot) = PageAt(other)

(* Every pixel that init draws is that pixel of the mode that is set, and  *)
(* lies in a mapped page of the framebuffer.  The squares are as high as   *)
(* the screen, so the screen must not be higher than its lines are long.   *)
DrawsOnScreen ==
  LET screen == gop.modes[gop.mode]
      offset(x, y) == x + y * globals.fb.pixperline
      page(x, y) == Translated(fb_vaddr + (offset(x, y) \div PIXELS))
  IN  pc \in {"draw", "rest"} /\ screen.h <= screen.pixperline =>
        \A x \in 0 .. rect.w - 1, y \in 0 .. rect.h - 1 :
          /\ (page(x, y) - FRAMEBUFFER) * PIXELS + (offset(x, y) % PIXELS)
               = x + y * screen.pixperline
          /\ x + y * screen.pixperline < screen.fbsize

(* Bootloader and kernel get to the end of init, unless the bootloader     *)
(* finds no kernel, or memory is missing or destroyed: the nested calls of *)
(* map_page end.                                                           *)
BootEnds == <>(pc \in {"rest", "returned", "lost", "wiped"})
=============================================================================
