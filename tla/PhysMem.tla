------------------------------- MODULE PhysMem -------------------------------
(***************************************************************************)
(* The physical page allocator of kernel/memory/memory.c: phys_page_alloc  *)
(* and phys_page_free over the bitmap pmem_bmap.  The bit of a page is not *)
(* addressed by its number but by its position in a walk through the       *)
(* descriptors of freemap, counted in words of BITS_PER_ELEMENT bits, so   *)
(* both functions must count alike for a bit to mean the same page.        *)
(***************************************************************************)
EXTENDS Integers, Sequences, SequencesExt

CONSTANTS
  PAGE_SIZE,
  BITS_PER_ELEMENT, \* bits of a word of pmem_bmap (32)
  WORDS,            \* words of memory from the start of pmem_bmap on
  freemap,          \* the fm_descs descriptors that the bootloader filled
  beyond,           \* what lies in freemap from fm_descs up to mm_descs
  Addresses         \* addresses that callers pass to phys_page_free

VARIABLES
  pmem_bmap,        \* [word]: the set of its bits that are 1
  result            \* what the last phys_page_alloc returned

physVars == <<pmem_bmap, result>>

(* The pages of a list of descriptors in the order of the walk.            *)
PagesIn(descs) ==
  FlattenSeq([i \in DOMAIN descs |->
                [j \in 1 .. descs[i].blocks |-> descs[i].addr + (j - 1) * PAGE_SIZE]])

Pages == PagesIn(freemap)
FreeWalk == Pages \o PagesIn(beyond)

Words == 0 .. WORDS - 1
Bits == 0 .. BITS_PER_ELEMENT - 1
Positions == 0 .. WORDS * BITS_PER_ELEMENT - 1
PagePositions == 0 .. Len(Pages) - 1

ASSUME BitmapAssumption ==
  /\ PAGE_SIZE \in Nat \ {0}
  /\ BITS_PER_ELEMENT \in Nat \ {0}
  /\ WORDS \in Nat

(* The firmware's descriptors do not overlap, and every page of the walk   *)
(* of phys_page_free has a bit somewhere in memory.                        *)
ASSUME PagesAssumption ==
  /\ Pages \in Seq(Nat)
  /\ \A m, n \in DOMAIN Pages : Pages[m] = Pages[n] => m = n
  /\ \A n \in DOMAIN Pages : Pages[n] % PAGE_SIZE = 0
  /\ PagesIn(beyond) \in Seq(Nat)
  /\ Len(Pages) + Len(PagesIn(beyond)) <= WORDS * BITS_PER_ELEMENT

-----------------------------------------------------------------------------
(* Mutants: the walk goes on to the next word one bit too late.            *)
Word_late(n) == n \div (BITS_PER_ELEMENT + 1)
Bit_late(n) == n % (BITS_PER_ELEMENT + 1)

(* The bit at position n of the walk, after n steps of ++bit and ++h.      *)
Word(n) == n \div BITS_PER_ELEMENT
Bit(n) == n % BITS_PER_ELEMENT
IsSet(n) == Bit(n) \in pmem_bmap[Word(n)]

(* phys_page_alloc: the first page of the walk whose bit is clear.         *)
ClearPositions == {n \in PagePositions : ~IsSet(n)}

PhysPageAlloc ==
  /\ ClearPositions # {}
  /\ LET n == Min(ClearPositions)
     IN  /\ pmem_bmap' = [pmem_bmap EXCEPT ![Word(n)] = @ \cup {Bit(n)}]
         /\ result' = Pages[n + 1]

PhysPageAllocFails ==
  /\ ClearPositions = {}
  /\ result' = 0
  /\ UNCHANGED pmem_bmap

(* phys_page_free: the first position whose page is addr.  The walk goes   *)
(* on past the descriptors that phys_page_alloc knows, up to mm_descs.     *)
PositionsOf(addr) == {n \in 0 .. Len(FreeWalk) - 1 : FreeWalk[n + 1] = addr}

PhysPageFree(addr) ==
  /\ addr % PAGE_SIZE = 0
  /\ PositionsOf(addr) # {}
  /\ LET n == Min(PositionsOf(addr))
     IN  pmem_bmap' = [pmem_bmap EXCEPT ![Word(n)] = @ \ {Bit(n)}]
  /\ UNCHANGED result

PhysPageFreeIgnored(addr) ==
  /\ addr % PAGE_SIZE # 0 \/ PositionsOf(addr) = {}
  /\ UNCHANGED physVars

-----------------------------------------------------------------------------
(* The bootloader zeroes the bits of the pages; what follows is whatever   *)
(* was in memory.                                                          *)
PhysInit ==
  /\ pmem_bmap \in [Words -> SUBSET Bits]
  /\ \A n \in PagePositions : ~IsSet(n)
  /\ result = 0

PhysNext ==
  \/ PhysPageAlloc
  \/ PhysPageAllocFails
  \/ \E addr \in Addresses : PhysPageFree(addr) \/ PhysPageFreeIgnored(addr)

PhysSpec == PhysInit /\ [][PhysNext]_physVars

-----------------------------------------------------------------------------
(* Properties                                                              *)

(* The bitmap keeps its shape and the caller gets a page or 0.             *)
PhysTypeOK ==
  /\ pmem_bmap \in [Words -> SUBSET Bits]
  /\ result \in Range(Pages) \cup {0}

UsedPages == {Pages[n + 1] : n \in {m \in PagePositions : IsSet(m)}}

Frames == INSTANCE FramePool WITH Pool <- Range(Pages), NoPage <- 0, used <- UsedPages

(* The bitmap implements the pool of module FramePool: a page handed out   *)
(* was free, is marked until it is freed, and marking or clearing it       *)
(* touches the bit of no other page, wherever words and descriptors end.   *)
ImplementsFramePool == Frames!Spec
=============================================================================
