----------------------------- MODULE PageProofs -----------------------------
(***************************************************************************)
(* Proofs about the pages of physical memory and the tables that map them. *)
(*                                                                         *)
(* About module PhysMem, for every freemap, word size and content of the   *)
(* memory behind it; about module Paging, for every number of levels,      *)
(* entries and pages, and every set of calls that init_paging may make,    *)
(* also with pages of the pool.                                            *)
(***************************************************************************)
EXTENDS PhysMem, Paging, LoopLemmas, SequenceTheorems, TLAPS

-----------------------------------------------------------------------------
(* The bitmap                                                              *)

(* Words and bits: a position is found in one word, under one bit.         *)
LEMMA PositionSplit ==
  ASSUME NEW n \in Nat
  PROVE  /\ Word(n) \in Nat
         /\ Bit(n) \in Bits
         /\ n = BITS_PER_ELEMENT * Word(n) + Bit(n)
  BY BitmapAssumption DEF Word, Bit, Bits

(* Two positions never share a bit.                                        *)
LEMMA PositionsDiffer ==
  ASSUME NEW m \in Nat, NEW n \in Nat, Word(m) = Word(n), Bit(m) = Bit(n)
  PROVE  m = n
  BY PositionSplit

(* Every position below WORDS * BITS_PER_ELEMENT is in a word of memory.   *)
LEMMA PositionInMemory ==
  ASSUME NEW n \in Positions
  PROVE  n \in Nat /\ Word(n) \in Words
<1>1. n \in Nat /\ n < WORDS * BITS_PER_ELEMENT
  BY BitmapAssumption DEF Positions
<1>2. /\ Word(n) \in Nat
      /\ Bit(n) \in Nat
      /\ n = BITS_PER_ELEMENT * Word(n) + Bit(n)
  BY <1>1, PositionSplit, BitmapAssumption DEF Bits
<1>3. ASSUME NEW q \in Nat, NEW r \in Nat, NEW B \in Nat, NEW W \in Nat,
             B * q + r < W * B
      PROVE  q < W
  BY <1>3
<1>4. Word(n) < WORDS
  BY <1>1, <1>2, <1>3, BitmapAssumption
<1> QED
  BY <1>1, <1>2, <1>4, BitmapAssumption DEF Words

(* The walk of phys_page_free starts with the pages of phys_page_alloc, at *)
(* the same positions.                                                     *)
LEMMA WalksAgree ==
  /\ Pages \in Seq(Nat)
  /\ Len(Pages) \in Nat
  /\ Len(FreeWalk) = Len(Pages) + Len(PagesIn(beyond))
  /\ Len(FreeWalk) \in Nat
  /\ \A n \in PagePositions : FreeWalk[n + 1] = Pages[n + 1] /\ n + 1 \in DOMAIN Pages
  /\ PagePositions \subseteq 0 .. Len(FreeWalk) - 1
  /\ 0 .. Len(FreeWalk) - 1 \subseteq Positions
<1> DEFINE rest == PagesIn(beyond)
<1>1. Pages \in Seq(Nat) /\ rest \in Seq(Nat)
      /\ Len(Pages) + Len(rest) <= WORDS * BITS_PER_ELEMENT
  BY PagesAssumption
<1>2. FreeWalk = Pages \o rest
  BY DEF FreeWalk
<1> HIDE DEF rest
<1>3. Len(FreeWalk) = Len(Pages) + Len(rest) /\ Len(Pages) \in Nat /\ Len(rest) \in Nat
  BY <1>1, <1>2
<1>4. ASSUME NEW n \in PagePositions
      PROVE  FreeWalk[n + 1] = Pages[n + 1] /\ n + 1 \in DOMAIN Pages
  BY <1>1, <1>2, <1>3 DEF PagePositions
<1>5. WORDS * BITS_PER_ELEMENT \in Nat
  BY BitmapAssumption
<1> QED
  BY <1>1, <1>3, <1>4, <1>5 DEF PagePositions, Positions, rest

(* What phys_page_alloc does, with its search resolved.                    *)
LEMMA PhysAllocEffect ==
  ASSUME PhysPageAlloc
  PROVE  \E n \in PagePositions :
           /\ ~IsSet(n)
           /\ pmem_bmap' = [pmem_bmap EXCEPT ![Word(n)] = @ \cup {Bit(n)}]
           /\ result' = Pages[n + 1]
<1>1. ClearPositions \in SUBSET Nat /\ ClearPositions # {}
  BY WalksAgree DEF PhysPageAlloc, ClearPositions, PagePositions
<1>2. Min(ClearPositions) \in ClearPositions
  BY <1>1, MinMember
<1> QED
  BY <1>2 DEF PhysPageAlloc, ClearPositions

(* What phys_page_free does: it clears the bit of addr's page, or, when    *)
(* addr is no page of the pool, a bit past those of the pages.             *)
LEMMA PhysFreeEffect ==
  ASSUME NEW addr, PhysPageFree(addr)
  PROVE  \E n \in Positions :
           /\ pmem_bmap' = [pmem_bmap EXCEPT ![Word(n)] = @ \ {Bit(n)}]
           /\ UNCHANGED result
           /\ n \in PagePositions => Pages[n + 1] = addr
           /\ n \notin PagePositions => \A m \in PagePositions : Pages[m + 1] # addr
<1> DEFINE n == Min(PositionsOf(addr))
<1>1. PositionsOf(addr) \in SUBSET Nat /\ PositionsOf(addr) # {}
  BY WalksAgree DEF PhysPageFree, PositionsOf
<1>2. n \in PositionsOf(addr) /\ \A m \in PositionsOf(addr) : n <= m
  BY <1>1, MinMember
<1>3. n \in 0 .. Len(FreeWalk) - 1 /\ FreeWalk[n + 1] = addr
  BY <1>2 DEF PositionsOf
<1>4. pmem_bmap' = [pmem_bmap EXCEPT ![Word(n)] = @ \ {Bit(n)}] /\ UNCHANGED result
  BY DEF PhysPageFree
<1> HIDE DEF n
<1>5. n \in Positions /\ (n \in PagePositions => Pages[n + 1] = addr)
  BY <1>3, WalksAgree
<1>6. ASSUME NEW m \in PagePositions, n \notin PagePositions, Pages[m + 1] = addr
      PROVE  FALSE
  <2>1. m \in PositionsOf(addr)
    BY <1>6, WalksAgree DEF PositionsOf
  <2>2. n <= m
    BY <1>2, <2>1
  <2> QED
    BY <1>3, <1>6, <2>2, WalksAgree DEF PagePositions
<1> QED
  BY <1>4, <1>5, <1>6

-----------------------------------------------------------------------------
(* The bitmap keeps its shape (PhysTypeOK): neither function ever indexes  *)
(* a word outside memory, and a caller gets a page of the pool or 0.       *)
THEOREM PhysTypeCorrect == PhysSpec => []PhysTypeOK
<1>1. PhysInit => PhysTypeOK
  BY DEF PhysInit, PhysTypeOK
<1>2. PhysTypeOK /\ [PhysNext]_physVars => PhysTypeOK'
  <2> SUFFICES ASSUME PhysTypeOK, [PhysNext]_physVars
               PROVE  PhysTypeOK'
    OBVIOUS
  <2>1. CASE PhysPageAlloc
    <3>1. PICK n \in PagePositions :
            /\ pmem_bmap' = [pmem_bmap EXCEPT ![Word(n)] = @ \cup {Bit(n)}]
            /\ result' = Pages[n + 1]
      BY <2>1, PhysAllocEffect
    <3>2. Word(n) \in Words /\ Bit(n) \in Bits
      BY WalksAgree, PositionInMemory, PositionSplit
    <3>3. pmem_bmap' \in [Words -> SUBSET Bits]
      BY <3>1, <3>2 DEF PhysTypeOK
    <3>4. result' \in Range(Pages)
      BY <3>1, WalksAgree DEF Range
    <3> QED
      BY <3>3, <3>4 DEF PhysTypeOK
  <2>2. CASE PhysPageAllocFails
    BY <2>2 DEF PhysPageAllocFails, PhysTypeOK
  <2>3. ASSUME NEW addr \in Addresses, PhysPageFree(addr)
        PROVE  PhysTypeOK'
    <3>1. PICK n \in Positions :
            /\ pmem_bmap' = [pmem_bmap EXCEPT ![Word(n)] = @ \ {Bit(n)}]
            /\ UNCHANGED result
      BY <2>3, PhysFreeEffect
    <3>2. Word(n) \in Words
      BY PositionInMemory
    <3> QED
      BY <3>1, <3>2 DEF PhysTypeOK
  <2>4. CASE UNCHANGED physVars
    BY <2>4 DEF PhysTypeOK, physVars
  <2> QED
    BY <2>1, <2>2, <2>3, <2>4 DEF PhysNext, PhysPageFreeIgnored
<1> QED
  BY <1>1, <1>2, PTL DEF PhysSpec

-----------------------------------------------------------------------------
(* The bitmap implements the pool                                          *)

(* Setting or clearing the bit of one position leaves every other position *)
(* as it was.                                                              *)
LEMMA OneBit ==
  ASSUME PhysTypeOK, NEW n \in Positions, NEW new,
         pmem_bmap' = [pmem_bmap EXCEPT ![Word(n)] = new],
         \A b \in Bits : b # Bit(n) => (b \in new <=> b \in pmem_bmap[Word(n)])
  PROVE  /\ IsSet(n)' <=> Bit(n) \in new
         /\ \A m \in Positions : m # n => (IsSet(m)' <=> IsSet(m))
<1>1. n \in Nat /\ Word(n) \in Words
  BY PositionInMemory
<1>2. pmem_bmap'[Word(n)] = new /\ \A w \in Words : w # Word(n) => pmem_bmap'[w] = pmem_bmap[w]
  BY <1>1 DEF PhysTypeOK
<1>3. ASSUME NEW m \in Positions, m # n PROVE IsSet(m)' <=> IsSet(m)
  <2>1. m \in Nat /\ Word(m) \in Words /\ Bit(m) \in Bits
    BY PositionInMemory, PositionSplit
  <2>2. Word(m) # Word(n) \/ Bit(m) # Bit(n)
    BY <1>1, <1>3, <2>1, PositionsDiffer
  <2>3. IsSet(m)' <=> Bit(m) \in pmem_bmap'[Word(m)]
    BY DEF IsSet, Bit, Word
  <2> QED
    BY <1>2, <2>1, <2>2, <2>3 DEF IsSet
<1>4. IsSet(n)' <=> Bit(n) \in pmem_bmap'[Word(n)]
  BY DEF IsSet, Bit, Word
<1> QED
  BY <1>2, <1>3, <1>4

(* Two pages of the pool at two positions are two pages.                   *)
LEMMA PagesDiffer ==
  ASSUME NEW m \in PagePositions, NEW n \in PagePositions, Pages[m + 1] = Pages[n + 1]
  PROVE  m = n
<1>1. m + 1 \in DOMAIN Pages /\ n + 1 \in DOMAIN Pages /\ m \in Nat /\ n \in Nat
  BY WalksAgree DEF PagePositions
<1>2. m + 1 = n + 1
  BY <1>1, PagesAssumption
<1> QED
  BY <1>1, <1>2

(* phys_page_alloc and phys_page_free implement the abstract pool: a page  *)
(* handed out was not in use and stays in use until it is freed, whatever  *)
(* the descriptors, the word size and the memory after freemap hold.       *)
THEOREM PhysMemImplementsFramePool == PhysSpec => ImplementsFramePool
<1>1. PhysInit => Frames!Init
  BY DEF PhysInit, Frames!Init, UsedPages
<1>2. PhysTypeOK /\ [PhysNext]_physVars => [Frames!Next]_<<UsedPages, result>>
  <2> SUFFICES ASSUME PhysTypeOK, [PhysNext]_physVars
               PROVE  [Frames!Next]_<<UsedPages, result>>
    OBVIOUS
  <2>0. PagePositions \subseteq Positions /\ PagePositions' = PagePositions
    BY WalksAgree DEF PagePositions
  <2>1. CASE PhysPageAlloc
    <3>1. PICK n \in PagePositions :
            /\ ~IsSet(n)
            /\ pmem_bmap' = [pmem_bmap EXCEPT ![Word(n)] = @ \cup {Bit(n)}]
            /\ result' = Pages[n + 1]
      BY <2>1, PhysAllocEffect
    <3>2. IsSet(n)' /\ \A m \in PagePositions : m # n => (IsSet(m)' <=> IsSet(m))
      <4> DEFINE new == pmem_bmap[Word(n)] \cup {Bit(n)}
      <4>1. /\ pmem_bmap' = [pmem_bmap EXCEPT ![Word(n)] = new]
            /\ \A b \in Bits : b # Bit(n) => (b \in new <=> b \in pmem_bmap[Word(n)])
            /\ Bit(n) \in new
        BY <3>1
      <4> HIDE DEF new
      <4>2. /\ IsSet(n)' <=> Bit(n) \in new
            /\ \A m \in Positions : m # n => (IsSet(m)' <=> IsSet(m))
        BY <2>0, <4>1, OneBit
      <4> QED
        BY <2>0, <4>1, <4>2
    <3>3. UsedPages' = UsedPages \cup {Pages[n + 1]}
      BY <3>2 DEF UsedPages
    <3>4. Pages[n + 1] \notin UsedPages
      BY <3>1, PagesDiffer DEF UsedPages
    <3>5. Pages[n + 1] \in Range(Pages)
      BY WalksAgree DEF Range
    <3>6. Frames!Alloc(Pages[n + 1])
      BY <3>1, <3>3, <3>4, <3>5 DEF Frames!Alloc
    <3> QED
      BY <3>5, <3>6 DEF Frames!Next
  <2>2. CASE PhysPageAllocFails
    <3>1. \A n \in PagePositions : IsSet(n)
      BY <2>2 DEF PhysPageAllocFails, ClearPositions
    <3>2. ASSUME NEW page \in Range(Pages) PROVE page \in UsedPages
      <4>1. PICK k \in DOMAIN Pages : page = Pages[k]
        BY DEF Range
      <4>2. k \in Nat /\ k - 1 \in PagePositions /\ (k - 1) + 1 = k
        BY WalksAgree DEF PagePositions
      <4> QED
        BY <3>1, <4>1, <4>2 DEF UsedPages
    <3>3. UsedPages \subseteq Range(Pages)
      BY WalksAgree DEF UsedPages, Range
    <3>4. UsedPages = Range(Pages) /\ UNCHANGED UsedPages /\ result' = 0
      BY <2>2, <3>2, <3>3 DEF PhysPageAllocFails, UsedPages, IsSet
    <3> QED
      BY <3>4 DEF Frames!Next, Frames!Exhausted
  <2>3. ASSUME NEW addr \in Addresses, PhysPageFree(addr)
        PROVE  Frames!Next
    <3>1. PICK n \in Positions :
            /\ pmem_bmap' = [pmem_bmap EXCEPT ![Word(n)] = @ \ {Bit(n)}]
            /\ UNCHANGED result
            /\ n \in PagePositions => Pages[n + 1] = addr
            /\ n \notin PagePositions => \A m \in PagePositions : Pages[m + 1] # addr
      BY <2>3, PhysFreeEffect
    <3>2. ~IsSet(n)' /\ \A m \in PagePositions : m # n => (IsSet(m)' <=> IsSet(m))
      <4> DEFINE new == pmem_bmap[Word(n)] \ {Bit(n)}
      <4>1. /\ pmem_bmap' = [pmem_bmap EXCEPT ![Word(n)] = new]
            /\ \A b \in Bits : b # Bit(n) => (b \in new <=> b \in pmem_bmap[Word(n)])
            /\ Bit(n) \notin new
        BY <3>1
      <4> HIDE DEF new
      <4>2. /\ IsSet(n)' <=> Bit(n) \in new
            /\ \A m \in Positions : m # n => (IsSet(m)' <=> IsSet(m))
        BY <2>0, <4>1, OneBit
      <4> QED
        BY <2>0, <4>1, <4>2
    <3>3. \A m \in PagePositions : IsSet(m)' <=> IsSet(m) /\ Pages[m + 1] # addr
      BY <3>1, <3>2, PagesDiffer
    <3>4. UsedPages' = UsedPages \ {addr}
      BY <3>3 DEF UsedPages
    <3> QED
      BY <3>1, <3>4 DEF Frames!Next, Frames!Free
  <2>4. CASE UNCHANGED physVars
    BY <2>4 DEF physVars, UsedPages, IsSet
  <2> QED
    BY <2>1, <2>2, <2>3, <2>4 DEF PhysNext, PhysPageFreeIgnored
<1> QED
  BY <1>1, <1>2, PhysTypeCorrect, PTL
  DEF PhysSpec, ImplementsFramePool, Frames!Spec

-----------------------------------------------------------------------------
(* Addresses and walks                                                     *)

LEMMA Constants ==
  /\ LEVELS \in Nat /\ LEVELS >= 1 /\ ENTRIES \in Nat /\ ENTRIES >= 1 /\ Virtual \subseteq Nat
  /\ Pool \subseteq Virtual /\ Pool \subseteq Nat
  BY PagingAssumption DEF Virtual

(* Each shift takes off the last index.                                    *)
LEMMA ShiftedDefined ==
  ASSUME NEW virt
  PROVE  /\ Shifted(virt)[0] = virt
         /\ \A k \in 1 .. LEVELS : Shifted(virt)[k] = Shifted(virt)[k - 1] \div ENTRIES
<1> DEFINE Turn(f, k) == IF k = 0 THEN virt ELSE f[k - 1] \div ENTRIES
           Reached == {k \in Nat : \E f : f = [i \in 0 .. k |-> Turn(f, i)]}
<1>0. LEVELS \in Nat
  BY Constants
<1>1. \A f, g, k : k = 0 \/ f[k - 1] = g[k - 1] => Turn(f, k) = Turn(g, k)
  BY Zenon
<1>2. Shifted(virt) = CHOOSE f : f = [k \in 0 .. LEVELS |-> Turn(f, k)]
  BY DEF Shifted
<1> HIDE DEF Turn
<1>3. 0 \in Reached
  <2> DEFINE g == [k \in 0 .. 0 |-> Turn(0, k)]
  <2>1. \A k \in 0 .. 0 : Turn(0, k) = Turn(g, k)
    BY <1>1
  <2>2. g = [k \in 0 .. 0 |-> Turn(g, k)]
    BY <2>1
  <2> QED
    BY <2>2
<1>4. ASSUME NEW n \in Nat, n \in Reached PROVE n + 1 \in Reached
  <2>1. PICK f : f = [k \in 0 .. n |-> Turn(f, k)]
    BY <1>4
  <2> DEFINE g == [k \in 0 .. n + 1 |-> Turn(f, k)]
  <2>2. \A k \in 0 .. n : f[k] = g[k]
    BY <2>1
  <2>3. \A k \in 0 .. n + 1 : k = 0 \/ k - 1 \in 0 .. n
    OBVIOUS
  <2> HIDE DEF g
  <2>4. \A k \in 0 .. n + 1 : Turn(f, k) = Turn(g, k)
    BY <1>1, <2>2, <2>3
  <2>5. g = [k \in 0 .. n + 1 |-> Turn(g, k)]
    BY <2>4 DEF g
  <2> QED
    BY <2>5
<1>5. LEVELS \in Reached
  <2> HIDE DEF Reached
  <2>1. \A k \in 0 .. LEVELS - 1 : k \in Reached => k + 1 \in Reached
    BY <1>0, <1>4
  <2>2. LEVELS \in 0 .. LEVELS
    BY <1>0
  <2> QED
    BY <1>0, <1>3, <2>1, <2>2, Turns
<1>6. Shifted(virt) = [k \in 0 .. LEVELS |-> Turn(Shifted(virt), k)]
  BY <1>2, <1>5
<1>7. \A k \in 0 .. LEVELS : Shifted(virt)[k] = Turn(Shifted(virt), k)
  BY <1>6
<1> QED
  BY <1>0, <1>7 DEF Turn

(* A walk goes from table to table, until one is missing.                  *)
LEMMA WalkDefined ==
  ASSUME NEW mem, NEW virt
  PROVE  /\ Walk(mem, virt)[0] = pml4
         /\ \A l \in 1 .. LEVELS :
              Walk(mem, virt)[l] = IF Walk(mem, virt)[l - 1] = NotPresent THEN NotPresent
                                   ELSE mem[Walk(mem, virt)[l - 1]][Index(virt, l)]
<1> DEFINE Turn(f, l) == IF l = 0 THEN pml4
                         ELSE IF f[l - 1] = NotPresent THEN NotPresent
                         ELSE mem[f[l - 1]][Index(virt, l)]
           Reached == {k \in Nat : \E f : f = [i \in 0 .. k |-> Turn(f, i)]}
<1>0. LEVELS \in Nat
  BY Constants
<1>1. \A f, g, k : k = 0 \/ f[k - 1] = g[k - 1] => Turn(f, k) = Turn(g, k)
  BY Zenon
<1>2. Walk(mem, virt) = CHOOSE f : f = [k \in 0 .. LEVELS |-> Turn(f, k)]
  BY DEF Walk
<1> HIDE DEF Turn
<1>3. 0 \in Reached
  <2> DEFINE g == [k \in 0 .. 0 |-> Turn(0, k)]
  <2>1. \A k \in 0 .. 0 : Turn(0, k) = Turn(g, k)
    BY <1>1
  <2>2. g = [k \in 0 .. 0 |-> Turn(g, k)]
    BY <2>1
  <2> QED
    BY <2>2
<1>4. ASSUME NEW n \in Nat, n \in Reached PROVE n + 1 \in Reached
  <2>1. PICK f : f = [k \in 0 .. n |-> Turn(f, k)]
    BY <1>4
  <2> DEFINE g == [k \in 0 .. n + 1 |-> Turn(f, k)]
  <2>2. \A k \in 0 .. n : f[k] = g[k]
    BY <2>1
  <2>3. \A k \in 0 .. n + 1 : k = 0 \/ k - 1 \in 0 .. n
    OBVIOUS
  <2> HIDE DEF g
  <2>4. \A k \in 0 .. n + 1 : Turn(f, k) = Turn(g, k)
    BY <1>1, <2>2, <2>3
  <2>5. g = [k \in 0 .. n + 1 |-> Turn(g, k)]
    BY <2>4 DEF g
  <2> QED
    BY <2>5
<1>5. LEVELS \in Reached
  <2> HIDE DEF Reached
  <2>1. \A k \in 0 .. LEVELS - 1 : k \in Reached => k + 1 \in Reached
    BY <1>0, <1>4
  <2>2. LEVELS \in 0 .. LEVELS
    BY <1>0
  <2> QED
    BY <1>0, <1>3, <2>1, <2>2, Turns
<1>6. Walk(mem, virt) = [k \in 0 .. LEVELS |-> Turn(Walk(mem, virt), k)]
  BY <1>2, <1>5
<1>7. \A k \in 0 .. LEVELS : Walk(mem, virt)[k] = Turn(Walk(mem, virt), k)
  BY <1>6
<1> QED
  BY <1>0, <1>7 DEF Turn

LEMMA ShiftedNat ==
  ASSUME NEW virt \in Virtual
  PROVE  \A k \in 0 .. LEVELS : Shifted(virt)[k] \in Nat
<1> DEFINE S == {k \in 0 .. LEVELS : Shifted(virt)[k] \in Nat}
<1>1. LEVELS \in Nat /\ ENTRIES \in Nat /\ ENTRIES >= 1 /\ virt \in Nat
  BY Constants
<1>2. 0 \in S
  BY <1>1, ShiftedDefined
<1>3. ASSUME NEW k \in 0 .. LEVELS - 1, k \in S PROVE k + 1 \in S
  <2>1. k + 1 \in 1 .. LEVELS /\ (k + 1) - 1 = k
    BY <1>1
  <2>2. Shifted(virt)[k + 1] = Shifted(virt)[k] \div ENTRIES
    BY <2>1, ShiftedDefined
  <2>3. Shifted(virt)[k] \in Nat
    BY <1>3
  <2>4. Shifted(virt)[k] \div ENTRIES \in Nat
    BY <1>1, <2>3
  <2> QED
    BY <1>1, <2>1, <2>2, <2>4
<1> HIDE DEF S
<1>4. \A k \in 0 .. LEVELS : k \in S
  BY <1>1, <1>2, <1>3, Turns
<1> QED
  BY <1>4 DEF S

LEMMA IndexKnown ==
  ASSUME NEW virt \in Virtual, NEW l \in 1 .. LEVELS
  PROVE  Index(virt, l) \in Indices
<1>1. LEVELS - l \in 0 .. LEVELS /\ ENTRIES \in Nat /\ ENTRIES >= 1
  BY Constants
<1>2. Shifted(virt)[LEVELS - l] \in Nat
  BY <1>1, ShiftedNat
<1> QED
  BY <1>1, <1>2 DEF Index, Indices

(* Two addresses share a path of one more table if they have one index     *)
(* more in common.                                                         *)
LEMMA PathSteps ==
  ASSUME NEW v \in Virtual, NEW w \in Virtual
  PROVE  /\ SamePath(v, w, 0)
         /\ SamePath(v, w, LEVELS) <=> v = w
         /\ \A l \in 1 .. LEVELS :
              SamePath(v, w, l) <=> SamePath(v, w, l - 1) /\ Index(v, l) = Index(w, l)
<1>1. LEVELS \in Nat /\ ENTRIES \in Nat /\ ENTRIES >= 1 /\ LEVELS - 0 = LEVELS /\ LEVELS - LEVELS = 0
  BY Constants
<1>2. SamePath(v, w, 0)
  BY <1>1, PagingAssumption DEF SamePath
<1>3. SamePath(v, w, LEVELS) <=> v = w
  BY <1>1, ShiftedDefined DEF SamePath
<1>4. ASSUME NEW l \in 1 .. LEVELS
      PROVE  SamePath(v, w, l) <=> SamePath(v, w, l - 1) /\ Index(v, l) = Index(w, l)
  <2> DEFINE a == Shifted(v)[LEVELS - l]
             b == Shifted(w)[LEVELS - l]
  <2>1. LEVELS - l \in 0 .. LEVELS /\ LEVELS - (l - 1) \in 1 .. LEVELS /\ (LEVELS - (l - 1)) - 1 = LEVELS - l
    BY <1>1
  <2>2. a \in Nat /\ b \in Nat
    BY <2>1, ShiftedNat
  <2>3. Shifted(v)[LEVELS - (l - 1)] = a \div ENTRIES /\ Shifted(w)[LEVELS - (l - 1)] = b \div ENTRIES
    BY <2>1, ShiftedDefined
  <2>4. /\ SamePath(v, w, l - 1) <=> a \div ENTRIES = b \div ENTRIES
        /\ Index(v, l) = a % ENTRIES /\ Index(w, l) = b % ENTRIES
        /\ SamePath(v, w, l) <=> a = b
    BY <2>3 DEF SamePath, Index
  <2> HIDE DEF a, b
  <2>5. a = ENTRIES * (a \div ENTRIES) + (a % ENTRIES) /\ b = ENTRIES * (b \div ENTRIES) + (b % ENTRIES)
    BY <1>1, <2>2
  <2> QED
    BY <2>4, <2>5
<1> QED
  BY <1>2, <1>3, <1>4

(* The walk to an address depends on its path alone.                       *)
LEMMA PathWalk ==
  ASSUME NEW mem, NEW v \in Virtual, NEW w \in Virtual
  PROVE  \A l \in 0 .. LEVELS : SamePath(v, w, l) => Walk(mem, v)[l] = Walk(mem, w)[l]
<1> DEFINE S == {l \in 0 .. LEVELS : SamePath(v, w, l) => Walk(mem, v)[l] = Walk(mem, w)[l]}
<1>1. LEVELS \in Nat
  BY Constants
<1>2. 0 \in S
  BY <1>1, WalkDefined
<1>3. ASSUME NEW k \in 0 .. LEVELS - 1, k \in S PROVE k + 1 \in S
  <2>1. k + 1 \in 1 .. LEVELS /\ k + 1 \in 0 .. LEVELS /\ (k + 1) - 1 = k
    BY <1>1
  <2>2. SUFFICES ASSUME SamePath(v, w, k + 1) PROVE Walk(mem, v)[k + 1] = Walk(mem, w)[k + 1]
    BY <2>1
  <2>3. SamePath(v, w, k) /\ Index(v, k + 1) = Index(w, k + 1)
    BY <2>1, <2>2, PathSteps
  <2>4. Walk(mem, v)[k] = Walk(mem, w)[k]
    BY <1>3, <2>3
  <2> QED
    BY <2>1, <2>3, <2>4, WalkDefined
<1> HIDE DEF S
<1>4. \A l \in 0 .. LEVELS : l \in S
  BY <1>1, <1>2, <1>3, Turns
<1> QED
  BY <1>4 DEF S

(* Nothing is present below a missing table.                               *)
LEMMA NothingBelow ==
  ASSUME NEW mem, NEW virt, NEW k \in 0 .. LEVELS, Walk(mem, virt)[k] = NotPresent
  PROVE  \A l \in 0 .. LEVELS : l >= k => Walk(mem, virt)[l] = NotPresent
<1> DEFINE S == {l \in 0 .. LEVELS : l >= k => Walk(mem, virt)[l] = NotPresent}
<1>1. LEVELS \in Nat
  BY Constants
<1>2. 0 \in S
  BY <1>1
<1>3. ASSUME NEW l \in 0 .. LEVELS - 1, l \in S PROVE l + 1 \in S
  <2>1. l + 1 \in 1 .. LEVELS /\ l + 1 \in 0 .. LEVELS /\ (l + 1) - 1 = l /\ (l + 1 >= k => l + 1 = k \/ l >= k)
    BY <1>1
  <2>2. l >= k => Walk(mem, virt)[l + 1] = NotPresent
    BY <1>3, <2>1, WalkDefined
  <2> QED
    BY <2>1, <2>2
<1> HIDE DEF S
<1>4. \A l \in 0 .. LEVELS : l \in S
  BY <1>1, <1>2, <1>3, Turns
<1> QED
  BY <1>4 DEF S

-----------------------------------------------------------------------------
(* The inductive invariant                                                 *)

Entries == [Indices -> Int]
CallRecords == [phys : Nat, virt : Virtual, level : 1 .. LEVELS, table : Int, made : BOOLEAN]
FirstCalls == [phys : Nat, virt : Virtual \ Pool, level : {1}, table : {pml4}, made : {FALSE}]

PagingTypeOK ==
  /\ tables \in [TablePages \cup {pml4} -> Entries]
  /\ marked \subseteq Pool
  /\ calls \in Seq(CallRecords)
  /\ todo \in Seq(FirstCalls)
  /\ \A i \in DOMAIN todo : todo[i].phys \in used.kernel
  /\ cr3 \in {"boot", "pml4"}

(* The pages that are mapped without having been taken from the pool.      *)
Given == (Nat \ Pool) \cup used.kernel

(* The tree, table by table, and what its leaves map: of the pool only     *)
(* pages that are marked and pages that the kernel was given, so that a    *)
(* new table is mapped nowhere.                                            *)
Tree ==
  /\ AllTables \subseteq marked \ used.kernel
  /\ \A virt, other \in Virtual, level, k \in 1 .. LEVELS - 1 :
       Walk(tables, virt)[level] = Walk(tables, other)[k] /\ Walk(tables, virt)[level] # NotPresent =>
         level = k /\ SamePath(virt, other, level)
  /\ \A virt \in Virtual :
       find_physaddr(virt) # NotPresent =>
         /\ find_physaddr(virt) \in Given \cup marked
         /\ find_physaddr(virt) \in AllTables => find_physaddr(virt) = virt

(* A call stands at a table on the way to its page.                        *)
OnItsWay(c) ==
  /\ c.table = Walk(tables, c.virt)[c.level - 1] /\ c.table # NotPresent
  /\ c.made => c.level < LEVELS /\ Walk(tables, c.virt)[c.level] # NotPresent
  /\ c.phys \in Given \cup marked
  /\ c.phys \in AllTables => c.phys = c.virt

(* The outer call is for a page of init_paging or of the heap, the nested  *)
(* ones map tables to themselves.                                          *)
Nested ==
  /\ \A k \in DOMAIN calls : /\ OnItsWay(calls[k])
                             /\ k = 1 => calls[k].virt \notin Pool
                             /\ k > 1 => calls[k].virt = calls[k].phys /\ calls[k].virt \in Pool
  /\ cr3 = "pml4" => todo = <<>>

(* A table is mapped to itself, or will be when a nested call returns.  No *)
(* table is made after load_pml4.                                          *)
SelfMaps ==
  /\ \A t \in AllTables :
       \/ find_physaddr(t) = t
       \/ cr3 = "boot" /\ \E k \in DOMAIN calls : k > 1 /\ calls[k].virt = t
  /\ cr3 = "boot" => AllTables \subseteq BootMapped

(* What has been mapped is not mapped again.                               *)
Kept ==
  /\ \A m \in done : /\ m[1] \in Virtual \ Pool
                     /\ find_physaddr(m[1]) = m[2] /\ m[2] # NotPresent
  /\ \A m \in done : calls # <<>> => calls[1].virt # m[1]
  /\ \A m \in done, i \in DOMAIN todo : todo[i].virt # m[1]
  /\ \A i \in DOMAIN todo : calls # <<>> => calls[1].virt # todo[i].virt
  /\ \A i, j \in DOMAIN todo : todo[i].virt = todo[j].virt => i = j

PagingInv ==
  PoolLasts =>
    /\ PagingTypeOK
    /\ Tree
    /\ Nested
    /\ SelfMaps
    /\ Kept

-----------------------------------------------------------------------------
(* What an action does to the walks                                        *)

(* The tables on a walk.                                                   *)
LEMMA OnTheWay ==
  ASSUME Tree, NEW v \in Virtual, NEW l \in 0 .. LEVELS - 1, Walk(tables, v)[l] # NotPresent
  PROVE  \/ l = 0 /\ Walk(tables, v)[l] = pml4
         \/ l >= 1 /\ Walk(tables, v)[l] \in AllTables /\ Walk(tables, v)[l] \in marked
<1>1. LEVELS \in Nat
  BY Constants
<1>2. CASE l = 0
  BY <1>2, WalkDefined
<1>3. CASE l # 0
  <2>1. l \in 1 .. LEVELS - 1
    BY <1>1, <1>3
  <2>2. Walk(tables, v)[l] \in TablesAt(l)
    BY DEF TablesAt
  <2>3. Walk(tables, v)[l] \in AllTables
    BY <2>1, <2>2 DEF AllTables
  <2> QED
    BY <2>1, <2>3 DEF Tree
<1> QED
  BY <1>2, <1>3

LEMMA TableOf ==
  /\ \A u : u \in AllTables <=>
       \E l \in 1 .. LEVELS - 1, v \in Virtual : u = Walk(tables, v)[l] /\ u # NotPresent
  /\ \A u : u \in AllTables' <=>
       \E l \in 1 .. LEVELS - 1, v \in Virtual : u = Walk(tables', v)[l] /\ u # NotPresent
  BY DEF AllTables, TablesAt

(* Walks that meet at a table have come the same way.                      *)
LEMMA SameTable ==
  ASSUME Tree, marked \subseteq Pool,
         NEW v \in Virtual, NEW w \in Virtual, NEW l \in 0 .. LEVELS - 1, NEW k \in 0 .. LEVELS - 1,
         Walk(tables, v)[l] = Walk(tables, w)[k], Walk(tables, v)[l] # NotPresent
  PROVE  l = k /\ SamePath(v, w, l)
<1>1. LEVELS \in Nat /\ Pool \subseteq Nat /\ pml4 \notin Nat
  BY Constants DEF pml4
<1>2. CASE l = 0 \/ k = 0
  <2>1. \/ l = 0 /\ Walk(tables, v)[l] = pml4
        \/ l >= 1 /\ Walk(tables, v)[l] \in marked
    BY OnTheWay
  <2>2. \/ k = 0 /\ Walk(tables, w)[k] = pml4
        \/ k >= 1 /\ Walk(tables, w)[k] \in marked
    BY OnTheWay
  <2>3. l = 0 /\ k = 0
    <3>1. pml4 \notin marked
      BY <1>1
    <3>2. ~(l >= 1 /\ l = 0) /\ ~(k >= 1 /\ k = 0)
      OBVIOUS
    <3> QED
      BY <1>2, <2>1, <2>2, <3>1, <3>2, Zenon
  <2> QED
    BY <2>3, PathSteps
<1>3. CASE l # 0 /\ k # 0
  <2>1. l \in 1 .. LEVELS - 1 /\ k \in 1 .. LEVELS - 1
    BY <1>1, <1>3
  <2> QED
    BY <2>1 DEF Tree
<1> QED
  BY <1>2, <1>3

(* Writing one entry of a table, and whatever else is in no table, changes *)
(* the walks that pass this entry and no others.                           *)
LEMMA LinkedWalk ==
  ASSUME Tree, marked \subseteq Pool,
         NEW mem, NEW x \in Virtual, NEW L \in 1 .. LEVELS, NEW n, NEW t,
         t = Walk(tables, x)[L - 1], t # NotPresent,
         \A u \in {pml4} \cup AllTables, i \in Indices :
           u # t \/ i # Index(x, L) => mem[u][i] = tables[u][i],
         mem[t][Index(x, L)] = n
  PROVE  \A v \in Virtual, l \in 0 .. LEVELS :
           l <= L \/ ~SamePath(v, x, L) =>
             Walk(mem, v)[l] = IF l = L /\ SamePath(v, x, L) THEN n ELSE Walk(tables, v)[l]
<1>1. LEVELS \in Nat /\ L - 1 \in 0 .. LEVELS - 1
  BY Constants
<1> SUFFICES ASSUME NEW v \in Virtual
             PROVE  \A l \in 0 .. LEVELS :
                      l <= L \/ ~SamePath(v, x, L) =>
                        Walk(mem, v)[l] = IF l = L /\ SamePath(v, x, L) THEN n ELSE Walk(tables, v)[l]
  OBVIOUS
<1> DEFINE Right(l) == l <= L \/ ~SamePath(v, x, L) =>
                         Walk(mem, v)[l] = IF l = L /\ SamePath(v, x, L) THEN n ELSE Walk(tables, v)[l]
           S == {l \in 0 .. LEVELS : Right(l)}
<1>2. 0 \in S
  BY <1>1, WalkDefined
<1>3. ASSUME NEW k \in 0 .. LEVELS - 1, k \in S PROVE k + 1 \in S
  <2>1. k + 1 \in 1 .. LEVELS /\ k + 1 \in 0 .. LEVELS /\ (k + 1) - 1 = k
        /\ (k + 1 <= L => k <= L /\ k # L)
    BY <1>1
  <2>2. SUFFICES ASSUME k + 1 <= L \/ ~SamePath(v, x, L)
                 PROVE  Walk(mem, v)[k + 1]
                          = IF k + 1 = L /\ SamePath(v, x, L) THEN n ELSE Walk(tables, v)[k + 1]
    BY <2>1
  <2> DEFINE a == Walk(tables, v)[k]
             i == Index(v, k + 1)
  <2>3. Walk(mem, v)[k] = a
    BY <1>3, <2>1, <2>2
  <2>4. /\ Walk(mem, v)[k + 1] = IF a = NotPresent THEN NotPresent ELSE mem[a][i]
        /\ Walk(tables, v)[k + 1] = IF a = NotPresent THEN NotPresent ELSE tables[a][i]
    BY <2>1, <2>3, WalkDefined
  <2>5. k + 1 = L /\ SamePath(v, x, L) => a = t /\ i = Index(x, L)
    <3>1. SUFFICES ASSUME k + 1 = L, SamePath(v, x, L) PROVE a = t /\ i = Index(x, L)
      OBVIOUS
    <3>2. k = L - 1 /\ SamePath(v, x, k) /\ i = Index(x, L)
      BY <2>1, <3>1, PathSteps
    <3>3. k \in 0 .. LEVELS
      BY <1>1
    <3> QED
      BY <3>2, <3>3, PathWalk
  <2>6. CASE a = NotPresent
    BY <2>4, <2>5, <2>6
  <2>7. CASE a # NotPresent
    <3>1. a \in {pml4} \cup AllTables
      BY <2>7, OnTheWay
    <3>2. i \in Indices
      BY <2>1, IndexKnown
    <3>3. CASE a = t /\ i = Index(x, L)
      <4>1. k = L - 1 /\ SamePath(v, x, k)
        BY <1>1, <2>7, <3>3, SameTable
      <4>2. k + 1 = L
        BY <1>1, <4>1
      <4>3. SamePath(v, x, L)
        BY <2>1, <3>3, <4>1, <4>2, PathSteps
      <4> QED
        BY <2>4, <2>7, <3>3, <4>2, <4>3
    <3>4. CASE a # t \/ i # Index(x, L)
      <4>1. mem[a][i] = tables[a][i]
        BY <3>1, <3>2, <3>4
      <4> QED
        BY <2>4, <2>5, <2>7, <3>4, <4>1
    <3> QED
      BY <3>3, <3>4
  <2> QED
    BY <2>6, <2>7
<1> HIDE DEF S
<1>4. \A l \in 0 .. LEVELS : l \in S
  BY <1>1, <1>2, <1>3, Turns
<1> QED
  BY <1>4 DEF S

(* The call that is running.                                               *)
LEMMA TopKnown ==
  ASSUME PagingTypeOK, Nested, calls # <<>>
  PROVE  /\ Len(calls) \in Nat /\ Len(calls) >= 1 /\ DOMAIN calls = 1 .. Len(calls)
         /\ Top = calls[Len(calls)] /\ Top \in CallRecords /\ OnItsWay(Top)
         /\ TopEntry = Walk(tables, Top.virt)[Top.level]
         /\ \A k \in 1 .. Len(calls) : calls[k] \in CallRecords
<1>1. /\ calls \in Seq(CallRecords) /\ Len(calls) \in Nat /\ Len(calls) >= 1
      /\ DOMAIN calls = 1 .. Len(calls) /\ Len(calls) \in DOMAIN calls
      /\ \A k \in 1 .. Len(calls) : calls[k] \in CallRecords
  BY DEF PagingTypeOK
<1>2. Top = calls[Len(calls)]
  BY DEF Top, Last
<1>3. Top \in CallRecords /\ OnItsWay(Top)
  BY <1>1, <1>2 DEF Nested
<1>4. TopEntry = Walk(tables, Top.virt)[Top.level]
  <2>1. Top.level \in 1 .. LEVELS
    BY <1>3 DEF CallRecords
  <2> QED
    BY <1>3, <2>1, WalkDefined DEF OnItsWay, TopEntry
<1> QED
  BY <1>1, <1>2, <1>3, <1>4

(* While the pool lasts phys_page_alloc returns a page that is not marked. *)
LEMMA NewPage ==
  ASSUME PoolLasts
  PROVE  NextPage \in Pool \ marked
<1>1. Pool \ marked \in SUBSET Nat /\ Pool \ marked # {}
  BY Constants DEF PoolLasts
<1>2. Min(Pool \ marked) \in Pool \ marked
  BY <1>1, MinMember
<1> QED
  BY <1>2 DEF NextPage, PoolLasts

(* A table is a page of the memory that tables are in.                     *)
LEMMA TablesKnown ==
  ASSUME PagingTypeOK, Tree
  PROVE  {pml4} \cup AllTables \subseteq DOMAIN tables
  BY DEF PagingTypeOK, Tree, TablePages

(* map_page takes no table after load_pml4, for none of the pages it could *)
(* take is mapped.                                                         *)
LEMMA TakenInTime ==
  ASSUME PagingTypeOK, Tree, PoolLasts, NewTable
  PROVE  cr3 = "boot" /\ NextPage \in BootMapped /\ NextPage \notin used.kernel
<1>1. NextPage \in Pool \ marked /\ NextPage \in Nat /\ NextPage \in Virtual
  BY NewPage, Constants
<1>2. /\ Accessible(NextPage) /\ NextPage # pml4 /\ NextPage # NotPresent
      /\ NextPage \notin used.kernel
  BY <1>1 DEF NewTable, InUse, pml4, NotPresent
<1>3. find_physaddr(NextPage) # NextPage
  BY <1>1, <1>2 DEF Tree, Given
<1> QED
  BY <1>2, <1>3 DEF Accessible

(* A new table ends the walks that pass its entry, and changes no other.   *)
LEMMA NewTableWalks ==
  ASSUME PagingTypeOK, Tree, Nested, PoolLasts, NewTable
  PROVE  /\ tables' \in [TablePages \cup {pml4} -> Entries]
         /\ \A v \in Virtual, l \in 0 .. LEVELS :
              Walk(tables', v)[l] = IF l = Top.level /\ SamePath(v, Top.virt, Top.level)
                                      THEN NextPage ELSE Walk(tables, v)[l]
<1> DEFINE p == NextPage
           x == Top.virt
           L == Top.level
           t == Top.table
           i == Index(x, L)
<1>1. p \in Pool \ marked /\ p \in Nat
  BY NewPage, Constants
<1>2. /\ calls # <<>> /\ L < LEVELS /\ TopEntry = NotPresent
      /\ tables' = [Cleared(p) EXCEPT ![t][i] = p]
  BY DEF NewTable, TableMissing, Running
<1>3. /\ x \in Virtual /\ L \in 1 .. LEVELS /\ t = Walk(tables, x)[L - 1] /\ t # NotPresent
      /\ Walk(tables, x)[L] = NotPresent
  BY <1>2, TopKnown DEF CallRecords, OnItsWay
<1>4. LEVELS \in Nat /\ L - 1 \in 0 .. LEVELS - 1 /\ L \in 0 .. LEVELS
  BY <1>2, <1>3, Constants
<1>5. p \notin {pml4} \cup AllTables /\ t \in {pml4} \cup AllTables
  <2>1. t \in {pml4} \cup AllTables
    BY <1>3, <1>4, OnTheWay
  <2> QED
    BY <1>1, <2>1 DEF Tree, pml4
<1>6. i \in Indices
  BY <1>3, IndexKnown
<1>7. /\ tables \in [TablePages \cup {pml4} -> Entries] /\ p \in TablePages /\ t \in TablePages \cup {pml4}
      /\ marked \subseteq Pool
  BY <1>1, <1>5, TablesKnown DEF PagingTypeOK, TablePages
<1> HIDE DEF p, x, L, t, i
<1>8. Empty \in Entries /\ \A j \in Indices : Empty[j] = NotPresent
  BY DEF Empty, Entries, NotPresent
<1>9. /\ tables' \in [TablePages \cup {pml4} -> Entries]
      /\ \A u \in {pml4} \cup AllTables, j \in Indices : u # t \/ j # i => tables'[u][j] = tables[u][j]
      /\ tables'[t][i] = p
      /\ \A j \in Indices : tables'[p][j] = NotPresent
  <2> DEFINE C == [tables EXCEPT ![p] = Empty]
  <2>1. C \in [TablePages \cup {pml4} -> Entries]
    BY <1>7, <1>8
  <2>2. /\ C[p] = Empty
        /\ \A u \in TablePages \cup {pml4} : u # p => C[u] = tables[u]
    BY <1>7
  <2>3. tables' = [C EXCEPT ![t][i] = p]
    BY <1>2 DEF Cleared
  <2> HIDE DEF C
  <2>4. /\ \A u \in TablePages \cup {pml4} : u # t => tables'[u] = C[u]
        /\ tables'[t] = [C[t] EXCEPT ![i] = p]
        /\ DOMAIN tables' = TablePages \cup {pml4}
    BY <1>7, <2>1, <2>3
  <2>5. C[t] \in [Indices -> Int]
    BY <1>7, <2>1 DEF Entries
  <2>6. /\ tables'[t] \in Entries /\ tables'[t][i] = p
        /\ \A j \in Indices : j # i => tables'[t][j] = C[t][j]
    BY <1>1, <1>6, <2>4, <2>5 DEF Entries
  <2>7. tables' \in [TablePages \cup {pml4} -> Entries]
    <3>1. tables' = [u \in TablePages \cup {pml4} |-> tables'[u]]
      BY <2>1, <2>3
    <3>2. \A u \in TablePages \cup {pml4} : tables'[u] \in Entries
      BY <2>1, <2>4, <2>6
    <3> QED
      BY <3>1, <3>2
  <2>8. p # t /\ {pml4} \cup AllTables \subseteq TablePages \cup {pml4}
    BY <1>5, TablesKnown DEF PagingTypeOK
  <2> QED
    BY <1>5, <1>7, <1>8, <2>2, <2>4, <2>6, <2>7, <2>8
<1>10. \A v \in Virtual, l \in 0 .. LEVELS :
         l <= L \/ ~SamePath(v, x, L) =>
           Walk(tables', v)[l] = IF l = L /\ SamePath(v, x, L) THEN p ELSE Walk(tables, v)[l]
  BY <1>3, <1>7, <1>9, LinkedWalk DEF i
<1>11. ASSUME NEW v \in Virtual, NEW l \in 0 .. LEVELS, l > L, SamePath(v, x, L)
       PROVE  Walk(tables', v)[l] = Walk(tables, v)[l]
  <2>1. Walk(tables, v)[L] = NotPresent
    BY <1>3, <1>4, <1>11, PathWalk
  <2>2. Walk(tables, v)[l] = NotPresent
    BY <1>4, <1>11, <2>1, NothingBelow
  <2>3. L + 1 \in 1 .. LEVELS /\ L + 1 \in 0 .. LEVELS /\ (L + 1) - 1 = L /\ l >= L + 1
    BY <1>4, <1>11
  <2>4. Walk(tables', v)[L] = p
    BY <1>4, <1>10, <1>11
  <2>5. Index(v, L + 1) \in Indices /\ p # NotPresent
    BY <1>1, <2>3, IndexKnown DEF NotPresent
  <2>6. Walk(tables', v)[L + 1] = NotPresent
    BY <1>9, <2>3, <2>4, <2>5, WalkDefined
  <2> QED
    BY <2>2, <2>3, <2>6, NothingBelow
<1>12. ASSUME NEW v \in Virtual, NEW l \in 0 .. LEVELS
       PROVE  Walk(tables', v)[l] = IF l = L /\ SamePath(v, x, L) THEN p ELSE Walk(tables, v)[l]
  <2>1. CASE l <= L \/ ~SamePath(v, x, L)
    BY <1>10, <2>1
  <2>2. CASE ~(l <= L) /\ SamePath(v, x, L)
    <3>1. l > L /\ l # L
      BY <1>4, <2>2
    <3> QED
      BY <1>11, <2>2, <3>1
  <2> QED
    BY <2>1, <2>2
<1> QED
  BY <1>9, <1>12 DEF p, x, L

(* The last entry changes the walk to its own page.                        *)
LEMMA SetEntryWalks ==
  ASSUME PagingTypeOK, Tree, Nested, SetEntry
  PROVE  /\ tables' \in [TablePages \cup {pml4} -> Entries]
         /\ \A v \in Virtual, l \in 0 .. LEVELS :
              Walk(tables', v)[l] = IF l = LEVELS /\ v = Top.virt
                                      THEN Top.phys ELSE Walk(tables, v)[l]
<1> DEFINE x == Top.virt
           t == Top.table
           i == Index(x, LEVELS)
           n == Top.phys
<1>1. /\ calls # <<>> /\ Top.level = LEVELS
      /\ tables' = [tables EXCEPT ![t][i] = n]
  BY DEF SetEntry, Running
<1>2. /\ x \in Virtual /\ LEVELS \in 1 .. LEVELS /\ t = Walk(tables, x)[LEVELS - 1] /\ t # NotPresent
      /\ n \in Nat
  BY <1>1, TopKnown DEF CallRecords, OnItsWay
<1>3. LEVELS \in Nat /\ LEVELS - 1 \in 0 .. LEVELS - 1
  BY <1>2, Constants
<1>4. t \in {pml4} \cup AllTables
  BY <1>2, <1>3, OnTheWay
<1>5. i \in Indices
  BY <1>2, IndexKnown
<1>6. /\ tables \in [TablePages \cup {pml4} -> [Indices -> Int]] /\ t \in TablePages \cup {pml4}
      /\ marked \subseteq Pool
  BY <1>4, TablesKnown DEF PagingTypeOK, Entries
<1> HIDE DEF x, t, i, n
<1>7. /\ tables' \in [TablePages \cup {pml4} -> Entries]
      /\ \A u \in TablePages \cup {pml4}, j \in Indices : u # t \/ j # i => tables'[u][j] = tables[u][j]
      /\ tables'[t][i] = n
  BY <1>1, <1>2, <1>5, <1>6 DEF Entries
<1>8. \A u \in {pml4} \cup AllTables, j \in Indices : u # t \/ j # i => tables'[u][j] = tables[u][j]
  BY <1>7, TablesKnown DEF PagingTypeOK
<1>9. \A v \in Virtual, l \in 0 .. LEVELS :
        l <= LEVELS \/ ~SamePath(v, x, LEVELS) =>
          Walk(tables', v)[l] = IF l = LEVELS /\ SamePath(v, x, LEVELS) THEN n ELSE Walk(tables, v)[l]
  <2>1. /\ \A u \in {pml4} \cup AllTables, j \in Indices :
              u # t \/ j # Index(x, LEVELS) => tables'[u][j] = tables[u][j]
        /\ tables'[t][Index(x, LEVELS)] = n
    BY <1>7, <1>8 DEF i
  <2>2. /\ marked \subseteq Pool /\ x \in Virtual /\ LEVELS \in 1 .. LEVELS
        /\ t = Walk(tables, x)[LEVELS - 1] /\ t # NotPresent
    BY <1>2, <1>6
  <2> QED
    BY <2>1, <2>2, LinkedWalk
<1>10. \A v \in Virtual : SamePath(v, x, LEVELS) <=> v = x
  BY <1>2, PathSteps
<1>11. \A l \in 0 .. LEVELS : l <= LEVELS
  BY <1>3
<1> QED
  BY <1>7, <1>9, <1>10, <1>11 DEF x, n

-----------------------------------------------------------------------------
(* The invariant is kept                                                   *)

(* Marking a page and stepping on in the program.                          *)
LEMMA NewTableKeeps ==
  ASSUME PoolLasts, PagingTypeOK, Tree, Nested, SelfMaps, Kept, NewTable
  PROVE  PagingTypeOK' /\ Tree' /\ Nested' /\ SelfMaps' /\ Kept'
<1> DEFINE p == NextPage
           x == Top.virt
           L == Top.level
           n == Len(calls)
           W(v) == Walk(tables, v)
           V(v) == Walk(tables', v)
<1>1. /\ p \in Pool \ marked /\ p \in Nat /\ p \in Virtual /\ p # NotPresent /\ p # pml4
      /\ cr3 = "boot" /\ p \in BootMapped /\ p \notin used.kernel
  <2>1. /\ cr3 = "boot" /\ NextPage \in BootMapped /\ NextPage \in Pool \ marked
        /\ NextPage \notin used.kernel
    BY NewPage, TakenInTime, Zenon
  <2> QED
    BY <2>1, Constants DEF NotPresent, pml4
<1>2. /\ calls # <<>> /\ L < LEVELS
      /\ calls' = [calls EXCEPT ![n].made = TRUE] \o <<Call(p, p)>>
      /\ marked' = marked \cup {p}
      /\ UNCHANGED <<todo, cr3, used, done>>
  <2>1. {p} \cap Pool = {p}
    BY <1>1
  <2>2. /\ calls # <<>> /\ L < LEVELS
        /\ calls' = [calls EXCEPT ![n].made = TRUE] \o SelfMap(p)
        /\ marked' = marked \cup ({p} \cap Pool)
        /\ UNCHANGED <<todo, cr3, used, done>>
    BY DEF NewTable, TableMissing, Running
  <2> QED
    BY <2>1, <2>2 DEF SelfMap
<1>3. /\ x \in Virtual /\ L \in 1 .. LEVELS - 1 /\ LEVELS \in Nat
      /\ n \in Nat /\ n >= 1 /\ DOMAIN calls = 1 .. n
      /\ Top = calls[n] /\ OnItsWay(Top) /\ Top \in CallRecords
      /\ \A k \in 1 .. n : calls[k] \in CallRecords
  <2>1. /\ n \in Nat /\ n >= 1 /\ DOMAIN calls = 1 .. n
        /\ Top = calls[n] /\ OnItsWay(Top) /\ Top \in CallRecords
        /\ \A k \in 1 .. n : calls[k] \in CallRecords
    BY <1>2, TopKnown, Zenon
  <2>2. x \in Virtual /\ L \in 1 .. LEVELS
    BY <2>1 DEF CallRecords
  <2>3. LEVELS \in Nat /\ L \in 1 .. LEVELS - 1
    BY <1>2, <2>2, Constants
  <2> QED
    BY <2>1, <2>2, <2>3, Zenon
<1>4. /\ tables' \in [TablePages \cup {pml4} -> Entries]
      /\ \A v \in Virtual, l \in 0 .. LEVELS :
           V(v)[l] = IF l = L /\ SamePath(v, x, L) THEN p ELSE W(v)[l]
  BY NewTableWalks
<1>5. W(x)[L] = NotPresent /\ SamePath(x, x, L)
  BY <1>2, TopKnown DEF NewTable, TableMissing, SamePath
<1>6. \A v \in Virtual, l \in 0 .. LEVELS : W(v)[l] # NotPresent => V(v)[l] = W(v)[l]
  <2>1. SUFFICES ASSUME NEW v \in Virtual, SamePath(v, x, L) PROVE W(v)[L] = NotPresent
    BY <1>4
  <2>2. L \in 0 .. LEVELS
    BY <1>3
  <2> QED
    BY <1>3, <1>5, <2>1, <2>2, PathWalk
<1>7. \A v \in Virtual : find_physaddr(v)' = find_physaddr(v)
  <2>1. LEVELS \in 0 .. LEVELS /\ LEVELS # L
    BY <1>3
  <2> QED
    BY <1>4, <2>1 DEF find_physaddr
<1>8. \A u : u \in AllTables' <=> u \in AllTables \/ u = p
  <2>1. ASSUME NEW u, u \in AllTables' PROVE u \in AllTables \/ u = p
    <3>1. PICK l \in 1 .. LEVELS - 1, v \in Virtual : u = V(v)[l] /\ u # NotPresent
      BY <2>1, TableOf
    <3>2. l \in 0 .. LEVELS
      BY <1>3
    <3>3. u = p \/ u = W(v)[l]
      BY <1>4, <3>1, <3>2
    <3> QED
      BY <3>1, <3>3, TableOf
  <2>2. ASSUME NEW u, u \in AllTables PROVE u \in AllTables'
    <3>1. PICK l \in 1 .. LEVELS - 1, v \in Virtual : u = W(v)[l] /\ u # NotPresent
      BY <2>2, TableOf
    <3>2. l \in 0 .. LEVELS
      BY <1>3
    <3>3. u = V(v)[l]
      BY <1>6, <3>1, <3>2
    <3> QED
      BY <3>1, <3>3, TableOf
  <2>3. p \in AllTables'
    <3>1. L \in 0 .. LEVELS
      BY <1>3
    <3>2. V(x)[L] = p
      BY <1>3, <1>4, <1>5, <3>1
    <3> QED
      BY <1>1, <1>3, <3>2, TableOf
  <2> QED
    BY <2>1, <2>2, <2>3
<1> HIDE DEF p, x, L, n
<1>9. /\ Len(calls') = n + 1 /\ DOMAIN calls' = 1 .. n + 1 /\ calls' \in Seq(CallRecords)
      /\ \A k \in 1 .. n - 1 : calls'[k] = calls[k]
      /\ calls'[n] = [calls[n] EXCEPT !.made = TRUE]
      /\ calls'[n + 1] = Call(p, p)
  <2> DEFINE c == [calls EXCEPT ![n].made = TRUE]
             e == <<Call(p, p)>>
  <2>1. calls[n] \in CallRecords /\ [calls[n] EXCEPT !.made = TRUE] \in CallRecords
    BY <1>3 DEF CallRecords
  <2>2. /\ c \in Seq(CallRecords) /\ Len(c) = n /\ c[n] = [calls[n] EXCEPT !.made = TRUE]
        /\ \A k \in 1 .. n - 1 : c[k] = calls[k]
    BY <1>3, <2>1 DEF PagingTypeOK, n
  <2>3. e \in Seq(CallRecords) /\ Len(e) = 1 /\ e[1] = Call(p, p)
    BY <1>1, <1>3 DEF Call, CallRecords, pml4
  <2>4. calls' = c \o e
    BY <1>2
  <2> HIDE DEF c, e
  <2>5. /\ calls' \in Seq(CallRecords) /\ Len(calls') = Len(c) + Len(e)
        /\ \A k \in 1 .. Len(c) + Len(e) :
             calls'[k] = IF k <= Len(c) THEN c[k] ELSE e[k - Len(c)]
    <3>1. c \in Seq(CallRecords) /\ e \in Seq(CallRecords)
      BY <2>2, <2>3
    <3>2. /\ c \o e \in Seq(CallRecords) /\ Len(c \o e) = Len(c) + Len(e)
          /\ \A k \in 1 .. Len(c) + Len(e) :
               (c \o e)[k] = IF k <= Len(c) THEN c[k] ELSE e[k - Len(c)]
      BY <3>1, ConcatProperties
    <3> QED
      BY <2>4, <3>2
  <2>6. Len(calls') = n + 1 /\ \A k \in 1 .. n : calls'[k] = c[k]
    BY <1>3, <2>2, <2>3, <2>5
  <2>7. calls'[n + 1] = e[1]
    <3>1. n + 1 \in 1 .. Len(c) + Len(e) /\ ~(n + 1 <= Len(c)) /\ (n + 1) - Len(c) = 1
      BY <1>3, <2>2, <2>3
    <3> QED
      BY <2>5, <3>1
  <2> QED
    BY <1>3, <2>2, <2>3, <2>5, <2>6, <2>7
<1>0. \A k \in 1 .. n : calls'[k].virt = calls[k].virt /\ calls'[k].phys = calls[k].phys
  <2>1. calls[n] \in CallRecords
    BY <1>3
  <2>2. calls'[n].virt = calls[n].virt /\ calls'[n].phys = calls[n].phys
    BY <1>9, <2>1 DEF CallRecords
  <2>3. \A k \in 1 .. n : k = n \/ k \in 1 .. n - 1
    BY <1>3
  <2> QED
    BY <1>9, <2>2, <2>3
<1>10. PagingTypeOK'
  BY <1>1, <1>2, <1>4, <1>9 DEF PagingTypeOK
<1>11. Tree'
  <2>1. AllTables' \subseteq marked' \ used'.kernel
    BY <1>1, <1>2, <1>8 DEF Tree
  <2>2. ASSUME NEW v \in Virtual, NEW w \in Virtual, NEW l \in 1 .. LEVELS - 1, NEW k \in 1 .. LEVELS - 1,
               V(v)[l] = V(w)[k], V(v)[l] # NotPresent
        PROVE  l = k /\ SamePath(v, w, l)
    <3>1. l \in 0 .. LEVELS /\ k \in 0 .. LEVELS
      BY <1>3
    <3>2. /\ W(v)[l] # NotPresent => W(v)[l] \in AllTables
          /\ W(w)[k] # NotPresent => W(w)[k] \in AllTables
      BY TableOf
    <3>3. p \notin AllTables
      BY <1>1 DEF Tree
    <3>4. CASE V(v)[l] = p
      <4>1. /\ l = L /\ SamePath(v, x, L)
            /\ k = L /\ SamePath(w, x, L)
        BY <1>1, <1>4, <2>2, <3>1, <3>2, <3>3, <3>4
      <4> QED
        BY <4>1 DEF SamePath
    <3>5. CASE V(v)[l] # p
      <4>1. V(v)[l] = W(v)[l] /\ V(w)[k] = W(w)[k]
        BY <1>4, <2>2, <3>1, <3>5
      <4> QED
        BY <2>2, <4>1 DEF Tree
    <3> QED
      BY <3>4, <3>5
  <2>3. ASSUME NEW v \in Virtual, find_physaddr(v) # NotPresent
        PROVE  /\ find_physaddr(v) \in Given \cup marked'
               /\ find_physaddr(v) \in AllTables' => find_physaddr(v) = v
    <3>1. find_physaddr(v) \in Given \cup marked
      BY <2>3 DEF Tree
    <3>2. find_physaddr(v) # p
      BY <1>1, <3>1 DEF Given
    <3> QED
      BY <1>2, <1>8, <2>3, <3>1, <3>2 DEF Tree
  <2>4. Given' = Given
    BY <1>2 DEF Given
  <2> QED
    BY <1>7, <2>1, <2>2, <2>3, <2>4 DEF Tree
<1>12. Nested'
  <2>1. ASSUME NEW c \in CallRecords, OnItsWay(c)
        PROVE  /\ OnItsWay(c)'
               /\ \A d : d = [c EXCEPT !.made = TRUE] /\ c.virt = x /\ c.level = L => OnItsWay(d)'
    <3>1. /\ c.virt \in Virtual /\ c.level \in 0 .. LEVELS /\ c.level - 1 \in 0 .. LEVELS
      BY <1>3 DEF CallRecords
    <3>2. /\ c.table = V(c.virt)[c.level - 1] /\ c.table # NotPresent
          /\ c.made => c.level < LEVELS /\ V(c.virt)[c.level] # NotPresent
      BY <1>6, <2>1, <3>1 DEF OnItsWay
    <3>3. c.phys \in Given \cup marked' /\ (c.phys \in AllTables' => c.phys = c.virt)
      <4>1. p \notin Given \cup marked
        BY <1>1 DEF Given
      <4>2. c.phys \in Given \cup marked /\ (c.phys \in AllTables => c.phys = c.virt)
        BY <2>1 DEF OnItsWay
      <4> QED
        BY <1>2, <1>8, <4>1, <4>2
    <3>0. Given' = Given
      BY <1>2 DEF Given
    <3>4. V(x)[L] # NotPresent
      <4>1. L \in 0 .. LEVELS
        BY <1>3
      <4> QED
        BY <1>1, <1>3, <1>4, <1>5, <4>1
    <3>5. OnItsWay(c)'
      BY <3>0, <3>2, <3>3 DEF OnItsWay
    <3>6. ASSUME NEW d, d = [c EXCEPT !.made = TRUE], c.virt = x, c.level = L
          PROVE  OnItsWay(d)'
      <4>1. d.virt = c.virt /\ d.level = c.level /\ d.table = c.table /\ d.phys = c.phys
        BY <3>6 DEF CallRecords
      <4> QED
        BY <1>2, <3>0, <3>2, <3>3, <3>4, <3>6, <4>1 DEF OnItsWay
    <3> QED
      BY <3>5, <3>6
  <2>2. ASSUME NEW d, d = Call(p, p) PROVE OnItsWay(d)' /\ d.virt = d.phys /\ d.virt \in Pool
    <3>1. /\ d.virt = p /\ d.phys = p /\ d.level = 1 /\ d.level - 1 = 0 /\ d.table = pml4 /\ d.made = FALSE
      BY <2>2 DEF Call
    <3>2. V(p)[0] = pml4 /\ pml4 # NotPresent
      BY WalkDefined DEF pml4, NotPresent
    <3> QED
      BY <1>1, <1>2, <3>1, <3>2 DEF OnItsWay
  <2>3. ASSUME NEW k \in 1 .. n + 1, NEW d, d = calls'[k]
        PROVE  /\ OnItsWay(d)'
               /\ k = 1 => d.virt \notin Pool
               /\ k > 1 => d.virt = d.phys /\ d.virt \in Pool
    <3>1. CASE k = n + 1
      BY <1>3, <1>9, <2>2, <2>3, <3>1
    <3>2. CASE k \in 1 .. n
      <4>1. /\ calls[k] \in CallRecords /\ OnItsWay(calls[k])
            /\ k = 1 => calls[k].virt \notin Pool
            /\ k > 1 => calls[k].virt = calls[k].phys /\ calls[k].virt \in Pool
        BY <1>3, <3>2 DEF Nested
      <4>2. CASE k = n
        <5>1. d = [calls[k] EXCEPT !.made = TRUE] /\ calls[k].virt = x /\ calls[k].level = L
          BY <1>3, <1>9, <2>3, <4>2 DEF x, L
        <5>2. d.virt = calls[k].virt /\ d.phys = calls[k].phys
          BY <4>1, <5>1 DEF CallRecords
        <5>3. OnItsWay(d)'
          BY <2>1, <4>1, <5>1
        <5> QED
          BY <4>1, <5>2, <5>3
      <4>3. CASE k # n
        <5>1. d = calls[k]
          BY <1>3, <1>9, <2>3, <3>2, <4>3
        <5>2. \A c \in CallRecords : OnItsWay(c) => OnItsWay(c)'
          BY <2>1
        <5> QED
          BY <4>1, <5>1, <5>2
      <4> QED
        BY <4>2, <4>3
    <3> QED
      BY <1>3, <3>1, <3>2
  <2> QED
    BY <1>1, <1>2, <1>9, <2>3 DEF Nested, OnItsWay
<1>13. SelfMaps'
  <2>1. ASSUME NEW t \in AllTables'
        PROVE  \/ find_physaddr(t)' = t
               \/ \E k \in DOMAIN calls' : k > 1 /\ calls'[k].virt = t
    <3>1. CASE t = p
      <4>1. n + 1 \in DOMAIN calls' /\ n + 1 > 1 /\ calls'[n + 1].virt = p
        BY <1>3, <1>9 DEF Call
      <4> QED
        BY <3>1, <4>1
    <3>2. CASE t \in AllTables
      <4>1. t \in Virtual
        BY <3>2, Constants DEF Tree, PagingTypeOK
      <4>2. CASE find_physaddr(t) = t
        BY <1>7, <4>1, <4>2
      <4>3. CASE \E k \in DOMAIN calls : k > 1 /\ calls[k].virt = t
        <5>1. PICK k \in 1 .. n : k > 1 /\ calls[k].virt = t
          BY <1>3, <4>3
        <5>2. calls'[k].virt = calls[k].virt /\ k \in 1 .. n + 1
          BY <1>3, <1>0, <5>1
        <5> QED
          BY <1>9, <5>1, <5>2
      <4> QED
        BY <3>2, <4>2, <4>3 DEF SelfMaps
    <3> QED
      BY <1>8, <3>1, <3>2
  <2>2. AllTables' \subseteq BootMapped
    BY <1>1, <1>8 DEF SelfMaps
  <2> QED
    BY <1>1, <1>2, <2>1, <2>2 DEF SelfMaps
<1>14. Kept'
  <2>1. calls' # <<>> /\ calls'[1].virt = calls[1].virt
    BY <1>0, <1>3, <1>9
  <2>2. \A m \in done : find_physaddr(m[1])' = m[2]
    BY <1>7 DEF Kept
  <2> QED
    BY <1>2, <2>1, <2>2 DEF Kept
<1> QED
  BY <1>10, <1>11, <1>12, <1>13, <1>14

(* A step that writes no table.                                            *)
LEMMA NothingWritten ==
  ASSUME Tree, tables' = tables, used' = used, marked \subseteq marked'
  PROVE  /\ AllTables' = AllTables
         /\ \A v : find_physaddr(v)' = find_physaddr(v)
         /\ Tree'
         /\ \A c : OnItsWay(c) => OnItsWay(c)'
<1>1. AllTables' = AllTables
  BY DEF AllTables, TablesAt
<1>2. \A v : find_physaddr(v)' = find_physaddr(v)
  BY DEF find_physaddr
<1>3. ASSUME NEW v \in Virtual, find_physaddr(v) # NotPresent
      PROVE  /\ find_physaddr(v) \in Given \cup marked'
             /\ find_physaddr(v) \in AllTables => find_physaddr(v) = v
  BY <1>3 DEF Tree
<1>4. AllTables \subseteq marked' \ used.kernel /\ Given' = Given
  BY DEF Tree, Given
<1>5. Tree'
  BY <1>1, <1>2, <1>3, <1>4 DEF Tree
<1>6. ASSUME NEW c, OnItsWay(c) PROVE OnItsWay(c)'
  BY <1>1, <1>4, <1>6 DEF OnItsWay
<1> QED
  BY <1>1, <1>2, <1>5, <1>6

LEMMA DescendKeeps ==
  ASSUME PagingTypeOK, Tree, Nested, SelfMaps, Kept, Descend
  PROVE  PagingTypeOK' /\ Tree' /\ Nested' /\ SelfMaps' /\ Kept'
<1> DEFINE n == Len(calls)
           c == calls[n]
           d == [phys |-> c.phys, virt |-> c.virt, level |-> c.level + 1,
                 table |-> Walk(tables, c.virt)[c.level], made |-> FALSE]
<1>1. /\ calls # <<>> /\ Top.level < LEVELS
      /\ Top.made \/ TopEntry # NotPresent
      /\ calls' = [calls EXCEPT ![n] =
                     [phys |-> Top.phys, virt |-> Top.virt, level |-> Top.level + 1,
                      table |-> IF TopEntry = NotPresent THEN 0 ELSE TopEntry, made |-> FALSE]]
      /\ UNCHANGED <<tables, marked, todo, cr3, used, done>>
  BY DEF Descend, Running
<1>2. /\ n \in Nat /\ n >= 1 /\ DOMAIN calls = 1 .. n /\ calls \in Seq(CallRecords)
      /\ Top = c /\ c \in CallRecords /\ OnItsWay(c)
      /\ TopEntry = Walk(tables, c.virt)[c.level]
  BY <1>1, TopKnown DEF PagingTypeOK
<1>3. TopEntry # NotPresent
  BY <1>1, <1>2 DEF OnItsWay
<1>4. /\ AllTables' = AllTables
      /\ \A v : find_physaddr(v)' = find_physaddr(v)
      /\ Tree'
      /\ \A e : OnItsWay(e) => OnItsWay(e)'
  BY <1>1, NothingWritten
<1>5. LEVELS \in Nat /\ c.level \in 1 .. LEVELS /\ c.level < LEVELS /\ c.level + 1 \in 1 .. LEVELS
      /\ (c.level + 1) - 1 = c.level /\ c.level \in 0 .. LEVELS - 1
  <2>1. c.level \in 1 .. LEVELS
    BY <1>2 DEF CallRecords
  <2>2. c.level < LEVELS
    BY <1>1, <1>2
  <2>3. LEVELS \in Nat
    BY Constants
  <2> HIDE DEF c
  <2> QED
    BY <2>1, <2>2, <2>3
<1>6. c.virt \in Virtual /\ c.phys \in Nat
  BY <1>2 DEF CallRecords
<1>7. Walk(tables, c.virt)[c.level] \in Int
  <2>1. Walk(tables, c.virt)[c.level] # NotPresent
    BY <1>2, <1>3
  <2> HIDE DEF c
  <2>2. Walk(tables, c.virt)[c.level] = pml4 \/ Walk(tables, c.virt)[c.level] \in marked
    BY <1>5, <1>6, <2>1, OnTheWay
  <2>3. marked \subseteq Int /\ pml4 \in Int
    BY Constants DEF PagingTypeOK, pml4
  <2> QED
    BY <2>2, <2>3
<1>8. d \in CallRecords
  BY <1>5, <1>6, <1>7 DEF CallRecords
<1>9. calls' = [calls EXCEPT ![n] = d]
  BY <1>1, <1>2, <1>3
<1>10. \A e : e = d => OnItsWay(e)' /\ e.virt = c.virt /\ e.phys = c.phys
  <2> SUFFICES ASSUME NEW e, e = d PROVE OnItsWay(e)' /\ e.virt = c.virt /\ e.phys = c.phys
    OBVIOUS
  <2>1. /\ e.virt = c.virt /\ e.phys = c.phys /\ e.level = c.level + 1 /\ e.made = FALSE
        /\ e.table = Walk(tables, c.virt)[c.level]
    OBVIOUS
  <2>2. c.phys \in Given \cup marked /\ (c.phys \in AllTables => c.phys = c.virt)
    BY <1>2 DEF OnItsWay
  <2>3. OnItsWay(e)
    BY <1>2, <1>3, <1>5, <2>1, <2>2 DEF OnItsWay
  <2> QED
    BY <1>4, <2>1, <2>3
<1> HIDE DEF c, d
<1>11. /\ calls' \in Seq(CallRecords) /\ Len(calls') = n /\ DOMAIN calls' = 1 .. n
       /\ calls'[n] = d /\ \A k \in 1 .. n : k # n => calls'[k] = calls[k]
  <2>1. n \in 1 .. Len(calls) /\ calls \in Seq(CallRecords) /\ d \in CallRecords
    BY <1>2, <1>8 DEF n
  <2>2. /\ [calls EXCEPT ![n] = d] \in Seq(CallRecords)
        /\ Len([calls EXCEPT ![n] = d]) = Len(calls)
        /\ \A k \in 1 .. Len(calls) : [calls EXCEPT ![n] = d][k] = IF k = n THEN d ELSE calls[k]
    BY <2>1, ExceptSeq
  <2>3. Len(calls) = n
    BY DEF n
  <2> HIDE DEF n
  <2>4. /\ calls' \in Seq(CallRecords) /\ Len(calls') = n
        /\ \A k \in 1 .. n : calls'[k] = IF k = n THEN d ELSE calls[k]
    BY <1>9, <2>2, <2>3
  <2>5. DOMAIN calls' = 1 .. n /\ n \in 1 .. n
    BY <2>1, <2>3, <2>4
  <2> QED
    BY <2>4, <2>5
<1>12. \A k \in 1 .. n : calls'[k].virt = calls[k].virt /\ calls'[k].phys = calls[k].phys
  BY <1>2, <1>10, <1>11 DEF c
<1> HIDE DEF n
<1>13. PagingTypeOK'
  BY <1>1, <1>11 DEF PagingTypeOK
<1>14. Nested'
  <2>1. ASSUME NEW k \in 1 .. n, NEW e, e = calls'[k]
        PROVE  /\ OnItsWay(e)'
               /\ k = 1 => e.virt \notin Pool
               /\ k > 1 => e.virt = e.phys /\ e.virt \in Pool
    <3>1. /\ OnItsWay(calls[k])
          /\ k = 1 => calls[k].virt \notin Pool
          /\ k > 1 => calls[k].virt = calls[k].phys /\ calls[k].virt \in Pool
      BY <1>2 DEF Nested
    <3>2. OnItsWay(e)'
      BY <1>4, <1>10, <1>11, <2>1, <3>1
    <3> QED
      BY <1>12, <2>1, <3>1, <3>2
  <2> QED
    BY <1>1, <1>11, <2>1 DEF Nested, OnItsWay
<1>15. SelfMaps'
  BY <1>1, <1>2, <1>4, <1>11, <1>12 DEF SelfMaps
<1>16. Kept'
  <2>1. 1 \in 1 .. n /\ calls' # <<>>
    BY <1>2, <1>11
  <2>2. calls'[1].virt = calls[1].virt
    BY <1>12, <2>1
  <2> QED
    BY <1>1, <1>4, <2>1, <2>2 DEF Kept
<1> QED
  BY <1>4, <1>13, <1>14, <1>15, <1>16

LEMMA PageFaultKeeps ==
  ASSUME PagingTypeOK, Tree, Nested, SelfMaps, Kept, PageFault
  PROVE  PagingTypeOK' /\ Tree' /\ Nested' /\ SelfMaps' /\ Kept'
<1>1. marked \subseteq marked' /\ marked' \subseteq Pool
      /\ UNCHANGED <<tables, calls, todo, cr3, used, done>>
  BY DEF PageFault, PagingTypeOK
<1>2. /\ AllTables' = AllTables
      /\ \A v : find_physaddr(v)' = find_physaddr(v)
      /\ Tree'
      /\ \A c : OnItsWay(c) => OnItsWay(c)'
  BY <1>1, NothingWritten
<1>3. PagingTypeOK'
  BY <1>1 DEF PagingTypeOK
<1>4. Nested'
  <2>1. ASSUME NEW k \in DOMAIN calls, NEW e, e = calls[k]
        PROVE  /\ OnItsWay(e)'
               /\ k = 1 => e.virt \notin Pool
               /\ k > 1 => e.virt = e.phys /\ e.virt \in Pool
    BY <1>2, <2>1 DEF Nested
  <2> QED
    BY <1>1, <2>1 DEF Nested, OnItsWay
<1>5. SelfMaps'
  BY <1>1, <1>2 DEF SelfMaps
<1>6. Kept'
  BY <1>1, <1>2 DEF Kept
<1> QED
  BY <1>2, <1>3, <1>4, <1>5, <1>6

LEMMA SetEntryKeeps ==
  ASSUME PagingTypeOK, Tree, Nested, SelfMaps, Kept, SetEntry
  PROVE  PagingTypeOK' /\ Tree' /\ Nested' /\ SelfMaps' /\ Kept'
<1> DEFINE n == Len(calls)
           x == Top.virt
           y == Top.phys
<1>1. /\ calls # <<>> /\ calls' = Front(calls)
      /\ done' = IF Front(calls) = <<>> THEN done \cup {<<x, y>>} ELSE done
      /\ UNCHANGED <<marked, todo, cr3, used>> /\ Given' = Given
  BY DEF SetEntry, Running, Return, Given
<1>2. /\ n \in Nat /\ n >= 1 /\ DOMAIN calls = 1 .. n /\ calls \in Seq(CallRecords)
      /\ Top = calls[n] /\ Top \in CallRecords /\ OnItsWay(Top)
      /\ \A k \in 1 .. n : calls[k] \in CallRecords
  BY <1>1, TopKnown DEF PagingTypeOK
<1>3. /\ x \in Virtual /\ y \in Nat /\ x = calls[n].virt /\ y = calls[n].phys
      /\ y \in Given \cup marked
      /\ y \in AllTables => y = x
  BY <1>2 DEF CallRecords, OnItsWay
<1>4. /\ tables' \in [TablePages \cup {pml4} -> Entries]
      /\ \A v \in Virtual, l \in 0 .. LEVELS :
           Walk(tables', v)[l] = IF l = LEVELS /\ v = x THEN y ELSE Walk(tables, v)[l]
  BY SetEntryWalks
<1>5. /\ n = 1 => x \notin Pool
      /\ n > 1 => x = y /\ x \in Pool
  <2>1. n \in DOMAIN calls
    BY <1>2
  <2> QED
    BY <1>3, <2>1 DEF Nested
<1>6. /\ calls' \in Seq(CallRecords) /\ Len(calls') = n - 1 /\ DOMAIN calls' = 1 .. n - 1
      /\ \A k \in 1 .. n - 1 : calls'[k] = calls[k]
      /\ calls' = <<>> <=> n = 1
  <2>1. /\ calls' = SubSeq(calls, 1, n - 1) /\ 1 \in 1 .. n + 1 /\ n - 1 \in 0 .. n
        /\ Len(calls) = n /\ calls \in Seq(CallRecords)
    BY <1>1, <1>2 DEF Front
  <2> HIDE DEF n
  <2>2. /\ calls' \in Seq(CallRecords) /\ Len(calls') = n - 1
        /\ \A k \in 1 .. n - 1 : calls'[k] = calls[k]
    BY <1>2, <2>1, SubSeqProperties
  <2>3. DOMAIN calls' = 1 .. n - 1
    BY <2>2
  <2>4. calls' = <<>> <=> n = 1
    BY <1>2, <2>2
  <2> QED
    BY <2>2, <2>3, <2>4
<1> HIDE DEF n, x, y
<1>7. LEVELS \in Nat /\ LEVELS >= 1 /\ \A l \in 1 .. LEVELS - 1 : l \in 0 .. LEVELS /\ l # LEVELS
  BY Constants
<1>8. \A v \in Virtual, l \in 0 .. LEVELS - 1 : Walk(tables', v)[l] = Walk(tables, v)[l]
  <2>1. \A l \in 0 .. LEVELS - 1 : l \in 0 .. LEVELS /\ l # LEVELS
    BY <1>7
  <2> QED
    BY <1>4, <2>1
<1>9. AllTables' = AllTables
  <2>1. \A l \in 1 .. LEVELS - 1 : l \in 0 .. LEVELS - 1
    BY <1>7
  <2>2. \A u : u \in AllTables' <=> u \in AllTables
    BY <1>8, <2>1, TableOf
  <2> QED
    BY <2>2
<1>10. \A v \in Virtual : find_physaddr(v)' = IF v = x THEN y ELSE find_physaddr(v)
  <2>1. LEVELS \in 0 .. LEVELS
    BY <1>7
  <2> QED
    BY <1>4, <2>1 DEF find_physaddr
<1>11. PagingTypeOK'
  BY <1>1, <1>4, <1>6 DEF PagingTypeOK
<1>12. Tree'
  <2>1. AllTables' \subseteq marked' \ used'.kernel
    BY <1>1, <1>9 DEF Tree
  <2>2. ASSUME NEW v \in Virtual, NEW w \in Virtual, NEW l \in 1 .. LEVELS - 1, NEW k \in 1 .. LEVELS - 1,
               Walk(tables', v)[l] = Walk(tables', w)[k], Walk(tables', v)[l] # NotPresent
        PROVE  l = k /\ SamePath(v, w, l)
    <3>1. l \in 0 .. LEVELS - 1 /\ k \in 0 .. LEVELS - 1
      BY <1>7
    <3>2. Walk(tables, v)[l] = Walk(tables, w)[k] /\ Walk(tables, v)[l] # NotPresent
      BY <1>8, <2>2, <3>1
    <3> QED
      BY <3>2 DEF Tree
  <2>3. ASSUME NEW v \in Virtual, NEW f, f = find_physaddr(v)', f # NotPresent
        PROVE  f \in Given \cup marked' /\ (f \in AllTables' => f = v)
    <3>1. CASE v = x
      <4>1. f = y
        BY <1>10, <2>3, <3>1
      <4> QED
        BY <1>1, <1>3, <1>9, <3>1, <4>1
    <3>2. CASE v # x
      <4>1. f = find_physaddr(v)
        BY <1>10, <2>3, <3>2
      <4> QED
        BY <1>1, <1>9, <2>3, <4>1 DEF Tree
    <3> QED
      BY <3>1, <3>2
  <2> QED
    BY <1>1, <2>1, <2>2, <2>3 DEF Tree
<1>13. Nested'
  <2>1. ASSUME NEW c \in CallRecords, OnItsWay(c) PROVE OnItsWay(c)'
    <3>1. /\ c.virt \in Virtual /\ c.level \in 1 .. LEVELS /\ c.level - 1 \in 0 .. LEVELS - 1
          /\ c.level < LEVELS => c.level \in 0 .. LEVELS - 1
      BY <1>7 DEF CallRecords
    <3> QED
      BY <1>1, <1>8, <1>9, <2>1, <3>1 DEF OnItsWay
  <2>2. ASSUME NEW k \in 1 .. n - 1, NEW e, e = calls'[k]
        PROVE  /\ OnItsWay(e)'
               /\ k = 1 => e.virt \notin Pool
               /\ k > 1 => e.virt = e.phys /\ e.virt \in Pool
    <3>1. k \in 1 .. n /\ e = calls[k] /\ e \in CallRecords
      BY <1>2, <1>6, <2>2
    <3>2. /\ OnItsWay(e)
          /\ k = 1 => e.virt \notin Pool
          /\ k > 1 => e.virt = e.phys /\ e.virt \in Pool
      BY <1>2, <3>1 DEF Nested
    <3> QED
      BY <2>1, <3>1, <3>2
  <2> QED
    BY <1>1, <1>6, <2>2 DEF Nested, OnItsWay
<1>14. SelfMaps'
  <2>1. ASSUME NEW t \in AllTables
        PROVE  \/ find_physaddr(t)' = t
               \/ cr3 = "boot" /\ \E k \in 1 .. n - 1 : k > 1 /\ calls'[k].virt = t
    <3>1. t \in Pool /\ t \in Virtual
      BY Constants DEF Tree, PagingTypeOK
    <3>2. CASE t = x
      <4>1. n > 1
        BY <1>2, <1>5, <3>1, <3>2
      <4> QED
        BY <1>5, <1>10, <3>1, <3>2, <4>1
    <3>3. CASE t # x
      <4>1. CASE find_physaddr(t) = t
        BY <1>10, <3>1, <3>3, <4>1
      <4>2. CASE cr3 = "boot" /\ \E k \in DOMAIN calls : k > 1 /\ calls[k].virt = t
        <5>1. PICK k \in 1 .. n : k > 1 /\ calls[k].virt = t
          BY <1>2, <4>2
        <5>2. k # n /\ k \in 1 .. n - 1
          BY <1>2, <1>3, <3>3, <5>1
        <5> QED
          BY <1>6, <4>2, <5>1, <5>2
      <4> QED
        BY <4>1, <4>2 DEF SelfMaps
    <3> QED
      BY <3>2, <3>3
  <2> QED
    BY <1>1, <1>6, <1>9, <2>1 DEF SelfMaps
<1>15. Kept'
  <2>1. ASSUME NEW m \in done
        PROVE  m[1] # x
    BY <1>1, <1>2, <1>3, <1>5 DEF Kept
  <2>2. \A m \in done : /\ m[1] \in Virtual \ Pool
                        /\ find_physaddr(m[1])' = m[2] /\ m[2] # NotPresent
    BY <1>10, <2>1 DEF Kept
  <2>3. CASE n = 1
    <3>1. calls' = <<>> /\ done' = done \cup {<<x, y>>} /\ x = calls[1].virt
      BY <1>1, <1>3, <1>6, <2>3
    <3>2. x \in Virtual \ Pool /\ (\A v : v = x => find_physaddr(v)' = y) /\ y # NotPresent
      BY <1>3, <1>5, <1>10, <2>3 DEF NotPresent
    <3>3. \A i \in DOMAIN todo : todo[i].virt # x
      BY <1>1, <3>1 DEF Kept
    <3>4. \A m \in done' : /\ m[1] \in Virtual \ Pool
                           /\ find_physaddr(m[1])' = m[2] /\ m[2] # NotPresent
                           /\ \A i \in DOMAIN todo : todo[i].virt # m[1]
      <4>1. ASSUME NEW m \in done
            PROVE  \A i \in DOMAIN todo : todo[i].virt # m[1]
        BY DEF Kept
      <4>2. ASSUME NEW m, m = <<x, y>> PROVE m[1] = x /\ m[2] = y
        BY <4>2
      <4>3. \A m \in done' : m \in done \/ m = <<x, y>>
        BY <3>1
      <4>4. ASSUME NEW m, m = <<x, y>>
            PROVE  /\ m[1] \in Virtual \ Pool
                   /\ find_physaddr(m[1])' = m[2] /\ m[2] # NotPresent
                   /\ \A i \in DOMAIN todo : todo[i].virt # m[1]
        BY <3>2, <3>3, <4>2, <4>4
      <4> QED
        BY <2>2, <4>1, <4>3, <4>4
    <3>5. \A i, j \in DOMAIN todo : todo[i].virt = todo[j].virt => i = j
      BY DEF Kept
    <3> QED
      BY <1>1, <3>1, <3>4, <3>5 DEF Kept
  <2>4. CASE n # 1
    <3>1. calls' # <<>> /\ done' = done /\ calls'[1] = calls[1]
      BY <1>1, <1>2, <1>6, <2>4
    <3> QED
      BY <1>1, <2>2, <3>1 DEF Kept
  <2> QED
    BY <2>3, <2>4
<1> QED
  BY <1>11, <1>12, <1>13, <1>14, <1>15

(* A first call stands at pml4.                                            *)
LEMMA FirstCall ==
  ASSUME NEW c, c.table = pml4, c.level = 1, c.made = FALSE,
         c.phys \in Given \cup marked, c.phys \notin AllTables
  PROVE  OnItsWay(c)
<1>1. Walk(tables, c.virt)[0] = pml4 /\ pml4 # NotPresent /\ c.level - 1 = 0
  BY WalkDefined DEF pml4, NotPresent
<1> QED
  BY <1>1 DEF OnItsWay

LEMMA InitPagingMapsKeeps ==
  ASSUME PagingTypeOK, Tree, Nested, SelfMaps, Kept, InitPagingMaps
  PROVE  PagingTypeOK' /\ Tree' /\ Nested' /\ SelfMaps' /\ Kept'
<1> DEFINE c == Head(todo)
<1>1. /\ calls = <<>> /\ todo # <<>> /\ calls' = <<c>> /\ todo' = Tail(todo)
      /\ UNCHANGED <<tables, marked, cr3, used, done>>
  BY DEF InitPagingMaps
<1>2. todo \in Seq(FirstCalls) /\ marked \subseteq Pool /\ cr3 = "boot"
  BY <1>1 DEF PagingTypeOK, Nested
<1>3. /\ Len(todo) \in Nat /\ Len(todo) >= 1 /\ DOMAIN todo = 1 .. Len(todo) /\ c = todo[1]
      /\ c \in FirstCalls
      /\ todo' \in Seq(FirstCalls) /\ DOMAIN todo' = 1 .. Len(todo) - 1
      /\ \A i \in 1 .. Len(todo) - 1 : todo'[i] = todo[i + 1]
  <2>1. Len(todo) \in Nat /\ Len(todo) >= 1 /\ DOMAIN todo = 1 .. Len(todo) /\ c = todo[1]
    BY <1>1, <1>2
  <2>2. /\ c \in FirstCalls /\ todo' \in Seq(FirstCalls) /\ Len(todo') = Len(todo) - 1
        /\ \A i \in 1 .. Len(todo') : todo'[i] = todo[i + 1]
    BY <1>1, <1>2, HeadTailProperties
  <2>3. DOMAIN todo' = 1 .. Len(todo')
    BY <2>2
  <2> QED
    BY <2>1, <2>2, <2>3
<1> HIDE DEF c
<1>4. /\ c.phys \in Nat /\ c.phys \in used.kernel /\ c.virt \in Virtual /\ c.virt \notin Pool
      /\ c.level = 1 /\ c.table = pml4 /\ c.made = FALSE
      /\ c \in CallRecords
  <2>0. c.phys \in used.kernel
    <3>1. 1 \in DOMAIN todo /\ c = todo[1]
      BY <1>3
    <3> QED
      BY <3>1 DEF PagingTypeOK
  <2>1. /\ c.phys \in Nat /\ c.phys \in used.kernel /\ c.virt \in Virtual /\ c.virt \notin Pool
        /\ c.level = 1 /\ c.table = pml4 /\ c.made = FALSE
    BY <1>3, <2>0 DEF FirstCalls
  <2>2. 1 \in 1 .. LEVELS /\ pml4 \in Int
    BY Constants DEF pml4
  <2>3. c = [phys |-> c.phys, virt |-> c.virt, level |-> c.level, table |-> c.table, made |-> c.made]
    BY <1>3 DEF FirstCalls
  <2> QED
    BY <2>1, <2>2, <2>3 DEF CallRecords
<1>5. /\ AllTables' = AllTables
      /\ \A v : find_physaddr(v)' = find_physaddr(v)
      /\ Tree'
      /\ \A d : OnItsWay(d) => OnItsWay(d)'
  BY <1>1, NothingWritten
<1>6. OnItsWay(c)
  <2>1. c.phys \notin AllTables
    BY <1>2, <1>4 DEF Tree
  <2> QED
    BY <1>4, <2>1, FirstCall DEF Given
<1>7. calls' \in Seq(CallRecords) /\ Len(calls') = 1 /\ DOMAIN calls' = 1 .. 1 /\ calls'[1] = c
  BY <1>1, <1>4
<1>8. PagingTypeOK'
  BY <1>1, <1>3, <1>7 DEF PagingTypeOK
<1>9. Nested'
  <2>1. ASSUME NEW k \in 1 .. 1, NEW e, e = calls'[k]
        PROVE  /\ OnItsWay(e)'
               /\ k = 1 => e.virt \notin Pool
               /\ k > 1 => e.virt = e.phys /\ e.virt \in Pool
    <3>1. e = c /\ k = 1 /\ ~(k > 1)
      BY <1>7, <2>1
    <3> QED
      BY <1>4, <1>5, <1>6, <3>1
  <2> QED
    BY <1>1, <1>2, <1>7, <2>1 DEF Nested, OnItsWay
<1>10. SelfMaps'
  BY <1>1, <1>2, <1>5 DEF SelfMaps
<1>11. Kept'
  <2>1. \A i \in DOMAIN todo' : i + 1 \in DOMAIN todo /\ todo'[i] = todo[i + 1] /\ i + 1 # 1
    BY <1>3
  <2>2. 1 \in DOMAIN todo /\ c = todo[1]
    BY <1>3
  <2>3. \A m \in done : c.virt # m[1]
    BY <2>2 DEF Kept
  <2>4. \A m \in done, i \in DOMAIN todo' : todo'[i].virt # m[1]
    BY <2>1 DEF Kept
  <2>5. \A i \in DOMAIN todo' : c.virt # todo'[i].virt
    BY <2>1, <2>2 DEF Kept
  <2>6. \A i, j \in DOMAIN todo' : todo'[i].virt = todo'[j].virt => i = j
    <3>1. ASSUME NEW i \in DOMAIN todo', NEW j \in DOMAIN todo', todo'[i].virt = todo'[j].virt
          PROVE  i = j
      <4>1. i + 1 = j + 1
        BY <2>1, <3>1 DEF Kept
      <4>2. i \in Int /\ j \in Int
        BY <1>3
      <4> QED
        BY <4>1, <4>2
    <3> QED
      BY <3>1
  <2> QED
    BY <1>1, <1>5, <1>7, <2>3, <2>4, <2>5, <2>6 DEF Kept
<1> QED
  BY <1>5, <1>8, <1>9, <1>10, <1>11

LEMMA LoadPml4Keeps ==
  ASSUME PagingTypeOK, Tree, Nested, SelfMaps, Kept, LoadPml4
  PROVE  PagingTypeOK' /\ Tree' /\ Nested' /\ SelfMaps' /\ Kept'
<1>1. /\ calls = <<>> /\ todo = <<>> /\ cr3' = "pml4"
      /\ UNCHANGED <<tables, marked, calls, todo, used, done>>
  BY DEF LoadPml4
<1>2. /\ AllTables' = AllTables
      /\ \A v : find_physaddr(v)' = find_physaddr(v)
      /\ Tree'
  BY <1>1, NothingWritten
<1>3. PagingTypeOK'
  BY <1>1 DEF PagingTypeOK
<1>4. DOMAIN calls = {} /\ DOMAIN calls' = {}
  BY <1>1
<1>5. Nested'
  BY <1>1, <1>4 DEF Nested
<1>6. SelfMaps'
  BY <1>1, <1>2, <1>4 DEF SelfMaps
<1>7. Kept'
  BY <1>1, <1>2 DEF Kept
<1> QED
  BY <1>2, <1>3, <1>5, <1>6, <1>7

LEMMA MapHeapPageKeeps ==
  ASSUME PoolLasts, PagingTypeOK, Tree, Nested, SelfMaps, Kept,
         NEW virt \in HeapPages, MapHeapPage(virt)
  PROVE  \/ wiped'
         \/ PagingTypeOK' /\ Tree' /\ Nested' /\ SelfMaps' /\ Kept'
<1> SUFFICES ASSUME ~wiped' PROVE PagingTypeOK' /\ Tree' /\ Nested' /\ SelfMaps' /\ Kept'
  OBVIOUS
<1> DEFINE p == NextPage
           c == Call(p, virt)
<1>1. p \in Pool \ marked /\ p \in Nat
  BY NewPage, Constants
<1>2. /\ calls = <<>> /\ cr3 = "pml4" /\ find_physaddr(virt) = NotPresent
      /\ calls' = <<c>> /\ marked' = marked \cup {p}
      /\ UNCHANGED <<tables, todo, cr3, used, done>>
  <2>1. {p} \cap Pool = {p}
    BY <1>1
  <2> QED
    BY <2>1 DEF MapHeapPage
<1>3. virt \in Virtual /\ virt \notin Pool
  BY PagingAssumption
<1>4. /\ c.phys = p /\ c.virt = virt /\ c.level = 1 /\ c.table = pml4 /\ c.made = FALSE
      /\ c \in CallRecords
  <2>1. 1 \in 1 .. LEVELS /\ pml4 \in Int
    BY Constants DEF pml4
  <2> QED
    BY <1>1, <1>3, <2>1 DEF Call, CallRecords
<1> HIDE DEF p, c
<1>5. /\ AllTables' = AllTables
      /\ \A v : find_physaddr(v)' = find_physaddr(v)
      /\ Tree'
  BY <1>2, NothingWritten
<1>6. calls' \in Seq(CallRecords) /\ Len(calls') = 1 /\ DOMAIN calls' = 1 .. 1 /\ calls'[1] = c
  BY <1>2, <1>4
<1>7. PagingTypeOK'
  BY <1>1, <1>2, <1>6 DEF PagingTypeOK
<1>8. Nested'
  <2>1. ASSUME NEW e, e = c PROVE OnItsWay(e)'
    <3>1. e.phys \in marked' /\ e.phys \notin AllTables
      BY <1>1, <1>2, <1>4, <2>1 DEF Tree
    <3>2. Walk(tables', e.virt)[0] = pml4 /\ pml4 # NotPresent /\ e.level - 1 = 0
      BY <1>4, <2>1, WalkDefined DEF pml4, NotPresent
    <3> QED
      BY <1>4, <1>5, <2>1, <3>1, <3>2 DEF OnItsWay
  <2>2. ASSUME NEW k \in 1 .. 1, NEW e, e = calls'[k]
        PROVE  /\ OnItsWay(e)'
               /\ k = 1 => e.virt \notin Pool
               /\ k > 1 => e.virt = e.phys /\ e.virt \in Pool
    <3>1. e = c /\ k = 1 /\ ~(k > 1)
      BY <1>6, <2>2
    <3> QED
      BY <1>3, <1>4, <2>1, <3>1
  <2>3. todo' = <<>>
    BY <1>2 DEF Nested
  <2> QED
    BY <1>6, <2>2, <2>3 DEF Nested, OnItsWay
<1>9. SelfMaps'
  <2>1. cr3 # "boot" /\ cr3' # "boot"
    BY <1>2
  <2> QED
    BY <1>5, <2>1 DEF SelfMaps
<1>10. Kept'
  <2>1. \A m \in done : virt # m[1]
    BY <1>2 DEF Kept
  <2>2. DOMAIN todo = {} /\ todo' = todo
    BY <1>2 DEF Nested
  <2> QED
    BY <1>2, <1>4, <1>5, <1>6, <2>1, <2>2 DEF Kept
<1> QED
  BY <1>5, <1>7, <1>8, <1>9, <1>10

(* pml4 has no entries at first.                                           *)
LEMMA PagingStarts ==
  ASSUME PagingInit
  PROVE  PagingTypeOK /\ Tree /\ Nested /\ SelfMaps /\ Kept
<1>1. /\ tables = [t \in TablePages \cup {pml4} |->
                     IF t = pml4 THEN Empty ELSE [i \in Indices |-> Garbage]]
      /\ marked = {} /\ calls = <<>> /\ cr3 = "boot" /\ done = {}
  BY DEF PagingInit
<1>2. PICK boot \in BootMaps :
        /\ todo = [i \in DOMAIN boot.maps |-> Call(boot.maps[i][1], boot.maps[i][2])]
        /\ used = [kernel |-> {boot.maps[i][1] : i \in DOMAIN boot.maps}, boot |-> boot.tables]
  BY DEF PagingInit
<1> DEFINE maps == boot.maps
<1>3. /\ maps \in Seq(Nat \X (Virtual \ Pool))
      /\ \A i, j \in DOMAIN maps : maps[i][2] = maps[j][2] => i = j
  BY PagingAssumption
<1>4. ASSUME NEW i \in DOMAIN maps
      PROVE  /\ todo[i] \in FirstCalls /\ todo[i].virt = maps[i][2]
             /\ todo[i].phys \in used.kernel
  <2>1. maps[i][1] \in Nat /\ maps[i][2] \in Virtual \ Pool
    BY <1>3
  <2> QED
    BY <1>2, <2>1 DEF Call, FirstCalls
<1>5. todo \in Seq(FirstCalls) /\ DOMAIN todo = DOMAIN maps
  <2>1. Len(maps) \in Nat /\ DOMAIN maps = 1 .. Len(maps)
    BY <1>3
  <2>2. todo \in [1 .. Len(maps) -> FirstCalls]
    BY <1>2, <1>4, <2>1
  <2> QED
    BY <2>1, <2>2
<1>6. PagingTypeOK
  <2>1. Empty \in Entries /\ [i \in Indices |-> Garbage] \in Entries
    BY DEF Empty, Entries, Garbage, NotPresent
  <2>2. tables \in [TablePages \cup {pml4} -> Entries]
    BY <1>1, <2>1
  <2>3. \A i \in DOMAIN todo : todo[i].phys \in used.kernel
    BY <1>4, <1>5
  <2> QED
    BY <1>1, <1>5, <2>2, <2>3 DEF PagingTypeOK
<1>7. \A v \in Virtual, l \in 1 .. LEVELS : Walk(tables, v)[l] = NotPresent
  <2> SUFFICES ASSUME NEW v \in Virtual PROVE \A l \in 1 .. LEVELS : Walk(tables, v)[l] = NotPresent
    OBVIOUS
  <2>1. LEVELS \in Nat /\ 1 \in 1 .. LEVELS /\ 1 \in 0 .. LEVELS
    BY Constants
  <2>2. Index(v, 1) \in Indices
    BY <2>1, IndexKnown
  <2>3. tables[pml4][Index(v, 1)] = NotPresent
    BY <1>1, <2>2 DEF Empty
  <2>4. Walk(tables, v)[0] = pml4 /\ pml4 # NotPresent /\ 1 - 1 = 0
    BY WalkDefined DEF pml4, NotPresent
  <2>5. Walk(tables, v)[1] = NotPresent
    BY <2>1, <2>3, <2>4, WalkDefined
  <2>6. \A l \in 1 .. LEVELS : l \in 0 .. LEVELS /\ l >= 1
    BY <2>1
  <2> QED
    BY <2>1, <2>5, <2>6, NothingBelow
<1>8. AllTables = {}
  <2>1. \A l \in 1 .. LEVELS - 1 : l \in 1 .. LEVELS
    BY Constants
  <2> QED
    BY <1>7, <2>1, TableOf
<1>9. \A v \in Virtual : find_physaddr(v) = NotPresent
  BY <1>7, Constants DEF find_physaddr
<1>10. Tree
  <2>1. \A l \in 1 .. LEVELS - 1 : l \in 1 .. LEVELS
    BY Constants
  <2> QED
    BY <1>7, <1>8, <1>9, <2>1 DEF Tree
<1>11. DOMAIN calls = {}
  BY <1>1
<1>12. Nested
  BY <1>1, <1>11 DEF Nested
<1>13. SelfMaps
  BY <1>8 DEF SelfMaps
<1>14. Kept
  <2>1. \A i, j \in DOMAIN todo : todo[i].virt = todo[j].virt => i = j
    BY <1>3, <1>4, <1>5
  <2> QED
    BY <1>1, <2>1 DEF Kept
<1> QED
  BY <1>6, <1>10, <1>12, <1>13, <1>14

LEMMA PagingInvariant == PagingSpec => []PagingInv
<1>1. PagingInit => PagingInv
  BY PagingStarts DEF PagingInv
<1>2. PagingInv /\ [PagingNext]_pagingVars => PagingInv'
  <2> SUFFICES ASSUME PagingInv, [PagingNext]_pagingVars, PoolLasts'
               PROVE  PagingTypeOK' /\ Tree' /\ Nested' /\ SelfMaps' /\ Kept'
    BY DEF PagingInv
  <2>1. marked \subseteq marked' /\ (wiped => wiped')
    BY DEF PagingNext, MapPage, NewTable, Descend, SetEntry, PageFault, Wipe, InitPagingMaps, LoadPml4,
           MapHeapPage, TableMissing, Running, pagingVars
  <2>2. PoolLasts /\ PagingTypeOK /\ Tree /\ Nested /\ SelfMaps /\ Kept
    <3>1. PoolLasts
      BY <2>1 DEF PoolLasts
    <3> QED
      BY <3>1 DEF PagingInv
  <2>3. CASE NewTable
    BY <2>2, <2>3, NewTableKeeps
  <2>4. CASE Descend
    BY <2>2, <2>4, DescendKeeps
  <2>5. CASE SetEntry
    BY <2>2, <2>5, SetEntryKeeps
  <2>6. CASE PageFault
    BY <2>2, <2>6, PageFaultKeeps
  <2>7. CASE InitPagingMaps
    BY <2>2, <2>7, InitPagingMapsKeeps
  <2>8. CASE LoadPml4
    BY <2>2, <2>8, LoadPml4Keeps
  <2>9. CASE \E virt \in HeapPages : MapHeapPage(virt)
    BY <2>2, <2>9, MapHeapPageKeeps DEF PoolLasts
  <2>10. CASE UNCHANGED pagingVars
    <3>1. UNCHANGED <<tables, marked, calls, todo, cr3, used, done>> /\ Given' = Given
      BY <2>10 DEF pagingVars, Given
    <3>2. Tree' /\ AllTables' = AllTables /\ \A v : find_physaddr(v)' = find_physaddr(v)
      BY <2>2, <3>1, NothingWritten
    <3>3. PagingTypeOK'
      BY <2>2, <3>1 DEF PagingTypeOK
    <3>4. Nested' /\ SelfMaps' /\ Kept'
      BY <2>2, <3>1, <3>2 DEF Nested, OnItsWay, SelfMaps, Kept
    <3> QED
      BY <3>2, <3>3, <3>4
  <2>11. CASE Wipe
    BY <2>11 DEF Wipe, PoolLasts
  <2> QED
    BY <2>3, <2>4, <2>5, <2>6, <2>7, <2>8, <2>9, <2>10, <2>11 DEF PagingNext, MapPage
<1> QED
  BY <1>1, <1>2, PTL DEF PagingSpec

-----------------------------------------------------------------------------
(* While the pool lasts and no page in use has been cleared, map_page and  *)
(* its nested calls build a tree: no page becomes a table twice, every     *)
(* table is marked and none is a page that init_paging was given to map,   *)
(* though the pool may hold such pages; and a table is mapped nowhere but  *)
(* at its own address.                                                     *)
THEOREM PagingTree == PagingSpec => []TablesFormTree
<1>1. PagingInv => TablesFormTree
  <2> SUFFICES ASSUME PagingInv, PoolLasts PROVE TablesFormTree
    BY DEF TablesFormTree
  <2>1. Tree
    BY DEF PagingInv
  <2>2. NotPresent \notin AllTables
    BY DEF AllTables, TablesAt
  <2>3. \A virt \in Virtual : find_physaddr(virt) \in AllTables => find_physaddr(virt) = virt
    BY <2>1, <2>2 DEF Tree
  <2>4. /\ AllTables \subseteq marked \ used.kernel
        /\ \A virt, other \in Virtual, level, k \in 1 .. LEVELS - 1 :
             Walk(tables, virt)[level] = Walk(tables, other)[k] /\ Walk(tables, virt)[level] # NotPresent =>
               level = k /\ SamePath(virt, other, level)
    BY <2>1 DEF Tree
  <2>5. \A virt \in Virtual : [v \in Virtual |-> Walk(tables, v)][virt] = Walk(tables, virt)
    OBVIOUS
  <2> QED
    BY <2>3, <2>4, <2>5 DEF TablesFormTree
<1> QED
  BY <1>1, PagingInvariant, PTL

(* Between calls of map_page every table is mapped to its own address, and *)
(* in the middle of one the table at hand can be read and written, before  *)
(* load_pml4 and after it.                                                 *)
THEOREM PagingSelfMapped == PagingSpec => []TablesSelfMapped
<1>1. PagingInv => TablesSelfMapped
  <2> SUFFICES ASSUME PagingInv, PoolLasts
               PROVE  /\ calls = <<>> => \A t \in AllTables : find_physaddr(t) = t
                      /\ Running => Accessible(Top.table)
    BY DEF TablesSelfMapped
  <2>1. PagingTypeOK /\ Tree /\ Nested /\ SelfMaps
    BY DEF PagingInv
  <2>2. ASSUME calls = <<>> PROVE \A t \in AllTables : find_physaddr(t) = t
    <3>1. DOMAIN calls = {}
      BY <2>2
    <3> QED
      BY <2>1, <3>1 DEF SelfMaps
  <2>3. ASSUME Running PROVE Accessible(Top.table)
    <3>1. calls # <<>>
      BY <2>3 DEF Running
    <3>2. Top \in CallRecords /\ OnItsWay(Top)
      BY <2>1, <3>1, TopKnown
    <3>3. Top.virt \in Virtual /\ Top.level - 1 \in 0 .. LEVELS - 1
      BY <3>2, Constants DEF CallRecords
    <3>4. Top.table = pml4 \/ Top.table \in AllTables
      BY <2>1, <3>2, <3>3, OnTheWay DEF OnItsWay
    <3>5. cr3 = "boot" \/ cr3 = "pml4"
      BY <2>1 DEF PagingTypeOK
    <3> QED
      BY <2>1, <3>4, <3>5 DEF SelfMaps, Accessible
  <2> QED
    BY <2>2, <2>3
<1> QED
  BY <1>1, PagingInvariant, PTL

(* No later call of map_page, and no table that a later call needs, undoes *)
(* a mapping of init_paging or malloc_heap.                                *)
THEOREM PagingKeepsMappings == PagingSpec => []MappingsKept
<1>1. PagingInv => MappingsKept
  BY DEF PagingInv, Kept, MappingsKept
<1> QED
  BY <1>1, PagingInvariant, PTL
=============================================================================
