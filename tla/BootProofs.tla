----------------------------- MODULE BootProofs -----------------------------
(***************************************************************************)
(* Proofs about modules Boot and Entry, for every memory, kernel file,     *)
(* graphics mode and content of uninitialised memory.                      *)
(***************************************************************************)
EXTENDS Entry, LoopLemmas, SequenceTheorems, FiniteSetTheorems, TLAPS

-----------------------------------------------------------------------------
(* The inductive invariant                                                 *)

Calls == [phys : Int, virt : Int]

(* The memory, and what has been taken of it.  A table has a page of its   *)
(* own.                                                                    *)
MemoryInv ==
  /\ \E n \in 0 .. kernel_vaddr : Pages = 0 .. n - 1
  /\ fw \in [Pages -> Types]
  /\ DOMAIN at = Purposes
  /\ \A purpose \in Purposes : \A p \in at[purpose] : p \in Pages /\ fw[p] = "taken"
  /\ \A e \in DOMAIN tables : tables[e] # None =>
       /\ tables[e] \in Pages /\ fw[tables[e]] = "taken"
       /\ \A purpose \in Purposes : tables[e] \notin at[purpose]

(* A page of the memory is mapped to its own address or not at all.        *)
Harmless(c) == c.phys = c.virt \/ c.virt \notin Pages

CallsInv ==
  /\ calls \in Seq(Calls) /\ todo \in Seq(Calls)
  /\ \A k \in DOMAIN calls : Harmless(calls[k]) /\ (k > 1 => calls[k].virt \in Pages)
  /\ \A k \in DOMAIN todo : Harmless(todo[k])
  /\ mapped \in [0 .. kernel_stack - 1 -> Int]
  /\ \A e \in DOMAIN tables : tables[e] # None =>
       mapped[tables[e]] = tables[e] \/ \E k \in DOMAIN calls : calls[k].virt = tables[e]

(* The copy of the map.                                                    *)
ToRead == {"size", "alloc_memmap", "read"}
ToFill == {"modes", "load", "count", "reread"}
Loading == {"memmap", "kernel", "freemap"}

MapInv ==
  /\ memmap \in Seq(Descs) /\ Len(memmap) = mm_descs /\ fm_descs \in Nat
  /\ pc \in ToFill => memmapsize = mm_descs
  /\ pc \in ToRead \cup ToFill \cup {"fill"} => freemap = <<>>
  /\ mm_desc_size \in Nat /\ mm_desc_size >= memmap_t
  /\ \A j \in DOMAIN freemap : freemap[j].addr \in Nat /\ freemap[j].blocks \in Nat
  /\ pc \in ToFill => \A d \in DOMAIN memmap : memmap[d].reading # 2
  /\ pc = "fill" =>
       /\ \A d \in DOMAIN memmap : IsNormal(memmap[d]) /\ memmap[d].reading = 2 =>
            \A q \in memmap[d].physaddr .. memmap[d].physaddr + memmap[d].pages - 1 :
              \A purpose \in Loading : q \notin at[purpose]
       /\ ~stale /\ mm_desc_size = memmap_t => \A d \in DOMAIN memmap : memmap[d].reading = 2
  /\ RereadProtects

(* The kernel's image.                                                     *)
ToMap == {"count", "reread", "fill", "map"}
Running == {"kernel", "globals", "paging", "draw", "rest"}
Mapping == {"bitmap", "stack", "exit"} \cup Running

Offset(s) == elf[s].p_vaddr - kernel_vaddr * PAGE_SIZE

ImageInv ==
  /\ elf \in Elves
  /\ pc \in ToMap \cup Mapping =>
       /\ elf # NoElf
       /\ \E p \in Pages : at["kernel"] = p .. p + kernel_pages - 1
       /\ \A s \in Load : \A b \in 0 .. elf[s].p_memsz - 1 :
            image[Offset(s) + b] = IF b < elf[s].p_filesz THEN <<s, b>> ELSE <<0, 0>>

(* The kernel's pages: the last call for each is the right one, or it has  *)
(* been made and no wrong one follows.                                     *)
KernelVirt == kernel_vaddr .. kernel_vaddr + kernel_pages - 1
PhysOf(virt) == Min(at["kernel"]) + (virt - kernel_vaddr)
Right(c) == c.virt \in KernelVirt => c.phys = PhysOf(c.virt)

KernelInv ==
  pc \in Mapping => \A virt \in KernelVirt :
    \/ \E k \in DOMAIN todo : /\ todo[k].virt = virt
                              /\ \A j \in DOMAIN todo : j >= k => Right(todo[j])
    \/ /\ \A j \in DOMAIN todo : Right(todo[j])
       /\ calls # <<>> => Right(calls[1])
       /\ mapped[virt] = PhysOf(virt) \/ (calls # <<>> /\ calls[1].virt = virt)

(* The loops end before the next thing is done.                            *)
IdleInv ==
  /\ pc \in ToRead \cup ToFill \cup {"fill", "map", "returned"} => calls = <<>> /\ todo = <<>>
  /\ pc \in Running \cup {"wiped"} => calls = <<>> /\ todo = <<>>

(* The stack.                                                              *)
ForStack(c) == c.virt = kernel_stack - 1 /\ c.phys \in at["stack"]

StackInv ==
  /\ pc = "exit" =>
       \/ Len(todo) = 1 /\ ForStack(todo[1])
       \/ todo = <<>> /\ calls # <<>> /\ ForStack(calls[1])
       \/ todo = <<>> /\ calls = <<>> /\ mapped[kernel_stack - 1] \in at["stack"]
  /\ pc \in Running => mapped[kernel_stack - 1] \in at["stack"]

(* The graphics mode.                                                      *)
ModeInv ==
  /\ gop \in [modes : Seq(Modes), mode : Nat] /\ gop.modes # <<>>
  /\ \A m \in DOMAIN gop.modes :
       /\ gop.modes[m].w <= gop.modes[m].pixperline
       /\ gop.modes[m].pixperline * gop.modes[m].h <= gop.modes[m].fbsize
  /\ pc \in {"load"} \cup ToMap \cup Mapping =>
       gop.mode \in DOMAIN gop.modes /\ fb = gop.modes[gop.mode]

BootInv ==
  /\ MemoryInv /\ CallsInv /\ MapInv /\ ImageInv
  /\ KernelInv /\ IdleInv /\ StackInv /\ ModeInv

(* The kernel's own tables and what it draws.                              *)
GlobalsInv ==
  pc \in Running \ {"kernel"} =>
    /\ globals.kernel_paddr = Min(at["kernel"]) /\ globals.kernel_size = kernel_mem_size
    /\ globals.kernel_stack_paddr \in at["stack"]
    /\ globals.freemap \in Nat /\ globals.pmem_bmap \in Nat
    /\ globals.fb = fb

TablesInv ==
  pc \in {"paging", "draw", "rest"} =>
    /\ \A virt \in KernelVirt : virt \in DOMAIN kmap /\ kmap[virt] = PhysOf(virt)
    /\ kernel_stack - 1 \in DOMAIN kmap /\ kmap[kernel_stack - 1] \in at["stack"]
    /\ \A k \in 0 .. Ceiling(fb.fbsize, PIXELS) - 1 :
         fb_vaddr + k \in DOMAIN kmap /\ kmap[fb_vaddr + k] = FRAMEBUFFER + k
    /\ \A p \in Pages \cap DOMAIN kmap : kmap[p] = p /\ p \notin InUse

(* What ends the kernel in init_paging.                                    *)
Twice == \E slot, other \in Slots : slot # other /\ PageAt(slot) = PageAt(other)
WipedInv == pc = "wiped" => FreePages \cap InUse # {} \/ Twice

RectInv ==
  /\ i \in Nat
  /\ pc \in {"draw", "rest"} =>
       /\ rect.w \in Nat /\ rect.h \in Nat
       /\ rect.h <= fb.h /\ (rect.w <= fb.w \/ rect.w <= fb.h)

EntryInv == BootInv /\ GlobalsInv /\ TablesInv /\ WipedInv /\ RectInv

-----------------------------------------------------------------------------
(* Numbers and loops                                                       *)

(* What the assumptions say of the constants.                              *)
LEMMA Numbers ==
  /\ PAGE_SIZE \in Nat /\ PAGE_SIZE >= 1 /\ LOW \in Nat
  /\ kernel_vaddr \in Nat /\ kernel_stack \in Nat /\ kernel_vaddr < kernel_stack
  /\ Junk \subseteq Descs /\ \A junk \in Junk : junk.reading = 0
  /\ \A size \in DescSizes : size \in Nat /\ size >= memmap_t
  BY MachineAssumption

(* The largest member of a set of naturals that has one.                   *)
LEMMA MaxMember ==
  ASSUME NEW n \in Nat, NEW S \in SUBSET (0 .. n), S # {}
  PROVE  Max(S) \in S /\ \A y \in S : y <= Max(S)
<1> DEFINE T == {n - y : y \in S}
<1>0. PICK z : z \in S
  OBVIOUS
<1>1. T \in SUBSET Nat /\ T # {}
  <2>1. n - z \in T
    BY <1>0
  <2>2. \A y \in S : n - y \in Nat
    OBVIOUS
  <2> QED
    BY <2>1, <2>2
<1>2. Min(T) \in T /\ \A t \in T : Min(T) <= t
  BY <1>1, MinMember
<1>3. PICK x \in S : n - x = Min(T)
  BY <1>2
<1>4. \A y \in S : n - x <= n - y
  BY <1>2, <1>3
<1>5. \A y \in S : x >= y
  BY <1>4
<1>6. Max(S) \in S /\ \A y \in S : Max(S) >= y
  BY <1>5 DEF Max
<1> QED
  BY <1>6

(* The values of a variable that a loop of n turns changes.                *)
Iteration(f, n, base, step) == f[0] = base /\ \A k \in 1 .. n : f[k] = step[k][f[k - 1]]

(* There are such values.                                                  *)
LEMMA Iterates ==
  ASSUME NEW n \in Nat, NEW S, NEW base \in S, NEW step \in [1 .. n -> [S -> S]]
  PROVE  \E f \in [0 .. n -> S] : Iteration(f, n, base, step)
<1> DEFINE Good(f, m) == /\ f \in [0 .. m -> S] /\ f[0] = base
                         /\ \A k \in 1 .. m : f[k] = step[k][f[k - 1]]
           Reached == {m \in 0 .. n : \E f : Good(f, m)}
<1>1. 0 \in Reached
  <2> DEFINE g == [k \in 0 .. 0 |-> base]
  <2>1. g \in [0 .. 0 -> S] /\ g[0] = base
    OBVIOUS
  <2>2. \A k \in 1 .. 0 : g[k] = step[k][g[k - 1]]
    OBVIOUS
  <2>3. Good(g, 0)
    BY <2>1, <2>2, Zenon
  <2> HIDE DEF g
  <2> QED
    BY <2>3
<1>2. ASSUME NEW m \in 0 .. n - 1, m \in Reached PROVE m + 1 \in Reached
  <2>1. PICK f : Good(f, m)
    BY <1>2
  <2> DEFINE g == [k \in 0 .. m + 1 |-> IF k = m + 1 THEN step[m + 1][f[m]] ELSE f[k]]
  <2>2. step[m + 1][f[m]] \in S
    <3>1. f[m] \in S /\ m + 1 \in 1 .. n
      BY <2>1
    <3> QED
      BY <3>1
  <2>3. g \in [0 .. m + 1 -> S] /\ g[0] = base
    BY <2>1, <2>2
  <2>4. ASSUME NEW k \in 1 .. m + 1 PROVE g[k] = step[k][g[k - 1]]
    <3>1. CASE k = m + 1
      BY <3>1
    <3>2. CASE k # m + 1
      <4>1. k \in 1 .. m /\ k - 1 \in 0 .. m /\ k - 1 # m + 1
        BY <3>2
      <4>2. g[k] = f[k] /\ g[k - 1] = f[k - 1]
        BY <4>1
      <4> QED
        BY <2>1, <4>1, <4>2
    <3> QED
      BY <3>1, <3>2
  <2>5. Good(g, m + 1)
    BY <2>3, <2>4, Zenon
  <2>6. m + 1 \in 0 .. n
    OBVIOUS
  <2> QED
    BY <2>5, <2>6
<1> HIDE DEF Reached
<1>3. n \in Reached
  <2>1. n \in 0 .. n
    OBVIOUS
  <2> QED
    BY <1>1, <1>2, <2>1, Turns
<1> QED
  BY <1>3 DEF Reached, Iteration

-----------------------------------------------------------------------------
(* The firmware's map                                                      *)

Starts == {p \in Pages : p = 0 \/ Listed(p - 1) # Listed(p)}
UpTo(p) == {q \in Starts : q <= p}
StartOf(d) == CHOOSE p \in Starts : Cardinality(UpTo(p)) = d
EndOf(p) == Min({q \in Starts \cup {Cardinality(Pages)} : q > p})

(* Descriptors in terms of these.                                          *)
LEMMA DescriptorsUnfold ==
  Descriptors = [d \in 1 .. Cardinality(Starts) |->
                   [type |-> Listed(StartOf(d)), physaddr |-> StartOf(d),
                    pages |-> EndOf(StartOf(d)) - StartOf(d),
                    reading |-> IF pc = "reread" THEN 2 ELSE 1]]
  BY DEF Descriptors, Starts, UpTo, StartOf, EndOf

(* The starts of the runs are counted one by one.                          *)
LEMMA StartExists ==
  ASSUME NEW n \in Nat, Pages = 0 .. n - 1
  PROVE  /\ Cardinality(Starts) \in Nat
         /\ \A d \in 1 .. Cardinality(Starts) :
              StartOf(d) \in Starts /\ Cardinality(UpTo(StartOf(d))) = d
<1> DEFINE B(m) == {q \in Starts : q < m}
           T == {m \in 0 .. n : \A d \in 1 .. Cardinality(B(m)) :
                                  \E p \in Starts : Cardinality(UpTo(p)) = d}
<1>0. Starts \subseteq 0 .. n - 1
  BY DEF Starts
<1>1. \A q \in Starts : q \in Nat /\ q < n
  BY <1>0
<1>2. \A m \in 0 .. n : IsFiniteSet(B(m)) /\ Cardinality(B(m)) \in Nat
  <2>1. IsFiniteSet(0 .. n - 1)
    BY FS_Interval
  <2>2. \A m \in 0 .. n : B(m) \in SUBSET (0 .. n - 1)
    BY <1>0
  <2>3. \A m \in 0 .. n : IsFiniteSet(B(m))
    BY <2>1, <2>2, FS_Subset
  <2> QED
    BY <2>3, FS_CardinalityType
<1>3. 0 \in T
  <2>1. B(0) = {}
    BY <1>1
  <2>2. Cardinality(B(0)) = 0
    BY <2>1, FS_EmptySet
  <2> HIDE DEF B
  <2>3. 1 .. Cardinality(B(0)) = {}
    BY <2>2
  <2> QED
    BY <2>3
<1>4. ASSUME NEW m \in 0 .. n - 1, m \in T PROVE m + 1 \in T
  <2>1. CASE m \notin Starts
    <3>1. B(m + 1) = B(m)
      BY <1>1, <2>1
    <3> QED
      BY <1>4, <3>1
  <2>2. CASE m \in Starts
    <3>0. m \notin B(m)
      OBVIOUS
    <3>a. \A q \in Starts : q < m + 1 <=> q < m \/ q = m
      BY <1>1
    <3>1. B(m + 1) = B(m) \cup {m}
      BY <2>2, <3>a
    <3>2. Cardinality(B(m + 1)) = Cardinality(B(m)) + 1
      <4>1. IsFiniteSet(B(m))
        BY <1>2
      <4> HIDE DEF B
      <4> QED
        BY <3>0, <3>1, <4>1, FS_AddElement
    <3>3. UpTo(m) = B(m + 1)
      BY <1>1 DEF UpTo
    <3> HIDE DEF B
    <3>4. Cardinality(B(m)) \in Nat
      <4>1. m \in 0 .. n
        OBVIOUS
      <4> QED
        BY <1>2, <4>1
    <3>5. \A d \in 1 .. Cardinality(B(m)) : \E p \in Starts : Cardinality(UpTo(p)) = d
      BY <1>4
    <3>6. ASSUME NEW d \in 1 .. Cardinality(B(m + 1))
          PROVE  \E p \in Starts : Cardinality(UpTo(p)) = d
      <4>1. CASE d = Cardinality(B(m)) + 1
        BY <2>2, <3>2, <3>3, <4>1
      <4>2. CASE d # Cardinality(B(m)) + 1
        <5>1. d \in 1 .. Cardinality(B(m))
          BY <3>2, <3>4, <4>2
        <5> QED
          BY <3>5, <5>1
      <4> QED
        BY <4>1, <4>2
    <3>7. m + 1 \in 0 .. n
      OBVIOUS
    <3> QED
      BY <3>6, <3>7
  <2> QED
    BY <2>1, <2>2
<1>5. n \in T
  <2> HIDE DEF T
  <2>1. n \in 0 .. n
    OBVIOUS
  <2> QED
    BY <1>3, <1>4, <2>1, Turns
<1>6. B(n) = Starts
  BY <1>1
<1>7. Cardinality(Starts) \in Nat
  <2>1. n \in 0 .. n
    OBVIOUS
  <2> HIDE DEF B
  <2> QED
    BY <1>2, <1>6, <2>1
<1>8. \A d \in 1 .. Cardinality(Starts) : \E p \in Starts : Cardinality(UpTo(p)) = d
  <2> HIDE DEF B
  <2> QED
    BY <1>5, <1>6
<1> QED
  BY <1>7, <1>8 DEF StartOf

(* A run has the type of its first page up to its end.                     *)
LEMMA RunsAreUniform ==
  ASSUME NEW n \in Nat, Pages = 0 .. n - 1, NEW p \in Starts
  PROVE  /\ p \in Nat /\ EndOf(p) \in Nat /\ p < EndOf(p) /\ EndOf(p) <= n
         /\ \A q \in p .. EndOf(p) - 1 : q \in Pages /\ Listed(q) = Listed(p)
<1> DEFINE E == {q \in Starts \cup {Cardinality(Pages)} : q > p}
           e == EndOf(p)
<1>1. Starts \subseteq 0 .. n - 1 /\ p \in 0 .. n - 1
  BY DEF Starts
<1>2. Cardinality(Pages) = n
  BY FS_Interval
<1>3. E \in SUBSET Nat /\ n \in E
  <2>1. \A q \in Starts : q \in Nat
    BY <1>1
  <2>2. n > p
    BY <1>1
  <2> QED
    BY <1>2, <2>1, <2>2
<1>4. e \in E /\ \A y \in E : e <= y
  <2>1. E # {}
    BY <1>3
  <2>2. e = Min(E)
    BY DEF EndOf
  <2> HIDE DEF E, e
  <2> QED
    BY <1>3, <2>1, <2>2, MinMember
<1>5. e \in Nat /\ p < e /\ e <= n
  BY <1>1, <1>3, <1>4
<1> DEFINE len == e - 1 - p
           T == {k \in 0 .. len : Listed(p + k) = Listed(p)}
<1>6. len \in Nat
  BY <1>1, <1>5
<1>7. 0 \in T
  BY <1>1, <1>6
<1>8. ASSUME NEW k \in 0 .. len - 1, k \in T PROVE k + 1 \in T
  <2>1. p + (k + 1) \in Pages /\ p + (k + 1) < e /\ p + (k + 1) > p /\ p + (k + 1) # 0
        /\ (p + (k + 1)) - 1 = p + k /\ k + 1 \in 0 .. len
    BY <1>1, <1>5, <1>6
  <2>2. p + (k + 1) \notin E
    BY <1>4, <1>5, <2>1
  <2>3. p + (k + 1) \notin Starts
    BY <2>1, <2>2
  <2>4. Listed(p + k) = Listed(p + (k + 1))
    BY <2>1, <2>3 DEF Starts
  <2> QED
    BY <1>8, <2>1, <2>4
<1>9. \A k \in 0 .. len : k \in T
  <2> HIDE DEF T, len
  <2> QED
    BY <1>6, <1>7, <1>8, Turns
<1>10. ASSUME NEW q \in p .. e - 1 PROVE q \in Pages /\ Listed(q) = Listed(p)
  <2>1. q - p \in 0 .. len /\ p + (q - p) = q /\ q \in 0 .. n - 1
    BY <1>1, <1>5, <1>6
  <2>2. Listed(p + (q - p)) = Listed(p)
    BY <1>9, <2>1
  <2> QED
    BY <2>1, <2>2
<1> QED
  BY <1>1, <1>5, <1>10

(* The pages of a descriptor have its type.                                *)
LEMMA DescriptorsRight ==
  ASSUME MemoryInv
  PROVE  /\ Descriptors \in Seq(Descs)
         /\ \A d \in DOMAIN Descriptors :
              \A q \in Descriptors[d].physaddr .. Descriptors[d].physaddr + Descriptors[d].pages - 1 :
                q \in Pages /\ Listed(q) = Descriptors[d].type
         /\ \A d \in DOMAIN Descriptors :
              Descriptors[d].reading = IF pc = "reread" THEN 2 ELSE 1
<1>1. PICK n \in Nat : Pages = 0 .. n - 1
  BY Numbers DEF MemoryInv
<1> DEFINE c == Cardinality(Starts)
           s(d) == StartOf(d)
           D(d) == [type |-> Listed(s(d)), physaddr |-> s(d), pages |-> EndOf(s(d)) - s(d),
                    reading |-> IF pc = "reread" THEN 2 ELSE 1]
<1>2. c \in Nat /\ \A d \in 1 .. c : s(d) \in Starts
  BY <1>1, StartExists
<1>3. \A d \in 1 .. c : /\ s(d) \in Nat /\ EndOf(s(d)) \in Nat /\ s(d) < EndOf(s(d))
                        /\ \A q \in s(d) .. EndOf(s(d)) - 1 : q \in Pages /\ Listed(q) = Listed(s(d))
  BY <1>1, <1>2, RunsAreUniform
<1>4. \A d \in 1 .. c : Listed(s(d)) \in Types
  <2>1. \A p \in Starts : p \in Pages
    BY DEF Starts
  <2>2. \A p \in Pages : fw[p] \in Types
    BY DEF MemoryInv
  <2>3. \A p \in Pages : Listed(p) \in Types
    BY <2>2 DEF Listed, Types
  <2> HIDE DEF c, s
  <2> QED
    BY <1>2, <2>1, <2>3
<1>5. Descriptors = [d \in 1 .. c |-> D(d)]
  BY DescriptorsUnfold, Zenon
<1> HIDE DEF c, s
<1>6. \A d \in 1 .. c : D(d) \in Descs
  BY <1>3, <1>4 DEF Descs
<1>7. \A d \in 1 .. c : D(d).type = Listed(s(d)) /\ D(d).physaddr = s(d)
                        /\ D(d).physaddr + D(d).pages - 1 = EndOf(s(d)) - 1
                        /\ D(d).reading = IF pc = "reread" THEN 2 ELSE 1
  BY <1>3
<1> HIDE DEF D
<1>8. Descriptors \in Seq(Descs)
  BY <1>2, <1>5, <1>6
<1> QED
  BY <1>3, <1>5, <1>7, <1>8

-----------------------------------------------------------------------------
(* The memory                                                              *)

(* pagealloc takes pages that nobody has.                                  *)
LEMMA Taking ==
  ASSUME MemoryInv, NEW n, NEW p \in Places(n), TakePages(p, n)
  PROVE  /\ p \in Pages /\ p \in Nat /\ p < kernel_vaddr /\ Pages' = Pages /\ fw' \in [Pages -> Types]
         /\ \A q \in Pages : fw[q] = "taken" => fw'[q] = "taken"
         /\ \A q \in p .. p + n - 1 : q \in Pages /\ fw[q] # "taken" /\ fw'[q] = "taken"
<1>1. p \in Pages
  BY DEF Places, Runs
<1>2. \A q \in p .. p + n - 1 : q \in Pages /\ fw[q] # "taken"
  BY DEF Places, Runs
<1>3. fw' = [q \in Pages |-> IF q \in p .. p + n - 1 THEN "taken" ELSE fw[q]]
  BY DEF TakePages
<1>4. "taken" \in Types /\ \A q \in Pages : fw[q] \in Types
  BY DEF MemoryInv, Types
<1>5. Pages' = Pages /\ fw' \in [Pages -> Types]
  BY <1>3, <1>4 DEF Pages
<1>6. p \in Nat /\ p < kernel_vaddr
  BY <1>1, Numbers DEF MemoryInv
<1> QED
  BY <1>1, <1>2, <1>3, <1>5, <1>6

(* Nothing is taken.                                                       *)
LEMMA MemorySame ==
  ASSUME MemoryInv, UNCHANGED <<fw, at, tables>>
  PROVE  MemoryInv'
  BY DEF MemoryInv, Pages

(* Pages are taken for a purpose.                                          *)
LEMMA MemoryAllocated ==
  ASSUME MemoryInv, NEW n, NEW p \in Places(n), TakePages(p, n), NEW purpose \in Purposes,
         at' = [at EXCEPT ![purpose] = p .. p + n - 1], UNCHANGED tables
  PROVE  MemoryInv'
<1>1. /\ Pages' = Pages /\ fw' \in [Pages -> Types]
      /\ \A q \in Pages : fw[q] = "taken" => fw'[q] = "taken"
      /\ \A q \in p .. p + n - 1 : q \in Pages /\ fw[q] # "taken" /\ fw'[q] = "taken"
  BY Taking
<1>2. DOMAIN at' = Purposes /\ at'[purpose] = p .. p + n - 1
      /\ \A other \in Purposes \ {purpose} : at'[other] = at[other]
  BY DEF MemoryInv
<1>3. \E m \in 0 .. kernel_vaddr : Pages' = 0 .. m - 1
  BY <1>1 DEF MemoryInv
<1>4. \A other \in Purposes : \A q \in at'[other] : q \in Pages' /\ fw'[q] = "taken"
  BY <1>1, <1>2 DEF MemoryInv
<1>5. ASSUME NEW e \in DOMAIN tables, tables[e] # None
      PROVE  /\ tables[e] \in Pages' /\ fw'[tables[e]] = "taken"
             /\ \A other \in Purposes : tables[e] \notin at'[other]
  <2>1. tables[e] \in Pages /\ fw[tables[e]] = "taken"
        /\ \A other \in Purposes : tables[e] \notin at[other]
    BY <1>5 DEF MemoryInv
  <2>2. tables[e] \notin p .. p + n - 1
    BY <1>1, <2>1
  <2> QED
    BY <1>1, <1>2, <2>1, <2>2
<1> QED
  BY <1>1, <1>2, <1>3, <1>4, <1>5 DEF MemoryInv

(* A page is taken for a table.                                            *)
LEMMA MemoryTable ==
  ASSUME MemoryInv, NEW p \in Places(1), TakePages(p, 1), NEW e,
         tables' = [tables EXCEPT ![e] = p], UNCHANGED at
  PROVE  MemoryInv'
<1>1. /\ p \in Pages /\ p \in Nat /\ Pages' = Pages /\ fw' \in [Pages -> Types]
      /\ \A q \in Pages : fw[q] = "taken" => fw'[q] = "taken"
      /\ \A q \in p .. p + 1 - 1 : q \in Pages /\ fw[q] # "taken" /\ fw'[q] = "taken"
  BY Taking
<1>2. fw[p] # "taken" /\ fw'[p] = "taken"
  <2>1. p \in p .. p + 1 - 1
    BY <1>1
  <2> QED
    BY <1>1, <2>1
<1>3. \A purpose \in Purposes : p \notin at[purpose]
  BY <1>2 DEF MemoryInv
<1>4. \A purpose \in Purposes : \A q \in at'[purpose] : q \in Pages' /\ fw'[q] = "taken"
  BY <1>1 DEF MemoryInv
<1>5. ASSUME NEW d \in DOMAIN tables', tables'[d] # None
      PROVE  /\ tables'[d] \in Pages' /\ fw'[tables'[d]] = "taken"
             /\ \A purpose \in Purposes : tables'[d] \notin at'[purpose]
  <2>1. CASE d = e
    BY <1>1, <1>2, <1>3, <2>1
  <2>2. CASE d # e
    <3>1. d \in DOMAIN tables /\ tables'[d] = tables[d]
      BY <2>2
    <3> QED
      BY <1>1, <1>5, <3>1 DEF MemoryInv
  <2> QED
    BY <2>1, <2>2
<1>6. \E m \in 0 .. kernel_vaddr : Pages' = 0 .. m - 1
  BY <1>1 DEF MemoryInv
<1> QED
  BY <1>1, <1>4, <1>5, <1>6 DEF MemoryInv

(* Every step of the bootloader leaves to each its pages.                  *)
LEMMA MemoryKept ==
  ASSUME MemoryInv, BootNext
  PROVE  MemoryInv'
<1>1. CASE GetSize \/ ReadMemmap \/ NotElf \/ Reread \/ FillFreemap
  BY <1>1, MemorySame
  DEF GetSize, ReadMemmap, NotElf, Reread, FillFreemap, firmwareVars, pageVars
<1>2. CASE MapMemory \/ CallMapPage \/ SetEntry \/ ExitAndEnter
  BY <1>2, MemorySame DEF MapMemory, CallMapPage, SetEntry, ExitAndEnter, firmwareVars, pageVars
<1>3. ASSUME NEW n, OutOfMemory(n) PROVE MemoryInv'
  BY <1>3, MemorySame DEF OutOfMemory, firmwareVars, pageVars
<1>4. ASSUME NEW n, NEW purpose \in Purposes, Allocate(purpose, n), UNCHANGED tables
      PROVE  MemoryInv'
  BY <1>4, MemoryAllocated DEF Allocate
<1>5. CASE AllocMemmap
  BY <1>3, <1>4, <1>5 DEF AllocMemmap, Purposes, pageVars
<1>6. CASE LoadKernel
  BY <1>3, <1>4, <1>6 DEF LoadKernel, Purposes, pageVars
<1>7. CASE CountFreemap
  BY <1>3, <1>4, <1>7 DEF CountFreemap, Purposes, pageVars
<1>8. CASE AllocBitmap
  <2>1. ASSUME NEW n, NEW p \in Places(n), TakePages(p, n),
               at' = [at EXCEPT !["bitmap"] = p .. p + n - 1], UNCHANGED tables
        PROVE  MemoryInv'
    BY <2>1, MemoryAllocated DEF Purposes
  <2> QED
    BY <1>3, <1>8, <2>1 DEF AllocBitmap
<1>9. CASE AllocStack
  <2>1. ASSUME NEW p \in Places(1), TakePages(p, 1), at' = [at EXCEPT !["stack"] = {p}],
               UNCHANGED tables
        PROVE  MemoryInv'
    <3>1. p \in Nat
      BY <2>1, Taking
    <3>2. {p} = p .. p + 1 - 1
      BY <3>1
    <3>3. at' = [at EXCEPT !["stack"] = p .. p + 1 - 1]
      BY <2>1, <3>2, Zenon
    <3> QED
      BY <2>1, <3>3, MemoryAllocated DEF Purposes
  <2> QED
    BY <1>3, <1>9, <2>1 DEF AllocStack
<1>10. CASE NewTable
  <2>1. ASSUME NEW p \in Places(1), TakePages(p, 1), UNCHANGED at,
               tables' = [tables EXCEPT ![Entry(Top.virt)] = p]
        PROVE  MemoryInv'
    BY <2>1, MemoryTable
  <2> QED
    BY <1>3, <1>10, <2>1 DEF NewTable
<1>11. CASE SetMode
  <2>1. CASE UNCHANGED fw
    BY <1>11, <2>1, MemorySame DEF SetMode, pageVars
  <2>2. CASE Runs("normal", 1) # {} /\ fw' = [fw EXCEPT ![Max(Runs("normal", 1))] = "firmware"]
    <3> DEFINE m == Max(Runs("normal", 1))
    <3>1. PICK n \in 0 .. kernel_vaddr : Pages = 0 .. n - 1
      BY DEF MemoryInv
    <3>2. Runs("normal", 1) \in SUBSET (0 .. kernel_vaddr)
      BY <3>1, Numbers DEF Runs
    <3>3. m \in Runs("normal", 1)
      BY <2>2, <3>2, MaxMember, Numbers
    <3> HIDE DEF m
    <3>4. m \in Pages /\ m \in m .. m + 1 - 1 /\ fw[m] = "normal"
      <4>1. m \in Pages /\ \A q \in m .. m + 1 - 1 : fw[q] = "normal"
        BY <3>3 DEF Runs
      <4>2. m \in m .. m + 1 - 1
        BY <3>1, <4>1
      <4> QED
        BY <4>1, <4>2
    <3>5. fw' = [fw EXCEPT ![m] = "firmware"]
      BY <2>2 DEF m
    <3>6. Pages' = Pages /\ fw' \in [Pages -> Types]
      BY <3>4, <3>5 DEF MemoryInv, Pages, Types
    <3>7. \A q \in Pages : fw[q] = "taken" => fw'[q] = "taken"
      BY <3>4, <3>5 DEF Pages
    <3>8. UNCHANGED <<at, tables>>
      BY <1>11 DEF SetMode, pageVars
    <3> QED
      BY <3>6, <3>7, <3>8 DEF MemoryInv
  <2> QED
    BY <1>11, <2>1, <2>2 DEF SetMode
<1> QED
  BY <1>1, <1>2, <1>5, <1>6, <1>7, <1>8, <1>9, <1>10, <1>11 DEF BootNext, MapPage

-----------------------------------------------------------------------------
(* The loops over the map                                                  *)

(* What is counted and written to freemap are normal descriptors.          *)
LEMMA NormalInRight ==
  ASSUME NEW map \in Seq(Descs)
  PROVE  /\ NormalIn(map) \in Seq(Descs)
         /\ \A j \in DOMAIN NormalIn(map) :
              IsNormal(NormalIn(map)[j]) /\ \E d \in DOMAIN map : NormalIn(map)[j] = map[d]
<1> DEFINE N == Len(map)
           Turn(f, n) == IF n = 0 THEN <<>>
                         ELSE IF IsNormal(map[n]) THEN Append(f[n - 1], map[n])
                         ELSE f[n - 1]
           kept == CHOOSE f : f = [n \in 0 .. N |-> Turn(f, n)]
           Good(s) == /\ s \in Seq(Descs)
                      /\ \A j \in DOMAIN s :
                           IsNormal(s[j]) /\ \E d \in DOMAIN map : s[j] = map[d]
<1>1. N \in Nat /\ DOMAIN map = 1 .. N /\ \A n \in 1 .. N : map[n] \in Descs
  OBVIOUS
<1>2. NormalIn(map) = kept[N]
  BY DEF NormalIn
<1> HIDE DEF N
<1>3. \E f : f = [n \in 0 .. N |-> Turn(f, n)]
  <2> DEFINE step == [n \in 1 .. N |-> [s \in Seq(Descs) |->
                        IF IsNormal(map[n]) THEN Append(s, map[n]) ELSE s]]
  <2>1. \A n \in 1 .. N : \A s \in Seq(Descs) : Append(s, map[n]) \in Seq(Descs)
    BY <1>1, AppendProperties
  <2>2. step \in [1 .. N -> [Seq(Descs) -> Seq(Descs)]]
    BY <2>1
  <2> DEFINE S == Seq(Descs)
             none == <<>>
  <2>3. none \in S /\ step \in [1 .. N -> [S -> S]]
    BY <2>2
  <2> HIDE DEF step, S, none
  <2>4. PICK f \in [0 .. N -> S] : Iteration(f, N, none, step)
    BY <1>1, <2>3, Iterates
  <2> USE DEF S, none
  <2>5. ASSUME NEW k \in 1 .. N
        PROVE  f[k] = IF IsNormal(map[k]) THEN Append(f[k - 1], map[k]) ELSE f[k - 1]
    <3>1. f[k - 1] \in Seq(Descs)
      BY <1>1
    <3>2. step[k] = [s \in Seq(Descs) |-> IF IsNormal(map[k]) THEN Append(s, map[k]) ELSE s]
      BY DEF step
    <3> QED
      BY <2>4, <3>1, <3>2 DEF Iteration
  <2>6. ASSUME NEW k \in 0 .. N PROVE f[k] = Turn(f, k)
    <3>1. CASE k = 0
      BY <2>4, <3>1, Zenon DEF Iteration
    <3>2. CASE k # 0
      <4>1. k \in 1 .. N
        BY <3>2
      <4> QED
        BY <2>5, <3>2, <4>1, Zenon
    <3> QED
      BY <3>1, <3>2
  <2> HIDE DEF Turn
  <2>7. f = [k \in 0 .. N |-> Turn(f, k)]
    BY <2>6
  <2> QED
    BY <2>7
<1>4. \A n \in 0 .. N : kept[n] = Turn(kept, n)
  <2> HIDE DEF Turn
  <2>1. kept = [n \in 0 .. N |-> Turn(kept, n)]
    BY <1>3
  <2> HIDE DEF kept
  <2> QED
    BY <2>1
<1> HIDE DEF kept
<1>5. kept[0] = <<>>
  BY <1>1, <1>4
<1>6. \A n \in 1 .. N : kept[n] = IF IsNormal(map[n]) THEN Append(kept[n - 1], map[n])
                                  ELSE kept[n - 1]
  BY <1>1, <1>4
<1> DEFINE T == {n \in 0 .. N : Good(kept[n])}
<1>7. 0 \in T
  <2>1. Good(<<>>)
    OBVIOUS
  <2>2. Good(kept[0])
    BY <1>5, <2>1, Zenon
  <2> QED
    BY <1>1, <2>2
<1>8. ASSUME NEW n \in 0 .. N - 1, n \in T PROVE n + 1 \in T
  <2>1. n + 1 \in 1 .. N /\ n + 1 \in 0 .. N /\ (n + 1) - 1 = n
    BY <1>1
  <2>2. kept[n + 1] = IF IsNormal(map[n + 1]) THEN Append(kept[n], map[n + 1]) ELSE kept[n]
    BY <1>6, <2>1
  <2>3. CASE ~IsNormal(map[n + 1])
    BY <1>8, <2>1, <2>2, <2>3
  <2>4. CASE IsNormal(map[n + 1])
    <3> DEFINE s == kept[n]
               t == kept[n + 1]
    <3>1. s \in Seq(Descs) /\ map[n + 1] \in Descs /\ t = Append(s, map[n + 1])
      BY <1>1, <1>8, <2>1, <2>2, <2>4
    <3>2. \A j \in DOMAIN s : IsNormal(s[j]) /\ \E d \in DOMAIN map : s[j] = map[d]
      BY <1>8
    <3> HIDE DEF s, t
    <3>3. /\ t \in Seq(Descs) /\ Len(t) = Len(s) + 1
          /\ \A j \in 1 .. Len(s) : t[j] = s[j]
          /\ t[Len(s) + 1] = map[n + 1]
      BY <3>1, AppendProperties
    <3>4. Len(s) \in Nat /\ DOMAIN s = 1 .. Len(s) /\ DOMAIN t = 1 .. Len(t)
      BY <3>1, <3>3
    <3>5. ASSUME NEW j \in DOMAIN t
          PROVE  IsNormal(t[j]) /\ \E d \in DOMAIN map : t[j] = map[d]
      <4>1. CASE j = Len(s) + 1
        BY <1>1, <2>1, <2>4, <3>3, <4>1
      <4>2. CASE j # Len(s) + 1
        <5>1. j \in 1 .. Len(s)
          BY <3>3, <3>4, <4>2
        <5> QED
          BY <3>2, <3>3, <3>4, <5>1
      <4> QED
        BY <4>1, <4>2
    <3> QED
      BY <2>1, <3>3, <3>5 DEF t
  <2> QED
    BY <2>3, <2>4
<1>9. N \in T
  <2> HIDE DEF T
  <2>1. N \in 0 .. N
    BY <1>1
  <2> QED
    BY <1>1, <1>7, <1>8, <2>1, Turns
<1> QED
  BY <1>2, <1>9

(* Where the entries of two sequences are in the one made of them.         *)
LEMMA ConcatEntries ==
  ASSUME NEW S, NEW s \in Seq(S), NEW t \in Seq(S)
  PROVE  /\ s \o t \in Seq(S) /\ DOMAIN (s \o t) = 1 .. Len(s) + Len(t)
         /\ \A k \in DOMAIN s : k \in DOMAIN (s \o t) /\ (s \o t)[k] = s[k]
         /\ \A k \in DOMAIN t : Len(s) + k \in DOMAIN (s \o t) /\ (s \o t)[Len(s) + k] = t[k]
         /\ \A k \in DOMAIN (s \o t) : k \notin DOMAIN s =>
              k - Len(s) \in DOMAIN t /\ (s \o t)[k] = t[k - Len(s)]
<1> DEFINE u == s \o t
<1>1. /\ u \in Seq(S) /\ Len(u) = Len(s) + Len(t)
      /\ \A k \in 1 .. Len(s) + Len(t) : u[k] = IF k <= Len(s) THEN s[k] ELSE t[k - Len(s)]
  BY ConcatProperties
<1> HIDE DEF u
<1>2. /\ Len(s) \in Nat /\ Len(t) \in Nat
      /\ DOMAIN s = 1 .. Len(s) /\ DOMAIN t = 1 .. Len(t) /\ DOMAIN u = 1 .. Len(s) + Len(t)
  BY <1>1
<1>3. \A k \in 1 .. Len(s) : k \in 1 .. Len(s) + Len(t) /\ u[k] = s[k]
  BY <1>1, <1>2
<1>4. ASSUME NEW k \in 1 .. Len(t) PROVE Len(s) + k \in 1 .. Len(s) + Len(t) /\ u[Len(s) + k] = t[k]
  <2>1. Len(s) + k \in 1 .. Len(s) + Len(t) /\ ~(Len(s) + k <= Len(s)) /\ (Len(s) + k) - Len(s) = k
    BY <1>2
  <2> QED
    BY <1>1, <2>1
<1>5. \A k \in 1 .. Len(s) + Len(t) : k \notin 1 .. Len(s) =>
        k - Len(s) \in 1 .. Len(t) /\ u[k] = t[k - Len(s)]
  BY <1>1, <1>2
<1> QED
  BY <1>1, <1>2, <1>3, <1>4, <1>5 DEF u

(* A row of pages that are mapped to their own addresses.                  *)
LEMMA IdentityRight ==
  ASSUME NEW addr \in Nat, NEW n \in Nat
  PROVE  /\ Identity(addr, n) \in Seq(Calls) /\ Len(Identity(addr, n)) = n
         /\ \A k \in DOMAIN Identity(addr, n) : Identity(addr, n)[k] = Call(addr + k - 1, addr + k - 1)
         /\ \A k \in DOMAIN Identity(addr, n) : Identity(addr, n)[k].phys = Identity(addr, n)[k].virt
<1>1. \A k \in 1 .. n : Call(addr + k - 1, addr + k - 1) \in Calls
  BY DEF Call, Calls
<1>2. Identity(addr, n) = [k \in 1 .. n |-> Call(addr + k - 1, addr + k - 1)]
  BY DEF Identity
<1>3. \A k \in 1 .. n : Identity(addr, n)[k].phys = Identity(addr, n)[k].virt
  BY <1>2 DEF Call
<1>4. Identity(addr, n) \in Seq(Calls) /\ Len(Identity(addr, n)) = n
  BY <1>1, <1>2
<1>5. DOMAIN Identity(addr, n) = 1 .. n
  BY <1>2
<1> QED
  BY <1>2, <1>3, <1>4, <1>5

(* The calls for what is not normal map pages to their own addresses.      *)
LEMMA OtherCallsRight ==
  ASSUME NEW map \in Seq(Descs)
  PROVE  /\ OtherCalls(map) \in Seq(Calls)
         /\ \A k \in DOMAIN OtherCalls(map) : OtherCalls(map)[k].phys = OtherCalls(map)[k].virt
<1> DEFINE N == Len(map)
           Row1(n) == Identity(map[n].physaddr, map[n].pages)
           Turn(f, n) == IF n = 0 THEN <<>>
                         ELSE IF IsNormal(map[n]) THEN f[n - 1]
                         ELSE f[n - 1] \o Row1(n)
           made == CHOOSE f : f = [n \in 0 .. N |-> Turn(f, n)]
           Good(s) == s \in Seq(Calls) /\ \A k \in DOMAIN s : s[k].phys = s[k].virt
<1>1. N \in Nat /\ DOMAIN map = 1 .. N /\ \A n \in 1 .. N : map[n] \in Descs
  OBVIOUS
<1>2. OtherCalls(map) = made[N]
  BY DEF OtherCalls
<1>3. \A n \in 1 .. N : Good(Row1(n))
  <2>1. \A n \in 1 .. N : map[n].physaddr \in Nat /\ map[n].pages \in Nat
    BY <1>1 DEF Descs
  <2> QED
    BY <2>1, IdentityRight
<1> HIDE DEF N, Row1
<1>4. \E f : f = [n \in 0 .. N |-> Turn(f, n)]
  <2> DEFINE step == [n \in 1 .. N |-> [s \in Seq(Calls) |->
                        IF IsNormal(map[n]) THEN s ELSE s \o Row1(n)]]
  <2>1. \A n \in 1 .. N : \A s \in Seq(Calls) : s \o Row1(n) \in Seq(Calls)
    BY <1>3, ConcatProperties
  <2>2. step \in [1 .. N -> [Seq(Calls) -> Seq(Calls)]]
    BY <2>1
  <2> DEFINE S == Seq(Calls)
             none == <<>>
  <2>3. none \in S /\ step \in [1 .. N -> [S -> S]]
    BY <2>2
  <2> HIDE DEF step, S, none
  <2>4. PICK f \in [0 .. N -> S] : Iteration(f, N, none, step)
    BY <1>1, <2>3, Iterates
  <2> USE DEF S, none
  <2>5. ASSUME NEW k \in 1 .. N
        PROVE  f[k] = IF IsNormal(map[k]) THEN f[k - 1] ELSE f[k - 1] \o Row1(k)
    <3>1. f[k - 1] \in Seq(Calls)
      BY <1>1
    <3>2. step[k] = [s \in Seq(Calls) |-> IF IsNormal(map[k]) THEN s ELSE s \o Row1(k)]
      BY DEF step
    <3> QED
      BY <2>4, <3>1, <3>2 DEF Iteration
  <2>6. ASSUME NEW k \in 0 .. N PROVE f[k] = Turn(f, k)
    <3>1. CASE k = 0
      BY <2>4, <3>1, Zenon DEF Iteration
    <3>2. CASE k # 0
      <4>1. k \in 1 .. N
        BY <3>2
      <4> QED
        BY <2>5, <3>2, <4>1, Zenon
    <3> QED
      BY <3>1, <3>2
  <2> HIDE DEF Turn
  <2>7. f = [k \in 0 .. N |-> Turn(f, k)]
    BY <2>6
  <2> QED
    BY <2>7
<1>5. \A n \in 0 .. N : made[n] = Turn(made, n)
  <2> HIDE DEF Turn
  <2>1. made = [n \in 0 .. N |-> Turn(made, n)]
    BY <1>4
  <2> HIDE DEF made
  <2> QED
    BY <2>1
<1> HIDE DEF made
<1>6. made[0] = <<>>
  BY <1>1, <1>5
<1>7. \A n \in 1 .. N : made[n] = IF IsNormal(map[n]) THEN made[n - 1] ELSE made[n - 1] \o Row1(n)
  BY <1>1, <1>5
<1>8. ASSUME NEW s, NEW t, Good(s), Good(t) PROVE Good(s \o t)
  <2> DEFINE u == s \o t
  <2>1. s \in Seq(Calls) /\ t \in Seq(Calls)
    BY <1>8
  <2>2. /\ u \in Seq(Calls)
        /\ \A k \in DOMAIN s : u[k] = s[k]
        /\ \A k \in DOMAIN u : k \notin DOMAIN s => k - Len(s) \in DOMAIN t /\ u[k] = t[k - Len(s)]
    BY <2>1, ConcatEntries
  <2> HIDE DEF u
  <2>3. \A k \in DOMAIN u : u[k].phys = u[k].virt
    BY <1>8, <2>2
  <2> QED
    BY <2>2, <2>3 DEF u
<1> DEFINE T == {n \in 0 .. N : Good(made[n])}
<1>9. 0 \in T
  <2>1. Good(<<>>)
    OBVIOUS
  <2>2. Good(made[0])
    BY <1>6, <2>1, Zenon
  <2> QED
    BY <1>1, <2>2
<1>10. ASSUME NEW n \in 0 .. N - 1, n \in T PROVE n + 1 \in T
  <2>1. n + 1 \in 1 .. N /\ n + 1 \in 0 .. N /\ (n + 1) - 1 = n
    BY <1>1
  <2>2. made[n + 1] = IF IsNormal(map[n + 1]) THEN made[n] ELSE made[n] \o Row1(n + 1)
    BY <1>7, <2>1
  <2>3. Good(made[n]) /\ Good(Row1(n + 1))
    BY <1>3, <1>10, <2>1
  <2> HIDE DEF Good
  <2> QED
    BY <1>8, <2>1, <2>2, <2>3
<1>11. N \in T
  <2> HIDE DEF T
  <2>1. N \in 0 .. N
    BY <1>1
  <2> QED
    BY <1>1, <1>9, <1>10, <2>1, Turns
<1> QED
  BY <1>2, <1>11

-----------------------------------------------------------------------------
(* The kernel's file                                                       *)

(* As many parts of b as it takes for a whole.                             *)
LEMMA CeilingRight ==
  ASSUME NEW a \in Nat, NEW b \in Nat, b >= 1
  PROVE  /\ Ceiling(a, b) \in Nat /\ Ceiling(a, b) * b >= a /\ (a >= 1 => Ceiling(a, b) >= 1)
         /\ \A k \in Nat : a <= k * b => Ceiling(a, b) <= k
         /\ \A x \in 0 .. a - 1 : x \div b \in 0 .. Ceiling(a, b) - 1
<1> DEFINE c == Ceiling(a, b)
           n == a + b - 1
           r == n % b
<1>1. n \in Nat /\ c = n \div b
  BY DEF Ceiling
<1>2. c \in Nat /\ r \in 0 .. b - 1 /\ n = c * b + r
  <2> HIDE DEF n, c
  <2> QED
    BY <1>1 DEF r
<1>3. n = a + b - 1
  OBVIOUS
<1> HIDE DEF c, n, r
<1>4. c * b \in Nat /\ c * b >= a
  BY <1>2, <1>3
<1>5. a >= 1 => c >= 1
  BY <1>2, <1>3
<1>6. ASSUME NEW k \in Nat, a <= k * b PROVE c <= k
  <2> SUFFICES ASSUME c >= k + 1 PROVE FALSE
    BY <1>2
  <2>1. c * b >= (k + 1) * b
    BY <1>2
  <2>2. (k + 1) * b = k * b + b
    OBVIOUS
  <2> QED
    BY <1>2, <1>3, <1>4, <1>6, <2>1, <2>2
<1>7. ASSUME NEW x \in 0 .. a - 1 PROVE x \div b \in 0 .. c - 1
  <2> DEFINE q == x \div b
             t == x % b
  <2>1. q \in Nat /\ t \in 0 .. b - 1 /\ x = q * b + t
    OBVIOUS
  <2> HIDE DEF q, t
  <2>2. q * b < c * b
    BY <1>4, <2>1
  <2>3. ~(c <= q)
    <3> SUFFICES ASSUME c <= q PROVE FALSE
      OBVIOUS
    <3>1. c * b <= q * b
      BY <1>2, <2>1
    <3> QED
      BY <1>4, <2>1, <2>2, <3>1
  <2> QED
    BY <1>2, <2>1, <2>3 DEF q
<1> QED
  BY <1>2, <1>4, <1>5, <1>6, <1>7 DEF c

(* What the assumptions say of the segments of the kernel's file.          *)
LEMMA Segments ==
  ASSUME elf \in Elves, elf # NoElf
  PROVE  /\ elf \in Seq(Headers) /\ Load \subseteq DOMAIN elf
         /\ \A s \in Load :
              /\ elf[s].p_vaddr \in Nat /\ elf[s].p_filesz \in Nat /\ elf[s].p_memsz \in Nat
              /\ elf[s].p_filesz <= elf[s].p_memsz
              /\ kernel_vaddr * PAGE_SIZE <= elf[s].p_vaddr
              /\ elf[s].p_vaddr + elf[s].p_memsz <= (kernel_stack - 1) * PAGE_SIZE
              /\ elf[s].p_vaddr + elf[s].p_memsz <= kernel_heap * PAGE_SIZE
         /\ \E s \in Load : elf[s].p_vaddr = kernel_vaddr * PAGE_SIZE
         /\ \E s \in Load : elf[s].p_memsz > 0
         /\ \A s, t \in Load : s # t =>
              \/ elf[s].p_vaddr + elf[s].p_memsz <= elf[t].p_vaddr
              \/ elf[t].p_vaddr + elf[t].p_memsz <= elf[s].p_vaddr
<1>1. elf \in Elves \ {NoElf}
  OBVIOUS
<1>2. /\ elf \in Seq(Headers)
      /\ \A s \in Load :
           /\ elf[s].p_filesz <= elf[s].p_memsz
           /\ kernel_vaddr * PAGE_SIZE <= elf[s].p_vaddr
           /\ elf[s].p_vaddr + elf[s].p_memsz <= (kernel_stack - 1) * PAGE_SIZE
      /\ \E s \in Load : elf[s].p_vaddr = kernel_vaddr * PAGE_SIZE
      /\ \E s \in Load : elf[s].p_memsz > 0
      /\ \A s, t \in Load : s # t =>
           \/ elf[s].p_vaddr + elf[s].p_memsz <= elf[t].p_vaddr
           \/ elf[t].p_vaddr + elf[t].p_memsz <= elf[s].p_vaddr
  BY <1>1, FileAssumption, Zenon DEF Load
<1>3. \A s \in Load : s \in DOMAIN elf /\ elf[s].p_type = "PT_LOAD"
  BY DEF Load
<1>4. \A s \in Load : elf[s].p_vaddr + elf[s].p_memsz <= kernel_heap * PAGE_SIZE
  BY <1>3, LayoutAssumption
<1>5. \A s \in DOMAIN elf : elf[s] \in Headers
  BY <1>2
<1>6. \A s \in Load : elf[s].p_vaddr \in Nat /\ elf[s].p_filesz \in Nat /\ elf[s].p_memsz \in Nat
  BY <1>3, <1>5 DEF Headers
<1> QED
  BY <1>2, <1>3, <1>4, <1>6

(* The kernel takes the memory from its address to the last segment's end. *)
LEMMA KernelSize ==
  ASSUME elf \in Elves, elf # NoElf
  PROVE  /\ kernel_mem_size \in Nat /\ kernel_pages \in Nat /\ kernel_pages >= 1
         /\ kernel_pages * PAGE_SIZE >= kernel_mem_size
         /\ \A s \in Load : /\ Offset(s) \in Nat
                            /\ Offset(s) + elf[s].p_memsz <= kernel_mem_size
         /\ kernel_vaddr + kernel_pages <= kernel_stack - 1
         /\ kernel_vaddr + kernel_pages <= kernel_heap
<1> DEFINE Begins == {elf[s].p_vaddr : s \in Load}
           Ends == {elf[s].p_vaddr + elf[s].p_memsz : s \in Load}
           B == kernel_vaddr * PAGE_SIZE
           K == (kernel_stack - 1) * PAGE_SIZE
           H == kernel_heap * PAGE_SIZE
<1>1. kernel_mem_size = Max(Ends) - Min(Begins)
  BY DEF kernel_mem_size
<1>2. B \in Nat /\ K \in Nat /\ H \in Nat /\ kernel_stack - 1 \in Nat /\ kernel_heap \in Nat
  BY Numbers, LayoutAssumption
<1>3. /\ \A s \in Load : /\ elf[s].p_vaddr \in Nat /\ elf[s].p_memsz \in Nat /\ B <= elf[s].p_vaddr
                         /\ elf[s].p_vaddr + elf[s].p_memsz <= K
                         /\ elf[s].p_vaddr + elf[s].p_memsz <= H
      /\ \E s \in Load : elf[s].p_vaddr = B
      /\ \E s \in Load : elf[s].p_memsz > 0
  BY Segments
<1>4. \A s \in Load : Offset(s) = elf[s].p_vaddr - B
  BY DEF Offset
<1> HIDE DEF B, K, H
<1>5. Begins \in SUBSET Nat /\ B \in Begins /\ \A x \in Begins : B <= x
  BY <1>3
<1>6. Ends \in SUBSET (0 .. K) /\ \A x \in Ends : x <= H
  BY <1>2, <1>3
<1>7. PICK s0 \in Load : elf[s0].p_memsz > 0
  BY <1>3
<1>8. elf[s0].p_vaddr + elf[s0].p_memsz \in Ends /\ elf[s0].p_vaddr + elf[s0].p_memsz > B
  BY <1>2, <1>3, <1>7
<1>9. Min(Begins) = B
  <2>1. Begins # {}
    BY <1>5
  <2> HIDE DEF Begins
  <2>2. Min(Begins) \in Begins /\ \A x \in Begins : Min(Begins) <= x
    BY <1>5, <2>1, MinMember
  <2>3. Min(Begins) \in Nat /\ Min(Begins) <= B /\ B <= Min(Begins)
    BY <1>5, <2>2
  <2> QED
    BY <1>2, <2>3
<1> DEFINE M == Max(Ends)
<1>10. M \in Ends /\ \A x \in Ends : x <= M
  <2>1. Ends # {}
    BY <1>8
  <2> HIDE DEF Ends
  <2> QED
    BY <1>2, <1>6, <2>1, MaxMember
<1> HIDE DEF M
<1>11. M \in Nat /\ M <= K /\ M <= H /\ M > B
  <2>1. M \in 0 .. K /\ M <= H
    BY <1>6, <1>10
  <2>2. elf[s0].p_vaddr + elf[s0].p_memsz <= M
    BY <1>8, <1>10
  <2>3. elf[s0].p_vaddr + elf[s0].p_memsz \in Nat
    BY <1>3
  <2> QED
    BY <1>2, <1>8, <2>1, <2>2, <2>3
<1>12. kernel_mem_size = M - B
  BY <1>1, <1>9 DEF M
<1>13. \A s \in Load : elf[s].p_vaddr + elf[s].p_memsz <= M
  BY <1>10
<1>14. \A s \in Load : Offset(s) \in Nat /\ Offset(s) + elf[s].p_memsz <= kernel_mem_size
  BY <1>2, <1>3, <1>4, <1>11, <1>12, <1>13
<1>15. kernel_mem_size \in Nat /\ kernel_mem_size >= 1
  BY <1>2, <1>11, <1>12
<1>16. PAGE_SIZE \in Nat /\ PAGE_SIZE >= 1 /\ kernel_vaddr \in Nat /\ kernel_stack \in Nat
  BY Numbers
<1>17. ASSUME NEW k \in Nat, M <= k * PAGE_SIZE PROVE kernel_vaddr + kernel_pages <= k
  <2>1. (k - kernel_vaddr) * PAGE_SIZE = k * PAGE_SIZE - B
    BY <1>16 DEF B
  <2>2. k > kernel_vaddr
    <3> SUFFICES ASSUME k <= kernel_vaddr PROVE FALSE
      BY <1>16
    <3>1. k * PAGE_SIZE <= kernel_vaddr * PAGE_SIZE
      BY <1>16
    <3>2. k * PAGE_SIZE \in Nat
      BY <1>16
    <3> QED
      BY <1>2, <1>11, <1>17, <3>1, <3>2 DEF B
  <2>3. k - kernel_vaddr \in Nat /\ kernel_mem_size <= (k - kernel_vaddr) * PAGE_SIZE
    <3>1. k * PAGE_SIZE \in Nat
      BY <1>16
    <3> QED
      BY <1>2, <1>11, <1>12, <1>16, <1>17, <2>1, <2>2, <3>1
  <2>4. kernel_pages \in Nat /\ kernel_pages <= k - kernel_vaddr
    BY <1>15, <1>16, <2>3, CeilingRight DEF kernel_pages
  <2> QED
    BY <1>16, <2>4
<1>18. kernel_pages \in Nat /\ kernel_pages >= 1 /\ kernel_pages * PAGE_SIZE >= kernel_mem_size
  BY <1>15, <1>16, CeilingRight DEF kernel_pages
<1>19. kernel_vaddr + kernel_pages <= kernel_stack - 1 /\ kernel_vaddr + kernel_pages <= kernel_heap
  BY <1>2, <1>11, <1>17 DEF K, H
<1> QED
  BY <1>14, <1>15, <1>18, <1>19

(* Loading one segment.                                                    *)
LEMMA SegmentLoaded ==
  ASSUME NEW bytes, NEW s \in Load, NEW n \in Nat, DOMAIN bytes = 0 .. n - 1,
         elf \in Elves, elf # NoElf, Offset(s) + elf[s].p_memsz <= n, Offset(s) \in Nat
  PROVE  /\ DOMAIN LoadSegment(bytes, s) = 0 .. n - 1
         /\ \A b \in 0 .. elf[s].p_memsz - 1 :
              LoadSegment(bytes, s)[Offset(s) + b] = IF b < elf[s].p_filesz THEN <<s, b>> ELSE <<0, 0>>
         /\ \A x \in 0 .. n - 1 : x \notin Offset(s) .. Offset(s) + elf[s].p_memsz - 1 =>
              LoadSegment(bytes, s)[x] = bytes[x]
<1> DEFINE base == Offset(s)
           filesz == elf[s].p_filesz
           memsz == elf[s].p_memsz
           Value(b) == CASE b \in base .. base + filesz - 1 -> <<s, b - base>>
                         [] b \in base + filesz .. base + memsz - 1 -> <<0, 0>>
                         [] OTHER -> bytes[b]
<1>1. LoadSegment(bytes, s) = [b \in 0 .. n - 1 |-> Value(b)]
  BY DEF LoadSegment, Offset
<1>2. base \in Nat /\ filesz \in Nat /\ memsz \in Nat /\ filesz <= memsz /\ base + memsz <= n
  BY Segments
<1> HIDE DEF base, filesz, memsz
<1>3. ASSUME NEW b \in 0 .. memsz - 1
      PROVE  /\ base + b \in 0 .. n - 1
             /\ Value(base + b) = IF b < filesz THEN <<s, b>> ELSE <<0, 0>>
  <2>1. base + b \in 0 .. n - 1 /\ (base + b) - base = b
    BY <1>2
  <2>2. CASE b < filesz
    <3>1. base + b \in base .. base + filesz - 1 /\ base + b \notin base + filesz .. base + memsz - 1
      BY <1>2, <2>2
    <3> QED
      BY <2>1, <2>2, <3>1
  <2>3. CASE ~(b < filesz)
    <3>1. base + b \notin base .. base + filesz - 1 /\ base + b \in base + filesz .. base + memsz - 1
      BY <1>2, <2>3
    <3> QED
      BY <2>1, <2>3, <3>1
  <2> QED
    BY <2>2, <2>3
<1>4. ASSUME NEW x \in 0 .. n - 1, x \notin base .. base + memsz - 1 PROVE Value(x) = bytes[x]
  <2>1. x \notin base .. base + filesz - 1 /\ x \notin base + filesz .. base + memsz - 1
    BY <1>2, <1>4
  <2> QED
    BY <2>1
<1> HIDE DEF Value
<1> QED
  BY <1>1, <1>3, <1>4 DEF base, filesz, memsz

(* Every header leads from an image to an image.                           *)
LEMMA ImageTurns ==
  ASSUME elf \in Elves, elf # NoElf
  PROVE  \E bytes :
           /\ LoadSegments = bytes[Len(elf)]
           /\ bytes[0] = [b \in 0 .. kernel_pages * PAGE_SIZE - 1 |-> <<>>]
           /\ \A k \in 1 .. Len(elf) : bytes[k] = LoadSegment(bytes[k - 1], k)
<1> DEFINE N == Len(elf)
           blank == [b \in 0 .. kernel_pages * PAGE_SIZE - 1 |-> <<>>]
           Turn(f, k) == IF k = 0 THEN blank ELSE LoadSegment(f[k - 1], k)
           bytes == CHOOSE f : f = [k \in 0 .. N |-> Turn(f, k)]
           Reached == {k \in Nat : \E f : f = [l \in 0 .. k |-> Turn(f, l)]}
<1>1. N \in Nat
  BY Segments
<1>2. LoadSegments = bytes[N]
  BY DEF LoadSegments
<1> HIDE DEF N
<1>3. \A f, g, k : k = 0 \/ f[k - 1] = g[k - 1] => Turn(f, k) = Turn(g, k)
  BY Zenon
<1>4. \A f : Turn(f, 0) = blank
  BY Zenon
<1>5. \A f : \A k \in 1 .. N : Turn(f, k) = LoadSegment(f[k - 1], k)
  OBVIOUS
<1> HIDE DEF Turn, blank
<1>6. 0 \in Reached
  <2> DEFINE g == [k \in 0 .. 0 |-> Turn(0, k)]
  <2>1. \A k \in 0 .. 0 : Turn(0, k) = Turn(g, k)
    BY <1>3
  <2>2. g = [k \in 0 .. 0 |-> Turn(g, k)]
    BY <2>1
  <2> QED
    BY <2>2
<1>7. ASSUME NEW n \in Nat, n \in Reached PROVE n + 1 \in Reached
  <2>1. PICK f : f = [k \in 0 .. n |-> Turn(f, k)]
    BY <1>7
  <2> DEFINE g == [k \in 0 .. n + 1 |-> Turn(f, k)]
  <2>2. \A k \in 0 .. n : f[k] = g[k]
    BY <2>1
  <2>3. \A k \in 0 .. n + 1 : k = 0 \/ k - 1 \in 0 .. n
    OBVIOUS
  <2> HIDE DEF g
  <2>4. \A k \in 0 .. n + 1 : Turn(f, k) = Turn(g, k)
    BY <1>3, <2>2, <2>3
  <2>5. g = [k \in 0 .. n + 1 |-> Turn(g, k)]
    BY <2>4 DEF g
  <2> QED
    BY <2>5
<1>8. N \in Reached
  <2> HIDE DEF Reached
  <2>1. \A k \in 0 .. N - 1 : k \in Reached => k + 1 \in Reached
    BY <1>1, <1>7
  <2>2. N \in 0 .. N
    BY <1>1
  <2> QED
    BY <1>1, <1>6, <2>1, <2>2, Turns
<1>9. bytes = [k \in 0 .. N |-> Turn(bytes, k)]
  BY <1>8
<1> HIDE DEF bytes
<1>10. bytes[0] = blank /\ \A k \in 1 .. N : bytes[k] = LoadSegment(bytes[k - 1], k)
  BY <1>1, <1>4, <1>5, <1>9
<1> QED
  BY <1>2, <1>10 DEF N, blank

(* All the segments have been loaded, and none over another.               *)
LEMMA ImageRight ==
  ASSUME elf \in Elves, elf # NoElf
  PROVE  \A s \in Load : \A b \in 0 .. elf[s].p_memsz - 1 :
           LoadSegments[Offset(s) + b] = IF b < elf[s].p_filesz THEN <<s, b>> ELSE <<0, 0>>
<1>1. PICK bytes :
        /\ LoadSegments = bytes[Len(elf)]
        /\ bytes[0] = [b \in 0 .. kernel_pages * PAGE_SIZE - 1 |-> <<>>]
        /\ \A k \in 1 .. Len(elf) : bytes[k] = LoadSegment(bytes[k - 1], k)
  BY ImageTurns
<1> DEFINE N == Len(elf)
           n == kernel_pages * PAGE_SIZE
           Value(s, b) == IF b < elf[s].p_filesz THEN <<s, b>> ELSE <<0, 0>>
           Loaded(k) == \A s \in Load : s <= k => \A b \in 0 .. elf[s].p_memsz - 1 :
                          bytes[k][Offset(s) + b] = Value(s, b)
           T == {k \in 0 .. N : DOMAIN bytes[k] = 0 .. n - 1 /\ Loaded(k)}
<1>2. N \in Nat /\ Load \subseteq 1 .. N
  BY Segments
<1>3. /\ n \in Nat
      /\ \A s \in Load : /\ Offset(s) \in Nat /\ elf[s].p_memsz \in Nat
                         /\ Offset(s) + elf[s].p_memsz <= n
  <2>1. n \in Nat /\ n >= kernel_mem_size /\ kernel_mem_size \in Nat
    BY KernelSize, Numbers
  <2>2. \A s \in Load : /\ Offset(s) \in Nat /\ Offset(s) + elf[s].p_memsz <= kernel_mem_size
                        /\ elf[s].p_memsz \in Nat
    BY KernelSize, Segments
  <2> HIDE DEF n
  <2> QED
    BY <2>1, <2>2
<1>4. \A s, t \in Load : s # t =>
        \A b \in 0 .. elf[s].p_memsz - 1 :
          Offset(s) + b \notin Offset(t) .. Offset(t) + elf[t].p_memsz - 1
  <2>1. \A s \in Load : elf[s].p_vaddr \in Nat /\ elf[s].p_memsz \in Nat
                        /\ elf[s].p_vaddr = Offset(s) + kernel_vaddr * PAGE_SIZE
    BY Segments, Numbers DEF Offset
  <2>2. kernel_vaddr * PAGE_SIZE \in Nat
    BY Numbers
  <2>3. \A s, t \in Load : s # t =>
          \/ elf[s].p_vaddr + elf[s].p_memsz <= elf[t].p_vaddr
          \/ elf[t].p_vaddr + elf[t].p_memsz <= elf[s].p_vaddr
    BY Segments
  <2>4. \A s, t \in Load : s # t =>
          \/ Offset(s) + elf[s].p_memsz <= Offset(t)
          \/ Offset(t) + elf[t].p_memsz <= Offset(s)
    BY <1>3, <2>1, <2>2, <2>3
  <2> QED
    BY <1>3, <2>4
<1> HIDE DEF N, n
<1>5. 0 \in T
  <2>1. \A s \in Load : ~(s <= 0)
    BY <1>2
  <2> QED
    BY <1>1, <1>2, <2>1 DEF n
<1>6. ASSUME NEW k \in 0 .. N - 1, k \in T PROVE k + 1 \in T
  <2> DEFINE K == k + 1
  <2>1. K \in 1 .. N /\ K \in 0 .. N /\ K - 1 = k /\ DOMAIN bytes[k] = 0 .. n - 1 /\ Loaded(k)
    <3>1. K \in 1 .. N /\ K \in 0 .. N /\ K - 1 = k
      BY <1>2
    <3>2. DOMAIN bytes[k] = 0 .. n - 1 /\ Loaded(k)
      BY <1>6, Zenon
    <3> QED
      BY <3>1, <3>2, Zenon
  <2>2. bytes[K] = LoadSegment(bytes[k], K)
    BY <1>1, <2>1 DEF N
  <2>3. \A s \in Load : s <= K => s <= k \/ s = K
    BY <1>2
  <2> HIDE DEF K
  <2>4. CASE K \notin Load
    <3>1. bytes[K] = [b \in 0 .. n - 1 |-> bytes[k][b]]
      BY <2>1, <2>2, <2>4 DEF LoadSegment
    <3>2. ASSUME NEW s \in Load, s <= K, NEW b \in 0 .. elf[s].p_memsz - 1
          PROVE  bytes[K][Offset(s) + b] = Value(s, b)
      <4>1. s <= k /\ Offset(s) + b \in 0 .. n - 1
        BY <1>3, <2>3, <2>4, <3>2
      <4>2. bytes[K][Offset(s) + b] = bytes[k][Offset(s) + b]
        BY <3>1, <4>1
      <4> QED
        BY <2>1, <4>1, <4>2
    <3>3. DOMAIN bytes[K] = 0 .. n - 1
      BY <3>1
    <3> QED
      BY <2>1, <3>2, <3>3 DEF K
  <2>5. CASE K \in Load
    <3>1. /\ DOMAIN bytes[K] = 0 .. n - 1
          /\ \A b \in 0 .. elf[K].p_memsz - 1 : bytes[K][Offset(K) + b] = Value(K, b)
          /\ \A x \in 0 .. n - 1 : x \notin Offset(K) .. Offset(K) + elf[K].p_memsz - 1 =>
               bytes[K][x] = bytes[k][x]
      <4>1. Offset(K) \in Nat /\ Offset(K) + elf[K].p_memsz <= n
        BY <1>3, <2>5
      <4> QED
        BY <1>3, <2>1, <2>2, <2>5, <4>1, SegmentLoaded
    <3>2. ASSUME NEW s \in Load, s <= K, NEW b \in 0 .. elf[s].p_memsz - 1
          PROVE  bytes[K][Offset(s) + b] = Value(s, b)
      <4>1. CASE s = K
        BY <3>1, <4>1
      <4>2. CASE s # K
        <5>1. s <= k /\ Offset(s) + b \in 0 .. n - 1
          BY <1>3, <2>3, <3>2, <4>2
        <5>2. Offset(s) + b \notin Offset(K) .. Offset(K) + elf[K].p_memsz - 1
          BY <1>4, <2>5, <4>2
        <5>3. bytes[K][Offset(s) + b] = bytes[k][Offset(s) + b]
          BY <3>1, <5>1, <5>2
        <5> QED
          BY <2>1, <5>1, <5>3
      <4> QED
        BY <4>1, <4>2
    <3> QED
      BY <2>1, <3>1, <3>2 DEF K
  <2> QED
    BY <2>4, <2>5
<1>7. N \in T
  <2> HIDE DEF T
  <2>1. N \in 0 .. N
    BY <1>2
  <2> QED
    BY <1>2, <1>5, <1>6, <2>1, Turns
<1>8. \A s \in Load : s <= N
  BY <1>2
<1> QED
  BY <1>1, <1>7, <1>8 DEF N

(* The kernel's pages in a row of calls.                                   *)
LEMMA KernelCallsRight ==
  ASSUME elf \in Elves, elf # NoElf, NEW p \in Nat, at["kernel"] = p .. p + kernel_pages - 1
  PROVE  /\ Min(at["kernel"]) = p
         /\ KernelCalls \in Seq(Calls) /\ DOMAIN KernelCalls = 1 .. kernel_pages
         /\ \A k \in 1 .. kernel_pages :
              KernelCalls[k].virt = kernel_vaddr + k - 1 /\ KernelCalls[k].phys = p + k - 1
<1>1. kernel_pages \in Nat /\ kernel_pages >= 1 /\ kernel_vaddr \in Nat
  BY KernelSize, Numbers
<1>2. at["kernel"] \in SUBSET Nat /\ p \in at["kernel"] /\ \A q \in at["kernel"] : p <= q
  BY <1>1
<1>3. Min(at["kernel"]) = p
  <2>1. at["kernel"] # {}
    BY <1>2
  <2>2. Min(at["kernel"]) \in at["kernel"] /\ Min(at["kernel"]) <= p
    BY <1>2, <2>1, MinMember
  <2> QED
    BY <1>2, <2>2
<1>4. KernelCalls = [k \in 1 .. kernel_pages |-> Call(p + k - 1, kernel_vaddr + k - 1)]
  BY <1>3 DEF KernelCalls, kernel_pages
<1>5. \A k \in 1 .. kernel_pages : Call(p + k - 1, kernel_vaddr + k - 1) \in Calls
  BY <1>1 DEF Call, Calls
<1>6. KernelCalls \in Seq(Calls) /\ DOMAIN KernelCalls = 1 .. kernel_pages
  BY <1>1, <1>4, <1>5
<1>7. \A k \in 1 .. kernel_pages :
        KernelCalls[k].virt = kernel_vaddr + k - 1 /\ KernelCalls[k].phys = p + k - 1
  BY <1>4 DEF Call
<1> QED
  BY <1>3, <1>6, <1>7

(* The calls of the three loops: pages are mapped to their own addresses,  *)
(* then the kernel's to the kernel's.                                      *)
MappingCalls == (OtherCalls(memmap) \o Identity(0, LOW)) \o KernelCalls

(* The calls of MapMemory are harmless, and the last for a page of the     *)
(* kernel's is the right one.                                              *)
LEMMA MappingCallsRight ==
  ASSUME elf \in Elves, elf # NoElf, NEW p \in Nat, at["kernel"] = p .. p + kernel_pages - 1,
         memmap \in Seq(Descs)
  PROVE  /\ MappingCalls \in Seq(Calls)
         /\ \A k \in DOMAIN MappingCalls :
              MappingCalls[k].phys = MappingCalls[k].virt \/ MappingCalls[k].virt >= kernel_vaddr
         /\ \E n \in Nat :
              /\ \A virt \in KernelVirt : \E k \in DOMAIN MappingCalls :
                   k > n /\ MappingCalls[k].virt = virt
              /\ \A k \in DOMAIN MappingCalls : k > n => Right(MappingCalls[k])
<1> DEFINE other == OtherCalls(memmap)
           low == Identity(0, LOW)
           first == other \o low
           second == KernelCalls
           made == first \o second
<1>1. kernel_pages \in Nat /\ kernel_vaddr \in Nat /\ LOW \in Nat
  BY KernelSize, Numbers
<1>2. /\ Min(at["kernel"]) = p
      /\ second \in Seq(Calls) /\ DOMAIN second = 1 .. kernel_pages
      /\ \A k \in 1 .. kernel_pages : second[k].virt = kernel_vaddr + k - 1 /\ second[k].phys = p + k - 1
  BY KernelCallsRight
<1>3. other \in Seq(Calls) /\ \A k \in DOMAIN other : other[k].phys = other[k].virt
  BY OtherCallsRight
<1>4. low \in Seq(Calls) /\ \A k \in DOMAIN low : low[k].phys = low[k].virt
  BY <1>1, IdentityRight
<1>5. MappingCalls = made
  BY DEF MappingCalls
<1> HIDE DEF other, low, second
<1>6. first \in Seq(Calls) /\ \A k \in DOMAIN first : first[k].phys = first[k].virt
  <2>1. /\ first \in Seq(Calls)
        /\ \A k \in DOMAIN other : first[k] = other[k]
        /\ \A k \in DOMAIN first : k \notin DOMAIN other =>
             k - Len(other) \in DOMAIN low /\ first[k] = low[k - Len(other)]
    BY <1>3, <1>4, ConcatEntries
  <2> HIDE DEF first
  <2> QED
    BY <1>3, <1>4, <2>1
<1> DEFINE n == Len(first)
<1> HIDE DEF first
<1>7. /\ made \in Seq(Calls)
      /\ \A k \in DOMAIN first : made[k] = first[k]
      /\ \A k \in DOMAIN second : n + k \in DOMAIN made /\ made[n + k] = second[k]
      /\ \A k \in DOMAIN made : k \notin DOMAIN first =>
           k - n \in DOMAIN second /\ made[k] = second[k - n]
  <2>1. first \in Seq(Calls) /\ second \in Seq(Calls)
    BY <1>2, <1>6
  <2> QED
    BY <2>1, ConcatEntries
<1>8. n \in Nat /\ DOMAIN first = 1 .. n
  BY <1>6
<1> HIDE DEF made, n
<1>9. \A k \in DOMAIN second : second[k].virt >= kernel_vaddr /\ Right(second[k])
  <2> SUFFICES ASSUME NEW k \in 1 .. kernel_pages
               PROVE  second[k].virt >= kernel_vaddr /\ Right(second[k])
    BY <1>2
  <2>1. kernel_vaddr + k - 1 >= kernel_vaddr /\ p + ((kernel_vaddr + k - 1) - kernel_vaddr) = p + k - 1
    BY <1>1
  <2>2. second[k].virt = kernel_vaddr + k - 1 /\ second[k].phys = p + k - 1
    BY <1>2
  <2>3. PhysOf(second[k].virt) = second[k].phys
    BY <1>2, <2>1, <2>2 DEF PhysOf
  <2> QED
    BY <2>1, <2>2, <2>3 DEF Right
<1>10. \A k \in DOMAIN made : made[k].phys = made[k].virt \/ made[k].virt >= kernel_vaddr
  BY <1>6, <1>7, <1>9
<1>11. ASSUME NEW virt \in KernelVirt
       PROVE  \E k \in DOMAIN made : k > n /\ made[k].virt = virt
  <2> DEFINE k == virt - kernel_vaddr + 1
  <2>1. k \in 1 .. kernel_pages /\ kernel_vaddr + k - 1 = virt
    BY <1>1 DEF KernelVirt
  <2> HIDE DEF k
  <2>2. n + k \in DOMAIN made /\ made[n + k].virt = virt
    BY <1>2, <1>7, <2>1
  <2>3. n + k > n
    BY <1>8, <2>1
  <2> QED
    BY <2>2, <2>3
<1>12. ASSUME NEW k \in DOMAIN made, k > n PROVE Right(made[k])
  <2>1. k \notin DOMAIN first
    BY <1>8, <1>12
  <2> QED
    BY <1>7, <1>9, <2>1
<1>13. MappingCalls \in Seq(Calls)
       /\ \A k \in DOMAIN MappingCalls :
            MappingCalls[k].phys = MappingCalls[k].virt \/ MappingCalls[k].virt >= kernel_vaddr
  BY <1>5, <1>7, <1>10
<1>14. \A virt \in KernelVirt : \E k \in DOMAIN MappingCalls : k > n /\ MappingCalls[k].virt = virt
  BY <1>5, <1>11
<1>15. \A k \in DOMAIN MappingCalls : k > n => Right(MappingCalls[k])
  BY <1>5, <1>12
<1> QED
  BY <1>8, <1>13, <1>14, <1>15

-----------------------------------------------------------------------------
(* map_page                                                                *)

(* A page at or above the kernel's address is no page of the memory.       *)
LEMMA AboveMemory ==
  ASSUME MemoryInv
  PROVE  \A virt \in Int : virt >= kernel_vaddr => virt \notin Pages
  BY Numbers DEF MemoryInv

(* What it takes to keep CallsInv outside map_page: harmless calls.        *)
LEMMA CallsSame ==
  ASSUME CallsInv, Pages' = Pages, UNCHANGED <<calls, mapped, tables>>,
         todo' \in Seq(Calls), \A k \in DOMAIN todo' : Harmless(todo'[k])
  PROVE  CallsInv'
  BY DEF CallsInv, Harmless

(* A table that has just been built is going to be mapped.                 *)
LEMMA CallsNewTable ==
  ASSUME MemoryInv, CallsInv, NewTable
  PROVE  CallsInv'
<1>1. CASE OutOfMemory(1)
  <2>1. Pages' = Pages /\ UNCHANGED <<calls, mapped, tables, todo>>
    BY <1>1 DEF OutOfMemory, firmwareVars, pageVars, Pages
  <2> QED
    BY <2>1, CallsSame DEF CallsInv
<1>2. ASSUME NEW p \in Places(1), TakePages(p, 1),
             tables' = [tables EXCEPT ![Entry(Top.virt)] = p],
             calls' = calls \o SelfMap(p), UNCHANGED <<mapped, todo>>
      PROVE  CallsInv'
  <2> DEFINE c == Call(p, p)
  <2>1. p \in Pages /\ p \in Nat /\ Pages' = Pages
    BY <1>2, Taking
  <2>2. <<c>> \in Seq(Calls) /\ DOMAIN <<c>> = {1} /\ <<c>>[1] = c /\ c.phys = p /\ c.virt = p
    BY <2>1 DEF Calls, Call
  <2>3. calls \in Seq(Calls) /\ Len(calls) \in Nat /\ DOMAIN calls = 1 .. Len(calls)
    BY DEF CallsInv
  <2>4. calls' = calls \o <<c>>
    BY <1>2 DEF SelfMap
  <2> HIDE DEF c
  <2>5. /\ calls' \in Seq(Calls)
        /\ \A k \in DOMAIN calls : k \in DOMAIN calls' /\ calls'[k] = calls[k]
        /\ Len(calls) + 1 \in DOMAIN calls' /\ calls'[Len(calls) + 1] = c
        /\ \A k \in DOMAIN calls' : k \notin DOMAIN calls => calls'[k] = c
    <3>1. /\ calls \o <<c>> \in Seq(Calls)
          /\ \A k \in DOMAIN calls : k \in DOMAIN (calls \o <<c>>) /\ (calls \o <<c>>)[k] = calls[k]
          /\ \A k \in DOMAIN <<c>> : /\ Len(calls) + k \in DOMAIN (calls \o <<c>>)
                                     /\ (calls \o <<c>>)[Len(calls) + k] = <<c>>[k]
          /\ \A k \in DOMAIN (calls \o <<c>>) : k \notin DOMAIN calls =>
               k - Len(calls) \in DOMAIN <<c>> /\ (calls \o <<c>>)[k] = <<c>>[k - Len(calls)]
      BY <2>2, <2>3, ConcatEntries
    <3> QED
      BY <2>2, <2>4, <3>1, Zenon
  <2>6. \A k \in DOMAIN calls' : Harmless(calls[k])' /\ (k > 1 => calls'[k].virt \in Pages')
    <3>1. \A k \in DOMAIN calls :
            (calls[k].phys = calls[k].virt \/ calls[k].virt \notin Pages)
            /\ (k > 1 => calls[k].virt \in Pages)
      BY DEF CallsInv, Harmless
    <3> QED
      BY <2>1, <2>2, <2>5, <3>1 DEF Harmless
  <2>7. \A k \in DOMAIN todo' : Harmless(todo[k])'
    BY <1>2, <2>1 DEF CallsInv, Harmless
  <2>8. ASSUME NEW e \in DOMAIN tables', tables'[e] # None
        PROVE  mapped'[tables'[e]] = tables'[e] \/ \E k \in DOMAIN calls' : calls'[k].virt = tables'[e]
    <3>1. CASE e = Entry(Top.virt)
      BY <1>2, <2>2, <2>5, <3>1
    <3>2. CASE e # Entry(Top.virt)
      <4>1. e \in DOMAIN tables /\ tables'[e] = tables[e]
        BY <1>2, <3>2
      <4>2. mapped[tables[e]] = tables[e] \/ \E k \in DOMAIN calls : calls[k].virt = tables[e]
        BY <2>8, <4>1 DEF CallsInv
      <4> QED
        BY <1>2, <2>5, <4>1, <4>2
    <3> QED
      BY <3>1, <3>2
  <2> QED
    BY <1>2, <2>5, <2>6, <2>7, <2>8 DEF CallsInv
<1> QED
  BY <1>1, <1>2 DEF NewTable

(* The last call is done: its page is mapped.                              *)
LEMMA CallsSetEntry ==
  ASSUME MemoryInv, CallsInv, SetEntry
  PROVE  CallsInv'
<1> DEFINE n == Len(calls)
<1>1. /\ calls \in Seq(Calls) /\ calls # <<>> /\ calls' = SubSeq(calls, 1, n - 1)
      /\ mapped' = [mapped EXCEPT ![calls[n].virt] = calls[n].phys]
      /\ Pages' = Pages /\ UNCHANGED <<tables, todo>>
  BY DEF CallsInv, SetEntry, Top, Last, Front, firmwareVars, Pages
<1>2. n \in Nat /\ n >= 1 /\ DOMAIN calls = 1 .. n
  BY <1>1, EmptySeq
<1> HIDE DEF n
<1>3. calls' \in Seq(Calls) /\ Len(calls') = n - 1 /\ \A k \in 1 .. n - 1 : calls'[k] = calls[k]
  <2>1. \A k \in 1 .. n - 1 : calls[k] \in Calls
    BY <1>1, <1>2
  <2>2. /\ SubSeq(calls, 1, n - 1) \in Seq(Calls)
        /\ Len(SubSeq(calls, 1, n - 1)) = IF 1 <= n - 1 THEN (n - 1) - 1 + 1 ELSE 0
        /\ \A k \in 1 .. (n - 1) - 1 + 1 : SubSeq(calls, 1, n - 1)[k] = calls[1 + k - 1]
    BY <1>2, <2>1, SubSeqProperties
  <2>3. \A k \in 1 .. n - 1 : k \in 1 .. (n - 1) - 1 + 1 /\ 1 + k - 1 = k
    BY <1>2
  <2>4. (IF 1 <= n - 1 THEN (n - 1) - 1 + 1 ELSE 0) = n - 1
    BY <1>2
  <2> QED
    BY <1>1, <2>2, <2>3, <2>4
<1>4. DOMAIN calls' = 1 .. n - 1 /\ \A k \in 1 .. n - 1 : k \in DOMAIN calls
  BY <1>2, <1>3
<1>5. \A k \in DOMAIN calls' : Harmless(calls'[k]) /\ (k > 1 => calls'[k].virt \in Pages)
  BY <1>3, <1>4 DEF CallsInv
<1>6. calls[n] \in Calls /\ Harmless(calls[n]) /\ calls[n].phys \in Int /\ calls[n].virt \in Int
  <2>1. n \in DOMAIN calls /\ calls[n] \in Calls
    BY <1>1, <1>2, ElementOfSeq
  <2>2. Harmless(calls[n])
    BY <2>1 DEF CallsInv
  <2> QED
    BY <2>1, <2>2 DEF Calls
<1>7. mapped' \in [0 .. kernel_stack - 1 -> Int]
  BY <1>1, <1>6 DEF CallsInv
<1>8. ASSUME NEW e \in DOMAIN tables, tables[e] # None
      PROVE  mapped'[tables[e]] = tables[e] \/ \E k \in DOMAIN calls' : calls'[k].virt = tables[e]
  <2>1. tables[e] \in Pages /\ tables[e] \in 0 .. kernel_stack - 1
    BY <1>8, Numbers DEF MemoryInv
  <2>2. DOMAIN mapped = 0 .. kernel_stack - 1
    BY DEF CallsInv
  <2>3. mapped[tables[e]] = tables[e] \/ \E k \in DOMAIN calls : calls[k].virt = tables[e]
    BY <1>8 DEF CallsInv
  <2>4. CASE calls[n].virt = tables[e]
    <3>1. calls[n].phys = tables[e]
      BY <1>6, <2>1, <2>4 DEF Harmless
    <3> QED
      BY <1>1, <2>1, <2>2, <2>4, <3>1
  <2>5. CASE calls[n].virt # tables[e] /\ mapped[tables[e]] = tables[e]
    BY <1>1, <2>1, <2>2, <2>5
  <2>6. ASSUME NEW k \in DOMAIN calls, calls[k].virt = tables[e], calls[n].virt # tables[e]
        PROVE  \E j \in DOMAIN calls' : calls'[j].virt = tables[e]
    <3>1. k \in 1 .. n - 1
      BY <1>2, <2>6
    <3> QED
      BY <1>3, <1>4, <2>6, <3>1
  <2> QED
    BY <2>3, <2>4, <2>5, <2>6
<1>9. \A k \in DOMAIN todo' : Harmless(todo'[k])
  BY <1>1 DEF CallsInv
<1> QED
  BY <1>1, <1>3, <1>5, <1>7, <1>8, <1>9 DEF CallsInv, Harmless

(* The next call of a loop.                                                *)
LEMMA CallsCall ==
  ASSUME CallsInv, CallMapPage
  PROVE  CallsInv'
<1>1. /\ calls = <<>> /\ todo \in Seq(Calls) /\ todo # <<>> /\ calls' = <<Head(todo)>>
      /\ todo' = Tail(todo) /\ Pages' = Pages /\ UNCHANGED <<tables, mapped>>
  BY DEF CallsInv, CallMapPage, firmwareVars, Pages
<1>2. /\ todo' \in Seq(Calls) /\ Len(todo') = Len(todo) - 1 /\ Head(todo) \in Calls
      /\ \A k \in 1 .. Len(todo') : todo'[k] = todo[k + 1]
  BY <1>1, HeadTailProperties
<1>3. Len(todo) \in Nat /\ DOMAIN todo = 1 .. Len(todo) /\ DOMAIN todo' = 1 .. Len(todo')
      /\ Len(todo) >= 1 /\ Head(todo) = todo[1]
  BY <1>1, <1>2, EmptySeq
<1>4. \A k \in DOMAIN todo' : Harmless(todo'[k])
  <2>1. \A k \in DOMAIN todo : Harmless(todo[k])
    BY DEF CallsInv
  <2>2. \A k \in DOMAIN todo' : k + 1 \in DOMAIN todo
    BY <1>2, <1>3
  <2>3. \A k \in DOMAIN todo' : todo'[k] = todo[k + 1]
    BY <1>2, <1>3
  <2> QED
    BY <2>1, <2>2, <2>3
<1>5. calls' \in Seq(Calls) /\ DOMAIN calls' = {1} /\ calls'[1] = todo[1] /\ Harmless(todo[1])
  BY <1>1, <1>2, <1>3 DEF CallsInv
<1>6. \A k \in DOMAIN calls' : Harmless(calls'[k]) /\ (k > 1 => calls'[k].virt \in Pages)
  BY <1>5
<1>7. \A e \in DOMAIN tables : tables[e] # None => mapped[tables[e]] = tables[e]
  BY <1>1 DEF CallsInv
<1>8. mapped \in [0 .. kernel_stack - 1 -> Int]
  BY DEF CallsInv
<1> QED
  BY <1>1, <1>2, <1>4, <1>5, <1>6, <1>7, <1>8 DEF CallsInv, Harmless

(* No step makes a call that maps a page of the memory to another one.     *)
LEMMA CallsKept ==
  ASSUME MemoryInv, CallsInv, MapInv, ImageInv, BootNext
  PROVE  CallsInv'
<1>1. ASSUME Pages' = Pages, UNCHANGED <<calls, mapped, tables, todo>> PROVE CallsInv'
  BY <1>1, CallsSame DEF CallsInv
<1>2. CASE GetSize \/ ReadMemmap \/ NotElf \/ Reread \/ FillFreemap \/ ExitAndEnter
  <2>1. fw' = fw /\ UNCHANGED <<calls, mapped, tables, todo>>
    BY <1>2 DEF GetSize, ReadMemmap, NotElf, Reread, FillFreemap, ExitAndEnter, firmwareVars, pageVars
  <2> QED
    BY <1>1, <2>1 DEF Pages
<1>3. ASSUME NEW n, OutOfMemory(n) PROVE CallsInv'
  BY <1>1, <1>3 DEF OutOfMemory, firmwareVars, pageVars, Pages
<1>4. ASSUME NEW n, NEW purpose, Allocate(purpose, n), UNCHANGED pageVars
      PROVE  CallsInv'
  BY <1>1, <1>4, Taking DEF Allocate, pageVars
<1>5. CASE AllocMemmap
  BY <1>3, <1>4, <1>5 DEF AllocMemmap
<1>6. CASE LoadKernel
  BY <1>3, <1>4, <1>6 DEF LoadKernel
<1>7. CASE CountFreemap
  BY <1>3, <1>4, <1>7 DEF CountFreemap
<1>8. CASE SetMode
  BY <1>1, <1>8 DEF SetMode, pageVars, Pages
<1>9. CASE AllocBitmap
  <2>1. ASSUME NEW n, NEW p \in Places(n), TakePages(p, n),
               todo' = IF n = 0 THEN <<>> ELSE Identity(p, 1), UNCHANGED <<tables, mapped, calls>>
        PROVE  CallsInv'
    <3>1. p \in Nat /\ Pages' = Pages
      BY <2>1, Taking
    <3>2. Identity(p, 1) \in Seq(Calls)
          /\ \A k \in DOMAIN Identity(p, 1) : Identity(p, 1)[k].phys = Identity(p, 1)[k].virt
      BY <3>1, IdentityRight
    <3>3. todo' \in Seq(Calls) /\ \A k \in DOMAIN todo' : Harmless(todo'[k])
      BY <2>1, <3>2 DEF Harmless
    <3> QED
      BY <2>1, <3>1, <3>3, CallsSame
  <2> QED
    BY <1>3, <1>9, <2>1 DEF AllocBitmap
<1>10. CASE AllocStack
  <2>1. ASSUME NEW p \in Places(1), TakePages(p, 1), todo' = <<Call(p, kernel_stack - 1)>>,
               UNCHANGED <<tables, mapped, calls>>
        PROVE  CallsInv'
    <3>1. p \in Nat /\ Pages' = Pages
      BY <2>1, Taking
    <3>2. kernel_stack - 1 \in Int /\ kernel_stack - 1 \notin Pages
      BY AboveMemory, Numbers
    <3>3. todo' \in Seq(Calls) /\ \A k \in DOMAIN todo' : Harmless(todo'[k])
      BY <2>1, <3>1, <3>2 DEF Harmless, Call, Calls
    <3> QED
      BY <2>1, <3>1, <3>3, CallsSame
  <2> QED
    BY <1>3, <1>10, <2>1 DEF AllocStack
<1>11. CASE MapMemory
  <2>1. /\ pc = "map" /\ todo' = MappingCalls /\ Pages' = Pages /\ UNCHANGED <<tables, mapped, calls>>
    BY <1>11 DEF MapMemory, MappingCalls, firmwareVars, Pages
  <2>2. elf \in Elves /\ elf # NoElf /\ \E p \in Pages : at["kernel"] = p .. p + kernel_pages - 1
    BY <2>1 DEF ImageInv, ToMap
  <2>3. \E p \in Nat : at["kernel"] = p .. p + kernel_pages - 1
    BY <2>2 DEF MemoryInv
  <2>4. memmap \in Seq(Descs)
    BY DEF MapInv
  <2>5. MappingCalls \in Seq(Calls)
        /\ \A k \in DOMAIN MappingCalls :
             MappingCalls[k].phys = MappingCalls[k].virt \/ MappingCalls[k].virt >= kernel_vaddr
    BY <2>2, <2>3, <2>4, MappingCallsRight
  <2>6. \A k \in DOMAIN MappingCalls : Harmless(MappingCalls[k])
    <3>1. \A k \in DOMAIN MappingCalls : MappingCalls[k].virt \in Int
      <4>1. \A k \in DOMAIN MappingCalls : MappingCalls[k] \in Calls
        BY <2>5, ElementOfSeq
      <4> QED
        BY <4>1 DEF Calls
    <3> QED
      BY <2>5, <3>1, AboveMemory DEF Harmless
  <2> QED
    BY <2>1, <2>5, <2>6, CallsSame
<1> QED
  BY <1>2, <1>5, <1>6, <1>7, <1>8, <1>9, <1>10, <1>11, CallsNewTable, CallsSetEntry, CallsCall
  DEF BootNext, MapPage

-----------------------------------------------------------------------------
(* The copy of the map                                                     *)

(* Nothing of it has changed.                                              *)
LEMMA RereadSame ==
  ASSUME RereadProtects, UNCHANGED <<mm_desc_size, stale, memmap, fm_descs, freemap>>,
         \A purpose \in Loading : at'[purpose] = at[purpose]
  PROVE  RereadProtects'
  BY DEF RereadProtects, GoodReread, Offered, Loading

(* Nothing has been written to freemap yet.                                *)
LEMMA RereadEmpty ==
  ASSUME freemap' = <<>>
  PROVE  RereadProtects'
  BY DEF RereadProtects

(* A descriptor of the kernel's length starts in one of the new map, or    *)
(* behind it; if the lengths are the same, at one.                         *)
LEMMA EntryOfMap ==
  ASSUME NEW n \in Nat, NEW size \in Nat, size >= memmap_t, NEW d \in Nat \ {0},
         ~(StartOfDesc(d) >= n * size)
  PROVE  (StartOfDesc(d) \div size) + 1 \in 1 .. n
<1> DEFINE x == StartOfDesc(d)
           q == x \div size
           r == x % size
<1>1. x \in Nat /\ size >= 1
  BY DEF StartOfDesc, memmap_t
<1> HIDE DEF x
<1>2. q \in Nat /\ r \in 0 .. size - 1 /\ x = q * size + r
  BY <1>1
<1> HIDE DEF q, r
<1>3. ASSUME q >= n PROVE FALSE
  <2>1. q - n \in Nat /\ (q - n) * size \in Nat
    BY <1>2, <1>3
  <2>2. (q - n) * size = q * size - n * size /\ q * size \in Nat /\ n * size \in Nat
    BY <1>2
  <2>3. x >= n * size
    BY <1>1, <1>2, <2>1, <2>2
  <2> QED
    BY <2>3 DEF x
<1> QED
  BY <1>2, <1>3 DEF q, x

LEMMA SameLength ==
  ASSUME NEW n \in Nat, NEW d \in 1 .. n
  PROVE  /\ ~(StartOfDesc(d) >= n * memmap_t)
         /\ StartOfDesc(d) % memmap_t = 0
         /\ (StartOfDesc(d) \div memmap_t) + 1 = d
  BY DEF StartOfDesc, memmap_t

(* The second reading lists the pages as they are, and the pages of the    *)
(* map, the kernel and freemap have been taken by then.                    *)
LEMMA MapReread ==
  ASSUME MemoryInv, MapInv, Reread
  PROVE  MapInv'
<1>1. /\ pc = "reread" /\ pc' = "fill" /\ stale' = (stale \/ Len(Descriptors) # mm_descs)
      /\ UNCHANGED <<mm_desc_size, mm_descs, fm_descs, freemap, at, fw>>
      /\ memmapsize = mm_descs
      /\ memmap \in Seq(Descs) /\ Len(memmap) = mm_descs /\ freemap = <<>> /\ fm_descs \in Nat
      /\ mm_desc_size \in Nat /\ mm_desc_size >= memmap_t
      /\ \A d \in DOMAIN memmap : memmap[d].reading # 2
  BY DEF Reread, MapInv, Goto, firmwareVars, infoVars, ToFill
<1>2. Descriptors \in Seq(Descs) /\ \A d \in 1 .. Len(Descriptors) : Descriptors[d] \in Descs
  BY DescriptorsRight
<1>3. CASE ~Fits
  <2>1. memmap' = memmap /\ stale'
    <3>1. Len(Descriptors) # mm_descs
      BY <1>1, <1>3 DEF Fits
    <3> QED
      BY <1>1, <1>3, <3>1 DEF Reread
  <2>2. RereadProtects'
    BY <1>1, RereadEmpty
  <2> QED
    BY <1>1, <2>1, <2>2 DEF MapInv, ToRead, ToFill
<1>4. CASE Fits
  <2> DEFINE L == Len(Descriptors)
             behind(d) == StartOfDesc(d) >= L * mm_desc_size
             inside(d) == StartOfDesc(d) % mm_desc_size # 0
             e(d) == (StartOfDesc(d) \div mm_desc_size) + 1
  <2>1. PICK junk \in Junk :
          memmap' = [d \in 1 .. mm_descs |-> IF behind(d) THEN memmap[d]
                                             ELSE IF inside(d) THEN junk
                                             ELSE Descriptors[e(d)]]
    BY <1>4 DEF Reread
  <2>2. junk \in Descs /\ junk.reading = 0
    BY Numbers
  <2>3. L \in Nat /\ mm_descs \in Nat /\ \A d \in 1 .. mm_descs : memmap[d] \in Descs
    BY <1>1, <1>2
  <2>4. \A d \in 1 .. mm_descs : ~behind(d) => e(d) \in 1 .. L
    BY <1>1, <2>3, EntryOfMap
  <2> HIDE DEF behind, inside, e
  <2>5. memmap' \in Seq(Descs) /\ Len(memmap') = mm_descs /\ DOMAIN memmap' = 1 .. mm_descs
    <3> DEFINE D(d) == IF behind(d) THEN memmap[d] ELSE IF inside(d) THEN junk ELSE Descriptors[e(d)]
    <3>1. \A d \in 1 .. mm_descs : D(d) \in Descs
      BY <1>2, <2>2, <2>3, <2>4
    <3>2. memmap' = [d \in 1 .. mm_descs |-> D(d)]
      BY <2>1
    <3> HIDE DEF D
    <3> QED
      BY <2>3, <3>1, <3>2
  <2>6. ASSUME NEW d \in DOMAIN memmap', IsNormal(memmap'[d]), memmap'[d].reading = 2,
               NEW q \in memmap'[d].physaddr .. memmap'[d].physaddr + memmap'[d].pages - 1,
               NEW purpose \in Loading
        PROVE  q \notin at'[purpose]
    <3>1. memmap'[d] = Descriptors[e(d)] /\ e(d) \in 1 .. L
      <4>1. d \in 1 .. mm_descs /\ d \in DOMAIN memmap
        BY <1>1, <2>5, <2>6
      <4>2. memmap[d].reading # 2 /\ junk.reading # 2
        BY <1>1, <2>2, <4>1
      <4> QED
        BY <2>1, <2>4, <2>6, <4>1, <4>2
    <3>2. e(d) \in DOMAIN Descriptors
      BY <1>2, <3>1
    <3>3. q \in Pages /\ Listed(q) = "normal"
      BY <2>6, <3>1, <3>2, DescriptorsRight DEF IsNormal
    <3>4. fw[q] # "taken"
      BY <3>3 DEF Listed
    <3> QED
      BY <1>1, <2>6, <3>4 DEF MemoryInv, Loading, Purposes
  <2>7. ASSUME ~stale', mm_desc_size' = memmap_t, NEW d \in DOMAIN memmap'
        PROVE  memmap'[d].reading = 2
    <3>1. L = mm_descs
      BY <1>1, <2>7, Zenon
    <3>2. d \in 1 .. L /\ mm_desc_size = memmap_t
      BY <1>1, <2>5, <2>7, <3>1
    <3>3. ~behind(d) /\ ~inside(d) /\ e(d) = d
      BY <2>3, <3>2, SameLength DEF behind, inside, e
    <3>4. memmap'[d] = Descriptors[d] /\ d \in DOMAIN Descriptors
      BY <1>2, <2>1, <3>1, <3>2, <3>3
    <3> QED
      BY <1>1, <3>4, DescriptorsRight
  <2>8. RereadProtects'
    BY <1>1, RereadEmpty
  <2>9. pc' \notin ToFill
    BY <1>1 DEF ToFill
  <2> QED
    BY <1>1, <2>5, <2>6, <2>7, <2>8, <2>9 DEF MapInv
<1> QED
  BY <1>3, <1>4

(* What is written to freemap from the second reading are pages of nobody. *)
LEMMA MapFill ==
  ASSUME MapInv, FillFreemap
  PROVE  MapInv'
<1> DEFINE normal == NormalIn(memmap)
<1>1. /\ pc = "fill" /\ pc' = "map" /\ UNCHANGED <<mapVars, fm_descs, at>>
      /\ memmap \in Seq(Descs) /\ Len(memmap) = mm_descs /\ fm_descs \in Nat
  BY DEF FillFreemap, MapInv, Goto
<1>2. PICK junk \in Junk :
        freemap' = [j \in 1 .. fm_descs |-> Memory(IF j <= Len(normal) THEN normal[j] ELSE junk)]
  BY DEF FillFreemap
<1>3. normal \in Seq(Descs)
      /\ \A j \in DOMAIN normal : IsNormal(normal[j]) /\ \E d \in DOMAIN memmap : normal[j] = memmap[d]
  BY <1>1, NormalInRight
<1>4. GoodReread' => ~stale /\ mm_desc_size = memmap_t /\ Len(normal) >= fm_descs
  BY <1>1 DEF GoodReread, mapVars
<1> HIDE DEF normal
<1>5. ASSUME NEW j \in DOMAIN freemap', GoodReread' \/ freemap'[j].reading = 2,
             NEW purpose \in Loading,
             NEW q \in freemap'[j].addr .. freemap'[j].addr + freemap'[j].blocks - 1
      PROVE  q \notin at[purpose]
  <2>1. j \in 1 .. fm_descs /\ Len(normal) \in Nat
    BY <1>1, <1>2, <1>3, <1>5
  <2>2. j \in DOMAIN normal
    <3>1. junk.reading = 0 /\ Memory(junk).reading = 0
      BY Numbers DEF Memory
    <3>2. j <= Len(normal)
      BY <1>1, <1>2, <1>4, <1>5, <2>1, <3>1
    <3> QED
      BY <1>3, <2>1, <3>2
  <2>3. freemap'[j] = Memory(normal[j])
    BY <1>2, <1>3, <2>1, <2>2
  <2>4. PICK d \in DOMAIN memmap : normal[j] = memmap[d]
    BY <1>3, <2>2
  <2>5. /\ IsNormal(memmap[d])
        /\ q \in memmap[d].physaddr .. memmap[d].physaddr + memmap[d].pages - 1
        /\ freemap'[j].reading = memmap[d].reading
    BY <1>3, <1>5, <2>2, <2>3, <2>4 DEF Memory
  <2>6. memmap[d].reading = 2
    BY <1>1, <1>4, <1>5, <2>5 DEF MapInv
  <2> QED
    BY <1>1, <1>5, <2>5, <2>6 DEF MapInv
<1>6. RereadProtects'
  <2>1. at' = at
    BY <1>1
  <2>2. \A j \in DOMAIN freemap' : Offered(j)' = freemap'[j].addr .. freemap'[j].addr + freemap'[j].blocks - 1
    BY DEF Offered
  <2> QED
    BY <1>5, <2>1, <2>2 DEF RereadProtects, Loading
<1>7. ASSUME NEW j \in DOMAIN freemap' PROVE freemap'[j].addr \in Nat /\ freemap'[j].blocks \in Nat
  <2>1. \A desc \in Descs : Memory(desc).addr \in Nat /\ Memory(desc).blocks \in Nat
    BY DEF Memory, Descs
  <2>2. (IF j <= Len(normal) THEN normal[j] ELSE junk) \in Descs /\ j \in 1 .. fm_descs
    BY <1>1, <1>2, <1>3, <1>7, Numbers
  <2> QED
    BY <1>2, <2>1, <2>2
<1> QED
  BY <1>1, <1>6, <1>7 DEF MapInv, mapVars, ToRead, ToFill

(* Every step keeps the copy and freemap as they should be.                *)
LEMMA MapKept ==
  ASSUME MemoryInv, MapInv, BootNext
  PROVE  MapInv'
<1>1. CASE GetSize
  <2>1. /\ freemap = <<>> /\ pc' = "alloc_memmap"
        /\ UNCHANGED <<memmap, mm_descs, fm_descs, freemap, mm_desc_size>>
    BY <1>1 DEF GetSize, MapInv, Goto, infoVars, ToRead
  <2>2. RereadProtects'
    BY <2>1, RereadEmpty
  <2> QED
    BY <2>1, <2>2 DEF MapInv, ToFill
<1>2. CASE ReadMemmap
  <2>1. /\ freemap = <<>> /\ pc = "read" /\ pc' = "modes"
        /\ UNCHANGED <<fm_descs, freemap, mm_desc_size>>
        /\ memmapsize' = Len(Descriptors) /\ mm_descs' = Len(Descriptors)
    BY <1>2 DEF ReadMemmap, MapInv, Goto, infoVars, ToRead
  <2>2. Descriptors \in Seq(Descs) /\ Len(Descriptors) \in Nat
    BY DescriptorsRight
  <2>3. /\ memmap' \in Seq(Descs) /\ Len(memmap') = Len(Descriptors)
        /\ \A d \in DOMAIN memmap' : memmap'[d].reading # 2
    <3>1. CASE Fits
      BY <1>2, <2>1, <2>2, <3>1, DescriptorsRight DEF ReadMemmap
    <3>2. ASSUME NEW junk \in Junk, memmap' = [d \in 1 .. Len(Descriptors) |-> junk]
          PROVE  /\ memmap' \in Seq(Descs) /\ Len(memmap') = Len(Descriptors)
                 /\ \A d \in DOMAIN memmap' : memmap'[d].reading # 2
      BY <2>2, <3>2, Numbers
    <3> QED
      BY <1>2, <3>1, <3>2 DEF ReadMemmap
  <2>4. RereadProtects'
    BY <2>1, RereadEmpty
  <2>5. fm_descs' \in Nat
    BY <2>1 DEF MapInv
  <2>6. mm_desc_size' \in Nat /\ mm_desc_size' >= memmap_t
    BY <2>1 DEF MapInv
  <2> QED
    BY <2>1, <2>3, <2>4, <2>5, <2>6 DEF MapInv
<1>3. ASSUME UNCHANGED <<mapVars, freemap>>, fm_descs' \in Nat,
             pc \in ToRead \cup ToFill, pc' \in ToRead => pc \in ToRead,
             pc' \in ToFill => pc \in ToFill, pc' # "fill"
      PROVE  MapInv'
  <2>1. freemap' = <<>>
    BY <1>3 DEF MapInv
  <2>2. RereadProtects'
    BY <2>1, RereadEmpty
  <2> QED
    BY <1>3, <2>1, <2>2 DEF MapInv, mapVars
<1>4. ASSUME UNCHANGED <<mapVars, fm_descs, freemap>>, \A purpose \in Loading : at'[purpose] = at[purpose],
             pc' \notin ToRead \cup ToFill \cup {"fill"}
      PROVE  MapInv'
  <2>1. RereadProtects'
    BY <1>4, RereadSame DEF MapInv, mapVars
  <2> QED
    BY <1>4, <2>1 DEF MapInv, mapVars
<1>5. ASSUME NEW n, OutOfMemory(n) PROVE MapInv'
  <2>1. UNCHANGED <<mapVars, fm_descs, freemap, at>> /\ pc' = "lost"
    BY <1>5 DEF OutOfMemory, infoVars
  <2> QED
    BY <1>4, <2>1 DEF ToRead, ToFill
<1>6. CASE AllocMemmap
  <2>1. CASE UNCHANGED <<mapVars, infoVars>> /\ pc = "alloc_memmap" /\ pc' = "read"
    BY <1>3, <2>1 DEF infoVars, MapInv, ToRead, ToFill
  <2> QED
    BY <1>5, <1>6, <2>1 DEF AllocMemmap, Goto
<1>7. CASE SetMode
  <2>1. UNCHANGED <<mapVars, fm_descs, freemap>> /\ pc = "modes" /\ pc' = "load"
    BY <1>7 DEF SetMode, Goto
  <2> QED
    BY <1>3, <2>1 DEF MapInv, ToRead, ToFill
<1>8. CASE NotElf
  <2>1. UNCHANGED <<mapVars, fm_descs, freemap, at>> /\ pc' = "returned"
    BY <1>8 DEF NotElf, Goto, infoVars
  <2> QED
    BY <1>4, <2>1 DEF ToRead, ToFill
<1>9. CASE LoadKernel
  <2>1. CASE UNCHANGED <<mapVars, fm_descs, freemap>> /\ pc = "load" /\ pc' = "count"
    BY <1>3, <2>1 DEF MapInv, ToRead, ToFill
  <2> QED
    BY <1>5, <1>9, <2>1 DEF LoadKernel, Goto
<1>10. CASE CountFreemap
  <2>1. CASE /\ UNCHANGED <<mapVars, freemap>> /\ fm_descs' = Len(NormalIn(memmap))
             /\ pc = "count" /\ pc' = "reread"
    <3>1. memmap \in Seq(Descs)
      BY DEF MapInv
    <3>2. NormalIn(memmap) \in Seq(Descs)
      BY <3>1, NormalInRight
    <3>3. fm_descs' \in Nat
      BY <2>1, <3>2
    <3> QED
      BY <1>3, <2>1, <3>3 DEF ToRead, ToFill
  <2> QED
    BY <1>5, <1>10, <2>1 DEF CountFreemap, Goto
<1>11. CASE NewTable \/ SetEntry \/ CallMapPage
  <2>1. CASE UNCHANGED <<mapVars, infoVars, at, pc>>
    <3>1. RereadProtects'
      BY <2>1, RereadSame DEF MapInv, mapVars, infoVars
    <3> QED
      BY <2>1, <3>1 DEF MapInv, mapVars, infoVars
  <2> QED
    BY <1>5, <1>11, <2>1 DEF NewTable, SetEntry, CallMapPage
<1>12. CASE MapMemory
  <2>1. UNCHANGED <<mapVars, fm_descs, freemap, at>> /\ pc' = "bitmap"
    BY <1>12 DEF MapMemory, Goto, infoVars
  <2> QED
    BY <1>4, <2>1 DEF ToRead, ToFill
<1>13. CASE AllocBitmap
  <2>1. CASE /\ UNCHANGED <<mapVars, infoVars>> /\ pc' = "stack"
             /\ \E p, n : at' = [at EXCEPT !["bitmap"] = p .. p + n - 1]
    <3>1. \A purpose \in Loading : at'[purpose] = at[purpose]
      BY <2>1 DEF Loading, MemoryInv, Purposes
    <3> QED
      BY <1>4, <2>1, <3>1 DEF ToRead, ToFill, infoVars
  <2> QED
    BY <1>5, <1>13, <2>1 DEF AllocBitmap, Goto
<1>14. CASE AllocStack
  <2>1. CASE /\ UNCHANGED <<mapVars, infoVars>> /\ pc' = "exit"
             /\ \E p : at' = [at EXCEPT !["stack"] = {p}]
    <3>1. \A purpose \in Loading : at'[purpose] = at[purpose]
      BY <2>1 DEF Loading, MemoryInv, Purposes
    <3> QED
      BY <1>4, <2>1, <3>1 DEF ToRead, ToFill, infoVars
  <2> QED
    BY <1>5, <1>14, <2>1 DEF AllocStack, Goto
<1>15. CASE ExitAndEnter
  <2>1. UNCHANGED <<mapVars, fm_descs, freemap, at>> /\ pc' = "kernel"
    BY <1>15 DEF ExitAndEnter, infoVars
  <2> QED
    BY <1>4, <2>1 DEF ToRead, ToFill
<1> QED
  BY <1>1, <1>2, <1>6, <1>7, <1>8, <1>9, <1>10, <1>11, <1>12, <1>13, <1>14, <1>15, MapReread, MapFill
  DEF BootNext, MapPage

-----------------------------------------------------------------------------
(* The kernel's image                                                      *)

(* The file stays what it is, and with it all that is computed from it.    *)
LEMMA ElfSame ==
  ASSUME UNCHANGED elf
  PROVE  /\ Load' = Load /\ kernel_mem_size' = kernel_mem_size /\ kernel_pages' = kernel_pages
         /\ KernelVirt' = KernelVirt /\ \A s : Offset(s)' = Offset(s)
<1>1. Load' = Load
  BY DEF Load
<1>2. kernel_mem_size' = kernel_mem_size
  BY <1>1 DEF kernel_mem_size
<1>3. kernel_pages' = kernel_pages
  BY <1>2 DEF kernel_pages
<1> QED
  BY <1>1, <1>2, <1>3 DEF KernelVirt, Offset

(* Steps that leave the pages, the file and the image alone.               *)
LEMMA ImageSame ==
  ASSUME ImageInv, Pages' = Pages, UNCHANGED <<elf, image>>, at'["kernel"] = at["kernel"],
         pc' \in ToMap \cup Mapping => pc \in ToMap \cup Mapping
  PROVE  ImageInv'
<1>1. Load' = Load /\ kernel_pages' = kernel_pages /\ \A s : Offset(s)' = Offset(s)
  BY ElfSame
<1>2. elf' \in Elves
  BY DEF ImageInv
<1>3. ASSUME pc' \in ToMap \cup Mapping
      PROVE  /\ elf' # NoElf /\ \E p \in Pages' : at'["kernel"] = p .. p + kernel_pages' - 1
             /\ \A s \in Load' : \A b \in 0 .. elf'[s].p_memsz - 1 :
                  image'[Offset(s) + b] = IF b < elf'[s].p_filesz THEN <<s, b>> ELSE <<0, 0>>
  BY <1>1, <1>3 DEF ImageInv
<1> QED
  BY <1>1, <1>2, <1>3 DEF ImageInv, Offset

(* From its loading on the kernel is in its pages.                         *)
LEMMA ImageKept ==
  ASSUME MemoryInv, ImageInv, BootNext
  PROVE  ImageInv'
<1>1. ASSUME NEW n, OutOfMemory(n) PROVE ImageInv'
  <2>1. Pages' = Pages /\ UNCHANGED <<elf, image, at>> /\ pc' = "lost"
    BY <1>1 DEF OutOfMemory, infoVars, firmwareVars, Pages
  <2> QED
    BY <2>1, ImageSame DEF ToMap, Mapping, Running
<1>2. ASSUME NEW n, NEW purpose \in Purposes \ {"kernel"}, Allocate(purpose, n), UNCHANGED <<elf, image>>,
             pc' \in ToMap \cup Mapping => pc \in ToMap \cup Mapping
      PROVE  ImageInv'
  <2>1. Pages' = Pages
    BY <1>2, Taking DEF Allocate
  <2>2. at'["kernel"] = at["kernel"]
    BY <1>2 DEF Allocate, MemoryInv, Purposes
  <2> QED
    BY <1>2, <2>1, <2>2, ImageSame
<1>3. CASE GetSize \/ ReadMemmap \/ SetMode \/ NotElf \/ Reread \/ FillFreemap \/ MapMemory
           \/ ExitAndEnter
  <2>1. UNCHANGED <<elf, image, at>>
    BY <1>3 DEF GetSize, ReadMemmap, SetMode, NotElf, Reread, FillFreemap, MapMemory, ExitAndEnter,
                infoVars
  <2>2. Pages' = Pages
    BY <1>3 DEF GetSize, ReadMemmap, SetMode, NotElf, Reread, FillFreemap, MapMemory, ExitAndEnter,
                firmwareVars, Pages
  <2>3. pc' \in ToMap \cup Mapping => pc \in ToMap \cup Mapping
    BY <1>3 DEF GetSize, ReadMemmap, SetMode, NotElf, Reread, FillFreemap, MapMemory, ExitAndEnter,
                Goto, ToMap, Mapping, Running
  <2> QED
    BY <2>1, <2>2, <2>3, ImageSame
<1>4. CASE AllocMemmap
  <2>1. CASE Allocate("memmap", 1) /\ Goto("read") /\ UNCHANGED infoVars
    BY <1>2, <2>1 DEF Purposes, Goto, infoVars, ToMap, Mapping, Running
  <2> QED
    BY <1>1, <1>4, <2>1 DEF AllocMemmap
<1>5. CASE CountFreemap
  <2>1. ASSUME NEW n, Allocate("freemap", n), Goto("reread"), UNCHANGED <<elf, image>>
        PROVE  ImageInv'
    BY <1>2, <1>5, <2>1 DEF CountFreemap, Purposes, Goto, ToMap, Mapping, Running
  <2> QED
    BY <1>1, <1>5, <2>1 DEF CountFreemap
<1>6. CASE AllocBitmap
  <2>1. ASSUME NEW n, NEW p \in Places(n), TakePages(p, n),
               at' = [at EXCEPT !["bitmap"] = p .. p + n - 1], UNCHANGED infoVars
        PROVE  ImageInv'
    <3>1. Allocate("bitmap", n)
      BY <2>1 DEF Allocate
    <3> QED
      BY <1>2, <1>6, <2>1, <3>1 DEF AllocBitmap, Purposes, infoVars, ToMap, Mapping
  <2> QED
    BY <1>1, <1>6, <2>1 DEF AllocBitmap
<1>7. CASE AllocStack
  <2>1. ASSUME NEW p \in Places(1), TakePages(p, 1), at' = [at EXCEPT !["stack"] = {p}],
               UNCHANGED infoVars
        PROVE  ImageInv'
    <3>1. Pages' = Pages
      BY <2>1, Taking
    <3>2. at'["kernel"] = at["kernel"]
      BY <2>1 DEF MemoryInv, Purposes
    <3> QED
      BY <1>7, <2>1, <3>1, <3>2, ImageSame DEF AllocStack, infoVars, ToMap, Mapping
  <2> QED
    BY <1>1, <1>7, <2>1 DEF AllocStack
<1>8. CASE NewTable \/ SetEntry \/ CallMapPage
  <2>1. CASE UNCHANGED <<firmwareVars, infoVars, at, pc>>
    BY <2>1, ImageSame DEF firmwareVars, infoVars, Pages
  <2>2. ASSUME NEW p \in Places(1), TakePages(p, 1), UNCHANGED <<infoVars, at, pc>> PROVE ImageInv'
    <3>1. Pages' = Pages
      BY <2>2, Taking
    <3> QED
      BY <2>2, <3>1, ImageSame DEF infoVars
  <2> QED
    BY <1>1, <1>8, <2>1, <2>2 DEF NewTable, SetEntry, CallMapPage
<1>9. CASE LoadKernel
  <2>1. CASE Allocate("kernel", kernel_pages) /\ image' = LoadSegments /\ UNCHANGED elf
    <3>1. elf \in Elves /\ elf # NoElf
      BY <1>9 DEF LoadKernel, ImageInv
    <3>2. PICK p \in Places(kernel_pages) :
            TakePages(p, kernel_pages) /\ at' = [at EXCEPT !["kernel"] = p .. p + kernel_pages - 1]
      BY <2>1 DEF Allocate
    <3>3. p \in Pages /\ Pages' = Pages
      BY <3>2, Taking
    <3>4. at'["kernel"] = p .. p + kernel_pages - 1
      BY <3>2 DEF MemoryInv, Purposes
    <3>5. \A s \in Load : \A b \in 0 .. elf[s].p_memsz - 1 :
            image'[Offset(s) + b] = IF b < elf[s].p_filesz THEN <<s, b>> ELSE <<0, 0>>
      BY <2>1, <3>1, ImageRight
    <3>6. Load' = Load /\ kernel_pages' = kernel_pages
      BY <2>1, ElfSame
    <3> QED
      BY <2>1, <3>1, <3>3, <3>4, <3>5, <3>6 DEF ImageInv, Offset
  <2> QED
    BY <1>1, <1>9, <2>1 DEF LoadKernel
<1> QED
  BY <1>3, <1>4, <1>5, <1>6, <1>7, <1>8, <1>9 DEF BootNext, MapPage

-----------------------------------------------------------------------------
(* The graphics mode                                                       *)

(* There is a best one.                                                    *)
LEMMA BestModeExists ==
  ASSUME NEW modes \in Seq(Modes), modes # <<>>
  PROVE  BestMode(modes) \in DOMAIN modes
<1> DEFINE Sums == {Res(modes[m]) : m \in DOMAIN modes}
           Best == {m \in DOMAIN modes : \A j \in DOMAIN modes : Res(modes[j]) <= Res(modes[m])}
           n == Len(modes)
<1>1. n \in Nat /\ n >= 1 /\ DOMAIN modes = 1 .. n /\ \A m \in 1 .. n : modes[m] \in Modes
  BY EmptySeq
<1>2. \A m \in 1 .. n : Res(modes[m]) \in Nat
  BY <1>1 DEF Res, Modes
<1> DEFINE T == {k \in 0 .. n - 1 : \E m \in 1 .. k + 1 : \A j \in 1 .. k + 1 :
                                      Res(modes[j]) <= Res(modes[m])}
<1> HIDE DEF n
<1>3. 0 \in T
  <2>1. 1 .. 0 + 1 = {1} /\ Res(modes[1]) <= Res(modes[1])
    BY <1>1, <1>2
  <2> QED
    BY <1>1, <2>1
<1>4. ASSUME NEW k \in 0 .. (n - 1) - 1, k \in T PROVE k + 1 \in T
  <2>1. PICK m \in 1 .. k + 1 : \A j \in 1 .. k + 1 : Res(modes[j]) <= Res(modes[m])
    BY <1>4
  <2>2. k + 1 \in 0 .. n - 1 /\ m \in 1 .. n /\ (k + 1) + 1 \in 1 .. n
    BY <1>1
  <2> DEFINE best == IF Res(modes[m]) < Res(modes[(k + 1) + 1]) THEN (k + 1) + 1 ELSE m
  <2>3. best \in 1 .. (k + 1) + 1
    OBVIOUS
  <2>4. ASSUME NEW j \in 1 .. (k + 1) + 1 PROVE Res(modes[j]) <= Res(modes[best])
    <3>1. j \in 1 .. k + 1 \/ j = (k + 1) + 1
      OBVIOUS
    <3>2. Res(modes[m]) \in Nat /\ Res(modes[(k + 1) + 1]) \in Nat /\ j \in 1 .. n
      BY <1>1, <1>2, <2>2
    <3>3. Res(modes[j]) \in Nat
      BY <1>2, <3>2
    <3> QED
      BY <2>1, <3>1, <3>2, <3>3
  <2> HIDE DEF best
  <2> QED
    BY <2>2, <2>3, <2>4
<1>5. n - 1 \in T
  <2> HIDE DEF T
  <2>1. n - 1 \in Nat /\ n - 1 \in 0 .. n - 1
    BY <1>1
  <2> QED
    BY <1>3, <1>4, <2>1, Turns
<1>6. Best # {}
  <2>1. (n - 1) + 1 = n
    BY <1>1
  <2> QED
    BY <1>1, <1>5, <2>1
<1>7. Best \in SUBSET Nat
  BY <1>1
<1>8. Min(Best) \in Best
  <2> HIDE DEF Best
  <2> QED
    BY <1>6, <1>7, MinMember
<1> QED
  BY <1>8 DEF BestMode

(* What the kernel is told is the mode that is set.                        *)
LEMMA ModeKept ==
  ASSUME ModeInv, BootNext
  PROVE  ModeInv'
<1>1. ASSUME UNCHANGED <<gop, fb>>,
             pc' \in {"load"} \cup ToMap \cup Mapping => pc \in {"load"} \cup ToMap \cup Mapping
      PROVE  ModeInv'
  BY <1>1 DEF ModeInv
<1>2. CASE SetMode
  <2>1. BestMode(gop.modes) \in DOMAIN gop.modes /\ BestMode(gop.modes) \in Nat
    <3>1. gop.modes \in Seq(Modes) /\ gop.modes # <<>>
      BY DEF ModeInv
    <3>2. BestMode(gop.modes) \in DOMAIN gop.modes
      BY <3>1, BestModeExists
    <3> QED
      BY <3>1, <3>2
  <2>2. /\ gop' \in [modes : Seq(Modes), mode : Nat]
        /\ gop'.modes = gop.modes /\ gop'.mode = BestMode(gop.modes) /\ fb' = gop.modes[BestMode(gop.modes)]
    BY <1>2, <2>1 DEF SetMode, Info, ModeInv
  <2> QED
    BY <2>1, <2>2 DEF ModeInv
<1>3. CASE BootNext /\ ~SetMode
  <2>1. UNCHANGED <<gop, fb>>
    BY <1>3
    DEF BootNext, GetSize, AllocMemmap, ReadMemmap, NotElf, LoadKernel, CountFreemap, Reread, FillFreemap,
        MapMemory, MapPage, NewTable, SetEntry, CallMapPage, AllocBitmap, AllocStack, ExitAndEnter,
        OutOfMemory, Allocate, TakePages, firmwareVars, infoVars
  <2>2. pc' \in {"load"} \cup ToMap \cup Mapping => pc \in {"load"} \cup ToMap \cup Mapping
    BY <1>3
    DEF BootNext, GetSize, AllocMemmap, ReadMemmap, NotElf, LoadKernel, CountFreemap, Reread, FillFreemap,
        MapMemory, MapPage, NewTable, SetEntry, CallMapPage, AllocBitmap, AllocStack, ExitAndEnter,
        OutOfMemory, Goto, ToMap, Mapping, Running
  <2> QED
    BY <1>1, <2>1, <2>2
<1> QED
  BY <1>2, <1>3

-----------------------------------------------------------------------------
(* The kernel's pages are mapped                                           *)

(* The bootloader goes on only when the loops have ended.                  *)
LEMMA IdleKept ==
  ASSUME IdleInv, BootNext
  PROVE  IdleInv'
<1> DEFINE Before == ToRead \cup ToFill \cup {"fill", "map", "returned"}
           After == Running \cup {"wiped"}
<1>1. ASSUME UNCHANGED <<calls, todo>>, pc' \in Before => pc \in Before,
             pc' \in After => pc \in After \/ Idle
      PROVE  IdleInv'
  BY <1>1 DEF IdleInv, Idle
<1>2. CASE MapMemory \/ AllocBitmap \/ AllocStack
  <2>1. pc' \notin Before \cup After
    BY <1>2 DEF MapMemory, AllocBitmap, AllocStack, OutOfMemory, Goto, ToRead, ToFill, Running
  <2> QED
    BY <2>1 DEF IdleInv
<1>3. CASE NewTable \/ SetEntry \/ CallMapPage
  <2>1. calls # <<>> \/ todo # <<>>
    BY <1>3 DEF NewTable, SetEntry, CallMapPage
  <2>2. pc \notin Before \cup After
    BY <2>1 DEF IdleInv
  <2>3. pc' = pc \/ pc' = "lost"
    BY <1>3 DEF NewTable, SetEntry, CallMapPage, OutOfMemory
  <2>4. pc' \notin Before \cup After
    BY <2>2, <2>3 DEF ToRead, ToFill, Running
  <2> QED
    BY <2>4 DEF IdleInv
<1>4. CASE GetSize \/ AllocMemmap \/ ReadMemmap \/ SetMode \/ NotElf \/ LoadKernel \/ CountFreemap
           \/ Reread \/ FillFreemap \/ ExitAndEnter
  <2>1. UNCHANGED <<calls, todo>>
    BY <1>4
    DEF GetSize, AllocMemmap, ReadMemmap, SetMode, NotElf, LoadKernel, CountFreemap, Reread,
        FillFreemap, ExitAndEnter, OutOfMemory, pageVars
  <2>2. pc' \in Before => pc \in Before
    BY <1>4
    DEF GetSize, AllocMemmap, ReadMemmap, SetMode, NotElf, LoadKernel, CountFreemap, Reread,
        FillFreemap, ExitAndEnter, OutOfMemory, Goto, ToRead, ToFill
  <2>3. pc' \in After => Idle
    BY <1>4
    DEF GetSize, AllocMemmap, ReadMemmap, SetMode, NotElf, LoadKernel, CountFreemap, Reread,
        FillFreemap, ExitAndEnter, OutOfMemory, Goto, Running
  <2> QED
    BY <1>1, <2>1, <2>2, <2>3
<1> QED
  BY <1>2, <1>3, <1>4 DEF BootNext, MapPage

(* The kernel's virtual pages are between the memory and its stack.        *)
LEMMA KernelVirtual ==
  ASSUME elf \in Elves, elf # NoElf
  PROVE  \A virt \in KernelVirt :
           /\ virt \in Int /\ virt >= kernel_vaddr /\ virt < kernel_stack - 1
           /\ virt \in 0 .. kernel_stack - 1
<1>1. /\ kernel_vaddr \in Nat /\ kernel_stack \in Nat /\ kernel_pages \in Nat
      /\ kernel_vaddr + kernel_pages <= kernel_stack - 1
  BY Numbers, KernelSize
<1> QED
  BY <1>1 DEF KernelVirt

(* What it takes to keep the kernel's pages: the calls stay.               *)
LEMMA KernelSame ==
  ASSUME KernelInv, UNCHANGED <<elf, todo, mapped>>, at'["kernel"] = at["kernel"],
         calls' # <<>> => calls # <<>> /\ calls'[1] = calls[1],
         calls # <<>> => calls' # <<>>,
         pc' \in Mapping => pc \in Mapping
  PROVE  KernelInv'
<1>1. KernelVirt' = KernelVirt
  BY ElfSame
<1>2. \A virt : PhysOf(virt)' = PhysOf(virt)
  BY DEF PhysOf
<1>3. ASSUME pc' \in Mapping, NEW virt \in KernelVirt
      PROVE  \/ \E k \in DOMAIN todo' : /\ todo'[k].virt = virt
                                        /\ \A j \in DOMAIN todo' : j >= k => Right(todo[j])
             \/ /\ \A j \in DOMAIN todo' : Right(todo[j])
                /\ calls' # <<>> => Right(calls[1])
                /\ mapped'[virt] = PhysOf(virt) \/ (calls' # <<>> /\ calls'[1].virt = virt)
  BY <1>3 DEF KernelInv
<1> QED
  BY <1>1, <1>2, <1>3 DEF KernelInv, Right, PhysOf

(* Before a call of the loop the kernel's pages are ready or still to come.*)
LEMMA KernelCall ==
  ASSUME CallsInv, ImageInv, KernelInv, CallMapPage
  PROVE  KernelInv'
<1>1. /\ calls = <<>> /\ todo \in Seq(Calls) /\ todo # <<>> /\ calls' = <<Head(todo)>>
      /\ todo' = Tail(todo) /\ UNCHANGED <<elf, at, mapped, pc>>
  BY DEF CallsInv, CallMapPage, infoVars
<1>2. /\ Len(todo') = Len(todo) - 1 /\ todo' \in Seq(Calls)
      /\ \A k \in 1 .. Len(todo') : todo'[k] = todo[k + 1]
  BY <1>1, HeadTailProperties
<1>3. Len(todo) \in Nat /\ DOMAIN todo = 1 .. Len(todo) /\ DOMAIN todo' = 1 .. Len(todo')
      /\ Len(todo) >= 1 /\ calls'[1] = todo[1] /\ calls' # <<>>
  BY <1>1, <1>2, EmptySeq
<1>4. \A k \in DOMAIN todo' : k + 1 \in DOMAIN todo /\ todo'[k] = todo[k + 1]
  BY <1>2, <1>3
<1>5. KernelVirt' = KernelVirt
  BY <1>1, ElfSame
<1>6. ASSUME pc \in Mapping, NEW virt \in KernelVirt
      PROVE  \/ \E k \in DOMAIN todo' : /\ todo'[k].virt = virt
                                        /\ \A j \in DOMAIN todo' : j >= k => Right(todo'[j])
             \/ /\ \A j \in DOMAIN todo' : Right(todo'[j])
                /\ calls' # <<>> => Right(calls'[1])
                /\ mapped[virt] = PhysOf(virt) \/ (calls' # <<>> /\ calls'[1].virt = virt)
  <2>1. ASSUME NEW k \in DOMAIN todo, todo[k].virt = virt, \A j \in DOMAIN todo : j >= k => Right(todo[j]),
               k > 1
        PROVE  \E l \in DOMAIN todo' : /\ todo'[l].virt = virt
                                       /\ \A j \in DOMAIN todo' : j >= l => Right(todo'[j])
    <3>1. k - 1 \in DOMAIN todo' /\ (k - 1) + 1 = k
      BY <1>2, <1>3, <2>1
    <3>2. todo'[k - 1].virt = virt
      BY <1>4, <2>1, <3>1
    <3>3. \A j \in DOMAIN todo' : j >= k - 1 => j + 1 >= k
      BY <1>3, <3>1
    <3> QED
      BY <1>4, <2>1, <3>1, <3>2, <3>3
  <2>2. ASSUME NEW k \in DOMAIN todo, todo[k].virt = virt, \A j \in DOMAIN todo : j >= k => Right(todo[j]),
               ~(k > 1)
        PROVE  /\ \A j \in DOMAIN todo' : Right(todo'[j])
               /\ Right(calls'[1]) /\ calls'[1].virt = virt
    <3>1. k = 1 /\ 1 \in DOMAIN todo /\ \A j \in DOMAIN todo : j >= 1
      BY <1>3, <2>2
    <3> QED
      BY <1>3, <1>4, <2>2, <3>1
  <2>3. ASSUME \A j \in DOMAIN todo : Right(todo[j])
        PROVE  (\A j \in DOMAIN todo' : Right(todo'[j])) /\ Right(calls'[1])
    <3>1. 1 \in DOMAIN todo
      BY <1>3
    <3> QED
      BY <1>3, <1>4, <2>3, <3>1
  <2>4. \/ \E k \in DOMAIN todo : /\ todo[k].virt = virt
                                  /\ \A j \in DOMAIN todo : j >= k => Right(todo[j])
        \/ (\A j \in DOMAIN todo : Right(todo[j])) /\ mapped[virt] = PhysOf(virt)
    BY <1>1, <1>6 DEF KernelInv
  <2> QED
    BY <1>3, <2>1, <2>2, <2>3, <2>4
<1> QED
  BY <1>1, <1>5, <1>6 DEF KernelInv, Right, PhysOf

(* The call of the loop stays at the bottom until the nested ones are done.*)
LEMMA CallsFront ==
  ASSUME NEW s \in Seq(Calls), s # <<>>
  PROVE  /\ Len(s) = 1 => SubSeq(s, 1, Len(s) - 1) = <<>>
         /\ Len(s) # 1 => /\ SubSeq(s, 1, Len(s) - 1) # <<>>
                          /\ SubSeq(s, 1, Len(s) - 1)[1] = s[1]
<1> DEFINE n == Len(s)
           t == SubSeq(s, 1, n - 1)
<1>1. n \in Nat /\ n >= 1 /\ DOMAIN s = 1 .. n /\ \A k \in 1 .. n - 1 : s[k] \in Calls
  BY EmptySeq
<1> HIDE DEF n
<1>2. /\ t \in Seq(Calls) /\ Len(t) = IF 1 <= n - 1 THEN (n - 1) - 1 + 1 ELSE 0
      /\ \A k \in 1 .. (n - 1) - 1 + 1 : t[k] = s[1 + k - 1]
  BY <1>1, SubSeqProperties
<1> HIDE DEF t
<1>3. ASSUME n = 1 PROVE t = <<>>
  <2>1. Len(t) = 0
    BY <1>2, <1>3
  <2> QED
    BY <1>2, <2>1, EmptySeq
<1>4. ASSUME n # 1 PROVE t # <<>> /\ t[1] = s[1]
  <2>1. Len(t) > 0 /\ 1 \in 1 .. (n - 1) - 1 + 1 /\ 1 + 1 - 1 = 1
    BY <1>1, <1>2, <1>4
  <2> QED
    BY <1>2, <2>1
<1> QED
  BY <1>3, <1>4 DEF n, t

(* A nested call maps a page of the memory; the call of the loop maps its  *)
(* own page.                                                               *)
LEMMA KernelSetEntry ==
  ASSUME MemoryInv, CallsInv, ImageInv, KernelInv, SetEntry
  PROVE  KernelInv'
<1> DEFINE n == Len(calls)
           c == calls[n]
<1>1. /\ calls \in Seq(Calls) /\ calls # <<>> /\ calls' = SubSeq(calls, 1, n - 1)
      /\ mapped' = [mapped EXCEPT ![c.virt] = c.phys]
      /\ UNCHANGED <<elf, at, todo, pc>>
  BY DEF CallsInv, SetEntry, Top, Last, Front, infoVars
<1>2. n \in Nat /\ n >= 1 /\ DOMAIN calls = 1 .. n /\ n \in DOMAIN calls
  BY <1>1, EmptySeq
<1>3. (n = 1 => calls' = <<>>) /\ (n # 1 => calls' # <<>> /\ calls'[1] = calls[1])
  BY <1>1, CallsFront
<1>4. KernelVirt' = KernelVirt
  BY <1>1, ElfSame
<1>5. c \in Calls /\ (n > 1 => c.virt \in Pages)
  <2>1. \A k \in DOMAIN calls : calls[k] \in Calls /\ (k > 1 => calls[k].virt \in Pages)
    BY <1>1, ElementOfSeq DEF CallsInv
  <2> HIDE DEF n
  <2> QED
    BY <1>2, <2>1
<1> HIDE DEF n, c
<1>6. ASSUME pc \in Mapping, NEW virt \in KernelVirt
      PROVE  \/ \E k \in DOMAIN todo : /\ todo[k].virt = virt
                                       /\ \A j \in DOMAIN todo : j >= k => Right(todo[j])
             \/ /\ \A j \in DOMAIN todo : Right(todo[j])
                /\ calls' # <<>> => Right(calls'[1])
                /\ mapped'[virt] = PhysOf(virt) \/ (calls' # <<>> /\ calls'[1].virt = virt)
  <2>1. virt \notin Pages /\ virt \in DOMAIN mapped
    <3>1. elf \in Elves /\ elf # NoElf
      BY <1>6 DEF ImageInv
    <3>2. virt \in Int /\ virt >= kernel_vaddr /\ virt \in 0 .. kernel_stack - 1
      BY <3>1, KernelVirtual
    <3> QED
      BY <3>2, AboveMemory DEF CallsInv
  <2>2. \/ \E k \in DOMAIN todo : /\ todo[k].virt = virt
                                  /\ \A j \in DOMAIN todo : j >= k => Right(todo[j])
        \/ /\ \A j \in DOMAIN todo : Right(todo[j])
           /\ Right(calls[1])
           /\ mapped[virt] = PhysOf(virt) \/ calls[1].virt = virt
    BY <1>1, <1>6 DEF KernelInv
  <2>3. CASE n = 1
    <3>1. ASSUME Right(calls[1]), mapped[virt] = PhysOf(virt) \/ calls[1].virt = virt
          PROVE  mapped'[virt] = PhysOf(virt)
      <4>1. c = calls[1]
        BY <2>3 DEF c
      <4>2. CASE c.virt = virt
        BY <1>1, <1>6, <2>1, <3>1, <4>1, <4>2 DEF Right
      <4>3. CASE c.virt # virt
        BY <1>1, <2>1, <3>1, <4>1, <4>3
      <4> QED
        BY <4>2, <4>3
    <3>2. calls' = <<>>
      BY <1>3, <2>3
    <3> QED
      BY <2>2, <3>1, <3>2
  <2>4. CASE n # 1
    <3>1. c.virt # virt
      BY <1>2, <1>5, <2>1, <2>4
    <3>2. mapped'[virt] = mapped[virt]
      BY <1>1, <2>1, <3>1
    <3>3. calls' # <<>> /\ calls'[1] = calls[1]
      BY <1>3, <2>4
    <3> QED
      BY <2>2, <3>2, <3>3
  <2> QED
    BY <2>3, <2>4
<1>7. ASSUME pc' \in Mapping, NEW virt \in KernelVirt'
      PROVE  \/ \E k \in DOMAIN todo' : /\ todo'[k].virt = virt
                                        /\ \A j \in DOMAIN todo' : j >= k => Right(todo'[j])
             \/ /\ \A j \in DOMAIN todo' : Right(todo'[j])
                /\ calls' # <<>> => Right(calls'[1])
                /\ mapped'[virt] = PhysOf(virt) \/ (calls' # <<>> /\ calls'[1].virt = virt)
  BY <1>1, <1>4, <1>6, <1>7
<1>8. UNCHANGED at
  BY <1>1
<1> QED
  BY <1>4, <1>7, <1>8 DEF KernelInv, Right, PhysOf

(* The kernel's calls are the last ones of the loops.                      *)
LEMMA KernelMapMemory ==
  ASSUME MemoryInv, MapInv, ImageInv, IdleInv, MapMemory
  PROVE  KernelInv'
<1>1. /\ pc = "map" /\ todo' = MappingCalls /\ UNCHANGED <<elf, at, mapped, calls>> /\ calls = <<>>
  BY DEF MapMemory, MappingCalls, infoVars, IdleInv
<1>2. elf \in Elves /\ elf # NoElf /\ \E p \in Pages : at["kernel"] = p .. p + kernel_pages - 1
  BY <1>1 DEF ImageInv, ToMap
<1>3. \E p \in Nat : at["kernel"] = p .. p + kernel_pages - 1
  BY <1>2 DEF MemoryInv
<1>4. memmap \in Seq(Descs)
  BY DEF MapInv
<1>5. PICK n \in Nat :
        /\ \A virt \in KernelVirt : \E k \in DOMAIN MappingCalls : k > n /\ MappingCalls[k].virt = virt
        /\ \A k \in DOMAIN MappingCalls : k > n => Right(MappingCalls[k])
  BY <1>2, <1>3, <1>4, MappingCallsRight
<1>6. DOMAIN MappingCalls \subseteq Int
  <2>1. MappingCalls \in Seq(Calls)
    BY <1>2, <1>3, <1>4, MappingCallsRight
  <2> QED
    BY <2>1
<1>7. KernelVirt' = KernelVirt
  BY <1>1, ElfSame
<1>8. ASSUME NEW virt \in KernelVirt
      PROVE  \E k \in DOMAIN todo' : /\ todo'[k].virt = virt
                                     /\ \A j \in DOMAIN todo' : j >= k => Right(todo'[j])
  <2>1. PICK k \in DOMAIN MappingCalls : k > n /\ MappingCalls[k].virt = virt
    BY <1>5
  <2>2. \A j \in DOMAIN MappingCalls : j >= k => j > n
    BY <1>6, <2>1
  <2> QED
    BY <1>1, <1>5, <2>1, <2>2
<1> QED
  BY <1>1, <1>7, <1>8 DEF KernelInv, Right, PhysOf

(* The loops have ended, and the next call is for another page.            *)
LEMMA KernelNext ==
  ASSUME KernelInv, Idle, pc \in Mapping, UNCHANGED <<elf, calls, mapped>>,
         at'["kernel"] = at["kernel"], \A k \in DOMAIN todo' : todo'[k].virt \notin KernelVirt
  PROVE  KernelInv'
<1>1. KernelVirt' = KernelVirt
  BY ElfSame
<1>2. \A virt \in KernelVirt : mapped[virt] = PhysOf(virt)
  BY DEF KernelInv, Idle
<1>3. \A k \in DOMAIN todo' : Right(todo'[k])
  BY DEF Right
<1> QED
  BY <1>1, <1>2, <1>3 DEF KernelInv, Idle, Right, PhysOf

(* No step maps the kernel's pages to anything else.                       *)
LEMMA KernelKept ==
  ASSUME MemoryInv, CallsInv, MapInv, ImageInv, KernelInv, IdleInv, BootNext
  PROVE  KernelInv'
<1>1. ASSUME NEW n, OutOfMemory(n) PROVE KernelInv'
  BY <1>1 DEF OutOfMemory, KernelInv, Mapping, Running
<1>2. CASE GetSize \/ AllocMemmap \/ ReadMemmap \/ SetMode \/ NotElf \/ LoadKernel \/ CountFreemap
           \/ Reread \/ FillFreemap
  <2>1. pc' \notin Mapping
    BY <1>2
    DEF GetSize, AllocMemmap, ReadMemmap, SetMode, NotElf, LoadKernel, CountFreemap, Reread,
        FillFreemap, OutOfMemory, Goto, Mapping, Running
  <2> QED
    BY <2>1 DEF KernelInv
<1>3. CASE NewTable
  <2>1. CASE UNCHANGED <<infoVars, at, mapped, todo, pc>> /\ \E p : calls' = calls \o SelfMap(p)
                                                                  /\ p \in Nat
    <3>1. PICK p \in Nat : calls' = calls \o <<Call(p, p)>>
      BY <2>1 DEF SelfMap
    <3>2. calls \in Seq(Calls) /\ calls # <<>> /\ <<Call(p, p)>> \in Seq(Calls)
      BY <1>3 DEF CallsInv, NewTable, Call, Calls
    <3>3. 1 \in DOMAIN calls
      BY <3>2, EmptySeq
    <3>4. /\ calls' \in Seq(Calls) /\ 1 \in DOMAIN calls' /\ calls'[1] = calls[1]
      BY <3>1, <3>2, <3>3, ConcatEntries
    <3>5. calls' # <<>>
      BY <3>4
    <3> QED
      BY <2>1, <3>2, <3>4, <3>5, KernelSame DEF infoVars
  <2>2. ASSUME NEW p \in Places(1), TakePages(p, 1) PROVE p \in Nat
    BY <2>2, Taking
  <2> QED
    BY <1>1, <1>3, <2>1, <2>2 DEF NewTable
<1>4. CASE AllocBitmap
  <2>1. ASSUME NEW n, NEW p \in Places(n), TakePages(p, n),
               at' = [at EXCEPT !["bitmap"] = p .. p + n - 1],
               todo' = IF n = 0 THEN <<>> ELSE Identity(p, 1), UNCHANGED <<infoVars, mapped, calls>>
        PROVE  KernelInv'
    <3>1. p \in Nat /\ p < kernel_vaddr
      BY <2>1, Taking
    <3>2. pc \in Mapping /\ Idle
      BY <1>4 DEF AllocBitmap, Mapping
    <3>3. elf \in Elves /\ elf # NoElf
      BY <3>2 DEF ImageInv
    <3>4. \A k \in DOMAIN Identity(p, 1) : Identity(p, 1)[k].virt = p
      <4>1. DOMAIN Identity(p, 1) = {1} /\ Identity(p, 1)[1] = Call(p + 1 - 1, p + 1 - 1) /\ p + 1 - 1 = p
        BY <3>1 DEF Identity
      <4> QED
        BY <4>1 DEF Call
    <3>5. p \notin KernelVirt
      BY <3>1, <3>3, KernelVirtual, Numbers
    <3>6. \A k \in DOMAIN todo' : todo'[k].virt \notin KernelVirt
      BY <2>1, <3>4, <3>5
    <3>7. at'["kernel"] = at["kernel"]
      BY <2>1 DEF MemoryInv, Purposes
    <3> QED
      BY <2>1, <3>2, <3>6, <3>7, KernelNext DEF infoVars
  <2> QED
    BY <1>1, <1>4, <2>1 DEF AllocBitmap
<1>5. CASE AllocStack
  <2>1. ASSUME NEW p, at' = [at EXCEPT !["stack"] = {p}], todo' = <<Call(p, kernel_stack - 1)>>,
               UNCHANGED <<infoVars, mapped, calls>>
        PROVE  KernelInv'
    <3>1. pc \in Mapping /\ Idle
      BY <1>5 DEF AllocStack, Mapping
    <3>2. elf \in Elves /\ elf # NoElf
      BY <3>1 DEF ImageInv
    <3>3. kernel_stack - 1 \notin KernelVirt
      BY <3>2, KernelVirtual, Numbers
    <3>4. \A k \in DOMAIN todo' : todo'[k].virt = kernel_stack - 1
      BY <2>1 DEF Call
    <3>5. at'["kernel"] = at["kernel"]
      BY <2>1 DEF MemoryInv, Purposes
    <3> QED
      BY <2>1, <3>1, <3>3, <3>4, <3>5, KernelNext DEF infoVars
  <2> QED
    BY <1>1, <1>5, <2>1 DEF AllocStack
<1>6. CASE ExitAndEnter
  <2>1. UNCHANGED <<elf, at, todo, mapped, calls>> /\ pc \in Mapping
    BY <1>6 DEF ExitAndEnter, infoVars, pageVars, Mapping
  <2> QED
    BY <2>1, KernelSame
<1> QED
  BY <1>2, <1>3, <1>4, <1>5, <1>6, KernelCall, KernelSetEntry, KernelMapMemory DEF BootNext, MapPage

-----------------------------------------------------------------------------
(* The stack is mapped                                                     *)

(* The steps of map_page in the last loop, for the stack.                  *)
LEMMA StackMapPage ==
  ASSUME MemoryInv, CallsInv, StackInv, MapPage, pc' = "exit", pc = "exit"
  PROVE  \/ Len(todo') = 1 /\ todo'[1].virt = kernel_stack - 1 /\ todo'[1].phys \in at'["stack"]
         \/ todo' = <<>> /\ calls' # <<>> /\ calls'[1].virt = kernel_stack - 1
            /\ calls'[1].phys \in at'["stack"]
         \/ todo' = <<>> /\ calls' = <<>> /\ mapped'[kernel_stack - 1] \in at'["stack"]
<1>1. \/ Len(todo) = 1 /\ todo[1].virt = kernel_stack - 1 /\ todo[1].phys \in at["stack"]
      \/ todo = <<>> /\ calls # <<>> /\ calls[1].virt = kernel_stack - 1 /\ calls[1].phys \in at["stack"]
      \/ todo = <<>> /\ calls = <<>> /\ mapped[kernel_stack - 1] \in at["stack"]
  BY DEF StackInv, ForStack
<1>2. calls \in Seq(Calls) /\ todo \in Seq(Calls) /\ mapped \in [0 .. kernel_stack - 1 -> Int]
  BY DEF CallsInv
<1>3. CASE NewTable
  <2>1. PICK p \in Places(1) : /\ TakePages(p, 1) /\ calls' = calls \o SelfMap(p)
                               /\ UNCHANGED <<at, todo>> /\ calls # <<>>
    BY <1>3 DEF NewTable, OutOfMemory
  <2>2. p \in Nat
    BY <2>1, Taking
  <2>3. <<Call(p, p)>> \in Seq(Calls) /\ 1 \in DOMAIN calls
    BY <1>2, <2>1, <2>2, EmptySeq DEF Call, Calls
  <2>4. calls' \in Seq(Calls) /\ 1 \in DOMAIN calls' /\ calls'[1] = calls[1]
    BY <1>2, <2>1, <2>3, ConcatEntries DEF SelfMap
  <2>5. calls' # <<>>
    BY <2>4
  <2> QED
    BY <1>1, <2>1, <2>4, <2>5
<1>4. CASE SetEntry
  <2> DEFINE n == Len(calls)
             c == calls[n]
  <2>1. /\ calls # <<>> /\ calls' = SubSeq(calls, 1, n - 1)
        /\ mapped' = [mapped EXCEPT ![c.virt] = c.phys] /\ UNCHANGED <<at, todo>>
    BY <1>4 DEF SetEntry, Top, Last, Front
  <2>2. (n = 1 => calls' = <<>>) /\ (n # 1 => calls' # <<>> /\ calls'[1] = calls[1])
    BY <1>2, <2>1, CallsFront
  <2> HIDE DEF n
  <2>3. CASE n = 1 /\ todo = <<>> /\ calls[1].virt = kernel_stack - 1 /\ calls[1].phys \in at["stack"]
    <3>1. kernel_stack - 1 \in DOMAIN mapped
      BY <1>2, Numbers
    <3>2. mapped'[kernel_stack - 1] = calls[1].phys
      BY <2>1, <2>3, <3>1
    <3> QED
      BY <2>1, <2>2, <2>3, <3>2
  <2> HIDE DEF c
  <2> QED
    BY <1>1, <2>1, <2>2, <2>3
<1>5. CASE CallMapPage
  <2>1. todo # <<>> /\ calls' = <<Head(todo)>> /\ todo' = Tail(todo) /\ at' = at
    BY <1>5 DEF CallMapPage
  <2>2. Len(todo) = 1 /\ todo[1].virt = kernel_stack - 1 /\ todo[1].phys \in at["stack"]
    BY <1>1, <2>1
  <2>3. Tail(todo) \in Seq(Calls) /\ Len(Tail(todo)) = 0
    BY <1>2, <2>1, <2>2, HeadTailProperties
  <2>4. todo' = <<>>
    BY <2>1, <2>3, EmptySeq
  <2>5. calls'[1] = todo[1] /\ calls' # <<>>
    BY <1>2, <2>1
  <2> QED
    BY <2>1, <2>2, <2>4, <2>5
<1> QED
  BY <1>3, <1>4, <1>5 DEF MapPage

(* The kernel is entered with its stack mapped.                            *)
LEMMA StackKept ==
  ASSUME MemoryInv, CallsInv, IdleInv, StackInv, BootNext
  PROVE  StackInv'
<1> DEFINE After == {"exit"} \cup Running
<1>1. ASSUME pc' \notin After PROVE StackInv'
  BY <1>1 DEF StackInv
<1>2. ASSUME NEW n, OutOfMemory(n) PROVE StackInv'
  BY <1>1, <1>2 DEF OutOfMemory, Running
<1>3. CASE GetSize \/ AllocMemmap \/ ReadMemmap \/ SetMode \/ NotElf \/ LoadKernel \/ CountFreemap
           \/ Reread \/ FillFreemap \/ MapMemory \/ AllocBitmap
  <2>1. pc' \notin After
    BY <1>3
    DEF GetSize, AllocMemmap, ReadMemmap, SetMode, NotElf, LoadKernel, CountFreemap, Reread,
        FillFreemap, MapMemory, AllocBitmap, OutOfMemory, Goto, Running
  <2> QED
    BY <1>1, <2>1
<1>4. CASE AllocStack
  <2>1. ASSUME NEW p, at' = [at EXCEPT !["stack"] = {p}], todo' = <<Call(p, kernel_stack - 1)>>,
               pc' = "exit"
        PROVE  StackInv'
    <3>1. at'["stack"] = {p}
      BY <2>1 DEF MemoryInv, Purposes
    <3>2. Len(todo') = 1 /\ todo'[1].virt = kernel_stack - 1 /\ todo'[1].phys = p
      BY <2>1 DEF Call
    <3> QED
      BY <2>1, <3>1, <3>2 DEF StackInv, ForStack, Running
  <2> QED
    BY <1>2, <1>4, <2>1 DEF AllocStack, Goto
<1>5. CASE ExitAndEnter
  <2>1. /\ pc = "exit" /\ pc' = "kernel" /\ calls = <<>> /\ todo = <<>>
        /\ UNCHANGED <<at, mapped>>
    BY <1>5 DEF ExitAndEnter, Idle, pageVars
  <2>2. Len(todo) # 1
    BY <2>1
  <2>3. mapped[kernel_stack - 1] \in at["stack"]
    BY <2>1, <2>2 DEF StackInv
  <2> QED
    BY <2>1, <2>3 DEF StackInv
<1>6. CASE MapPage
  <2>1. pc \notin Running
    BY <1>6 DEF IdleInv, MapPage, NewTable, SetEntry, CallMapPage
  <2>2. pc' = pc \/ pc' = "lost"
    BY <1>6 DEF MapPage, NewTable, SetEntry, CallMapPage, OutOfMemory
  <2>3. CASE pc' = "exit"
    <3>1. pc = "exit"
      BY <2>2, <2>3
    <3> QED
      BY <1>6, <2>3, <3>1, StackMapPage DEF StackInv, ForStack, Running
  <2>4. CASE pc' # "exit"
    BY <1>1, <2>1, <2>2, <2>4 DEF Running
  <2> QED
    BY <2>3, <2>4
<1> QED
  BY <1>3, <1>4, <1>5, <1>6 DEF BootNext

-----------------------------------------------------------------------------
(* The bootloader                                                          *)

(* It holds at the start.                                                  *)
LEMMA BootInitially ==
  ASSUME BootInit
  PROVE  BootInv
<1>1. PICK firmware \in Firmwares :
        fw = firmware.map /\ gop = [modes |-> firmware.modes, mode |-> 1]
  BY DEF BootInit
<1>2. /\ at = [purpose \in Purposes |-> {}]
      /\ tables = [e \in 0 .. Entry(kernel_stack - 1) |-> None]
      /\ mapped = [v \in 0 .. kernel_stack - 1 |-> None]
      /\ calls = <<>> /\ todo = <<>> /\ pc = "size" /\ elf \in Elves
      /\ memmap = <<>> /\ mm_descs = 0 /\ fm_descs = 0 /\ freemap = <<>>
  BY DEF BootInit
<1>3. /\ \E n \in 0 .. kernel_vaddr : firmware.map \in [0 .. n - 1 -> Types \ {"taken"}]
      /\ firmware.modes \in Seq(Modes) /\ firmware.modes # <<>>
      /\ \A m \in DOMAIN firmware.modes :
           /\ firmware.modes[m].w <= firmware.modes[m].pixperline
           /\ firmware.modes[m].pixperline * firmware.modes[m].h <= firmware.modes[m].fbsize
  BY MachineAssumption, Zenon
<1>4. MemoryInv
  <2>1. PICK n \in 0 .. kernel_vaddr : fw \in [0 .. n - 1 -> Types \ {"taken"}]
    BY <1>1, <1>3
  <2>2. Pages = 0 .. n - 1 /\ fw \in [Pages -> Types]
    BY <2>1 DEF Pages
  <2>3. DOMAIN at = Purposes /\ \A purpose \in Purposes : at[purpose] = {}
    BY <1>2
  <2>4. \A e \in DOMAIN tables : tables[e] = None
    BY <1>2
  <2> QED
    BY <2>2, <2>3, <2>4 DEF MemoryInv
<1>5. CallsInv
  <2>1. mapped \in [0 .. kernel_stack - 1 -> Int]
    BY <1>2 DEF None
  <2>2. \A e \in DOMAIN tables : tables[e] = None
    BY <1>2
  <2>3. <<>> \in Seq(Calls) /\ DOMAIN <<>> = {}
    OBVIOUS
  <2> QED
    BY <1>2, <2>1, <2>2, <2>3 DEF CallsInv
<1>6. MapInv
  <2>1. RereadProtects
    BY <1>2 DEF RereadProtects
  <2>2. <<>> \in Seq(Descs) /\ Len(<<>>) = 0
    OBVIOUS
  <2>3. mm_desc_size \in Nat /\ mm_desc_size >= memmap_t
    BY Numbers DEF BootInit
  <2> QED
    BY <1>2, <2>1, <2>2, <2>3 DEF MapInv, ToRead, ToFill
<1>7. ImageInv /\ KernelInv /\ IdleInv /\ StackInv
  BY <1>2 DEF ImageInv, KernelInv, IdleInv, StackInv, ToMap, Mapping, Running
<1>8. ModeInv
  <2>1. gop \in [modes : Seq(Modes), mode : Nat] /\ gop.modes = firmware.modes
    BY <1>1, <1>3
  <2> QED
    BY <1>2, <1>3, <2>1 DEF ModeInv, ToMap, Mapping, Running
<1> QED
  BY <1>4, <1>5, <1>6, <1>7, <1>8 DEF BootInv

(* The bootloader's inductive invariant.                                   *)
LEMMA BootKept ==
  ASSUME BootInv, BootNext
  PROVE  BootInv'
  BY MemoryKept, CallsKept, MapKept, ImageKept, KernelKept, IdleKept, StackKept, ModeKept DEF BootInv

(* The steps of the kernel leave what the bootloader has made.             *)
LEMMA BootSame ==
  ASSUME BootInv, UNCHANGED <<firmwareVars, mapVars, infoVars, at, pageVars, exited>>,
         pc \in Running, pc' \in Running \cup {"wiped", "lost"}
  PROVE  BootInv'
<1>1. MemoryInv'
  BY MemorySame DEF BootInv, firmwareVars, pageVars
<1>2. CallsInv'
  BY CallsSame DEF BootInv, CallsInv, firmwareVars, pageVars, Pages
<1>3. MapInv'
  <2>1. RereadProtects'
    BY RereadSame DEF BootInv, MapInv, mapVars, infoVars
  <2>2. pc' \notin ToRead \cup ToFill \cup {"fill"}
    BY DEF Running, ToRead, ToFill
  <2> QED
    BY <2>1, <2>2 DEF BootInv, MapInv, mapVars, infoVars
<1>4. ImageInv'
  BY ImageSame DEF BootInv, infoVars, firmwareVars, Pages, Mapping
<1>5. KernelInv'
  BY KernelSame DEF BootInv, infoVars, pageVars, Mapping
<1>6. IdleInv' /\ StackInv'
  BY DEF BootInv, IdleInv, StackInv, pageVars, Running, ToRead, ToFill
<1>7. ModeInv'
  BY DEF BootInv, ModeInv, firmwareVars, infoVars, Mapping
<1> QED
  BY <1>1, <1>2, <1>3, <1>4, <1>5, <1>6, <1>7 DEF BootInv

(* A step that changes nothing.                                            *)
LEMMA BootStutters ==
  ASSUME BootInv, UNCHANGED <<firmwareVars, mapVars, infoVars, at, pageVars, exited, pc>>
  PROVE  BootInv'
<1>1. UNCHANGED <<fw, gop, tables, mapped, calls, todo, fb, fm_descs, freemap, elf, image, mm_desc_size,
                  memmapsize, memmap, mm_descs, stale, at, pc>>
  BY DEF firmwareVars, mapVars, infoVars, pageVars
<1>2. Pages' = Pages
  BY <1>1 DEF Pages
<1>3. MemoryInv'
  BY <1>1, MemorySame DEF BootInv
<1>4. CallsInv'
  BY <1>1, <1>2, CallsSame DEF BootInv, CallsInv
<1>5. MapInv'
  <2>1. RereadProtects'
    BY <1>1, RereadSame DEF BootInv, MapInv
  <2> QED
    BY <1>1, <2>1 DEF BootInv, MapInv
<1>6. ImageInv'
  BY <1>1, <1>2, ImageSame DEF BootInv
<1>7. KernelInv'
  BY <1>1, KernelSame DEF BootInv
<1>8. IdleInv'
  BY <1>1 DEF BootInv, IdleInv
<1>9. StackInv'
  BY <1>1 DEF BootInv, StackInv, ForStack
<1>10. ModeInv'
  BY <1>1 DEF BootInv, ModeInv
<1> QED
  BY <1>3, <1>4, <1>5, <1>6, <1>7, <1>8, <1>9, <1>10 DEF BootInv

-----------------------------------------------------------------------------
(* The kernel's entry                                                      *)

(* The bootloader's last step enters the kernel.                           *)
LEMMA BootStops ==
  ASSUME IdleInv, BootNext
  PROVE  pc' \notin Running \ {"kernel"} /\ pc' # "wiped"
<1>1. CASE MapPage
  <2>1. pc \notin Running \cup {"wiped"}
    BY <1>1 DEF IdleInv, MapPage, NewTable, SetEntry, CallMapPage
  <2>2. pc' = pc \/ pc' = "lost"
    BY <1>1 DEF MapPage, NewTable, SetEntry, CallMapPage, OutOfMemory
  <2> QED
    BY <2>1, <2>2 DEF Running
<1>2. CASE BootNext /\ ~MapPage
  BY <1>2
  DEF BootNext, GetSize, AllocMemmap, ReadMemmap, SetMode, NotElf, LoadKernel, CountFreemap, Reread,
      FillFreemap, MapMemory, AllocBitmap, AllocStack, ExitAndEnter, OutOfMemory, Goto, Running
<1> QED
  BY <1>1, <1>2

(* The address of some pages is a number, and of a page if there are any.  *)
LEMMA AddressRight ==
  ASSUME MemoryInv, NEW purpose \in Purposes
  PROVE  /\ Address(at[purpose]) \in Nat
         /\ at[purpose] # {} => Address(at[purpose]) = Min(at[purpose])
                                /\ Address(at[purpose]) \in at[purpose]
<1>1. at[purpose] \in SUBSET Nat
  BY Numbers DEF MemoryInv
<1> QED
  BY <1>1, MinMember DEF Address

(* What the kernel knows when the bootloader's mappings end.               *)
LEMMA KernelPlace ==
  ASSUME BootInv, pc \in Running
  PROVE  /\ elf \in Elves /\ elf # NoElf
         /\ \E p \in Nat : at["kernel"] = p .. p + kernel_pages - 1 /\ Min(at["kernel"]) = p
         /\ fb \in Modes /\ at["stack"] \subseteq Nat /\ mapped[kernel_stack - 1] \in at["stack"]
<1>1. pc \in Mapping
  BY DEF Mapping
<1>2. elf \in Elves /\ elf # NoElf /\ \E p \in Pages : at["kernel"] = p .. p + kernel_pages - 1
  BY <1>1 DEF BootInv, ImageInv
<1>3. PICK p \in Nat : at["kernel"] = p .. p + kernel_pages - 1
  BY <1>2 DEF BootInv, MemoryInv
<1>4. Min(at["kernel"]) = p
  BY <1>2, <1>3, KernelCallsRight
<1>5. fb \in Modes
  <2>1. gop.modes \in Seq(Modes) /\ gop.mode \in DOMAIN gop.modes /\ fb = gop.modes[gop.mode]
    BY <1>1 DEF BootInv, ModeInv
  <2> QED
    BY <2>1, ElementOfSeq
<1>6. at["stack"] \subseteq Nat
  BY Numbers DEF BootInv, MemoryInv, Purposes
<1>7. mapped[kernel_stack - 1] \in at["stack"]
  BY DEF BootInv, StackInv
<1> QED
  BY <1>2, <1>3, <1>4, <1>5, <1>6, <1>7

(* init_globals copies what the bootloader has found.                      *)
LEMMA GlobalsKept ==
  ASSUME BootInv, GlobalsInv, EntryNext
  PROVE  GlobalsInv'
<1>1. CASE BootNext /\ UNCHANGED kernelVars
  <2>1. pc' \notin Running \ {"kernel"}
    BY <1>1, BootStops DEF BootInv
  <2> QED
    BY <2>1 DEF GlobalsInv
<1>2. CASE InitGlobals
  <2>1. /\ pc = "kernel" /\ UNCHANGED <<at, elf, fb>>
        /\ globals'.kernel_paddr = Address(at["kernel"]) /\ globals'.kernel_size = kernel_mem_size
        /\ globals'.kernel_stack_paddr = Address(at["stack"])
        /\ globals'.freemap = Address(at["freemap"]) /\ globals'.pmem_bmap = Address(at["bitmap"])
        /\ globals'.fb = fb
    BY <1>2 DEF InitGlobals, infoVars
  <2>2. /\ elf \in Elves /\ elf # NoElf
        /\ \E p \in Nat : at["kernel"] = p .. p + kernel_pages - 1 /\ Min(at["kernel"]) = p
        /\ mapped[kernel_stack - 1] \in at["stack"]
    BY <2>1, KernelPlace DEF Running
  <2>3. at["kernel"] # {} /\ at["stack"] # {}
    <3>1. kernel_pages \in Nat /\ kernel_pages >= 1
      BY <2>2, KernelSize
    <3>2. PICK p \in Nat : at["kernel"] = p .. p + kernel_pages - 1
      BY <2>2
    <3>3. p \in p .. p + kernel_pages - 1
      BY <3>1
    <3> QED
      BY <2>2, <3>2, <3>3
  <2>4. MemoryInv
    BY DEF BootInv
  <2>5. Address(at["kernel"]) = Min(at["kernel"])
    BY <2>3, <2>4, AddressRight DEF Purposes
  <2>6. Address(at["stack"]) \in at["stack"]
    BY <2>3, <2>4, AddressRight DEF Purposes
  <2>7. Address(at["freemap"]) \in Nat /\ Address(at["bitmap"]) \in Nat
    BY <2>4, AddressRight DEF Purposes
  <2>8. kernel_mem_size' = kernel_mem_size
    BY <2>1, ElfSame
  <2> QED
    BY <2>1, <2>5, <2>6, <2>7, <2>8 DEF GlobalsInv
<1>3. CASE InitPaging \/ FillScreen \/ FillSquare \/ Rest
  <2>1. UNCHANGED <<at, elf, fb, globals>>
    BY <1>3 DEF InitPaging, FillScreen, FillSquare, Rest, bootVars, infoVars, kernelVars
  <2>2. pc \in Running \ {"kernel"}
    BY <1>3 DEF InitPaging, FillScreen, FillSquare, Rest, Running
  <2>3. kernel_mem_size' = kernel_mem_size
    BY <2>1, ElfSame
  <2> QED
    BY <2>1, <2>2, <2>3 DEF GlobalsInv
<1> QED
  BY <1>1, <1>2, <1>3 DEF EntryNext

-----------------------------------------------------------------------------
(* The kernel's own tables                                                 *)

(* The entries of two sequences are those of the one made of them.         *)
LEMMA ConcatSet ==
  ASSUME NEW s \in Seq(Calls), NEW t \in Seq(Calls)
  PROVE  s \o t \in Seq(Calls) /\ ToSet(s \o t) = ToSet(s) \cup ToSet(t)
<1> DEFINE u == s \o t
<1>1. /\ u \in Seq(Calls)
      /\ \A k \in DOMAIN s : k \in DOMAIN u /\ u[k] = s[k]
      /\ \A k \in DOMAIN t : Len(s) + k \in DOMAIN u /\ u[Len(s) + k] = t[k]
      /\ \A k \in DOMAIN u : k \notin DOMAIN s => k - Len(s) \in DOMAIN t /\ u[k] = t[k - Len(s)]
  BY ConcatEntries
<1> HIDE DEF u
<1>2. \A c \in ToSet(u) : c \in ToSet(s) \cup ToSet(t)
  BY <1>1 DEF ToSet
<1>3. \A c \in ToSet(s) : c \in ToSet(u)
  BY <1>1 DEF ToSet
<1>4. \A c \in ToSet(t) : c \in ToSet(u)
  BY <1>1 DEF ToSet
<1>5. ToSet(u) = ToSet(s) \cup ToSet(t)
  BY <1>2, <1>3, <1>4
<1> QED
  BY <1>1, <1>5 DEF u

(* n pages from virt on, mapped to as many from phys on.                   *)
IsRow(row, phys, virt, n) ==
  /\ row \in Seq(Calls)
  /\ \A c \in ToSet(row) : c.virt \in virt .. virt + n - 1 /\ c.phys = phys + (c.virt - virt)
  /\ \A v \in virt .. virt + n - 1 : \E c \in ToSet(row) : c.virt = v

(* The calls of a loop over n pages are such a row.                        *)
LEMMA RowRight ==
  ASSUME NEW phys \in Int, NEW virt \in Int, NEW n \in Nat
  PROVE  IsRow(Row(phys, virt, n), phys, virt, n)
<1> DEFINE row == Row(phys, virt, n)
<1>1. row = [k \in 1 .. n |-> Call(phys + k - 1, virt + k - 1)]
  BY DEF Row
<1>2. \A k \in 1 .. n : Call(phys + k - 1, virt + k - 1) \in Calls
  BY DEF Call, Calls
<1> HIDE DEF row
<1>3. row \in Seq(Calls) /\ DOMAIN row = 1 .. n
  BY <1>1, <1>2
<1>4. \A k \in 1 .. n : row[k].phys = phys + k - 1 /\ row[k].virt = virt + k - 1
  BY <1>1 DEF Call
<1>5. \A k \in 1 .. n : /\ virt + k - 1 \in virt .. virt + n - 1
                        /\ phys + ((virt + k - 1) - virt) = phys + k - 1
  OBVIOUS
<1>6. ASSUME NEW c \in ToSet(row) PROVE c.virt \in virt .. virt + n - 1 /\ c.phys = phys + (c.virt - virt)
  <2>1. PICK k \in 1 .. n : c = row[k]
    BY <1>3, <1>6 DEF ToSet
  <2>2. c.phys = phys + k - 1 /\ c.virt = virt + k - 1
    BY <1>4, <2>1
  <2> QED
    BY <1>5, <2>2
<1>7. ASSUME NEW v \in virt .. virt + n - 1 PROVE \E c \in ToSet(row) : c.virt = v
  <2> DEFINE k == v - virt + 1
  <2>1. k \in 1 .. n /\ virt + k - 1 = v
    OBVIOUS
  <2> HIDE DEF k
  <2>2. row[k] \in ToSet(row) /\ row[k].virt = v
    BY <1>3, <1>4, <2>1 DEF ToSet
  <2> QED
    BY <2>2
<1> QED
  BY <1>3, <1>6, <1>7 DEF row, IsRow

(* The last call for a page is one of the calls for it.                    *)
LEMMA LastForRight ==
  ASSUME NEW made \in Seq(Calls), NEW c \in ToSet(made)
  PROVE  LastFor(made, c.virt) \in ToSet(made) /\ LastFor(made, c.virt).virt = c.virt
<1> DEFINE K == {k \in DOMAIN made : made[k].virt = c.virt}
<1>1. Len(made) \in Nat /\ DOMAIN made = 1 .. Len(made)
  OBVIOUS
<1>2. K \in SUBSET (0 .. Len(made))
  BY <1>1
<1>3. K # {}
  BY DEF ToSet
<1>4. Max(K) \in K
  <2> HIDE DEF K
  <2> QED
    BY <1>1, <1>2, <1>3, MaxMember
<1>5. LastFor(made, c.virt) = made[Max(K)]
  BY DEF LastFor
<1> DEFINE m == Max(K)
<1> HIDE DEF m
<1>6. m \in DOMAIN made /\ made[m].virt = c.virt /\ LastFor(made, c.virt) = made[m]
  BY <1>4, <1>5 DEF m
<1> QED
  BY <1>6 DEF ToSet

(* The rows of calls do not meet: the kernel, the two entries of its heap, *)
(* its stack and the framebuffer follow each other.                        *)
LEMMA PagingCallsRight ==
  ASSUME BootInv, GlobalsInv, pc = "globals"
  PROVE  /\ InitPagingCalls \in Seq(Calls)
         /\ \A virt \in KernelVirt :
              /\ \E c \in ToSet(InitPagingCalls) : c.virt = virt
              /\ \A c \in ToSet(InitPagingCalls) : c.virt = virt => c.phys = PhysOf(virt)
         /\ \E c \in ToSet(InitPagingCalls) : c.virt = kernel_stack - 1
         /\ \A c \in ToSet(InitPagingCalls) : c.virt = kernel_stack - 1 => c.phys \in at["stack"]
         /\ \A k \in 0 .. Ceiling(fb.fbsize, PIXELS) - 1 :
              /\ \E c \in ToSet(InitPagingCalls) : c.virt = fb_vaddr + k
              /\ \A c \in ToSet(InitPagingCalls) : c.virt = fb_vaddr + k => c.phys = FRAMEBUFFER + k
         /\ \A virt \in Virtuals : virt >= kernel_vaddr
<1> DEFINE n == Ceiling(fb.fbsize, PIXELS)
           m == IF globals.memory_pages = 0 THEN 0 ELSE 1
           A == Row(globals.kernel_paddr, kernel_vaddr, kernel_pages)
           B == Row(globals.kernel_stack_paddr, kernel_stack - 1, 1)
           C == Row(FRAMEBUFFER, fb_vaddr, n)
           D == Row(globals.pmem_bmap, kernel_heap + 1, m)
           E == Row(globals.freemap, kernel_heap, 1)
           M == InitPagingCalls
<1>1. /\ elf \in Elves /\ elf # NoElf /\ fb \in Modes /\ at["stack"] \subseteq Nat
      /\ \E p \in Nat : at["kernel"] = p .. p + kernel_pages - 1 /\ Min(at["kernel"]) = p
  BY KernelPlace DEF Running
<1>2. /\ globals.kernel_paddr = Min(at["kernel"]) /\ globals.kernel_size = kernel_mem_size
      /\ globals.kernel_stack_paddr \in at["stack"]
      /\ globals.freemap \in Nat /\ globals.pmem_bmap \in Nat
      /\ globals.fb = fb
  BY DEF GlobalsInv, Running
<1>3. /\ kernel_pages \in Nat /\ kernel_vaddr + kernel_pages <= kernel_heap
      /\ kernel_vaddr \in Nat /\ kernel_heap \in Nat /\ kernel_stack \in Nat /\ fb_vaddr \in Nat
      /\ FRAMEBUFFER \in Nat /\ kernel_heap + 1 < kernel_stack - 1 /\ kernel_stack <= fb_vaddr
  BY <1>1, KernelSize, Numbers, LayoutAssumption
<1>4. n \in Nat
  <2>1. fb.fbsize \in Nat /\ PIXELS \in Nat /\ PIXELS >= 1
    BY <1>1, LayoutAssumption DEF Modes
  <2> QED
    BY <2>1, CeilingRight
<1>5. M = (((A \o B) \o C) \o D) \o E
  BY <1>2 DEF InitPagingCalls, PagesOf, kernel_pages
<1>6. m \in Nat /\ m <= 1
  OBVIOUS
<1> HIDE DEF n, m, M
<1>7. globals.kernel_paddr \in Nat /\ globals.kernel_stack_paddr \in Nat
  BY <1>1, <1>2
<1>8. IsRow(A, globals.kernel_paddr, kernel_vaddr, kernel_pages)
  <2>1. globals.kernel_paddr \in Int /\ kernel_vaddr \in Int /\ kernel_pages \in Nat
    BY <1>3, <1>7
  <2> QED
    BY <2>1, RowRight
<1>9. IsRow(B, globals.kernel_stack_paddr, kernel_stack - 1, 1)
  <2>1. kernel_stack - 1 \in Int /\ globals.kernel_stack_paddr \in Int /\ 1 \in Nat
    BY <1>3, <1>7
  <2> QED
    BY <2>1, RowRight
<1>10. IsRow(C, FRAMEBUFFER, fb_vaddr, n)
  <2>1. FRAMEBUFFER \in Int /\ fb_vaddr \in Int
    BY <1>3
  <2> QED
    BY <1>4, <2>1, RowRight
<1>11. IsRow(D, globals.pmem_bmap, kernel_heap + 1, m)
  <2>1. kernel_heap + 1 \in Int /\ globals.pmem_bmap \in Int
    BY <1>2, <1>3
  <2> QED
    BY <1>6, <2>1, RowRight
<1>12. IsRow(E, globals.freemap, kernel_heap, 1)
  <2>1. kernel_heap \in Int /\ globals.freemap \in Int /\ 1 \in Nat
    BY <1>2, <1>3
  <2> QED
    BY <2>1, RowRight
<1> HIDE DEF A, B, C, D, E
<1>13. M \in Seq(Calls) /\ ToSet(M) = ToSet(A) \cup ToSet(B) \cup ToSet(C) \cup ToSet(D) \cup ToSet(E)
  <2>1. A \o B \in Seq(Calls) /\ ToSet(A \o B) = ToSet(A) \cup ToSet(B)
    BY <1>8, <1>9, ConcatSet DEF IsRow
  <2>2. (A \o B) \o C \in Seq(Calls) /\ ToSet((A \o B) \o C) = ToSet(A \o B) \cup ToSet(C)
    BY <1>10, <2>1, ConcatSet DEF IsRow
  <2>3. ((A \o B) \o C) \o D \in Seq(Calls)
        /\ ToSet(((A \o B) \o C) \o D) = ToSet((A \o B) \o C) \cup ToSet(D)
    BY <1>11, <2>2, ConcatSet DEF IsRow
  <2>4. (((A \o B) \o C) \o D) \o E \in Seq(Calls)
        /\ ToSet((((A \o B) \o C) \o D) \o E) = ToSet(((A \o B) \o C) \o D) \cup ToSet(E)
    BY <1>12, <2>3, ConcatSet DEF IsRow
  <2> QED
    BY <1>5, <2>1, <2>2, <2>3, <2>4, Zenon
<1>14. \A c \in ToSet(B) : c.virt = kernel_stack - 1
  BY <1>3, <1>9 DEF IsRow
<1>15. \A c \in ToSet(D) : c.virt = kernel_heap + 1
  BY <1>3, <1>6, <1>11 DEF IsRow
<1>16. \A c \in ToSet(E) : c.virt = kernel_heap
  BY <1>3, <1>12 DEF IsRow
<1>17. \A c \in ToSet(A) : c.virt < kernel_heap /\ c.virt >= kernel_vaddr /\ c.virt \in Int
  BY <1>3, <1>8 DEF IsRow
<1>18. \A c \in ToSet(C) : c.virt >= fb_vaddr /\ c.virt \in Int
  BY <1>3, <1>4, <1>10 DEF IsRow
<1>19. ASSUME NEW virt \in KernelVirt
       PROVE  /\ \E c \in ToSet(M) : c.virt = virt
              /\ \A c \in ToSet(M) : c.virt = virt => c.phys = PhysOf(virt)
  <2>1. virt \in kernel_vaddr .. kernel_vaddr + kernel_pages - 1
    BY DEF KernelVirt
  <2>2. virt < kernel_heap /\ virt \in Int
    BY <1>3, <2>1
  <2>3. \A c \in ToSet(M) : c.virt = virt => c \in ToSet(A)
    BY <1>3, <1>13, <1>14, <1>15, <1>16, <1>18, <2>2
  <2> QED
    BY <1>2, <1>8, <1>13, <2>1, <2>3 DEF PhysOf, IsRow
<1>20. /\ \E c \in ToSet(M) : c.virt = kernel_stack - 1
       /\ \A c \in ToSet(M) : c.virt = kernel_stack - 1 => c.phys \in at["stack"]
  <2>1. \A c \in ToSet(M) : c.virt = kernel_stack - 1 => c \in ToSet(B)
    BY <1>3, <1>13, <1>15, <1>16, <1>17, <1>18
  <2>2. \A c \in ToSet(B) : c.phys = globals.kernel_stack_paddr
    BY <1>3, <1>7, <1>9, <1>14 DEF IsRow
  <2>3. \E c \in ToSet(B) : c.virt = kernel_stack - 1
    <3>1. kernel_stack - 1 \in kernel_stack - 1 .. kernel_stack - 1 + 1 - 1
      BY <1>3
    <3> QED
      BY <1>9, <3>1 DEF IsRow
  <2> QED
    BY <1>2, <1>13, <2>1, <2>2, <2>3
<1>21. ASSUME NEW k \in 0 .. n - 1
       PROVE  /\ \E c \in ToSet(M) : c.virt = fb_vaddr + k
              /\ \A c \in ToSet(M) : c.virt = fb_vaddr + k => c.phys = FRAMEBUFFER + k
  <2>1. fb_vaddr + k \in fb_vaddr .. fb_vaddr + n - 1 /\ fb_vaddr + k >= fb_vaddr
    BY <1>3, <1>4
  <2>2. \A c \in ToSet(M) : c.virt = fb_vaddr + k => c \in ToSet(C)
    BY <1>3, <1>13, <1>14, <1>15, <1>16, <1>17, <2>1
  <2>3. \A c \in ToSet(C) : c.virt = fb_vaddr + k => c.phys = FRAMEBUFFER + k
    <3>1. (fb_vaddr + k) - fb_vaddr = k
      BY <1>3, <1>4
    <3> QED
      BY <1>10, <3>1 DEF IsRow
  <2> QED
    BY <1>10, <1>13, <2>1, <2>2, <2>3 DEF IsRow
<1>22. \A virt \in Virtuals : virt >= kernel_vaddr
  <2>1. kernel_vaddr < kernel_heap
    <3>1. kernel_pages >= 1
      BY <1>1, KernelSize
    <3> QED
      BY <1>3, <3>1
  <2>2. \A c \in ToSet(M) : c.virt >= kernel_vaddr
    BY <1>3, <1>13, <1>14, <1>15, <1>16, <1>17, <1>18, <2>1
  <2> QED
    BY <2>2 DEF M, Virtuals
<1> QED
  BY <1>13, <1>19, <1>20, <1>21, <1>22 DEF M, n

(* init_paging maps what the kernel runs on to where it was.               *)
LEMMA TablesKept ==
  ASSUME BootInv, GlobalsInv, TablesInv, EntryNext
  PROVE  TablesInv'
<1>1. CASE BootNext /\ UNCHANGED kernelVars
  <2>1. pc' \notin Running \ {"kernel"}
    BY <1>1, BootStops DEF BootInv
  <2> QED
    BY <2>1 DEF TablesInv, Running
<1>2. CASE InitGlobals
  BY <1>2 DEF InitGlobals, TablesInv
<1>3. CASE InitPaging
  <2> SUFFICES ASSUME pc' = "paging" PROVE TablesInv'
    BY <1>3 DEF InitPaging, BuildTables, Wipe, Fail, TablesInv
  <2> DEFINE M == InitPagingCalls
  <2>0. /\ pc = "globals" /\ UNCHANGED <<fw, tables, at, elf, fb>>
        /\ \E taken : BuildTables(taken)
    BY <1>3 DEF InitPaging, Wipe, Fail, infoVars, firmwareVars, pageVars
  <2>p. PICK taken : BuildTables(taken)
    BY <2>0
  <2>1. /\ PagesAt(taken) \cap InUse = {}
        /\ kmap' = [virt \in Virtuals \cup PagesAt(taken) |->
                      IF virt \in Virtuals THEN LastFor(M, virt).phys ELSE virt]
    BY <2>p DEF BuildTables, Wiped
  <2>2. /\ M \in Seq(Calls)
        /\ \A virt \in KernelVirt :
             /\ \E c \in ToSet(M) : c.virt = virt
             /\ \A c \in ToSet(M) : c.virt = virt => c.phys = PhysOf(virt)
        /\ \E c \in ToSet(M) : c.virt = kernel_stack - 1
        /\ \A c \in ToSet(M) : c.virt = kernel_stack - 1 => c.phys \in at["stack"]
        /\ \A k \in 0 .. Ceiling(fb.fbsize, PIXELS) - 1 :
             /\ \E c \in ToSet(M) : c.virt = fb_vaddr + k
             /\ \A c \in ToSet(M) : c.virt = fb_vaddr + k => c.phys = FRAMEBUFFER + k
        /\ \A virt \in Virtuals : virt >= kernel_vaddr
    BY <2>0, PagingCallsRight
  <2>v. \A c \in ToSet(M) : c.virt \in Virtuals
    BY DEF Virtuals
  <2> HIDE DEF M
  <2>3. \A c \in ToSet(M) : /\ c.virt \in DOMAIN kmap' /\ kmap'[c.virt] = LastFor(M, c.virt).phys
                            /\ LastFor(M, c.virt) \in ToSet(M) /\ LastFor(M, c.virt).virt = c.virt
    BY <2>1, <2>2, <2>v, LastForRight
  <2>4. \A virt \in KernelVirt : virt \in DOMAIN kmap' /\ kmap'[virt] = PhysOf(virt)
    BY <2>2, <2>3
  <2>5. kernel_stack - 1 \in DOMAIN kmap' /\ kmap'[kernel_stack - 1] \in at["stack"]
    BY <2>2, <2>3
  <2>6. \A k \in 0 .. Ceiling(fb.fbsize, PIXELS) - 1 :
          fb_vaddr + k \in DOMAIN kmap' /\ kmap'[fb_vaddr + k] = FRAMEBUFFER + k
    BY <2>2, <2>3
  <2>7. KernelVirt' = KernelVirt
    BY <2>0, ElfSame
  <2>8. UNCHANGED <<at, fb>>
    BY <2>0
  <2>9. \A p \in Pages \cap DOMAIN kmap' : kmap'[p] = p /\ p \notin InUse
    <3>1. \A p \in Pages : p \in Int /\ p < kernel_vaddr
      BY Numbers DEF BootInv, MemoryInv
    <3>2. \A p \in Pages : p \notin Virtuals
      BY <2>2, <3>1, Numbers
    <3> QED
      BY <2>1, <3>2
  <2>10. Pages' = Pages /\ InUse' = InUse
    BY <2>0 DEF Pages, InUse
  <2> QED
    BY <2>4, <2>5, <2>6, <2>7, <2>8, <2>9, <2>10 DEF TablesInv, PhysOf
<1>4. CASE FillScreen \/ FillSquare \/ Rest
  <2>1. UNCHANGED <<fw, tables, at, elf, fb, kmap>> /\ pc \in {"paging", "draw", "rest"}
    BY <1>4 DEF FillScreen, FillSquare, Rest, bootVars, infoVars, firmwareVars, pageVars, kernelVars
  <2>2. KernelVirt' = KernelVirt
    BY <2>1, ElfSame
  <2>3. Pages' = Pages /\ InUse' = InUse
    BY <2>1 DEF Pages, InUse
  <2> QED
    BY <2>1, <2>2, <2>3 DEF TablesInv, PhysOf
<1> QED
  BY <1>1, <1>2, <1>3, <1>4 DEF EntryNext

(* A page that init_paging clears is one that freemap offers.              *)
LEMMA WipedRight ==
  ASSUME MapInv, NEW slots \in SUBSET Slots, Wiped(slots)
  PROVE  FreePages \cap InUse # {} \/ Twice
<1>1. ASSUME NEW slot \in Slots PROVE PageAt(slot) \in FreePages
  <2>1. PICK j \in DOMAIN freemap : slot \in {j} \X (0 .. freemap[j].blocks - 1)
    BY DEF Slots
  <2>2. PageAt(slot) = freemap[j].addr + slot[2] /\ slot[2] \in 0 .. freemap[j].blocks - 1
    BY <2>1 DEF PageAt
  <2>3. PageAt(slot) \in Offered(j)
    BY <2>2 DEF Offered, MapInv
  <2> QED
    BY <2>3 DEF FreePages
<1> QED
  BY <1>1 DEF Wiped, PagesAt, Twice

LEMMA WipedKept ==
  ASSUME BootInv, EntryNext
  PROVE  WipedInv'
<1> SUFFICES ASSUME pc' = "wiped" PROVE WipedInv'
  BY DEF WipedInv
<1>1. CASE InitPaging
  <2>1. PICK n : Wipe(FirstSlots(n))
    BY <1>1 DEF InitPaging, BuildTables, Fail
  <2>2. FirstSlots(n) \in SUBSET Slots
    BY DEF FirstSlots
  <2>3. FreePages \cap InUse # {} \/ Twice
    BY <2>1, <2>2, WipedRight DEF Wipe, BootInv
  <2>4. UNCHANGED <<fw, tables, at, freemap>>
    BY <1>1 DEF InitPaging, infoVars, firmwareVars, pageVars
  <2>5. FreePages' = FreePages /\ InUse' = InUse /\ Twice' = Twice
    BY <2>4 DEF FreePages, Offered, InUse, Pages, Twice, Slots, PageAt
  <2> QED
    BY <2>3, <2>5 DEF WipedInv
<1>2. CASE BootNext /\ UNCHANGED kernelVars
  BY <1>2, BootStops DEF BootInv
<1> QED
  BY <1>1, <1>2 DEF EntryNext, InitGlobals, FillScreen, FillSquare, Rest, bootVars

(* What is drawn is as large as the screen, or a square as high.           *)
LEMMA RectKept ==
  ASSUME BootInv, GlobalsInv, RectInv, EntryNext
  PROVE  RectInv'
<1>1. CASE BootNext /\ UNCHANGED kernelVars
  <2>1. pc' \notin Running \ {"kernel"}
    BY <1>1, BootStops DEF BootInv
  <2> QED
    BY <1>1, <2>1 DEF RectInv, kernelVars, Running
<1>2. CASE InitGlobals \/ InitPaging
  BY <1>2 DEF InitGlobals, InitPaging, BuildTables, Wipe, Fail, RectInv
<1>3. CASE FillScreen
  <2>1. /\ pc = "paging" /\ i' = i /\ fb' = fb /\ rect' = [w |-> globals.fb.w, h |-> globals.fb.h]
    BY <1>3 DEF FillScreen, infoVars
  <2>2. globals.fb = fb /\ fb \in Modes
    BY <2>1, KernelPlace DEF GlobalsInv, Running
  <2>3. fb.w \in Nat /\ fb.h \in Nat
    BY <2>2 DEF Modes
  <2> QED
    BY <2>1, <2>2, <2>3 DEF RectInv
<1>4. CASE FillSquare
  <2>1. /\ pc = "draw" /\ i <= globals.fb.h /\ rect' = [w |-> i, h |-> i] /\ i' = i + 1
        /\ fb' = fb /\ pc' = pc
    BY <1>4 DEF FillSquare, bootVars, infoVars
  <2>2. globals.fb = fb
    BY <2>1 DEF GlobalsInv, Running
  <2> QED
    BY <2>1, <2>2 DEF RectInv
<1>5. CASE Rest
  BY <1>5 DEF Rest, RectInv, kernelVars, infoVars
<1> QED
  BY <1>1, <1>2, <1>3, <1>4, <1>5 DEF EntryNext

-----------------------------------------------------------------------------
(* Theorems                                                                *)

(* EntryInv holds at the start.                                            *)
LEMMA EntryInitially ==
  ASSUME EntryInit
  PROVE  EntryInv
<1>1. BootInv /\ pc = "size" /\ i = 0
  BY BootInitially DEF EntryInit, BootInit
<1> QED
  BY <1>1 DEF EntryInv, GlobalsInv, TablesInv, WipedInv, RectInv, Running

(* EntryInv is inductive.                                                  *)
LEMMA EntryKept ==
  ASSUME EntryInv, [EntryNext]_entryVars
  PROVE  EntryInv'
<1>1. BootInv /\ GlobalsInv /\ TablesInv /\ WipedInv /\ RectInv
  BY DEF EntryInv
<1>2. CASE EntryNext
  <2>1. BootInv'
    <3>1. CASE BootNext
      BY <1>1, <3>1, BootKept
    <3>2. CASE InitGlobals \/ InitPaging \/ FillScreen \/ Rest
      <4>1. UNCHANGED <<firmwareVars, mapVars, infoVars, at, pageVars, exited>>
        BY <3>2 DEF InitGlobals, InitPaging, FillScreen, Rest
      <4>2. pc \in Running /\ pc' \in Running \cup {"wiped", "lost"}
        BY <3>2 DEF InitGlobals, InitPaging, BuildTables, Wipe, Fail, FillScreen, Rest, Running
      <4> QED
        BY <1>1, <4>1, <4>2, BootSame
    <3>3. CASE FillSquare
      <4>1. UNCHANGED <<firmwareVars, mapVars, infoVars, at, pageVars, exited>>
        BY <3>3 DEF FillSquare, bootVars
      <4>2. pc \in Running /\ pc' \in Running
        BY <3>3 DEF FillSquare, bootVars, Running
      <4> QED
        BY <1>1, <4>1, <4>2, BootSame
    <3> QED
      BY <1>2, <3>1, <3>2, <3>3 DEF EntryNext
  <2>2. GlobalsInv' /\ TablesInv' /\ WipedInv' /\ RectInv'
    BY <1>1, <1>2, GlobalsKept, TablesKept, WipedKept, RectKept
  <2> QED
    BY <2>1, <2>2 DEF EntryInv
<1>3. CASE UNCHANGED entryVars
  <2>1. UNCHANGED <<firmwareVars, mapVars, infoVars, at, pageVars, exited, pc, kernelVars>>
    BY <1>3 DEF entryVars, bootVars
  <2>2. BootInv'
    BY <1>1, <2>1, BootStutters
  <2>3. GlobalsInv'
    <3>1. kernel_mem_size' = kernel_mem_size
      BY <2>1, ElfSame DEF infoVars
    <3> QED
      BY <1>1, <2>1, <3>1 DEF GlobalsInv, kernelVars, infoVars
  <2>4. TablesInv'
    <3>1. KernelVirt' = KernelVirt
      BY <2>1, ElfSame DEF infoVars
    <3>2. Pages' = Pages /\ InUse' = InUse
      BY <2>1 DEF Pages, InUse, firmwareVars, pageVars
    <3> QED
      BY <1>1, <2>1, <3>1, <3>2 DEF TablesInv, PhysOf, kernelVars, infoVars
  <2>5. RectInv'
    BY <1>1, <2>1 DEF RectInv, kernelVars, infoVars
  <2>6. WipedInv'
    <3>1. UNCHANGED <<fw, tables, at, freemap, pc>>
      BY <2>1 DEF infoVars, firmwareVars, pageVars
    <3> QED
      BY <1>1, <3>1 DEF EntryInv, WipedInv, FreePages, Offered, InUse, Pages, Twice, Slots, PageAt
  <2> QED
    BY <2>2, <2>3, <2>4, <2>5, <2>6 DEF EntryInv
<1> QED
  BY <1>2, <1>3

(* EntryInv holds throughout, so the properties need only follow from it.  *)
THEOREM EntryInvariant == EntrySpec => []EntryInv
<1>1. EntryInit => EntryInv
  BY EntryInitially
<1>2. EntryInv /\ [EntryNext]_entryVars => EntryInv'
  BY EntryKept
<1> QED
  BY <1>1, <1>2, PTL DEF EntrySpec

(* map_page: when the outermost call has returned, each table that was     *)
(* allocated on the way is mapped to its own address and shares its page   *)
(* with nothing else, whatever pages the firmware gives out.               *)
THEOREM TablesAreMapped == EntrySpec => []BootTablesMapped
<1>1. EntryInv => BootTablesMapped
  <2> SUFFICES ASSUME EntryInv, calls = <<>> PROVE BootTablesMapped
    BY DEF BootTablesMapped
  <2>1. DOMAIN calls = {}
    OBVIOUS
  <2>2. MemoryInv /\ CallsInv
    BY DEF EntryInv, BootInv
  <2> QED
    BY <2>1, <2>2 DEF MemoryInv, CallsInv, BootTablesMapped
<1> QED
  BY <1>1, EntryInvariant, PTL

(* boot.c:124: what freemap has from the second reading of the memory map  *)
(* holds no page of the kernel, of the map or of freemap, however long the *)
(* firmware's descriptors are and whatever the map has become; and that is *)
(* all of freemap if the second map is as long as the first and has        *)
(* descriptors of 40 bytes.                                                *)
THEOREM RereadKeepsPages == EntrySpec => []RereadProtects
<1>1. EntryInv => RereadProtects
  BY DEF EntryInv, BootInv, MapInv
<1> QED
  BY <1>1, EntryInvariant, PTL

(* Where a byte is, counted from the start of some page.                   *)
LEMMA PagePlace ==
  ASSUME NEW P \in Nat, P >= 1, NEW first \in Nat, NEW x \in Nat
  PROVE  /\ (first * P + x) \div P = first + (x \div P)
         /\ (first * P + x) % P = x % P
         /\ (x \div P) * P + (x % P) = x
         /\ x \div P \in Nat
<1> DEFINE q == x \div P
           r == x % P
           k == first + q
<1>1. q \in Nat /\ r \in 0 .. P - 1 /\ x = q * P + r
  OBVIOUS
<1> HIDE DEF q, r
<1>2. k \in Nat
  BY <1>1
<1>3. k * P = first * P + q * P
  BY <1>1
<1> HIDE DEF k
<1>4. (k * P + r) \div P = k /\ (k * P + r) % P = r
  BY <1>1, <1>2, PartAndPlace
<1>5. first * P + x = k * P + r
  BY <1>1, <1>2, <1>3
<1> QED
  BY <1>1, <1>4, <1>5 DEF k, q, r

(* What the processor finds while the kernel runs.                         *)
LEMMA RunningRight ==
  ASSUME EntryInv, pc \in Running
  PROVE  /\ \A virt \in KernelVirt : Translated(virt) = PhysOf(virt)
         /\ Translated(kernel_stack - 1) \in at["stack"]
<1>1. CASE pc \in {"kernel", "globals"}
  <2>1. \A virt : Translated(virt) = mapped[virt]
    BY <1>1 DEF Translated
  <2>2. KernelInv /\ calls = <<>> /\ todo = <<>> /\ DOMAIN todo = {}
    BY DEF EntryInv, BootInv, IdleInv
  <2>3. \A virt \in KernelVirt : mapped[virt] = PhysOf(virt)
    BY <2>2 DEF KernelInv, Mapping
  <2>4. mapped[kernel_stack - 1] \in at["stack"]
    BY DEF EntryInv, BootInv, StackInv
  <2> QED
    BY <2>1, <2>3, <2>4
<1>2. CASE pc \notin {"kernel", "globals"}
  <2>1. TablesInv /\ pc \in {"paging", "draw", "rest"}
    BY <1>2 DEF EntryInv, Running
  <2>2. \A virt \in DOMAIN kmap : Translated(virt) = kmap[virt]
    BY <1>2 DEF Translated
  <2> QED
    BY <2>1, <2>2 DEF TablesInv
<1> QED
  BY <1>1, <1>2

(* The loading of the segments, map_page and init_paging: from its first   *)
(* instruction on the kernel has its code, its data and its stack at their *)
(* virtual addresses.  init_paging, which clears the pages that it takes   *)
(* for tables, clears none that the kernel needs, unless freemap offers    *)
(* one.                                                                    *)
THEOREM KernelStaysInPlace == EntrySpec => []KernelInPlace
<1>1. ASSUME EntryInv, pc \in Running, NEW s \in Load, NEW b \in 0 .. elf[s].p_memsz - 1
      PROVE  LET virt == elf[s].p_vaddr + b
                 phys == Translated(virt \div PAGE_SIZE)
                 byte == (phys - Min(at["kernel"])) * PAGE_SIZE + (virt % PAGE_SIZE)
             IN  /\ phys \in at["kernel"]
                 /\ image[byte] = IF b < elf[s].p_filesz THEN <<s, b>> ELSE <<0, 0>>
  <2> DEFINE virt == elf[s].p_vaddr + b
             phys == Translated(virt \div PAGE_SIZE)
             first == Min(at["kernel"])
             byte == (phys - first) * PAGE_SIZE + (virt % PAGE_SIZE)
             x == Offset(s) + b
             k == x \div PAGE_SIZE
  <2>1. /\ elf \in Elves /\ elf # NoElf
        /\ first \in Nat /\ at["kernel"] = first .. first + kernel_pages - 1
    <3>1. BootInv
      BY <1>1 DEF EntryInv
    <3> QED
      BY <1>1, <3>1, KernelPlace
  <2>2. /\ PAGE_SIZE \in Nat /\ PAGE_SIZE >= 1 /\ kernel_vaddr \in Nat
        /\ kernel_mem_size \in Nat /\ kernel_pages \in Nat
        /\ Offset(s) \in Nat /\ Offset(s) + elf[s].p_memsz <= kernel_mem_size
        /\ elf[s].p_memsz \in Nat /\ elf[s].p_vaddr \in Nat
    BY <1>1, <2>1, Numbers, KernelSize, Segments
  <2>3. elf[s].p_vaddr = kernel_vaddr * PAGE_SIZE + Offset(s)
    <3>1. kernel_vaddr * PAGE_SIZE \in Nat
      BY <2>2
    <3> QED
      BY <2>2, <3>1 DEF Offset
  <2> DEFINE base == kernel_vaddr * PAGE_SIZE
  <2>4. x \in Nat /\ x \in 0 .. kernel_mem_size - 1
    BY <1>1, <2>2
  <2>5. virt = base + x
    <3>1. base \in Nat
      BY <2>2
    <3> HIDE DEF base
    <3>2. elf[s].p_vaddr = base + Offset(s)
      BY <2>3 DEF base
    <3> QED
      BY <1>1, <2>2, <3>1, <3>2
  <2> HIDE DEF x, virt
  <2>6. /\ virt \div PAGE_SIZE = kernel_vaddr + k
        /\ virt % PAGE_SIZE = x % PAGE_SIZE
        /\ k * PAGE_SIZE + (x % PAGE_SIZE) = x
        /\ k \in Nat
    <3>1. x \in Nat /\ PAGE_SIZE \in Nat /\ PAGE_SIZE >= 1 /\ kernel_vaddr \in Nat
      BY <2>2, <2>4
    <3>2. /\ (kernel_vaddr * PAGE_SIZE + x) \div PAGE_SIZE = kernel_vaddr + (x \div PAGE_SIZE)
          /\ (kernel_vaddr * PAGE_SIZE + x) % PAGE_SIZE = x % PAGE_SIZE
          /\ (x \div PAGE_SIZE) * PAGE_SIZE + (x % PAGE_SIZE) = x
          /\ x \div PAGE_SIZE \in Nat
      BY <3>1, PagePlace
    <3> QED
      BY <2>5, <3>2, Zenon
  <2>7. k \in 0 .. kernel_pages - 1
    BY <2>2, <2>4, CeilingRight DEF kernel_pages
  <2> HIDE DEF k
  <2>8. kernel_vaddr + k \in KernelVirt /\ PhysOf(kernel_vaddr + k) = first + k
    BY <2>1, <2>2, <2>7 DEF KernelVirt, PhysOf
  <2>9. phys = first + k
    BY <1>1, <2>6, <2>8, RunningRight
  <2> HIDE DEF phys
  <2>10. phys \in at["kernel"] /\ phys - first = k
    BY <2>1, <2>2, <2>7, <2>9
  <2>11. byte = x
    BY <2>6, <2>10
  <2>12. image[x] = IF b < elf[s].p_filesz THEN <<s, b>> ELSE <<0, 0>>
    BY <1>1 DEF x, EntryInv, BootInv, ImageInv, Mapping
  <2> QED
    BY <2>10, <2>11, <2>12 DEF phys, virt
<1>2. EntryInv => KernelInPlace
  <2> SUFFICES ASSUME EntryInv PROVE KernelInPlace
    OBVIOUS
  <2>1. pc \in Running => Translated(kernel_stack - 1) \in at["stack"]
    BY RunningRight
  <2>2. pc \in {"paging", "draw", "rest"} =>
          \A p \in Pages \cap DOMAIN kmap : kmap[p] = p /\ p \notin InUse
    BY DEF EntryInv, TablesInv
  <2>3. pc = "wiped" => FreePages \cap InUse # {} \/ Twice
    BY DEF EntryInv, WipedInv
  <2> QED
    BY <1>1, <2>1, <2>2, <2>3, Zenon DEF KernelInPlace, Entered, Running, Twice
<1> QED
  BY <1>2, EntryInvariant, PTL

(* The pixels of a rectangle are in the framebuffer.                       *)
LEMMA PixelInside ==
  ASSUME NEW line \in Nat, NEW h \in Nat, NEW size \in Nat, line * h <= size,
         NEW x \in Nat, x < line, NEW y \in Nat, y < h
  PROVE  x + y * line \in 0 .. size - 1
<1>1. y * line \in Nat /\ (y + 1) * line = y * line + line
  OBVIOUS
<1>2. (y + 1) * line <= h * line
  <2>1. h - (y + 1) \in Nat
    OBVIOUS
  <2>2. (h - (y + 1)) * line \in Nat
    BY <2>1
  <2>3. (h - (y + 1)) * line = h * line - (y + 1) * line
    OBVIOUS
  <2>4. h * line \in Int /\ (y + 1) * line \in Int
    OBVIOUS
  <2> QED
    BY <2>2, <2>3, <2>4
<1>3. h * line = line * h /\ h * line \in Nat
  OBVIOUS
<1> DEFINE a == y * line
           c == h * line
           d == (y + 1) * line
<1> HIDE DEF a, c, d
<1>4. /\ a \in Nat /\ d = a + line /\ d <= c /\ c <= size /\ c \in Nat
  BY <1>1, <1>2, <1>3 DEF a, c, d
<1>5. x + a \in 0 .. size - 1
  BY <1>4
<1> QED
  BY <1>5 DEF a

(* init and fillrect: what is drawn after init_paging is drawn where the   *)
(* mode that is set has it, and nothing is drawn past the framebuffer.     *)
THEOREM DrawsWithinScreen == EntrySpec => []DrawsOnScreen
<1> DEFINE screen == gop.modes[gop.mode]
           offset(x, y) == x + y * globals.fb.pixperline
           page(x, y) == Translated(fb_vaddr + (offset(x, y) \div PIXELS))
<1>1. ASSUME EntryInv, pc \in {"draw", "rest"}, screen.h <= screen.pixperline,
             NEW x \in 0 .. rect.w - 1, NEW y \in 0 .. rect.h - 1
      PROVE  /\ (page(x, y) - FRAMEBUFFER) * PIXELS + (offset(x, y) % PIXELS)
                  = x + y * screen.pixperline
             /\ x + y * screen.pixperline < screen.fbsize
  <2>1. screen = fb /\ globals.fb = fb /\ fb \in Modes
        /\ fb.w <= fb.pixperline /\ fb.pixperline * fb.h <= fb.fbsize
    <3>1. BootInv /\ GlobalsInv /\ pc \in Running \ {"kernel"}
      BY <1>1 DEF EntryInv, Running
    <3>2. globals.fb = fb
      BY <3>1 DEF GlobalsInv
    <3>3. fb \in Modes
      BY <3>1, KernelPlace
    <3>4. gop.mode \in DOMAIN gop.modes /\ fb = screen
      BY <3>1 DEF BootInv, ModeInv, Mapping
    <3>5. \A m \in DOMAIN gop.modes :
            /\ gop.modes[m].w <= gop.modes[m].pixperline
            /\ gop.modes[m].pixperline * gop.modes[m].h <= gop.modes[m].fbsize
      BY <3>1 DEF BootInv, ModeInv
    <3> QED
      BY <3>2, <3>3, <3>4, <3>5
  <2>2. fb.w \in Nat /\ fb.h \in Nat /\ fb.pixperline \in Nat /\ fb.fbsize \in Nat
    BY <2>1 DEF Modes
  <2>3. /\ rect.w \in Nat /\ rect.h \in Nat
        /\ rect.h <= fb.h /\ (rect.w <= fb.w \/ rect.w <= fb.h)
    BY <1>1 DEF EntryInv, RectInv
  <2>4. x \in Nat /\ y \in Nat /\ x < fb.pixperline /\ y < fb.h
    <3>1. fb.h <= fb.pixperline
      BY <1>1, <2>1
    <3> HIDE DEF screen
    <3> QED
      BY <1>1, <2>1, <2>2, <2>3, <3>1
  <2> DEFINE o == x + y * fb.pixperline
             n == Ceiling(fb.fbsize, PIXELS)
             k == o \div PIXELS
  <2>5. o \in 0 .. fb.fbsize - 1
    BY <2>1, <2>2, <2>4, PixelInside
  <2>6. offset(x, y) = o /\ x + y * screen.pixperline = o
    BY <2>1
  <2> HIDE DEF o
  <2>7. PIXELS \in Nat /\ PIXELS >= 1 /\ FRAMEBUFFER \in Nat /\ fb_vaddr \in Nat
    BY LayoutAssumption
  <2>8. k \in 0 .. n - 1
    BY <2>2, <2>5, <2>7, CeilingRight
  <2>9. k * PIXELS + (o % PIXELS) = o /\ k \in Nat
    <3>1. o \in Nat /\ 0 \in Nat
      BY <2>2, <2>5
    <3> QED
      BY <2>7, <3>1, PagePlace
  <2>10. Translated(fb_vaddr + k) = FRAMEBUFFER + k
    <3>1. \A j \in 0 .. n - 1 : fb_vaddr + j \in DOMAIN kmap /\ kmap[fb_vaddr + j] = FRAMEBUFFER + j
      BY <1>1 DEF EntryInv, TablesInv
    <3> HIDE DEF n, k
    <3>2. pc \notin {"kernel", "globals"}
      BY <1>1
    <3> QED
      BY <2>8, <3>1, <3>2 DEF Translated
  <2>11. page(x, y) = FRAMEBUFFER + k
    BY <2>6, <2>10
  <2> HIDE DEF k, page, offset
  <2>12. page(x, y) - FRAMEBUFFER = k
    BY <2>7, <2>9, <2>11
  <2> HIDE DEF screen
  <2> QED
    BY <2>2, <2>1, <2>5, <2>6, <2>9, <2>12
<1>2. EntryInv => DrawsOnScreen
  BY <1>1 DEF DrawsOnScreen
<1> QED
  BY <1>2, EntryInvariant, PTL

=============================================================================
