----------------------------- MODULE FilesProofs -----------------------------
(***************************************************************************)
(* Proofs about module Files, for every table size, word size, set of      *)
(* blocks and set of paths.                                                *)
(***************************************************************************)
EXTENDS Files, LoopLemmas, FiniteSetTheorems, TLAPS

-----------------------------------------------------------------------------
(* What malloc hands out: the first n blocks of a set of blocks.           *)
FirstOf(b, S, n) ==
  /\ b \in SUBSET S
  /\ Cardinality(b) = n
  /\ \A x \in b, y \in S \ b : x < y

(* There are n first blocks wherever there are n blocks.                   *)
LEMMA FirstExists ==
  ASSUME NEW S \in SUBSET Nat, IsFiniteSet(S),
         NEW n \in Nat, n <= Cardinality(S)
  PROVE  \E b : FirstOf(b, S, n)
<1> DEFINE Bad == {k \in Nat : k <= Cardinality(S) /\ \A b : ~FirstOf(b, S, k)}
<1>0. Cardinality(S) \in Nat
  BY FS_CardinalityType
<1>1. SUFFICES ASSUME n \in Bad PROVE FALSE
  OBVIOUS
<1> DEFINE m == Min(Bad)
<1>2. m \in Bad /\ \A k \in Bad : m <= k
  BY <1>1, MinMember
<1> HIDE DEF m
<1>3. m \in Nat /\ m <= Cardinality(S) /\ \A b : ~FirstOf(b, S, m)
  BY <1>2
<1>4. m # 0
  <2>1. FirstOf({}, S, 0)
    BY FS_EmptySet DEF FirstOf
  <2> QED
    BY <2>1, <1>3
<1>5. m - 1 \in Nat /\ m - 1 <= Cardinality(S) /\ m - 1 \notin Bad
  BY <1>0, <1>2, <1>3, <1>4
<1>6. PICK b : FirstOf(b, S, m - 1)
  BY <1>5
<1> DEFINE x == Min(S \ b)
<1>7. S \ b # {}
  <2>1. b \subseteq S /\ Cardinality(b) = m - 1
    BY <1>6 DEF FirstOf
  <2>2. b # S
    BY <1>0, <1>3, <2>1
  <2> QED
    BY <2>1, <2>2
<1>8. x \in S \ b /\ \A y \in S \ b : x <= y
  BY <1>7, MinMember
<1> HIDE DEF x
<1>9. IsFiniteSet(b)
  BY <1>6, FS_Subset DEF FirstOf
<1>10. Cardinality(b \cup {x}) = m
  <2>1. Cardinality(b) = m - 1
    BY <1>6 DEF FirstOf
  <2>2. Cardinality(b \cup {x}) = IF x \in b THEN Cardinality(b) ELSE Cardinality(b) + 1
    BY <1>9, FS_AddElement
  <2> QED
    BY <1>3, <1>8, <2>1, <2>2
<1>11. \A u \in b \cup {x}, v \in S \ (b \cup {x}) : u < v
  BY <1>6, <1>8 DEF FirstOf
<1>12. FirstOf(b \cup {x}, S, m)
  BY <1>6, <1>8, <1>10, <1>11 DEF FirstOf
<1> QED
  BY <1>3, <1>12

(* Of the same set, the first few blocks are among the first many.         *)
LEMMA FirstNested ==
  ASSUME NEW S \in SUBSET Nat, IsFiniteSet(S),
         NEW m \in Nat, NEW n \in Nat, m <= n,
         NEW a, FirstOf(a, S, m), NEW b, FirstOf(b, S, n)
  PROVE  a \subseteq b
<1>1. SUFFICES ASSUME NEW x \in a, x \notin b PROVE FALSE
  OBVIOUS
<1>2. b \subseteq a
  BY <1>1 DEF FirstOf
<1>3. IsFiniteSet(a)
  BY FS_Subset DEF FirstOf
<1>4. Cardinality(b) <= Cardinality(a) /\ (Cardinality(a) = Cardinality(b) => a = b)
  BY <1>2, <1>3, FS_Subset
<1> QED
  BY <1>1, <1>4 DEF FirstOf

(* malloc takes blocks that were not live, as many as were asked for.      *)
LEMMA TakenFirst ==
  ASSUME NEW n \in Nat, Enough(n)
  PROVE  FirstOf(Taken(n), Blocks \ live, n)
<1>1. Blocks \ live \in SUBSET Nat /\ IsFiniteSet(Blocks \ live)
  BY FilesAssumption, FS_Difference
<1>2. n <= Cardinality(Blocks \ live)
  BY <1>1, FS_CardinalityType DEF Enough
<1>3. \E b : FirstOf(b, Blocks \ live, n)
  BY <1>1, <1>2, FirstExists
<1> QED
  BY <1>3 DEF FirstOf, Taken

(* One of them is the array, unless none was asked for.                    *)
LEMMA TakenFree ==
  ASSUME NEW n \in Nat, Enough(n), n # 0
  PROVE  /\ Taken(n) \subseteq Blocks \ live
         /\ Min(Taken(n)) \in Taken(n)
<1>1. FirstOf(Taken(n), Blocks \ live, n)
  BY TakenFirst
<1>2. Taken(n) # {}
  BY <1>1, FS_EmptySet DEF FirstOf
<1>3. Taken(n) \in SUBSET Nat
  BY <1>1, FilesAssumption DEF FirstOf
<1> QED
  BY <1>1, <1>2, <1>3, MinMember DEF FirstOf

(* The path of an open file is among the blocks that its fopen took.       *)
LEMMA TakenNested ==
  ASSUME NEW m \in Nat, NEW n \in Nat, m <= n, Enough(n)
  PROVE  Enough(m) /\ Taken(m) \subseteq Taken(n)
<1>1. Blocks \ live \in SUBSET Nat /\ IsFiniteSet(Blocks \ live)
  BY FilesAssumption, FS_Difference
<1>2. Enough(m)
  BY <1>1, FS_CardinalityType DEF Enough
<1>3. FirstOf(Taken(m), Blocks \ live, m) /\ FirstOf(Taken(n), Blocks \ live, n)
  BY <1>2, TakenFirst
<1> QED
  BY <1>1, <1>2, <1>3, FirstNested

(* Casts to size_t: a word keeps its value, and every number becomes one.  *)
LEMMA UnsignedWord ==
  /\ \A i \in Int : Unsigned(i) \in Words
  /\ \A w \in Words : Unsigned(w) = w
  BY FilesAssumption DEF Unsigned, Words

-----------------------------------------------------------------------------
(* What the functions of FS.c do, with malloc and the searches resolved.   *)

(* Blocks that nobody will free: names of a refused path, FAT buffers.     *)
Loses(lost) ==
  /\ lost \in SUBSET (Blocks \ live)
  /\ live' = live \cup lost
  /\ leaked' = leaked \cup lost

(* A structure that was not in use gets the blocks of a path.              *)
Fills(slot, array, names, buffers, size) ==
  /\ ~files[slot].used
  /\ files' = [files EXCEPT ![slot] = [used |-> TRUE, array |-> array, names |-> names,
                                       pointer |-> 0, size |-> size]]
  /\ live' = live \cup {array} \cup names \cup buffers
  /\ leaked' = leaked \cup buffers
  /\ ({array} \cup names) \cap buffers = {}
  /\ \/ open' = [open EXCEPT ![slot] = @ + 1] /\ failed' = failed
     \/ open' = open /\ failed' = failed \cup {slot}
  /\ UNCHANGED reading

LEMMA FopenErrorEffect ==
  ASSUME NEW path \in Paths, FopenError(path)
  PROVE  /\ \E lost : Loses(lost)
         /\ UNCHANGED <<files, open, failed, reading>>
<1> DEFINE taken == Taken(path.dirs + 1)
           lost == taken \ {Min(taken)}
<1>1. path.dirs + 1 \in Nat /\ path.dirs + 1 # 0
  BY FilesAssumption
<1>2. taken \subseteq Blocks \ live
  BY <1>1, TakenFree DEF FopenError
<1>3. live' = live \cup lost /\ leaked' = leaked \cup lost
  BY DEF FopenError
<1> HIDE DEF taken
<1>4. Loses(lost)
  BY <1>2, <1>3 DEF Loses
<1> QED
  BY <1>4 DEF FopenError

LEMMA FopenEffect ==
  ASSUME FilesTypeOK, NEW path \in Paths, Fopen(path)
  PROVE  \E slot \in Structs, array \in Blocks \ live, names \in SUBSET (Blocks \ live),
            buffers \in SUBSET (Blocks \ live), size \in Words :
           Fills(slot, array, names, buffers, size)
<1> DEFINE few == Taken(path.dirs + 1)
           many == Taken(path.dirs + 3)
           slot == Min(FreeStructs)
           array == Min(few)
           dropped == Dropped(path)
           names == (few \ {array}) \ dropped
           buffers == dropped \cup (many \ few)
<1>1. /\ path.dirs + 1 \in Nat /\ path.dirs + 1 # 0
      /\ path.dirs + 3 \in Nat /\ path.dirs + 3 # 0
      /\ path.dirs + 1 <= path.dirs + 3
  BY FilesAssumption
<1>2. few \subseteq many /\ many \subseteq Blocks \ live /\ array \in few
  <2>1. Enough(path.dirs + 3)
    BY DEF Fopen
  <2>2. Enough(path.dirs + 1) /\ few \subseteq many
    BY <1>1, <2>1, TakenNested
  <2> QED
    BY <1>1, <2>1, <2>2, TakenFree
<1>d. dropped \subseteq few /\ array \notin dropped
  <2>1. CASE path.volume # "slash" \/ ~path.prefix
    BY <2>1 DEF Dropped, Fopen
  <2>2. CASE path.volume = "slash" /\ path.prefix
    <3>1. path.dirs \in Nat /\ path.dirs # 0 /\ Enough(path.dirs) /\ Enough(path.dirs + 1)
      BY <2>2, <1>1, FilesAssumption, TakenNested DEF Fopen
    <3>2. /\ FirstOf(Taken(path.dirs), Blocks \ live, path.dirs)
          /\ Min(Taken(path.dirs)) \in Taken(path.dirs)
      BY <3>1, TakenFirst, TakenFree
    <3>3. few \in SUBSET Nat /\ few \subseteq Blocks \ live /\ Taken(path.dirs) \subseteq few
      <4>1. path.dirs <= path.dirs + 1
        BY <3>1
      <4>2. Taken(path.dirs) \subseteq few
        BY <1>1, <3>1, <4>1, TakenNested
      <4> HIDE DEF few
      <4> QED
        BY <1>2, <4>2, FilesAssumption
    <3>4. array \in few /\ \A y \in few : array <= y
      BY <1>2, <3>3, MinMember
    <3> HIDE DEF few, array
    <3>5. array \in Taken(path.dirs)
      <4>1. PICK x : x \in Taken(path.dirs)
        BY <3>2
      <4>2. x \in few /\ x \in Nat /\ array \in Nat /\ array <= x /\ array \in Blocks \ live
        BY <3>3, <3>4, <4>1
      <4>3. array \notin Taken(path.dirs) => x < array
        BY <3>2, <4>1, <4>2 DEF FirstOf
      <4> QED
        BY <4>2, <4>3
    <3> QED
      BY <2>2, <3>5 DEF Dropped, few
  <2> QED
    BY <2>1, <2>2
<1>3. slot \in Structs /\ ~files[slot].used
  <2>1. FreeStructs \in SUBSET Nat /\ FreeStructs # {}
    BY FilesAssumption DEF Fopen, FreeStructs, Structs
  <2>2. slot \in FreeStructs
    BY <2>1, MinMember
  <2> QED
    BY <2>2 DEF FreeStructs
<1> DEFINE opened(size) == [used |-> TRUE, array |-> array, names |-> names,
                            pointer |-> 0, size |-> size]
<1>4. CASE path.fs = "fat32"
  <2>1. /\ \E size \in SizesOf(path) : files' = [files EXCEPT ![slot] = opened(size)]
        /\ open' = [open EXCEPT ![slot] = @ + 1]
        /\ live' = live \cup many
        /\ leaked' = leaked \cup dropped \cup (many \ few)
        /\ UNCHANGED <<failed, reading>>
    BY <1>4 DEF Fopen
  <2> HIDE DEF few, many, slot, array, dropped
  <2>2. PICK size \in Words : files' = [files EXCEPT ![slot] = opened(size)]
    BY <2>1, FilesAssumption DEF SizesOf
  <2>3. Fills(slot, array, names, buffers, size)
    BY <1>2, <1>d, <1>3, <2>1, <2>2 DEF Fills
  <2>4. /\ array \in Blocks \ live /\ names \in SUBSET (Blocks \ live)
        /\ buffers \in SUBSET (Blocks \ live)
    BY <1>2, <1>d
  <2> QED
    BY <1>3, <2>2, <2>3, <2>4
<1>5. CASE path.fs # "fat32"
  <2>1. /\ files' = [files EXCEPT ![slot] = opened(@.size)]
        /\ failed' = failed \cup {slot}
        /\ live' = live \cup few
        /\ leaked' = leaked \cup dropped
        /\ UNCHANGED <<open, reading>>
    BY <1>5 DEF Fopen
  <2> HIDE DEF few, many, slot, array, dropped
  <2>2. files[slot].size \in Words
    BY <1>3 DEF FilesTypeOK, FILE
  <2>3. Fills(slot, array, names, dropped, files[slot].size)
    BY <1>2, <1>d, <1>3, <2>1 DEF Fills
  <2>4. /\ array \in Blocks \ live /\ names \in SUBSET (Blocks \ live)
        /\ dropped \in SUBSET (Blocks \ live)
    BY <1>2, <1>d
  <2> QED
    BY <1>3, <2>2, <2>3, <2>4
<1> QED
  BY <1>4, <1>5

LEMMA FreadEffect ==
  ASSUME NEW slot, NEW bytes, Fread(slot, bytes)
  PROVE  /\ \E lost : Loses(lost)
         /\ reading' = [slot |-> slot, pointer |-> files[slot].pointer, bytes |-> bytes]
         /\ UNCHANGED <<files, open, failed>>
<1> DEFINE four == Taken(4)
           lost == IF EndsInCluster(files[slot], bytes) THEN four ELSE four \ {Min(four)}
<1>1. four \subseteq Blocks \ live
  BY TakenFree DEF Fread
<1>2. live' = live \cup lost /\ leaked' = leaked \cup lost
  BY DEF Fread
<1> HIDE DEF four
<1>3. Loses(lost)
  BY <1>1, <1>2 DEF Loses
<1> QED
  BY <1>3 DEF Fread

(* Every seek, however it computes and compares, leaves a pointer in the   *)
(* file; so does rewind.                                                   *)
LEMMA SeekEffect ==
  ASSUME FilesTypeOK, NEW slot \in Opened,
         \/ Rewind(slot)
         \/ \E offset \in Offsets :
              SeekSet(slot, offset) \/ SeekCur(slot, offset) \/ SeekEnd(slot, offset)
  PROVE  \E pointer \in Words : /\ pointer < files[slot].size \/ pointer = 0
                                /\ MoveTo(slot, pointer)
<1>0. WORD \in Int /\ Offsets \subseteq Int
  BY FilesAssumption
<1>1. /\ files[slot].pointer \in Int
      /\ files[slot].size \in Int /\ 0 <= files[slot].size /\ files[slot].size < WORD
  BY FilesAssumption DEF FilesTypeOK, FILE, Words, Opened
<1>2. CASE Rewind(slot)
  <2>1. 0 \in Words
    BY FilesAssumption DEF Words
  <2> QED
    BY <1>2, <2>1 DEF Rewind
<1>3. ASSUME NEW offset \in Offsets, SeekSet(slot, offset)
      PROVE  \E pointer \in Words : pointer < files[slot].size /\ MoveTo(slot, pointer)
  <2>1. Unsigned(offset) \in Words
    BY FilesAssumption, UnsignedWord
  <2> QED
    BY <1>3, <2>1 DEF SeekSet
<1>4. ASSUME NEW offset \in Offsets, SeekCur(slot, offset)
      PROVE  \E pointer \in Words : pointer < files[slot].size /\ MoveTo(slot, pointer)
  <2>1. offset + files[slot].pointer \in Int
    BY <1>0, <1>1
  <2>2. Sum(slot, offset) \in Words /\ Unsigned(Sum(slot, offset)) = Sum(slot, offset)
    BY <2>1, UnsignedWord DEF Sum
  <2> QED
    BY <1>4, <2>2 DEF SeekCur, MoveTo
<1>5. ASSUME NEW offset \in Offsets, SeekEnd(slot, offset)
      PROVE  \E pointer \in Words : pointer < files[slot].size /\ MoveTo(slot, pointer)
  <2>1. -offset \in Words /\ offset \in Int /\ offset < 0
    BY <1>5, FilesAssumption DEF SeekEnd, Words
  <2>2. -offset <= files[slot].size
    BY <1>5, <2>1, UnsignedWord DEF SeekEnd
  <2>3. files[slot].size + offset \in Words /\ files[slot].size + offset < files[slot].size
    BY <1>0, <1>1, <2>1, <2>2 DEF Words
  <2> QED
    BY <1>5, <2>3, UnsignedWord DEF SeekEnd, MoveTo
<1> QED
  BY <1>2, <1>3, <1>4, <1>5

(* The steps of FS.c: nothing changes, blocks are lost, a structure is     *)
(* filled, a file is closed or read, or its pointer moves.                 *)
LEMMA FilesSteps ==
  ASSUME FilesTypeOK, [FilesNext]_fileVars
  PROVE  \/ UNCHANGED fileVars
         \/ (\E lost : Loses(lost)) /\ UNCHANGED <<files, open, failed, reading>>
         \/ \E slot \in Structs, array \in Blocks \ live, names \in SUBSET (Blocks \ live),
               buffers \in SUBSET (Blocks \ live), size \in Words :
              Fills(slot, array, names, buffers, size)
         \/ \E slot \in Opened : Fclose(slot)
         \/ \E slot \in Opened, bytes \in Counts : Fread(slot, bytes)
         \/ \E slot \in Opened, pointer \in Words :
              /\ pointer < files[slot].size \/ pointer = 0
              /\ MoveTo(slot, pointer)
<1>1. ASSUME NEW path \in Paths, FopenRefused(path) PROVE UNCHANGED fileVars
  BY <1>1 DEF FopenRefused
<1>2. ASSUME NEW slot \in Opened, NEW bytes \in Counts, FreadRefused(slot, bytes)
      PROVE  UNCHANGED fileVars
  BY <1>2 DEF FreadRefused
<1>3. ASSUME NEW slot \in Opened, NEW offset \in Offsets, FseekRefused(slot, offset)
      PROVE  UNCHANGED fileVars
  BY <1>3 DEF FseekRefused
<1> QED
  BY <1>1, <1>2, <1>3, FopenErrorEffect, FopenEffect, SeekEffect DEF FilesNext

-----------------------------------------------------------------------------
(* The five invariants need each other: fclose gives back blocks that are  *)
(* live because the structure owns them, a new file may take a structure   *)
(* because none that is in use belongs to nobody, and a read stays inside  *)
(* the file because the pointer does.                                      *)
FilesInv ==
  /\ FilesTypeOK
  /\ PointerInFile
  /\ ReadsInsideFile
  /\ StructsAccounted
  /\ NamesOwned

LEMMA FilesTypeKept ==
  ASSUME FilesInv, [FilesNext]_fileVars
  PROVE  FilesTypeOK'
<1> USE DEF FilesTypeOK, Opened
<1>0. FilesTypeOK
  BY DEF FilesInv
<1>1. CASE UNCHANGED fileVars
  BY <1>0, <1>1 DEF fileVars
<1>2. ASSUME NEW lost, Loses(lost), UNCHANGED <<files, open, failed, reading>>
      PROVE  FilesTypeOK'
  BY <1>0, <1>2 DEF Loses
<1>3. ASSUME NEW slot \in Structs, NEW array \in Blocks \ live,
             NEW names \in SUBSET (Blocks \ live), NEW buffers \in SUBSET (Blocks \ live),
             NEW size \in Words, Fills(slot, array, names, buffers, size)
      PROVE  FilesTypeOK'
  <2>1. 0 \in Words
    BY FilesAssumption DEF Words
  <2>2. [used |-> TRUE, array |-> array, names |-> names, pointer |-> 0, size |-> size] \in FILE
    BY <2>1 DEF FILE
  <2>3. files' \in [Structs -> FILE]
    BY <1>0, <1>3, <2>2 DEF Fills
  <2> QED
    BY <1>0, <1>3, <2>3 DEF Fills
<1>4. ASSUME NEW slot \in Opened, Fclose(slot) PROVE FilesTypeOK'
  <2>1. files' \in [Structs -> FILE]
    <3>1. files \in [Structs -> FILE] /\ slot \in Structs
      BY <1>0
    <3>2. Unused(files[slot]) \in FILE
      BY <3>1 DEF Unused, FILE
    <3>3. files' = [files EXCEPT ![slot] = Unused(files[slot])]
      BY <1>4 DEF Fclose
    <3> QED
      BY <3>1, <3>2, <3>3
  <2>2. slot \in Used
    BY <1>0 DEF FilesInv, StructsAccounted
  <2>3. leaked' \subseteq live'
    BY <1>0, <1>4, <2>2 DEF Fclose, FreedBy, FilesInv, NamesOwned
  <2>4. reading' \in [slot : Structs, pointer : Words, bytes : Words]
    BY <1>0, <1>4, FilesAssumption DEF Fclose, NoRead, Structs, Words
  <2> QED
    BY <1>0, <1>4, <2>1, <2>3, <2>4 DEF Fclose
<1>5. ASSUME NEW slot \in Opened, NEW bytes \in Counts, Fread(slot, bytes) PROVE FilesTypeOK'
  <2>1. files[slot].pointer \in Words /\ bytes \in Words
    BY <1>0, FilesAssumption DEF FILE
  <2>2. reading' \in [slot : Structs, pointer : Words, bytes : Words]
    BY <1>0, <1>5, <2>1, FreadEffect
  <2> QED
    BY <1>0, <1>5, <2>2, FreadEffect DEF Loses
<1>6. ASSUME NEW slot \in Opened, NEW pointer \in Words, MoveTo(slot, pointer) PROVE FilesTypeOK'
  <2>1. files' \in [Structs -> FILE]
    BY <1>0, <1>6 DEF MoveTo, FILE
  <2> QED
    BY <1>0, <1>6, <2>1 DEF MoveTo
<1> QED
  BY <1>0, <1>1, <1>2, <1>3, <1>4, <1>5, <1>6, FilesSteps

LEMMA PointerKept ==
  ASSUME FilesInv, [FilesNext]_fileVars
  PROVE  PointerInFile'
<1> USE DEF PointerInFile, Opened
<1>0. FilesTypeOK /\ PointerInFile /\ Opened \subseteq Structs /\ DOMAIN files = Structs
      /\ open \in [Structs -> Nat]
  BY DEF FilesInv, FilesTypeOK, Opened
<1>1. CASE UNCHANGED fileVars
  BY <1>0, <1>1 DEF fileVars
<1>2. ASSUME NEW lost, Loses(lost), UNCHANGED <<files, open, failed, reading>>
      PROVE  PointerInFile'
  BY <1>0, <1>2
<1>3. ASSUME NEW slot \in Structs, NEW array, NEW names, NEW buffers, NEW size,
             Fills(slot, array, names, buffers, size)
      PROVE  PointerInFile'
  BY <1>0, <1>3 DEF Fills
<1>4. ASSUME NEW slot \in Opened, Fclose(slot) PROVE PointerInFile'
  <2>1. \A s \in Structs : /\ open'[s] > 0 => open[s] > 0
                           /\ files'[s].pointer = files[s].pointer /\ files'[s].size = files[s].size
    <3>1. open' = [open EXCEPT ![slot] = @ - 1] /\ files' = [files EXCEPT ![slot] = Unused(@)]
      BY <1>4 DEF Fclose
    <3>2. \A s \in Structs : open'[s] > 0 => open[s] > 0
      BY <1>0, <3>1
    <3>3. Unused(files[slot]).pointer = files[slot].pointer /\ Unused(files[slot]).size = files[slot].size
      BY <1>0, <1>4 DEF Unused, FilesTypeOK, FILE
    <3> QED
      BY <1>0, <3>1, <3>2, <3>3
  <2> QED
    BY <1>0, <2>1
<1>5. ASSUME NEW slot \in Opened, NEW bytes \in Counts, Fread(slot, bytes) PROVE PointerInFile'
  BY <1>0, <1>5, FreadEffect
<1>6. ASSUME NEW slot \in Opened, NEW pointer \in Words, MoveTo(slot, pointer),
             pointer < files[slot].size \/ pointer = 0
      PROVE  PointerInFile'
  BY <1>0, <1>6 DEF MoveTo, FilesTypeOK, FILE
<1> QED
  BY <1>0, <1>1, <1>2, <1>3, <1>4, <1>5, <1>6, FilesSteps

LEMMA ReadsKept ==
  ASSUME FilesInv, [FilesNext]_fileVars
  PROVE  ReadsInsideFile'
<1> USE DEF ReadsInsideFile, Opened
<1>0. FilesTypeOK /\ ReadsInsideFile /\ Opened \subseteq Structs /\ DOMAIN files = Structs
      /\ open \in [Structs -> Nat]
  BY DEF FilesInv, FilesTypeOK, Opened
<1>1. CASE UNCHANGED fileVars
  BY <1>0, <1>1 DEF fileVars
<1>2. ASSUME NEW lost, Loses(lost), UNCHANGED <<files, open, failed, reading>>
      PROVE  ReadsInsideFile'
  BY <1>0, <1>2
<1>3. ASSUME NEW slot \in Structs, NEW array, NEW names, NEW buffers, NEW size,
             Fills(slot, array, names, buffers, size)
      PROVE  ReadsInsideFile'
  <2>1. slot \notin Opened
    BY <1>3 DEF Fills, FilesInv, StructsAccounted, Used
  <2>2. reading.slot \in Opened => reading.slot \in Opened' /\ files'[reading.slot] = files[reading.slot]
    BY <1>0, <1>3, <2>1 DEF Fills, Opened
  <2> QED
    BY <1>0, <1>3, <2>2 DEF Fills
<1>4. ASSUME NEW slot \in Opened, Fclose(slot) PROVE ReadsInsideFile'
  <2>1. CASE reading.slot = slot
    BY <1>4, <2>1 DEF Fclose, NoRead
  <2>2. CASE reading.slot # slot
    BY <1>0, <1>4, <2>2 DEF Fclose
  <2> QED
    BY <2>1, <2>2
<1>5. ASSUME NEW slot \in Opened, NEW bytes \in Counts, Fread(slot, bytes)
      PROVE  ReadsInsideFile'
  <2>1. /\ reading' = [slot |-> slot, pointer |-> files[slot].pointer, bytes |-> bytes]
        /\ files' = files /\ open' = open
    BY <1>5, FreadEffect
  <2>2. /\ files[slot].pointer \in Words /\ files[slot].size \in Words
        /\ files[slot].pointer <= files[slot].size
        /\ bytes \in Int
    BY <1>0, FilesAssumption DEF FilesInv, FilesTypeOK, FILE, PointerInFile, Words
  <2>3. files[slot].size - files[slot].pointer \in Words
    BY <2>2, FilesAssumption DEF Words
  <2>4. bytes <= files[slot].size - files[slot].pointer
    BY <1>5, <2>2, <2>3, UnsignedWord DEF Fread, Beyond, Words
  <2>5. files[slot].pointer + bytes <= files[slot].size
    BY <2>2, <2>4 DEF Words
  <2> QED
    BY <2>1, <2>5
<1>6. ASSUME NEW slot \in Opened, NEW pointer \in Words, MoveTo(slot, pointer)
      PROVE  ReadsInsideFile'
  BY <1>0, <1>6 DEF MoveTo, FilesTypeOK, FILE
<1> QED
  BY <1>0, <1>1, <1>2, <1>3, <1>4, <1>5, <1>6, FilesSteps

LEMMA StructsKept ==
  ASSUME FilesInv, [FilesNext]_fileVars
  PROVE  StructsAccounted'
<1> USE DEF StructsAccounted, Used, Opened
<1>0. /\ FilesTypeOK /\ StructsAccounted
      /\ Opened \subseteq Structs /\ open \in [Structs -> Nat] /\ files \in [Structs -> FILE]
  BY DEF FilesInv, FilesTypeOK, Opened
<1>1. CASE UNCHANGED fileVars
  BY <1>0, <1>1 DEF fileVars
<1>2. ASSUME NEW lost, Loses(lost), UNCHANGED <<files, open, failed, reading>>
      PROVE  StructsAccounted'
  BY <1>0, <1>2
<1>3. ASSUME NEW slot \in Structs, NEW array, NEW names, NEW buffers, NEW size,
             Fills(slot, array, names, buffers, size)
      PROVE  StructsAccounted'
  <2>1. Used' = Used \cup {slot} /\ slot \notin Used
    BY <1>0, <1>3 DEF Fills
  <2>2. CASE open' = [open EXCEPT ![slot] = @ + 1] /\ failed' = failed
    <3>1. open[slot] = 0
      BY <1>0, <2>1 DEF Opened
    <3>2. \A s \in Structs : open'[s] = IF s = slot THEN 1 ELSE open[s]
      BY <1>0, <2>2, <3>1
    <3>3. Opened' = Opened \cup {slot}
      BY <1>0, <3>2 DEF Opened
    <3> QED
      BY <1>0, <2>1, <2>2, <3>2, <3>3
  <2>3. CASE open' = open /\ failed' = failed \cup {slot}
    <3>1. Opened' = Opened
      BY <2>3 DEF Opened
    <3> QED
      BY <1>0, <2>1, <2>3, <3>1
  <2> QED
    BY <1>3, <2>2, <2>3 DEF Fills
<1>4. ASSUME NEW slot \in Opened, Fclose(slot) PROVE StructsAccounted'
  <2>1. Used' = Used \ {slot}
    BY <1>0, <1>4 DEF Fclose, Unused, FILE
  <2>2. \A s \in Structs : open'[s] = IF s = slot THEN 0 ELSE open[s]
    BY <1>0, <1>4 DEF Fclose, Opened
  <2>3. Opened' = Opened \ {slot}
    BY <1>0, <2>2 DEF Opened
  <2> QED
    BY <1>0, <1>4, <2>1, <2>2, <2>3 DEF Fclose
<1>5. ASSUME NEW slot \in Opened, NEW bytes \in Counts, Fread(slot, bytes)
      PROVE  StructsAccounted'
  BY <1>0, <1>5, FreadEffect
<1>6. ASSUME NEW slot \in Opened, NEW pointer \in Words, MoveTo(slot, pointer)
      PROVE  StructsAccounted'
  <2>1. Used' = Used
    BY <1>0, <1>6 DEF MoveTo, FILE
  <2> QED
    BY <1>0, <1>6, <2>1 DEF MoveTo
<1> QED
  BY <1>0, <1>1, <1>2, <1>3, <1>4, <1>5, <1>6, FilesSteps

(* The blocks of the path that structure s keeps.                          *)
Held(s) == {files[s].array} \cup files[s].names

LEMMA NamesKept ==
  ASSUME FilesInv, [FilesNext]_fileVars
  PROVE  NamesOwned'
<1>0. /\ FilesTypeOK
      /\ Opened \subseteq Structs /\ files \in [Structs -> FILE]
      /\ Opened \subseteq Used /\ Used \subseteq Structs
      /\ leaked \subseteq live /\ live \subseteq Blocks
  BY DEF FilesInv, FilesTypeOK, StructsAccounted, Used, Opened
<1>a. /\ \A s, t \in Used : s # t => Held(s) \cap Held(t) = {}
      /\ live = leaked \cup UNION {Held(s) : s \in Used}
      /\ \A s \in Used : Held(s) \cap leaked = {}
  BY DEF FilesInv, NamesOwned, Held
<1>b. SUFFICES /\ \A s, t \in Used' : s # t => Held(s)' \cap Held(t)' = {}
               /\ live' = leaked' \cup UNION {Held(s)' : s \in Used'}
               /\ \A s \in Used' : Held(s)' \cap leaked' = {}
  BY DEF NamesOwned, Held
<1>c. ASSUME Used' = Used, live' = live, leaked' = leaked,
             \A s \in Used : Held(s)' = Held(s)
      PROVE  /\ \A s, t \in Used' : s # t => Held(s)' \cap Held(t)' = {}
             /\ live' = leaked' \cup UNION {Held(s)' : s \in Used'}
             /\ \A s \in Used' : Held(s)' \cap leaked' = {}
  BY <1>a, <1>c
<1> DEFINE Goal == /\ \A s, t \in Used' : s # t => Held(s)' \cap Held(t)' = {}
                   /\ live' = leaked' \cup UNION {Held(s)' : s \in Used'}
                   /\ \A s \in Used' : Held(s)' \cap leaked' = {}
<1>1. CASE UNCHANGED fileVars
  BY <1>c, <1>1 DEF fileVars, Used, Held
<1>d. ASSUME NEW lost, Loses(lost), files' = files
      PROVE  Goal
  <2>1. Used' = Used /\ \A s \in Used : Held(s)' = Held(s)
    BY <1>d DEF Used, Held
  <2>2. /\ lost \cap live = {}
        /\ live' = live \cup lost /\ leaked' = leaked \cup lost
    BY <1>d DEF Loses
  <2> QED
    BY <1>a, <2>1, <2>2
<1>2. ASSUME NEW lost, Loses(lost), UNCHANGED <<files, open, failed, reading>>
      PROVE  Goal
  BY <1>d, <1>2
<1>3. ASSUME NEW slot \in Structs, NEW array \in Blocks \ live,
             NEW names \in SUBSET (Blocks \ live), NEW buffers \in SUBSET (Blocks \ live),
             NEW size, Fills(slot, array, names, buffers, size)
      PROVE  Goal
  <2>1. Used' = Used \cup {slot} /\ slot \notin Used
    BY <1>0, <1>3 DEF Fills, Used
  <2>2. Held(slot)' = {array} \cup names /\ \A s \in Used : Held(s)' = Held(s)
    BY <1>0, <1>3, <2>1 DEF Fills, Held
  <2>3. /\ live' = live \cup {array} \cup names \cup buffers
        /\ leaked' = leaked \cup buffers
        /\ ({array} \cup names) \cap buffers = {}
    BY <1>3 DEF Fills
  <2>4. \A s \in Used : Held(s) \subseteq live
    BY <1>a
  <2>5. \A s, t \in Used' : s # t => Held(s)' \cap Held(t)' = {}
    BY <1>a, <2>1, <2>2, <2>4
  <2>6. live' = leaked' \cup UNION {Held(s)' : s \in Used'}
    BY <1>a, <2>1, <2>2, <2>3
  <2>7. \A s \in Used' : Held(s)' \cap leaked' = {}
    BY <1>0, <1>a, <2>1, <2>2, <2>3, <2>4
  <2> QED
    BY <2>5, <2>6, <2>7
<1>4. ASSUME NEW slot \in Opened, Fclose(slot) PROVE Goal
  <2>1. Used' = Used \ {slot} /\ slot \in Used
    BY <1>0, <1>4 DEF Fclose, Unused, FILE, Used
  <2>2. \A s \in Used \ {slot} : Held(s)' = Held(s)
    BY <1>0, <1>4 DEF Fclose, Held
  <2>3. live' = live \ Held(slot) /\ leaked' = leaked
    BY <1>4 DEF Fclose, FreedBy, Held
  <2> QED
    BY <1>a, <2>1, <2>2, <2>3
<1>5. ASSUME NEW slot \in Opened, NEW bytes \in Counts, Fread(slot, bytes)
      PROVE  Goal
  BY <1>d, <1>5, FreadEffect
<1>6. ASSUME NEW slot \in Opened, NEW pointer \in Words, MoveTo(slot, pointer)
      PROVE  Goal
  <2>1. Used' = Used /\ \A s \in Used : Held(s)' = Held(s)
    BY <1>0, <1>6 DEF MoveTo, FILE, Used, Held
  <2> QED
    BY <1>c, <1>6, <2>1 DEF MoveTo
<1> QED
  BY <1>0, <1>1, <1>2, <1>3, <1>4, <1>5, <1>6, FilesSteps

-----------------------------------------------------------------------------
(* The conjunction of the five invariants is inductive.                    *)
THEOREM FilesInvariant == FilesSpec => []FilesInv
<1>1. FilesInit => FilesInv
  <2> SUFFICES ASSUME FilesInit PROVE FilesInv
    OBVIOUS
  <2>1. FilesTypeOK
    BY FilesAssumption DEF FilesInit, FilesTypeOK, FILE, Structs, Words, NoRead
  <2>2. Used = {}
    BY DEF FilesInit, Used
  <2>3. Opened = {} /\ \A s \in Structs : open[s] <= 1
    BY DEF FilesInit, Opened
  <2> QED
    BY <2>1, <2>2, <2>3 DEF FilesInit, FilesInv, PointerInFile, ReadsInsideFile, NoRead,
                      StructsAccounted, NamesOwned
<1>2. FilesInv /\ [FilesNext]_fileVars => FilesInv'
  BY FilesTypeKept, PointerKept, ReadsKept, StructsKept, NamesKept DEF FilesInv
<1> QED
  BY <1>1, <1>2, PTL DEF FilesSpec

(* The table keeps its shape and every offset stays a word: no function of *)
(* FS.c goes past the one structure behind the table, and fclose never     *)
(* gives back a block that has been counted as lost.                       *)
THEOREM FilesTypeCorrect == FilesSpec => []FilesTypeOK
<1>1. FilesInv => FilesTypeOK
  BY DEF FilesInv
<1> QED
  BY <1>1, FilesInvariant, PTL

(* No sequence of fopen, fseek and rewind moves the pointer of an open     *)
(* file past its end (PointerInFile).                                      *)
THEOREM PointersStayInside == FilesSpec => []PointerInFile
<1>1. FilesInv => PointerInFile
  BY DEF FilesInv
<1> QED
  BY <1>1, FilesInvariant, PTL

(* What fread passes to fat_read lies inside the file (ReadsInsideFile).   *)
THEOREM ReadsStayInside == FilesSpec => []ReadsInsideFile
<1>1. FilesInv => ReadsInsideFile
  BY DEF FilesInv
<1> QED
  BY <1>1, FilesInvariant, PTL

(* Every structure in use is an open file's or was lost to a failing fopen *)
(* (StructsAccounted).                                                     *)
THEOREM EveryStructAccounted == FilesSpec => []StructsAccounted
<1>1. FilesInv => StructsAccounted
  BY DEF FilesInv
<1> QED
  BY <1>1, FilesInvariant, PTL

(* Every live block of a path belongs to exactly one structure in use, or  *)
(* is one of those that the code loses (NamesOwned).                       *)
THEOREM EveryNameOwned == FilesSpec => []NamesOwned
<1>1. FilesInv => NamesOwned
  BY DEF FilesInv
<1> QED
  BY <1>1, FilesInvariant, PTL
=============================================================================
