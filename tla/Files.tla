-------------------------------- MODULE Files --------------------------------
(***************************************************************************)
(* The table of open files of kernel/fs/FS.c: fopen, fclose, fread, fseek, *)
(* rewind and fsize.  A path is known by what fopen finds out about it:    *)
(* how many separators it has, whether its prefix is right, whether its    *)
(* volume is a letter, what file system the volume has and how long the    *)
(* file is.  Offsets are 64-bit words that the code compares now as        *)
(* signed, now as unsigned numbers.  Blocks are the memory that malloc     *)
(* gives out; nothing else in this module uses it.                         *)
(***************************************************************************)
EXTENDS Integers, Sequences, FiniteSets, FiniteSetsExt

CONSTANTS
  MAX_OPEN_FILES,
  WORD,        \* offsets are words modulo WORD (2^64)
  Paths,       \* arguments of fopen: [dirs, prefix, volume, fs, found]
  Sizes,       \* sizes of files
  Garbage,     \* sizes that an uninitialised directory entry may show
  Offsets,     \* arguments of fseek, signed
  Counts,      \* arguments of fread
  bytes_per_cluster,
  Blocks       \* memory blocks; fopen and fread are not called without enough

VARIABLES
  files,       \* [slot]: the table, and one structure past its end
  open,        \* history, [slot]: how many callers have opened and not closed it
  failed,      \* history: slots that a failing fopen has left in use
  live,        \* blocks that malloc has given out
  leaked,      \* history: live blocks that nothing points to
  reading      \* what the last fread passed to fat_read

fileVars == <<files, open, failed, live, leaked, reading>>

Table == 0 .. MAX_OPEN_FILES - 1
Structs == 0 .. MAX_OPEN_FILES
Words == 0 .. WORD - 1
NoRead == [slot |-> 0, pointer |-> 0, bytes |-> 0]
FILE == [used : BOOLEAN, array : Blocks \cup {0}, names : SUBSET Blocks,
         pointer : Words, size : Words]

(* The volume, a signed char, is refused from 26 on: a character below 'A' *)
(* passes.  If it is a slash, the path |//name has a separator more than   *)
(* it has names.  A size has 32 bits, far fewer than an offset.            *)
ASSUME FilesAssumption ==
  /\ MAX_OPEN_FILES \in Nat \ {0}
  /\ WORD \in Nat \ {0}
  /\ Paths \subseteq [dirs : Nat, prefix : BOOLEAN, volume : {"letter", "below", "slash"},
                      fs : STRING, found : BOOLEAN]
  /\ \A path \in Paths : path.prefix /\ path.volume = "slash" => path.dirs >= 2
  /\ Sizes \cup Garbage \cup Counts \subseteq Words
  /\ \A size \in Sizes \cup Garbage : 4 * size < WORD
  /\ Offsets \subseteq Int
  /\ \A offset \in Offsets : -WORD <= 2 * offset /\ 2 * offset < WORD
  /\ Blocks \subseteq Nat \ {0}
  /\ IsFiniteSet(Blocks)
  /\ bytes_per_cluster \in Nat \ {0}

(* Mutant: offsets keep their sign.                                        *)
Unsigned_not(n) == n

(* The word of a signed number.                                            *)
Unsigned(n) == n % WORD

-----------------------------------------------------------------------------
(* fopen.  The blocks are an array of names and the names.                 *)
Taken(n) == CHOOSE b \in SUBSET (Blocks \ live) :
              Cardinality(b) = n /\ \A x \in b, y \in (Blocks \ live) \ b : x < y

Enough(n) == Cardinality(Blocks \ live) >= n

(* Mutant: the search for a structure does not look whether it is in use.  *)
FreeStructs_any == Structs

FreeStructs == {s \in Structs : ~files[s].used}

(* The NULL stored behind the last name: where the volume is a slash there *)
(* is one name less than blocks, and the pointer to the last is lost.      *)
Dropped(path) == IF path.volume = "slash" THEN Taken(path.dirs + 1) \ Taken(path.dirs) ELSE {}

(* The size of a file that was found, or what an entry that was not filled *)
(* in shows.  A volume below 'A' is an entry before the table of volumes,  *)
(* whose disk, partition and file system are whatever lies there.          *)
SizesOf(path) == Garbage \cup (IF path.found /\ path.volume = "letter" THEN Sizes ELSE {})

(* A path without a separator is turned down before anything is taken.     *)
FopenRefused(path) ==
  /\ path.dirs = 0
  /\ UNCHANGED fileVars

(* A wrong prefix: the array is given back, the names are not.             *)
FopenError(path) ==
  /\ path.dirs > 0 /\ ~path.prefix
  /\ Enough(path.dirs + 1)
  /\ LET names == Taken(path.dirs + 1) \ {Min(Taken(path.dirs + 1))}
     IN  live' = live \cup names /\ leaked' = leaked \cup names
  /\ UNCHANGED <<files, open, failed, reading>>

(* The first structure that is not in use, even past the end of the table. *)
(* On a volume without a known file system fopen fails but has taken it.   *)
(* fat_filesize keeps two buffers and does not look whether it has found   *)
(* the file; that depends on what was in the memory of the last name,      *)
(* too, whose copy is not terminated.                                      *)
Fopen(path) ==
  /\ path.dirs > 0 /\ path.prefix
  /\ FreeStructs # {}
  /\ Enough(path.dirs + 3)
  /\ LET taken == Taken(path.dirs + 1)
         slot == Min(FreeStructs)
         dropped == Dropped(path)
         opened(size) == [used |-> TRUE, array |-> Min(taken),
                          names |-> (taken \ {Min(taken)}) \ dropped,
                          pointer |-> 0, size |-> size]
     IN  IF path.fs = "fat32"
           THEN /\ \E size \in SizesOf(path) : files' = [files EXCEPT ![slot] = opened(size)]
                /\ open' = [open EXCEPT ![slot] = @ + 1]
                /\ live' = live \cup Taken(path.dirs + 3)
                /\ leaked' = leaked \cup dropped \cup (Taken(path.dirs + 3) \ taken)
                /\ UNCHANGED failed
           ELSE /\ files' = [files EXCEPT ![slot] = opened(@.size)]
                /\ failed' = failed \cup {slot}
                /\ live' = live \cup taken
                /\ leaked' = leaked \cup dropped
                /\ UNCHANGED open
  /\ UNCHANGED reading

-----------------------------------------------------------------------------
(* aligncheck: callers pass pointers that fopen returned, so all that can  *)
(* be wrong with them is that they lie past the table.                     *)
aligncheck(slot) == slot \in Table

(* Mutant: the names are not given back.                                   *)
FreedBy_array_only(file) == {file.array}

FreedBy(file) == {file.array} \cup file.names

Unused(file) == [file EXCEPT !.used = FALSE]

Fclose(slot) ==
  /\ aligncheck(slot)
  /\ files' = [files EXCEPT ![slot] = Unused(@)]
  /\ live' = live \ FreedBy(files[slot])
  /\ open' = [open EXCEPT ![slot] = @ - 1]
  /\ reading' = IF reading.slot = slot THEN NoRead ELSE reading
  /\ UNCHANGED <<failed, leaked>>

(* Mutant: the end of the file is compared with the count alone.           *)
Beyond_size_only(bytes, file) == bytes > file.size

(* fread does not move the pointer.                                        *)
Beyond(bytes, file) == bytes > Unsigned(file.size - file.pointer)

(* fat_read returns early from the cluster that the pointer is in.         *)
EndsInCluster(file, bytes) ==
  LET offset == file.pointer % bytes_per_cluster
  IN  offset # 0 /\ bytes <= bytes_per_cluster - offset

(* Of the four buffers of fat_read and find_fat_entry one is given back,   *)
(* at the end of fat_read.                                                 *)
Fread(slot, bytes) ==
  /\ bytes # 0
  /\ ~Beyond(bytes, files[slot])
  /\ Enough(4)
  /\ reading' = [slot |-> slot, pointer |-> files[slot].pointer, bytes |-> bytes]
  /\ LET lost == IF EndsInCluster(files[slot], bytes) THEN Taken(4) ELSE Taken(4) \ {Min(Taken(4))}
     IN  live' = live \cup lost /\ leaked' = leaked \cup lost
  /\ UNCHANGED <<files, open, failed>>

FreadRefused(slot, bytes) ==
  /\ bytes = 0 \/ Beyond(bytes, files[slot])
  /\ UNCHANGED fileVars

(* fseek.  Where size_t meets long long both are compared as unsigned, so  *)
(* that the tests for a negative sum never hold.                           *)
MoveTo(slot, pointer) ==
  /\ files' = [files EXCEPT ![slot].pointer = pointer]
  /\ UNCHANGED <<open, failed, live, leaked, reading>>

SeekSet(slot, offset) ==
  /\ Unsigned(offset) < files[slot].size
  /\ MoveTo(slot, Unsigned(offset))

(* Mutant: the sum is compared as a signed number.                         *)
Sum_signed(slot, offset) == offset + files[slot].pointer

Sum(slot, offset) == Unsigned(offset + files[slot].pointer)

SeekCur(slot, offset) ==
  /\ Sum(slot, offset) < files[slot].size
  /\ MoveTo(slot, Unsigned(Sum(slot, offset)))

(* The pointer moves, and the case falls through to "return -1".           *)
SeekEnd(slot, offset) ==
  /\ offset < 0
  /\ Unsigned(-offset) <= files[slot].size
  /\ MoveTo(slot, Unsigned(files[slot].size + offset))

FseekRefused(slot, offset) ==
  /\ \/ Unsigned(offset) >= files[slot].size
     \/ Sum(slot, offset) >= files[slot].size
     \/ offset >= 0 \/ Unsigned(-offset) > files[slot].size
  /\ UNCHANGED fileVars

Rewind(slot) ==
  /\ aligncheck(slot)
  /\ MoveTo(slot, 0)

-----------------------------------------------------------------------------
(* init_disk clears the table; what lies past it is some other block.      *)
FilesInit ==
  /\ files = [s \in Structs |-> [used |-> FALSE, array |-> 0, names |-> {},
                                 pointer |-> 0, size |-> 0]]
  /\ open = [s \in Structs |-> 0] /\ failed = {}
  /\ live = {}
  /\ leaked = {}
  /\ reading = NoRead

(* Slots of files that some caller has open.                               *)
Opened == {s \in Structs : open[s] > 0}

FilesNext ==
  \/ \E path \in Paths : FopenRefused(path) \/ FopenError(path) \/ Fopen(path)
  \/ \E slot \in Opened :
       \/ Fclose(slot)
       \/ Rewind(slot)
       \/ \E bytes \in Counts : Fread(slot, bytes) \/ FreadRefused(slot, bytes)
       \/ \E offset \in Offsets : \/ SeekSet(slot, offset)
                                  \/ SeekCur(slot, offset)
                                  \/ SeekEnd(slot, offset)
                                  \/ FseekRefused(slot, offset)

FilesSpec == FilesInit /\ [][FilesNext]_fileVars

-----------------------------------------------------------------------------
(* Properties                                                              *)

FilesTypeOK ==
  /\ files \in [Structs -> FILE]
  /\ open \in [Structs -> Nat] /\ failed \in SUBSET Structs
  /\ leaked \subseteq live /\ live \subseteq Blocks
  /\ reading \in [slot : Structs, pointer : Words, bytes : Words]

(* The pointer of an open file stays inside it through every sequence of   *)
(* seeks, backward ones below the start included, where the code tests a   *)
(* word that cannot be negative.                                           *)
PointerInFile ==
  \A slot \in Opened : files[slot].pointer < files[slot].size \/ files[slot].pointer = 0

(* fread hands to fat_read only bytes that lie inside the file: the        *)
(* difference it compares with never wraps around.                         *)
ReadsInsideFile ==
  reading.bytes # 0 =>
    /\ reading.slot \in Opened
    /\ reading.pointer + reading.bytes <= files[reading.slot].size

Used == {s \in Structs : files[s].used}

(* Each block of a path belongs to one structure, is live while that is in *)
(* use, and is given back by fclose: what no structure points to are the   *)
(* names of refused paths, the last name of a path whose volume is a slash *)
(* and the buffers of the FAT functions.  No block is in two structures,   *)
(* so that fclose never frees what another open file still uses.           *)
NamesOwned ==
  LET held(s) == {files[s].array} \cup files[s].names
  IN  /\ \A s, t \in Used : s # t => held(s) \cap held(t) = {}
      /\ live = leaked \cup UNION {held(s) : s \in Used}
      /\ \A s \in Used : held(s) \cap leaked = {}

(* No two callers share a structure: fopen never returns one that another  *)
(* caller has open, also when it goes past the end of a table that is      *)
(* full.  A structure is in use for an open file or was lost to an fopen   *)
(* that failed, never both, and none is lost in any other way.             *)
StructsAccounted ==
  /\ \A s \in Structs : open[s] <= 1
  /\ Used = Opened \cup failed
  /\ Opened \cap failed = {}
=============================================================================
