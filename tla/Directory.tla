----------------------------- MODULE Directory -----------------------------
(***************************************************************************)
(* find_fat_entry of kernel/fs/FAT.c, which fat_filesize and fat_read call *)
(* to follow a path from the root directory to a file.  It goes through    *)
(* the entries of a cluster in a buffer of its own; a long name is put     *)
(* together from the entries before the one it belongs to, and may go on   *)
(* in the next cluster.  A state is a turn of its loops.                   *)
(*                                                                         *)
(* A directory's entries are listed in the order of its chain.  Strings    *)
(* are sequences of cells, the 13 characters that one entry of a long name *)
(* holds; a cell ends the string or not.  A name that fills its last entry *)
(* has no end in the directory.  The cells on the disk have characters of  *)
(* 16 bits, those of the array and of paths of 8.  A deleted entry has     *)
(* another first byte and is an entry like any other to the search.        *)
(* Clusters that are no directories show whatever their files hold.        *)
(***************************************************************************)
EXTENDS Fat

CONSTANTS
  ENTRIES,      \* entries of a directory in a cluster
  PARTS,        \* bound: parts of a long name
  DELETED,      \* the part that a deleted part of a name is taken for (0xE5 & 0x1F)
  Low(_),       \* a cell cut to the low bytes of its characters
  Listings,     \* what the disk may hold: [root, sub : entries, path : names]
  Foreign       \* [cluster]: what other clusters may show, as entries

VARIABLES
  listing,      \* the two directories and the path to look for
  sub,          \* the chain of the directory below the root
  data,         \* [cluster]: the entries that a cluster of another file shows
  buffer,       \* the cluster in the buffer
  i,            \* the entry that current points to
  inname,       \* inside the loop over the parts of a long name
  len,          \* cells of long names since the last one ended
  filename,     \* [cell]: the array
  depth,
  entry         \* the entry that was found

findVars == <<buffer, i, inname, len, filename, depth, entry>>
disk == <<listing, sub, data>>
dirVars == <<fatVars, disk, findVars>>

Cell(text, ends) == [text |-> text, ends |-> ends]
NUL == Cell(<<>>, TRUE)
Uninitialised == [k \in 1 .. PARTS + 1 |-> Cell(<<"?">>, FALSE)]
None == [kind |-> "none", name |-> <<>>, base |-> "", ext |-> "", deleted |-> FALSE]

(* A name: its last cell and no other ends it.  A name that fills its last *)
(* entry needs a cell more, which is not in the directory.                 *)
Ended(name) ==
  /\ name \in Seq(Range(name)) /\ Len(name) \in 1 .. PARTS + 1
  /\ \A k \in 1 .. Len(name) : name[k].ends <=> k = Len(name)
Parts(name) == IF name[Len(name)] = NUL THEN Len(name) - 1 ELSE Len(name)

(* A directory as it is written to a disk: the parts of a long name, from  *)
(* the last to the first, stand before the entry they belong to.  Deleted  *)
(* entries may stand between such groups: those of short names, and parts  *)
(* of long names, which have lost their number.                            *)
LivePart(e) == e.kind = "lfn" /\ ~e.deleted
Starts(entries, n) == n = 1 \/ ~LivePart(entries[n - 1])
IsDirectory(entries) ==
  /\ entries \in Seq(Range(entries))
  /\ \A n \in DOMAIN entries :
       LET e == entries[n]
       IN  /\ e.kind \in {"lfn", "file", "dir"} /\ e.deleted \in BOOLEAN
           /\ e.kind = "lfn" /\ e.deleted => e.part = DELETED
           /\ LivePart(e) =>
                /\ Ended(e.name) /\ Parts(e.name) <= PARTS
                /\ e.part \in 1 .. Parts(e.name) /\ e.cell = e.name[e.part]
                /\ Starts(entries, n) => e.part = Parts(e.name)
                /\ n < Len(entries) /\ entries[n + 1].name = e.name /\ ~entries[n + 1].deleted
                /\ IF e.part = 1 THEN entries[n + 1].kind # "lfn"
                                 ELSE /\ entries[n + 1].kind = "lfn"
                                      /\ entries[n + 1].part = e.part - 1
           /\ e.kind # "lfn" /\ Starts(entries, n) => e.name = <<>>

Chunk(entries, k) ==
  [n \in 1 .. ENTRIES |-> IF (k - 1) * ENTRIES + n <= Len(entries)
                            THEN entries[(k - 1) * ENTRIES + n]
                            ELSE None]
Place(c, cluster) == CHOOSE k \in DOMAIN c : c[k] = cluster

Contents(cluster) ==
  IF cluster \in Range(chain) THEN Chunk(listing.root, Place(chain, cluster))
  ELSE IF cluster \in Range(sub) THEN Chunk(listing.sub, Place(sub, cluster))
  ELSE data[cluster]

InDirectories(cluster) == cluster \in Range(chain) \cup Range(sub)
Current == Contents(buffer)[i + 1]
Searching == task = "find" /\ pc = "search"

-----------------------------------------------------------------------------
(* Mutant: the next cluster is taken from the entry after this one.        *)
NextCluster_off_by_one ==
  \E next \in Buffer(sector, Slot(active_cluster)) :
    /\ sector' = SectorOf(next)
    /\ active_cluster' \in Buffer(sector', Slot(active_cluster + 1))

(* The table's sector for the next cluster is read before the entry is     *)
(* taken from the buffer, also when there is no next cluster.              *)
NextCluster ==
  \E next \in Buffer(sector, Slot(active_cluster)) :
    /\ sector' = SectorOf(next)
    /\ active_cluster' \in Buffer(sector', Slot(active_cluster))

wcatomba(cell) == Low(cell)

(* A part of a long name, deleted or not.  At the end of the cluster the   *)
(* next one becomes active, but the search starts again on the buffer as   *)
(* it is, with the length as it is.                                        *)
NamePart ==
  /\ Searching
  /\ Current.kind = "lfn"
  /\ filename' = [filename EXCEPT ![Current.part] = wcatomba(Current.cell)]
  /\ len' = IF len > PARTS THEN len ELSE len + 1
  /\ IF i + 1 < ENTRIES
       THEN /\ i' = i + 1 /\ inname' = TRUE
            /\ UNCHANGED <<sector, active_cluster>>
       ELSE /\ i' = 0 /\ inname' = FALSE
            /\ NextCluster
  /\ UNCHANGED <<inputs, pc, skipped, bytes, out, root_clusters, disk, buffer, depth, entry>>

(* The name in the entry itself: everything before the first blank, a dot  *)
(* and three characters, blanks included.                                  *)
ShortName(e) ==
  IF e.kind = "none" THEN NUL
  ELSE Cell(<<e.base, ".", IF e.ext = "" THEN "   " ELSE e.ext>>, TRUE)

(* No path spells the three blanks of a name without an extension.         *)
ASSUME DirectoryAssumption ==
  /\ ENTRIES \in Nat \ {0} /\ PARTS \in Nat \ {0}
  /\ DELETED \in 1 .. PARTS
  /\ \A shown \in Foreign : \A cluster \in 0 .. EOC, n \in 1 .. ENTRIES :
       LET e == shown[cluster][n]
       IN  e.kind \in {"lfn", "file", "dir", "none"} /\ (e.kind = "lfn" => e.part \in 1 .. PARTS)
  /\ \A l \in Listings :
       /\ IsDirectory(l.root) /\ IsDirectory(l.sub)
       /\ \A d \in 1 .. Len(l.path) :
            /\ Ended(l.path[d])
            /\ \A e \in Range(l.root) \cup Range(l.sub) :
                 e.kind # "lfn" /\ e.ext = "" => l.path[d][1] # ShortName(e)

(* What the array holds at an entry that is not a part of a name: the long *)
(* name that has just ended, or the entry's own.                           *)
Name ==
  IF inname
    THEN [k \in DOMAIN filename |-> IF k = len + 1 THEN NUL ELSE filename[k]]
    ELSE [filename EXCEPT ![1] = ShortName(Current)]

(* Mutant: only as many characters as an entry of a long name holds.       *)
strcmp_short(array, name) == array[1] = name[1]

strcmp(array, name) == \A k \in DOMAIN name : array[k] = name[k]

(* Behind the path's end is nothing to compare with.                       *)
Matches(name) == depth < Len(listing.path) /\ strcmp(name, listing.path[depth + 1])

(* The array and the length at an entry that is not a part of a name.      *)
TakeName ==
  /\ Searching
  /\ Current.kind # "lfn"
  /\ filename' = Name
  /\ len' = IF inname THEN 0 ELSE len

(* A file ends the search, at whatever depth.                              *)
FoundFile ==
  /\ TakeName /\ Matches(Name)
  /\ Current.kind # "dir"
  /\ entry' = Current
  /\ pc' = "done"
  /\ UNCHANGED <<inputs, sector, active_cluster, skipped, bytes, out, root_clusters,
                 disk, buffer, i, inname, depth>>

(* The first cluster of a directory; a deleted one's, and what looks like  *)
(* a directory in a file, is anything.                                     *)
FirstCluster(e) == IF InDirectories(buffer) /\ ~e.deleted THEN {sub[1]} ELSE 0 .. EOC

(* The sector of the table that is in the buffer stays.                    *)
EnterDirectory ==
  /\ TakeName /\ Matches(Name)
  /\ Current.kind = "dir"
  /\ entry' = Current
  /\ active_cluster' \in FirstCluster(Current)
  /\ buffer' = active_cluster'
  /\ i' = 0 /\ inname' = FALSE /\ depth' = depth + 1
  /\ UNCHANGED <<inputs, pc, sector, skipped, bytes, out, root_clusters, disk>>

(* The next entry, or the next cluster.                                    *)
NextEntry ==
  /\ TakeName /\ ~Matches(Name)
  /\ inname' = FALSE
  /\ IF i + 1 < ENTRIES
       THEN /\ i' = i + 1
            /\ UNCHANGED <<pc, sector, active_cluster, buffer>>
       ELSE /\ i' = 0
            /\ NextCluster
            /\ IF EndsChain(active_cluster')
                 THEN pc' = "missing" /\ UNCHANGED buffer
                 ELSE buffer' = active_cluster' /\ UNCHANGED pc
  /\ UNCHANGED <<inputs, skipped, bytes, out, root_clusters, disk, depth, entry>>

(* The cluster in the buffer, or the sector of the table that is read at   *)
(* the end of a cluster, is not on the disk.  At the end of a chain the    *)
(* search asks for the sector that the end mark would be in.               *)
FindHangs ==
  /\ Searching
  /\ \/ NoCluster(buffer)
     \/ /\ i + 1 = ENTRIES
        /\ Current.kind # "lfn" => ~Matches(Name)
        /\ \E next \in Buffer(sector, Slot(active_cluster)) : NoSector(SectorOf(next))
  /\ pc' = "hung"
  /\ UNCHANGED <<inputs, sector, active_cluster, skipped, bytes, out, root_clusters, disk, findVars>>

FindStep == NamePart \/ FoundFile \/ EnterDirectory \/ NextEntry \/ FindHangs

-----------------------------------------------------------------------------
Chained(entries) == (Len(entries) + ENTRIES - 1) \div ENTRIES

(* A call of fat_filesize on any disk, or one of the calls of module Fat.  *)
FindInit ==
  /\ task = "find"
  /\ listing \in Listings
  /\ chain \in {c \in Chains : Len(c) = Chained(listing.root)}
  /\ sub \in {c \in Chains : Len(c) = Chained(listing.sub) /\ Range(c) \cap Range(chain) = {}}
  /\ others = {sub}
  /\ data \in Foreign
  /\ found = FALSE
  /\ pointer = 0 /\ count = 0 /\ skipped = 0 /\ bytes = 0 /\ out = <<>> /\ root_clusters = 0
  /\ pc = "search"
  /\ active_cluster = chain[1] /\ buffer = chain[1]
  /\ sector = SectorOf(chain[1])
  /\ i = 0 /\ inname = FALSE /\ len = 0 /\ filename = Uninitialised /\ depth = 0 /\ entry = None

Unsearched ==
  /\ listing = [root |-> <<>>, sub |-> <<>>, path |-> <<>>] /\ sub = <<>> /\ data = <<>>
  /\ buffer = 0 /\ i = 0 /\ inname = FALSE /\ len = 0 /\ filename = Uninitialised /\ depth = 0 /\ entry = None

DirInit == FindInit \/ (FatInit /\ Unsearched)

DirNext == FindStep \/ (FatStep /\ UNCHANGED <<disk, findVars>>)

DirSpec == DirInit /\ [][DirNext]_dirVars /\ WF_dirVars(DirNext)

-----------------------------------------------------------------------------
(* Properties                                                              *)

(* A long name as the characters of a path can spell it: cut to 8 bits and *)
(* up to the first cell that then ends it.                                 *)
Narrowed(name) ==
  [k \in 1 .. Parts(name) + 1 |-> IF k <= Parts(name) THEN Low(name[k]) ELSE NUL]
Spelled(name) ==
  LET cells == Narrowed(name)
  IN  SubSeq(cells, 1, Min({k \in DOMAIN cells : cells[k].ends}))

(* The name of a file: the long one, or what its entry spells.             *)
Named(e) ==
  IF e.kind = "none" THEN <<>>
  ELSE IF e.name # <<>> THEN Spelled(e.name)
  ELSE <<Cell(IF e.ext = "" THEN <<e.base>> ELSE <<e.base, ".", e.ext>>, TRUE)>>

(* Where the path leads.  Short names without an extension are left out:   *)
(* the search puts a dot and three blanks behind them.                     *)
InDirectory(entries, name, kind) ==
  \E n \in DOMAIN entries : /\ entries[n].kind = kind
                            /\ Named(entries[n]) = name
                            /\ entries[n].name # <<>> \/ entries[n].ext # ""
Exists ==
  LET p == listing.path
  IN  \/ Len(p) = 1 /\ InDirectory(listing.root, p[1], "file")
      \/ /\ Len(p) = 2 /\ InDirectory(listing.root, p[1], "dir")
         /\ InDirectory(listing.sub, p[2], "file")

(* No long name is cut by the end of a cluster: the last entry of a        *)
(* cluster is not a part of a name, and does not look like one.            *)
NamesUncut ==
  /\ \A entries \in {listing.root, listing.sub} :
       \A n \in DOMAIN entries : n % ENTRIES = 0 => entries[n].kind # "lfn"
  /\ \A cluster \in 0 .. EOC : data[cluster][ENTRIES].kind # "lfn"

(* No part of a deleted long name is left in the directories.              *)
NoDeletedParts ==
  \A e \in Range(listing.root) \cup Range(listing.sub) : e.kind = "lfn" => ~e.deleted

OneTableSector == \A c \in Range(chain) \cup Range(sub) : SectorOf(c) = SectorOf(chain[1])

(* The search finds every file that exists, in any cluster of the root or  *)
(* of the directory below it, after long and short names, names that fill  *)
(* their entries, deleted short names and files of the same name           *)
(* elsewhere, as long as the links that it follows are in one sector of    *)
(* the table, no name is cut and no part of a deleted long name is left.   *)
FindsFile ==
  task = "find" /\ Exists /\ NamesUncut /\ NoDeletedParts /\ OneTableSector
    ~> /\ task = "find" /\ pc = "done"
       /\ depth = Len(listing.path) - 1
       /\ entry.kind = "file" /\ Named(entry) = Last(listing.path)

(* The entry that the search is at stands behind parts of long names, one  *)
(* of them deleted.                                                        *)
BehindDeleted ==
  \E m \in 1 .. i : /\ Contents(buffer)[m].kind = "lfn" /\ Contents(buffer)[m].deleted
                    /\ \A k \in m .. i : Contents(buffer)[k].kind = "lfn"

(* Whatever the search has been through (lost chains, the contents of      *)
(* files, deleted entries, names of all lengths before), an entry of a     *)
(* directory that it returns has the name, as far as 8 bits tell it, that  *)
(* the path has at that depth, as long as no name is cut.  An empty name,  *)
(* behind a "/" at the path's end, is that of an unused entry.  The one    *)
(* exception stands right behind a part of a deleted long name: the array  *)
(* then shows what earlier names have left in front of that part.          *)
FoundIsNamed ==
  task = "find" /\ pc = "done" /\ NamesUncut /\ InDirectories(buffer) =>
    \/ entry.kind = "file" /\ Named(entry) = listing.path[depth + 1]
    \/ entry = None /\ listing.path[depth + 1] = <<NUL>>
    \/ BehindDeleted
=============================================================================
