--------------------------------- MODULE Fat ---------------------------------
(***************************************************************************)
(* Cluster chains in kernel/fs/FAT.c: fat_setup, which counts the clusters *)
(* of the root directory, and fat_read, which copies a part of a file.     *)
(* Both follow the chain through a buffer that holds one sector of the     *)
(* file allocation table (FAT_buffer) and reload it when they think that   *)
(* the next entry is in another sector.  A state is a turn of their loops. *)
(*                                                                         *)
(* The bytes that fat_read copies are named by their cluster and their     *)
(* place in it.  A sector has the size that the disk has (512 bytes) and a *)
(* cluster is one sector.  A sector past the table or past the last        *)
(* cluster may not be on the disk at all: the driver then waits for ever   *)
(* for its words (pc = "hung", see module Pio).                            *)
(***************************************************************************)
EXTENDS Integers, Sequences, SequencesExt

CONSTANTS
  FEPS,               \* entries of the table in a sector (128)
  CLUSTERS,           \* entries of the table
  EOC,                \* an entry that ends a chain (0x0FFFFFF0 and above)
  bytes_per_cluster,
  U16,                \* root_clusters is counted modulo U16 (2^16)
  MAX_CHAIN           \* bound: clusters of a chain

VARIABLES
  task,               \* "count" (fat_setup) or "read" (fat_read)
  chain,              \* the clusters of the directory or file, in order
  others,             \* the other chains on the disk
  found,              \* find_fat_entry finds the file that is to be read
  pointer, count,     \* fp->pointer and the argument of fat_read
  pc,
  sector,             \* the sector of the table that is in FAT_buffer
  active_cluster,     \* current_cluster in fat_setup
  skipped,            \* turns of the loop over skipped clusters
  bytes,              \* still to copy
  out,                \* what has been copied
  root_clusters

fatVars == <<task, chain, others, found, pointer, count, pc, sector, active_cluster, skipped,
             bytes, out, root_clusters>>
inputs == <<task, chain, others, found, pointer, count>>

Clusters == 2 .. CLUSTERS - 1
Chains == {c \in UNION {[1 .. n -> Clusters] : n \in 1 .. MAX_CHAIN} :
             \A i, j \in DOMAIN c : c[i] = c[j] => i = j}

ASSUME FatAssumption ==
  /\ FEPS \in Nat \ {0}
  /\ CLUSTERS \in Nat
  /\ EOC \in Nat /\ EOC > CLUSTERS
  /\ bytes_per_cluster \in Nat \ {0}
  /\ MAX_CHAIN \in Nat /\ U16 \in Nat /\ U16 > MAX_CHAIN

(* The table: links of the chains; two reserved entries; the rest is free. *)
fat == [n \in 0 .. CLUSTERS - 1 |->
          IF n < 2 THEN EOC
          ELSE IF \A c \in {chain} \cup others : n \notin Range(c) THEN 0
          ELSE LET c == CHOOSE c \in {chain} \cup others : n \in Range(c)
                   i == CHOOSE i \in DOMAIN c : c[i] = n
               IN  IF i = Len(c) THEN EOC ELSE c[i + 1]]

(* What FAT_buffer may show at an index: an entry of the sector in it,     *)
(* anything at all past the table or past the buffer.                      *)
Buffer(sec, index) ==
  IF index < FEPS /\ sec * FEPS + index < CLUSTERS THEN {fat[sec * FEPS + index]} ELSE 0 .. EOC

EndsChain(entry) == entry >= EOC

SectorOf(cluster) == cluster \div FEPS
Slot(cluster) == cluster % FEPS

(* Sectors and clusters that need not be on the disk.                      *)
NoSector(sec) == sec * FEPS >= CLUSTERS
NoCluster(cluster) == cluster >= CLUSTERS

-----------------------------------------------------------------------------
(* Mutant: the entry is taken with the index that decides the reload.      *)
RootEntry_raw(sec, cluster) == Buffer(sec, cluster)

RootEntry(sec, cluster) == Buffer(sec, Slot(cluster))

(* fat_setup.  The reload is decided with an index that is not reduced to  *)
(* the buffer's size.                                                      *)
Reloads == \E seen \in Buffer(sector, active_cluster) : SectorOf(active_cluster) # SectorOf(seen)
Stays == \E seen \in Buffer(sector, active_cluster) : SectorOf(active_cluster) = SectorOf(seen)

CountCluster ==
  /\ task = "count" /\ pc = "loop"
  /\ \/ Reloads /\ sector' = SectorOf(active_cluster)
     \/ Stays /\ UNCHANGED sector
  /\ \E next \in RootEntry(sector', active_cluster) :
       IF EndsChain(next)
         THEN /\ pc' = "done"
              /\ UNCHANGED <<root_clusters, active_cluster>>
         ELSE /\ root_clusters' = (root_clusters + 1) % U16
              /\ active_cluster' = next
              /\ UNCHANGED pc
  /\ UNCHANGED <<inputs, skipped, bytes, out>>

-----------------------------------------------------------------------------
(* fat_read                                                                *)

(* find_fat_entry (module Directory) and the first read of the table.  If  *)
(* the search returns without the file, nothing has been stored in entry   *)
(* or only the last directory: the first cluster is anything.              *)
FindEntry ==
  /\ task = "read" /\ pc = "find"
  /\ active_cluster' \in IF found THEN {chain[1]} ELSE 0 .. EOC
  /\ sector' = SectorOf(active_cluster')
  /\ pc' \in {"skip"} \cup (IF NoSector(sector') THEN {"hung"} ELSE {})
  /\ UNCHANGED <<inputs, skipped, bytes, out, root_clusters>>

(* The search may also go round for ever.                                  *)
SearchOn ==
  /\ task = "read" /\ pc = "find" /\ ~found
  /\ pc' = "searching"
  /\ UNCHANGED <<inputs, sector, active_cluster, skipped, bytes, out, root_clusters>>

(* Mutant: the entry after the last one in a sector is in the same sector. *)
Follow_off_by_one ==
  \E next \in Buffer(sector, Slot(active_cluster)) :
    /\ sector' = sector
    /\ active_cluster' \in Buffer(sector, Slot(active_cluster + 1))

(* The next cluster.  The buffer is reloaded before the entry is taken     *)
(* from it, so a link into another sector leads to the wrong entry.        *)
Follow ==
  \E next \in Buffer(sector, Slot(active_cluster)) :
    /\ sector' = IF SectorOf(active_cluster) # SectorOf(next) THEN SectorOf(next) ELSE sector
    /\ active_cluster' \in Buffer(sector', Slot(active_cluster))

(* In the loop over whole clusters the link is not taken at all then.      *)
FollowOrReload ==
  \E next \in Buffer(sector, Slot(active_cluster)) :
    IF SectorOf(active_cluster) # SectorOf(next)
      THEN sector' = SectorOf(next) /\ UNCHANGED active_cluster
      ELSE active_cluster' = next /\ UNCHANGED sector

Offset == pointer % bytes_per_cluster

Copy(from, n) == out \o [i \in 1 .. n |-> <<active_cluster, from + i - 1>>]

SkipsLeft == skipped < pointer \div bytes_per_cluster

(* Mutant: a loop that does not count its turns.                           *)
SkipCluster_again ==
  /\ task = "read" /\ pc = "skip"
  /\ SkipsLeft
  /\ Follow
  /\ UNCHANGED <<inputs, pc, skipped, bytes, out, root_clusters>>

SkipCluster ==
  /\ task = "read" /\ pc = "skip"
  /\ SkipsLeft
  /\ Follow
  /\ skipped' = skipped + 1
  /\ UNCHANGED <<inputs, pc, bytes, out, root_clusters>>

SkipEnds ==
  /\ task = "read" /\ pc = "skip"
  /\ ~SkipsLeft
  /\ pc' = IF Offset # 0 THEN "partial" ELSE "loop"
  /\ UNCHANGED <<inputs, sector, active_cluster, skipped, bytes, out, root_clusters>>

(* The rest of the cluster that the pointer is in.                         *)
CopyPartial ==
  /\ task = "read" /\ pc = "partial"
  /\ LET rest == bytes_per_cluster - Offset
     IN  IF bytes > rest
           THEN /\ out' = Copy(Offset, rest)
                /\ bytes' = bytes - rest
                /\ Follow
                /\ pc' = "loop"
           ELSE /\ out' = Copy(Offset, bytes)
                /\ bytes' = 0
                /\ pc' = "done"
                /\ UNCHANGED <<sector, active_cluster>>
  /\ UNCHANGED <<inputs, skipped, root_clusters>>

CopyCluster ==
  /\ task = "read" /\ pc = "loop"
  /\ IF bytes > bytes_per_cluster
       THEN /\ out' = Copy(0, bytes_per_cluster)
            /\ bytes' = bytes - bytes_per_cluster
            /\ FollowOrReload
            /\ pc' = IF EndsChain(active_cluster') THEN "done" ELSE "loop"
       ELSE /\ out' = Copy(0, bytes)
            /\ bytes' = 0
            /\ pc' = "done"
            /\ UNCHANGED <<sector, active_cluster>>
  /\ UNCHANGED <<inputs, skipped, root_clusters>>

-----------------------------------------------------------------------------
(* The next link is in a sector that need not be there.                    *)
LinkMissing ==
  \E next \in Buffer(sector, Slot(active_cluster)) :
    SectorOf(active_cluster) # SectorOf(next) /\ NoSector(SectorOf(next))

(* What the next turn reads is not on the disk, which never answers.       *)
FatHangs ==
  /\ \/ task = "count" /\ pc = "loop" /\ Reloads /\ NoSector(SectorOf(active_cluster))
     \/ task = "read" /\ pc = "skip" /\ SkipsLeft /\ LinkMissing
     \/ task = "read" /\ pc \in {"partial", "loop"} /\ NoCluster(active_cluster)
     \/ task = "read" /\ pc = "partial" /\ bytes > bytes_per_cluster - Offset /\ LinkMissing
     \/ task = "read" /\ pc = "loop" /\ bytes > bytes_per_cluster /\ LinkMissing
  /\ pc' = "hung"
  /\ UNCHANGED <<inputs, sector, active_cluster, skipped, bytes, out, root_clusters>>

-----------------------------------------------------------------------------
(* A call on any chain: of fat_setup for the root directory, or of         *)
(* fat_read for a part of a file that ends in the last cluster.            *)
FatInit ==
  /\ task \in {"count", "read"}
  /\ chain \in Chains /\ others = {}
  /\ pointer \in 0 .. Len(chain) * bytes_per_cluster - 1
  /\ count \in 1 .. Len(chain) * bytes_per_cluster - pointer
  /\ found \in BOOLEAN
  /\ task = "count" => pointer = 0 /\ count = 1 /\ found
  /\ pc = IF task = "count" THEN "loop" ELSE "find"
  /\ active_cluster = chain[1]
  /\ sector = SectorOf(chain[1])
  /\ skipped = 0
  /\ bytes = count
  /\ out = <<>>
  /\ root_clusters = 1

FatStep == \/ CountCluster \/ FindEntry \/ SearchOn \/ SkipCluster \/ SkipEnds
           \/ CopyPartial \/ CopyCluster \/ FatHangs

-----------------------------------------------------------------------------
(* Properties                                                              *)

(* The whole chain is in one sector of the table.                          *)
OneSector == \A c \in Range(chain) : SectorOf(c) = SectorOf(chain[1])

Wanted == [i \in 1 .. count |->
             LET at == pointer + i - 1
             IN  <<chain[(at \div bytes_per_cluster) + 1], at % bytes_per_cluster>>]

(* fat_read copies the bytes of the file from the pointer on, in order and *)
(* wherever pointer and count cut the clusters, as long as the search has  *)
(* found the file and its links are in one sector of the table.            *)
ReadsFile ==
  task = "read" /\ found /\ OneSector => /\ IsPrefix(out, Wanted)
                                         /\ pc = "done" => out = Wanted

(* fat_setup counts the clusters of a root directory whose links are in    *)
(* one sector, although it looks at entries past its buffer.               *)
CountsRootInOneSector ==
  task = "count" /\ OneSector /\ pc = "done" => root_clusters = Len(chain)

(* The loops of fat_setup and fat_read end.  They return where the file    *)
(* has been found and the links are in one sector of the table.  Elsewhere *)
(* fat_read makes no more turns than the pointer and the count ask for,    *)
(* whatever it takes for links: it returns, unless the search for the name *)
(* never does or a sector is asked for that is not on the disk.  fat_setup *)
(* need not return then (module Disk).                                     *)
FatLoopsEnd ==
  /\ task \in {"count", "read"} /\ found /\ OneSector ~> pc = "done"
  /\ task = "read" ~> pc \in {"done", "searching", "hung"}
=============================================================================
