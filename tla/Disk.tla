-------------------------------- MODULE Disk --------------------------------
(***************************************************************************)
(* init_disk of kernel/disk/PIO.c on the driver of module Pio: it asks     *)
(* every disk for its size, reads the partition tables, gives letters to   *)
(* the partitions and lets fat_setup of kernel/fs/FAT.c look at the boot   *)
(* sectors.  Then callers read and write sectors of the disks that it has  *)
(* found.  (How many clusters fat_setup counts for the root directory is   *)
(* in module Fat; the table of open files, which init_disk clears, in      *)
(* module Files.)                                                          *)
(*                                                                         *)
(* Of the words that IDENTIFY returns one stands for the disk's size, and  *)
(* a size is zero or not.  A partition's first sector is a number of four  *)
(* bytes.  Sizes of sectors are in units of 512 bytes.  A boot sector has  *)
(* the clusters of the root directory, which stand for their links in the  *)
(* file allocation table.                                                  *)
(***************************************************************************)
EXTENDS Pio

CONSTANTS
  PARTS,         \* entries of a partition table (4)
  SIZE_WORD,     \* the word of the IDENTIFY data with the size (100 .. 103)
  FEPS,          \* entries of a file allocation table in a sector
  EOC,           \* an entry that ends a chain (0x0FFFFFF0 and above)
  Contents,      \* sets of disks: [disk -> [table, boot, takes]]
  Memory         \* what malloc may return: [blocks : BOOLEAN, fs]

VARIABLES
  at,            \* where init_disk is between two calls of the driver
  disk, part,    \* its loops
  memory,        \* what was in the memory that malloc returned
  disktable,     \* [disk]: [blocks : size # 0, parts : [1 .. PARTS -> partinfo]]
  volumes,       \* the letters in order: [disk, partition]
  BPB,           \* the boot sector that fat_setup has read
  current_cluster,
  hasty          \* history: disks that were read before they were ready

(* Numbers on a disk have the sizes that the structures give them.         *)
Roots == {c \in Seq(0 .. EOC - 1) : c # <<>> /\ \A i, j \in DOMAIN c : c[i] = c[j] => i = j}
Fields == [signature : {TRUE}, bytes_per_sector : 0 .. TwoBytes - 1, sectors_per_cluster : Nat,
           reserved_sectors : 0 .. TwoBytes - 1, FAT_count : Nat, sectors_per_FAT : Nat,
           root : Roots]

NoBoot == [signature |-> FALSE]
root_cluster(b) == b.root[1]

ASSUME DiskAssumption ==
  /\ PARTS \in Nat \ {0} /\ SIZE_WORD \in 0 .. WORDS - 1 /\ FEPS \in Nat \ {0}
  /\ EOC \in 1 .. FourBytes - 1
  /\ Memory \subseteq [blocks : BOOLEAN, fs : STRING]
  /\ \A c \in Contents :
       /\ DOMAIN c \subseteq 0 .. 3
       /\ \A d \in DOMAIN c :
            /\ c[d].table \in [1 .. PARTS -> [loc : 0 .. FourBytes - 1, size : 0 .. FourBytes - 1]]
            /\ \A lba \in DOMAIN c[d].boot : c[d].boot[lba] \in Fields \cup {NoBoot}

tableVars == <<memory, disktable, volumes, BPB, current_cluster, hasty>>
diskVars == <<pioVars, at, disk, part, tableVars>>

partinfo(loc, size, fs, fat, data) ==
  [loc |-> loc, size |-> size, fs |-> fs, fat |-> fat, data |-> data]

(* What is in a sector, as partition table and as boot sector.             *)
Boot(d, lba) == IF lba \in DOMAIN content[d].boot THEN content[d].boot[lba] ELSE NoBoot
BootRead == Boot(buf[1][1], buf[1][2])
TableRead == content[buf[1][1]].table

-----------------------------------------------------------------------------
Returned(place) == at = place /\ pc = "idle"

Identify ==
  /\ Returned("identify")
  /\ Start("identify", [LBA |-> 0, count |-> 0], disk)
  /\ at' = "identified"
  /\ UNCHANGED <<disk, part, tableVars>>

(* A word of the answer, read without looking at the status: only a disk   *)
(* that is ready gives one.  Anything may be read else, and for another    *)
(* word than the one that has the size.  The size is joined with or to     *)
(* what was in memory.                                                     *)
InwIdentify ==
  /\ pc = "identify"
  /\ LET ready == drq[Port]
         sizes == IF ready /\ job[Port].word = SIZE_WORD THEN {TRUE} ELSE BOOLEAN
     IN  /\ IF ready THEN NextWord(Port) ELSE UNCHANGED <<job, drq, bsy>>
         /\ hasty' = IF ready THEN hasty ELSE hasty \cup {disk}
         /\ IF words = SIZE_WORD
              THEN \E word \in sizes :
                     disktable' = [disktable EXCEPT ![disk].blocks = (@ \/ word)]
              ELSE UNCHANGED disktable
  /\ words' = (words + 1) % WORDS
  /\ Goto(IF words + 1 < WORDS THEN "identify" ELSE "idle")
  /\ UNCHANGED <<content, call, step, sectors, buf, regs, stored, at, disk, part,
                 memory, volumes, BPB, current_cluster>>

(* The loop over the disks, and over the partitions of one.                *)
NextDisk ==
  /\ at' = IF disk < 3 THEN "identify" ELSE "done"
  /\ disk' = disk + 1
  /\ part' = 1

NextPart ==
  IF part < PARTS
    THEN at' = "part" /\ part' = part + 1 /\ UNCHANGED disk
    ELSE NextDisk

SkipDisk ==
  /\ Returned("identified")
  /\ ~disktable[disk].blocks
  /\ NextDisk
  /\ UNCHANGED <<pioVars, tableVars>>

ReadSector(lba, next) ==
  /\ Start("read", [LBA |-> lba, count |-> 1], disk)
  /\ at' = next
  /\ UNCHANGED <<disk, part, tableVars>>

ReadTable ==
  /\ Returned("identified")
  /\ disktable[disk].blocks
  /\ ReadSector(0, "table")

(* Four bytes, put together as a signed int and stored in 64 bits.         *)
Four(n) == IF n < FourBytes \div 2 THEN n ELSE n + EightBytes - FourBytes

Letter == [disk |-> disk, partition |-> part]

(* Mutant: an empty entry gets a letter, too.                              *)
Lettered_all(entry) == Append(volumes, Letter)

(* The next letter goes to an entry that has a partition.                  *)
Lettered(entry) == IF entry.size # 0 THEN Append(volumes, Letter) ELSE volumes

(* An entry of the table, and on to the next one.                          *)
TakeEntry ==
  /\ Returned("table")
  /\ LET entry == TableRead[part]
     IN  /\ disktable' = [disktable EXCEPT ![disk].parts[part] =
                            partinfo(Four(entry.loc), Four(entry.size), memory.fs, 0, 0)]
         /\ volumes' = Lettered(entry)
  /\ IF part < PARTS THEN part' = part + 1 /\ UNCHANGED at ELSE part' = 1 /\ at' = "part"
  /\ UNCHANGED <<pioVars, disk, memory, BPB, current_cluster, hasty>>

Info == disktable[disk].parts[part]

(* Also for entries without a partition, which show sector 0 again.        *)
ReadBoot ==
  /\ Returned("part")
  /\ ReadSector(Info.loc, "boot")

NotFat ==
  /\ Returned("boot")
  /\ ~BootRead.signature
  /\ NextPart
  /\ UNCHANGED <<pioVars, tableVars>>

-----------------------------------------------------------------------------
(* fat_setup                                                               *)
FatSetup ==
  /\ Returned("boot")
  /\ BootRead.signature
  /\ ReadSector(Info.loc, "BPB")

FirstFat(b) == b.reserved_sectors * b.bytes_per_sector

(* Mutant: there is one copy of the table.                                 *)
Data_one_table(b) == FirstFat(b) + b.sectors_per_FAT * b.bytes_per_sector - 2

Data(b) == FirstFat(b) + b.FAT_count * (b.sectors_per_FAT * b.bytes_per_sector) - 2

(* The size of a sector divides.                                           *)
DivideByZero ==
  /\ Returned("BPB")
  /\ BootRead.bytes_per_sector = 0
  /\ at' = "fault"
  /\ UNCHANGED <<pioVars, disk, part, tableVars>>

SectorOf(cluster) == cluster \div FEPS

(* The sector of the table with the entry of a cluster.                    *)
FatSector(b, cluster) == Info.loc + FirstFat(b) + SectorOf(cluster)

ReadFat ==
  /\ Returned("BPB")
  /\ BootRead.bytes_per_sector # 0
  /\ BPB' = BootRead
  /\ current_cluster' = root_cluster(BootRead)
  /\ Start("read", [LBA |-> FatSector(BootRead, root_cluster(BootRead)), count |-> 1], disk)
  /\ at' = "fat"
  /\ UNCHANGED <<disk, part, memory, disktable, volumes, hasty>>

(* What FAT_buffer may show at an index: the link of a cluster of the root *)
(* directory; anything at all for other clusters and past the buffer.      *)
InBuffer == buf[1][2] - (Info.loc + FirstFat(BPB))
Links(index) ==
  LET places == {k \in DOMAIN BPB.root :
                   SectorOf(BPB.root[k]) = InBuffer /\ BPB.root[k] % FEPS = index}
  IN  IF places = {} THEN 0 .. FourBytes - 1
      ELSE {IF k = Len(BPB.root) THEN EOC ELSE BPB.root[k + 1] : k \in places}

(* The reload is decided with an index that is not reduced to the size of  *)
(* the buffer, and loads the sector of the cluster that the loop is at.    *)
ReloadFat ==
  /\ Returned("fat")
  /\ \E seen \in Links(current_cluster) : SectorOf(seen) # SectorOf(current_cluster)
  /\ Start("read", [LBA |-> FatSector(BPB, current_cluster), count |-> 1], disk)
  /\ at' = "link"
  /\ UNCHANGED <<disk, part, tableVars>>

KeepFat ==
  /\ Returned("fat")
  /\ \E seen \in Links(current_cluster) : SectorOf(seen) = SectorOf(current_cluster)
  /\ at' = "link"
  /\ UNCHANGED <<pioVars, disk, part, tableVars>>

Link == Links(current_cluster % FEPS)

(* Mutant: the loop does not go on to the next cluster.                    *)
NextRoot_again ==
  /\ Returned("link")
  /\ \E next \in Link : next < EOC
  /\ at' = "fat"
  /\ UNCHANGED <<pioVars, disk, part, tableVars>>

NextRoot ==
  /\ Returned("link")
  /\ \E next \in Link : next < EOC /\ current_cluster' = next
  /\ at' = "fat"
  /\ UNCHANGED <<pioVars, disk, part, memory, disktable, volumes, BPB, hasty>>

SetFat ==
  /\ Returned("link")
  /\ \E next \in Link : next >= EOC
  /\ disktable' = [disktable EXCEPT ![disk].parts[part] =
                     partinfo(@.loc, @.size, "fat32", FirstFat(BPB), Data(BPB))]
  /\ NextPart
  /\ UNCHANGED <<pioVars, memory, volumes, BPB, current_cluster, hasty>>

-----------------------------------------------------------------------------
InitStep ==
  \/ Identify \/ SkipDisk \/ ReadTable \/ TakeEntry \/ ReadBoot \/ NotFat
  \/ FatSetup \/ DivideByZero \/ ReadFat \/ ReloadFat \/ KeepFat \/ NextRoot \/ SetFat

(* The letters lead callers to the disks that init_disk has found.         *)
Found == {d \in 0 .. 3 : d < disk /\ disktable[d].blocks}

Call(op, request, d) ==
  /\ Returned("done")
  /\ Start(op, request, d)
  /\ UNCHANGED <<at, disk, part, tableVars>>

DiskInit ==
  /\ content \in Contents
  /\ PioInit
  /\ at = "identify" /\ disk = 0 /\ part = 1
  /\ memory \in Memory
  /\ disktable = [d \in 0 .. 3 |->
                    [blocks |-> memory.blocks, parts |-> [i \in 1 .. PARTS |-> partinfo(0, 0, memory.fs, 0, 0)]]]
  /\ volumes = <<>>
  /\ BPB = NoBoot /\ current_cluster = 0
  /\ hasty = {}

Kernel == InitStep \/ InwIdentify \/ (DriverStep /\ UNCHANGED <<at, disk, part, tableVars>>)
Ready(port) == DiskReady(port) /\ UNCHANGED <<at, disk, part, tableVars>>

DiskNext ==
  \/ Kernel
  \/ \E op \in {"read", "write"}, request \in Requests, d \in Found : Call(op, request, d)
  \/ \E port \in Channels : Ready(port)

(* The kernel has the processor, and a disk answers in the end.            *)
DiskSpec ==
  /\ DiskInit
  /\ [][DiskNext]_diskVars
  /\ WF_diskVars(Kernel)
  /\ \A port \in Channels : WF_diskVars(Ready(port))

-----------------------------------------------------------------------------
(* Properties                                                              *)

(* The partitions of the disks found, and their order.                     *)
Partitions ==
  {v \in [disk : Found \cap Disks, partition : 1 .. PARTS] :
     content[v.disk].table[v.partition].size # 0}

Before(v, w) == v.disk < w.disk \/ (v.disk = w.disk /\ v.partition < w.partition)

(* When init_disk returns it has found no disk that does not exist (it     *)
(* cannot return else), has missed none but disks that it read too early,  *)
(* and the letters stand for the partitions of the disks found, each for   *)
(* one of them, in the order of disks and entries.                         *)
DisksFound ==
  at = "done" =>
    /\ Found \subseteq Disks
    /\ Disks \ hasty \subseteq Found
    /\ {volumes[k] : k \in DOMAIN volumes} = Partitions
    /\ \A k, l \in DOMAIN volumes : k < l => Before(volumes[k], volumes[l])

(* Once a disk has been set up, each of its partitions has its place, as   *)
(* long as that is below half of the four bytes' range, and is known as    *)
(* FAT32 if and only if it has such a boot sector, provided that the       *)
(* memory was clear.  The sector that fat_read takes for a cluster is the  *)
(* cluster's first, for file systems with clusters of one sector of 512    *)
(* bytes.                                                                  *)
PartitionsRight ==
  \A d \in Found \cap Disks, i \in 1 .. PARTS :
    LET info == disktable[d].parts[i]
        b == Boot(d, content[d].table[i].loc)
    IN  content[d].table[i].loc < FourBytes \div 2 =>
          /\ info.loc = content[d].table[i].loc
          /\ memory.fs # "fat32" => (info.fs = "fat32" <=> b.signature)
          /\ b.signature /\ b.bytes_per_sector = 1 /\ b.sectors_per_cluster = 1 =>
               \A cluster \in 2 .. 4 :
                 info.loc + info.data + cluster * b.sectors_per_cluster
                   = info.loc + b.reserved_sectors + b.FAT_count * b.sectors_per_FAT + cluster - 2

(* Whom the driver waits for: a disk that exists, for a sector it has, or  *)
(* a channel that does not float.                                          *)
Answered(c) ==
  IF c.op = "identify" THEN Present(Channel(c.disk)) \/ ~bsy[Channel(c.disk)]
  ELSE c.disk \in Disks /\ c.LBA + c.count <= SECTORS

(* The loop over a root directory follows a chain that may lead it astray: *)
(* one whose links are in more than one sector of the table.               *)
Astray ==
  /\ at \in {"fat", "link"}
  /\ \E k \in DOMAIN BPB.root : SectorOf(BPB.root[k]) # SectorOf(root_cluster(BPB))

(* init_disk and every call after it return, with three exceptions: the    *)
(* driver has come to wait for a disk that cannot answer; fat_setup has    *)
(* divided by zero; or its loop has come to a root directory whose chain   *)
(* leaves the first sector of the table, round which it may then go for    *)
(* ever.  A chain in one sector always ends the loop.                      *)
CallsEnd ==
  at # "done" \/ pc # "idle"
    ~> \/ at = "done" /\ pc = "idle"
       \/ pc # "idle" /\ ~Answered(call)
       \/ at = "fault" /\ BootRead.bytes_per_sector = 0
       \/ Astray
=============================================================================
