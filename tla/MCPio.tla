-------------------------------- MODULE MCPio --------------------------------
(* Binary bytes: addresses of six bits and counts of two.  The addresses   *)
(* differ in bytes that are sent first and in bytes that are sent last.    *)
(* Two disks on one channel and a channel that may float, or a disk on     *)
(* each channel; partitions with and without a file system, one of them    *)
(* with larger clusters and one with a place that is negative as an int.   *)
(* Root directories of one cluster, of two whose links are in one sector   *)
(* past the first, and of two with links in two sectors; a boot sector     *)
(* that divides by zero.  Disks that take bytes, and one that does not.    *)
EXTENDS Disk

MCRequests == {[LBA |-> 0, count |-> 1], [LBA |-> 9, count |-> 2], [LBA |-> 38, count |-> 3]}

Entry(loc, size) == [loc |-> loc, size |-> size]
Fat32(reserved, copies, cluster, root) ==
  [signature |-> TRUE, bytes_per_sector |-> 1, sectors_per_cluster |-> cluster,
   reserved_sectors |-> reserved, FAT_count |-> copies, sectors_per_FAT |-> 2, root |-> root]
Disk(takes, table, boot) == [takes |-> takes, table |-> table, boot |-> boot]
NoBoots == [lba \in {} |-> NoBoot]

Small == Disk(TRUE, <<Entry(0, 0), Entry(5, 3)>>, 5 :> Fat32(2, 2, 1, <<5, 4>>))
Plain == Disk(TRUE, <<Entry(1, 2), Entry(3, 9)>>, 3 :> Fat32(1, 1, 2, <<2>>))
Far == Disk(FALSE, <<Entry(9, 2), Entry(0, 0)>>, NoBoots)
Long == Disk(TRUE, <<Entry(6, 1), Entry(0, 0)>>, 6 :> Fat32(1, 2, 1, <<3, 6>>))
Zero == Disk(FALSE, <<Entry(2, 1), Entry(0, 0)>>,
             2 :> [Fat32(1, 2, 1, <<2>>) EXCEPT !.bytes_per_sector = 0])
Blank == Disk(FALSE, <<Entry(0, 0), Entry(0, 0)>>, NoBoots)

MCContents == {(0 :> Plain) @@ (1 :> Small), 2 :> Far, (1 :> Small) @@ (2 :> Blank), 0 :> Long,
               3 :> Zero}
MCMemory == {[blocks |-> FALSE, fs |-> "none"], [blocks |-> TRUE, fs |-> "none"],
             [blocks |-> FALSE, fs |-> "fat32"]}
=============================================================================
