------------------------------ MODULE MCFiles ------------------------------
(* Two open files and every kind of path: without a separator, with a      *)
(* wrong prefix, on a volume of unknown kind, missing, one or two names    *)
(* deep, and with a volume below 'A', a slash among them.                  *)
EXTENDS Files

Path(dirs, prefix, volume, fs, found) ==
  [dirs |-> dirs, prefix |-> prefix, volume |-> volume, fs |-> fs, found |-> found]

MCPaths == {Path(0, TRUE, "letter", "fat32", TRUE), Path(1, FALSE, "letter", "fat32", TRUE),
            Path(1, TRUE, "letter", "none", FALSE), Path(1, TRUE, "letter", "fat32", FALSE),
            Path(2, TRUE, "letter", "fat32", TRUE), Path(1, TRUE, "below", "fat32", FALSE),
            Path(2, TRUE, "slash", "fat32", FALSE), Path(2, TRUE, "slash", "none", FALSE)}

MCOffsets == {-8, -3, -1, 0, 1, 2, 3, 7}
=============================================================================
