SPECIFICATION DirSpec
CONSTANTS
  FEPS = 6
  CLUSTERS = 7
  EOC = 8
  bytes_per_cluster = 2
  MAX_CHAIN = 3
  U16 = 5
  ENTRIES = 4
  PARTS = 2
  DELETED = 2
  Low <- MCLow
  Foreign <- MCForeign
  Listings <- MCListings
INVARIANTS ReadsFile CountsRootInOneSector FoundIsNamed
PROPERTIES FatLoopsEnd FindsFile
CHECK_DEADLOCK FALSE
