SPECIFICATION FilesSpec
CONSTANTS
  MAX_OPEN_FILES = 2
  WORD = 16
  Paths <- MCPaths
  Sizes = {0, 3}
  Garbage = {0, 2}
  Offsets <- MCOffsets
  Counts = {0, 1, 3, 15}
  bytes_per_cluster = 2
  Blocks = {1, 2, 3, 4, 5, 6, 7, 8, 9, 10, 11, 12, 13}
INVARIANTS FilesTypeOK PointerInFile ReadsInsideFile StructsAccounted NamesOwned
