SPECIFICATION DiskSpec
CONSTANTS
  BYTE = 2
  WORDS = 3
  SECTORS = 44
  PARTS = 2
  SIZE_WORD = 1
  FEPS = 4
  EOC = 8
  Requests <- MCRequests
  Contents <- MCContents
  Memory <- MCMemory
INVARIANTS PioTypeOK TransfersSectors DriverInStep DisksFound PartitionsRight
PROPERTIES CallsEnd
CHECK_DEADLOCK FALSE
