SPECIFICATION EntrySpec
CONSTANTS
  PAGE_SIZE = 2
  LOW = 5
  ENTRIES = 8
  BITS = 8
  Firmwares <- MCFirmwares
  Elves <- MCElves
  DescSizes <- MCDescSizes
  Junk <- MCJunk
  kernel_vaddr = 16
  kernel_stack = 24
  PIXELS = 3
  FRAMEBUFFER = 50
  fb_vaddr = 24
  kernel_heap = 18
INVARIANTS KernelInPlace DrawsOnScreen BootTablesMapped RereadProtects
PROPERTIES BootEnds
CHECK_DEADLOCK FALSE
