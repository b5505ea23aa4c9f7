SPECIFICATION PhysSpec
CONSTANTS
  PAGE_SIZE = 4
  BITS_PER_ELEMENT = 3
  WORDS = 3
  freemap <- MCfreemap
  beyond <- MCbeyond
  Addresses = {0, 8, 10, 12, 20, 24, 28, 32, 40, 44}
INVARIANTS PhysTypeOK
PROPERTIES ImplementsFramePool
