CONSTANTS
  N = 3
  Byte = {a, b}
  MaxChunk = 4
SPECIFICATION RingSpec
INVARIANTS RingInv ReadPeeks
PROPERTIES ImplementsByteQueue
