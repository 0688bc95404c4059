SPECIFICATION Spec
CONSTANTS
  ByteBits = 2
  AddrBits = 2
  PageSize = 2
  MaxPages = 2
  IntBytes = {2, 4}
  VecBytes = 4
  LaneBytes = {1, 2}
  Words <- SomeWords
  DeclaredMax = {1, 2}
  MinPages = 1
  Segments <- SomeSegments
  None = None
  Trap = Trap
INVARIANTS
  WholePages
PROPERTIES
  AccessesReadMemory
  StoresWriteTheirBytes
  GrowthIsExact
  BulkIsBytewise
