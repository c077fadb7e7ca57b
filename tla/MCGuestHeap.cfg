SPECIFICATION Spec
CONSTANTS
  Word = 20
  Align = 4
  ErrnoBytes = 2
  MemBase = 4
  MemSize = 16
  Regions <- MCRegions
  Requests <- MCRequests
  Values = {zero, one}
  Zero = zero
  MaxLive = 3
INVARIANTS
  TypeOK
  BlocksInRegion
  BlocksDisjoint
  BlocksAligned
  ErrnoApart
PROPERTIES
  AbortsOnlyAtAllocation
  ImplementsAllocator
CHECK_DEADLOCK FALSE
