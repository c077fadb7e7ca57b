SPECIFICATION Spec
CONSTANTS
  ByteBits = 2
  MaxBits = 4
  LenCode <- MCLenCode
  DistCode <- MCDistCode
  FixedLit <- MCFixedLit
  FixedDist <- MCFixedDist
  LitCount <- MCLitCount
  DistCount <- MCDistCount
  ClenCount <- MCClenCount
  ClenOrder <- MCClenOrder
  ClenBits = 2
  RunCode <- MCRunCode
  AdlerMod = 2
  Frames <- MCFrames
  Caps <- MCCaps
  AddrSpace = 16
  Regions <- MCRegions
  MaxSegments = 2
  SceLen = 3
  OffsetSpace = 32
  Files <- MCFiles
INVARIANTS
  TypeOK
  MatchRepeats
  DecodesCanonically
  ImagePlaced
  ProbeSuffices
  GuestImage
PROPERTIES
  EveryTurnCounts
