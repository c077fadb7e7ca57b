SPECIFICATION FairSpec
CONSTANTS
  Base = 1
  Size = 6
  ShortExtent = 2
  Generous = 5
  VisitSlots = 4
  StackSize = 2
  MaxInsns = 4
  Programs <- MCPrograms
INVARIANTS
  TypeOK
  GotosLand
  BodyClosed
  FlowKept
PROPERTIES
  CollectEnds
CHECK_DEADLOCK FALSE
