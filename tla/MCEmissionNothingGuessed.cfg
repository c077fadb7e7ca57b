SPECIFICATION Spec
CONSTANTS
  Base = 1
  Size = 6
  ShortExtent = 2
  Generous = 5
  VisitSlots = 8
  StackSize = 2
  MaxInsns = 8
  Programs <- WidePop
INVARIANT
  NothingGuessed
CHECK_DEADLOCK FALSE
