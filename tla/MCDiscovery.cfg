SPECIFICATION FairSpec
CONSTANTS
  Base = 1
  Size = 4
  RunMin = 2
  Programs <- MCPrograms
INVARIANTS
  TypeOK
  FlowClosed
  CalleesRegistered
  FunctionsDistinct
  ArmJustified
  ExtentExact
  HeuristicOnlyAdds
  TablesWalked
PROPERTIES
  Terminates
CHECK_DEADLOCK FALSE
