SPECIFICATION FairSpec
CONSTANTS
  Slots = 2
  Keys = {0, 1, 2, 3, 4, 5, 6, 7, 8, 9}
  Hash <- MCHash
  Modules <- MCModules
  Sites = {9}
  Targets = {0, 3, 5, 6, 8}
  Gaps = {0, 7}
  MaxTransfers = 2
INVARIANTS
  TypeOK
  ReportedOnce
  NoGapLost
  TableComplete
  TransfersResolve
  RefusedNotWrong
  GapsStop
PROPERTIES
  TransfersEnd
CHECK_DEADLOCK FALSE
