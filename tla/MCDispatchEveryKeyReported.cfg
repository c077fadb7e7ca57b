SPECIFICATION Spec
CONSTANTS
  Slots = 2
  Keys = {0, 1, 2, 3, 4, 5, 6, 7, 8, 9}
  Hash <- MCHash
  Modules <- MCModules
  Sites = {9}
  Targets = {2}
  Gaps = {0, 7}
  MaxTransfers = 2
INVARIANT
  EveryKeyReported
CHECK_DEADLOCK FALSE
