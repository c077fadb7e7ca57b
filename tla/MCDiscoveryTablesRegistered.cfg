SPECIFICATION Spec
CONSTANTS
  Base = 1
  Size = 6
  RunMin = 2
  Programs <- TailCallTable
INVARIANT
  TablesRegistered
CHECK_DEADLOCK FALSE
