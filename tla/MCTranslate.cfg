CONSTANTS
  Width = 4
  CountMod = 8
  Regs <- MCRegs
  Insns <- MCInsns
  Starts <- MCStarts
  Image <- MCImage
  MaxSteps = 2
SPECIFICATION Spec
INVARIANTS
  StateKept
  BranchesKept
CHECK_DEADLOCK FALSE
