SPECIFICATION StackSpec
CONSTANTS
  Pids = {1, 2}
  NoPid = 0
  Batch = 1
  Corrections = 1
  Casts <- ModalCast
INVARIANTS
  HardStopEndsLoops
CHECK_DEADLOCK FALSE
