SPECIFICATION Spec
CONSTANTS
  LoopBack = TRUE
  Patient = TRUE
  Room = 1
CHECK_DEADLOCK FALSE
INVARIANT StopSpares
